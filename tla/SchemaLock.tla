------------------------------ MODULE SchemaLock ------------------------------
(***************************************************************************)
(* `schema sync` (sdk/schema_sources.py): the write contract of a service  *)
(* is fetched, its schema written to a file named by its fingerprint, and  *)
(* the lock file, which everything else reads, made to name it.            *)
(*                                                                         *)
(* Processes share files and nothing else.  An action is the code between  *)
(* two system calls that another process, or the next one after a kill,    *)
(* can tell apart: opening a file truncates it, writing fills it, renaming *)
(* takes the place of the old one.  A fingerprint stands for the schema it *)
(* is of, an ETag for the document it came with.                           *)
(***************************************************************************)
EXTENDS Naturals, FiniteSets

CONSTANTS
    Procs,          \* processes that run `schema sync`
    Names,          \* schema ids of the project
    Operations,     \* the request bodies a manifest may point a schema at
    Documents,      \* the OpenAPI documents the service publishes
    Schemas,        \* fingerprints
    SchemaOf,       \* the schema of an operation in a document, or None
    None,
    Torn,           \* what a file holds that cannot be parsed
    MaxSyncs,       \* times a process is started
    MaxEdits        \* changes of the manifest

ASSUME DocumentsHoldSchemas ==
    SchemaOf \in [Documents \X Operations -> Schemas \cup {None}]

ASSUME NoneIsNothing == None \notin Schemas \cup Documents \cup Names \cup Operations

ASSUME BoundsAreNumbers == MaxSyncs \in Nat /\ MaxEdits \in Nat

VARIABLES
    published,      \* the document the service answers with
    configured,     \* name -> operation, in the manifest
    snapshots,      \* name, fingerprint -> the state of its file
    files,          \* inode -> content of what is, or will be, a lock file
    lockFile,       \* the inode of schema-lock.json
    tmpFile,        \* the inode of schema-lock.tmp
    proc,           \* what each process holds
    syncs,
    edits,
    alone           \* whether no two processes were ever at work at once

world == <<published, configured, edits>>
lock == <<files, lockFile, tmpFile>>
syncsSoFar == <<syncs, alone>>
lockVars == <<world, snapshots, lock, proc, syncsSoFar>>

Pc == {"idle", "asking", "reusing", "snapshot", "creating", "writing", "locking",
       "opening", "filling", "replacing", "synced", "failed", "killed"}
Resting == {"idle", "synced", "failed", "killed"}

\* etag: None for a service that sends none, or a schema read from a file.
Entry == [revision : Schemas, etag : Documents \cup {None}]
ASSUME NoneIsNoEntry == None \notin Entry

Locks == [Names -> Entry \cup {None}]
Empty == [n \in Names |-> None]

\* What cannot be parsed is no lock.
ASSUME TornIsNoLock == Torn \notin Locks

\* A file that was just opened cannot be parsed.
Content == Locks \cup {Torn}
Inodes == 1 .. (Cardinality(Procs) + 2)

\* name, op: the schema to be synchronised and what the loaded manifest says of it.
\* etag: the one in the lock, then the one received.  seen: the document that
\* the service answered about.  result: the schema that sync_schema returned.
ProcRecord ==
    [pc : Pc, name : Names \cup {None}, op : Operations \cup {None},
     etag : Documents \cup {None}, seen : Documents \cup {None},
     schema : Schemas \cup {None}, read : Locks, inode : Inodes \cup {0},
     result : Schemas \cup {None}]

Idle == [pc |-> "idle", name |-> None, op |-> None, etag |-> None, seen |-> None,
         schema |-> None, read |-> Empty, inode |-> 0, result |-> None]

LockTypeOK ==
    /\ published \in Documents
    /\ configured \in [Names -> Operations]
    /\ snapshots \in [Names \X Schemas -> {"absent", "torn", "whole"}]
    /\ files \in [Inodes -> Content]
    /\ {lockFile, tmpFile} \subseteq Inodes \cup {0}
    /\ proc \in [Procs -> ProcRecord]
    /\ syncs \in 0 .. MaxSyncs
    /\ edits \in 0 .. MaxEdits
    /\ alone \in BOOLEAN

Init ==
    /\ published \in Documents
    /\ configured \in [Names -> Operations]
    /\ snapshots = [x \in Names \X Schemas |-> "absent"]
    /\ files = [i \in Inodes |-> Torn]
    /\ lockFile = 0 /\ tmpFile = 0
    /\ proc = [p \in Procs |-> Idle]
    /\ syncs = 0
    /\ edits = 0
    /\ alone = TRUE

At(p, pc) == proc[p].pc = pc
Running == {p \in Procs : ~(proc[p].pc \in Resting)}

\* _read_lock: no file is an empty lock, a file that cannot be parsed an error.
TheLock == IF lockFile = 0 THEN Empty ELSE files[lockFile]
Readable == TheLock # Torn

\* load_locked_schema(n) succeeds: the lock has an entry, and the file it names has
\* the content that its fingerprint says.
Loadable(n) ==
    /\ Readable
    /\ TheLock[n] # None
    /\ snapshots[<<n, TheLock[n].revision>>] = "whole"

Goto(p, pc) == proc' = [proc EXCEPT ![p] = [proc[p] EXCEPT !.pc = pc]]

\* The process is over: what it was working with is gone.
Stopped(p, pc) == proc' = [proc EXCEPT ![p] = [Idle EXCEPT !.pc = pc]]
Failed(p) == Stopped(p, "failed")
Synced(p, result) ==
    proc' = [proc EXCEPT ![p] =
        [pc |-> "synced", name |-> proc[p].name, op |-> proc[p].op, etag |-> None,
         seen |-> proc[p].seen, schema |-> None, read |-> Empty, inode |-> 0,
         result |-> result]]

-----------------------------------------------------------------------------
(* What happens around the processes *)

Publish(d) ==
    /\ published # d
    /\ published' = d
    /\ UNCHANGED <<configured, edits, snapshots, lock, proc, syncsSoFar>>

EditManifest(n, op) ==
    /\ edits < MaxEdits /\ configured[n] # op
    /\ configured' = [configured EXCEPT ![n] = op]
    /\ edits' = edits + 1
    /\ UNCHANGED <<published, snapshots, lock, proc, syncsSoFar>>

Crash(p) ==
    /\ p \in Running
    /\ Stopped(p, "killed")
    /\ UNCHANGED <<world, snapshots, lock, syncsSoFar>>

-----------------------------------------------------------------------------
(* sync_schema *)

\* The manifest and the prior entry are read.
Start(p, n) ==
    /\ syncs < MaxSyncs /\ proc[p].pc \in Resting
    /\ syncs' = syncs + 1
    /\ alone' = (alone /\ Running = {})
    /\ proc' = [proc EXCEPT ![p] =
                [Idle EXCEPT !.pc = IF Readable THEN "asking" ELSE "failed",
                             !.name = n, !.op = configured[n],
                             !.etag = IF ~Readable \/ TheLock[n] = None THEN None
                                      ELSE TheLock[n].etag]]
    /\ UNCHANGED <<world, snapshots, lock>>

\* The service answers 304, a document, or an error.
NotModified(p) ==
    /\ At(p, "asking") /\ proc[p].etag = published
    /\ proc' = [proc EXCEPT ![p] =
                [proc[p] EXCEPT !.pc = "reusing", !.seen = published]]
    /\ UNCHANGED <<world, snapshots, lock, syncsSoFar>>

\* sends: the service sends an ETag.
Received(p, schema, etag) ==
    /\ At(p, "asking") /\ schema # None
    /\ proc' = [proc EXCEPT ![p] =
                [proc[p] EXCEPT !.pc = "snapshot", !.seen = published,
                                !.schema = schema, !.etag = etag]]
    /\ UNCHANGED <<world, snapshots, lock, syncsSoFar>>

\* Mutant of Fetched: the entry keeps the ETag that was asked with.
FetchedUnderOldTag(p, sends) ==
    Received(p, SchemaOf[<<published, proc[p].op>>],
             IF proc[p].etag = None /\ sends THEN published ELSE proc[p].etag)

Fetched(p, sends) ==
    Received(p, SchemaOf[<<published, proc[p].op>>], IF sends THEN published ELSE None)

\* Or the document lacks the operation, or has no schema for it.
FetchFails(p) ==
    /\ At(p, "asking")
    /\ Failed(p)
    /\ UNCHANGED <<world, snapshots, lock, syncsSoFar>>

\* load_locked_schema, under the operation the manifest names now.
Reuse(p) ==
    /\ At(p, "reusing") /\ Loadable(proc[p].name)
    /\ Synced(p, TheLock[proc[p].name].revision)
    /\ UNCHANGED <<world, snapshots, lock, syncsSoFar>>

ReuseFails(p) ==
    /\ At(p, "reusing") /\ ~Loadable(proc[p].name)
    /\ Failed(p)
    /\ UNCHANGED <<world, snapshots, lock, syncsSoFar>>

\* _write_snapshot: a file that exists is left alone, whatever is in it.
Snapshot(p) == <<proc[p].name, proc[p].schema>>

\* Mutant of KeepSnapshot: what was synchronised before needs no lock.
KeepLock(p) ==
    /\ At(p, "snapshot") /\ snapshots[Snapshot(p)] # "absent"
    /\ Synced(p, proc[p].schema)
    /\ UNCHANGED <<world, snapshots, lock, syncsSoFar>>

KeepSnapshot(p) ==
    /\ At(p, "snapshot") /\ snapshots[Snapshot(p)] # "absent"
    /\ Goto(p, "locking")
    /\ UNCHANGED <<world, snapshots, lock, syncsSoFar>>

MissSnapshot(p) ==
    /\ At(p, "snapshot") /\ snapshots[Snapshot(p)] = "absent"
    /\ Goto(p, "creating")
    /\ UNCHANGED <<world, snapshots, lock, syncsSoFar>>

OpenSnapshot(p) ==
    /\ At(p, "creating")
    /\ snapshots' = [snapshots EXCEPT ![Snapshot(p)] = "torn"]
    /\ Goto(p, "writing")
    /\ UNCHANGED <<world, lock, syncsSoFar>>

FillSnapshot(p) ==
    /\ At(p, "writing")
    /\ snapshots' = [snapshots EXCEPT ![Snapshot(p)] = "whole"]
    /\ Goto(p, "locking")
    /\ UNCHANGED <<world, lock, syncsSoFar>>

ReadLock(p) ==
    /\ At(p, "locking")
    /\ IF Readable
       THEN proc' = [proc EXCEPT ![p] =
                        [proc[p] EXCEPT !.pc = "opening", !.read = TheLock]]
       ELSE Failed(p)
    /\ UNCHANGED <<world, snapshots, lock, syncsSoFar>>

\* write_text of the temporary file: one that is there is truncated.
Unused == Inodes \ ({lockFile, tmpFile} \cup {proc[p].inode : p \in Procs})
NewInode == {i \in Unused : \A j \in Unused : i <= j}

Truncated(p, inode) ==
    /\ At(p, "opening")
    /\ tmpFile' = inode
    /\ files' = [files EXCEPT ![inode] = Torn]
    /\ proc' = [proc EXCEPT ![p] = [proc[p] EXCEPT !.pc = "filling", !.inode = inode]]
    /\ UNCHANGED <<world, snapshots, lockFile, syncsSoFar>>

\* Mutant of OpenTmp: the lock file itself is written.
OpenLock(p) ==
    \E inode \in IF lockFile = 0 THEN NewInode ELSE {lockFile} : Truncated(p, inode)

OpenTmp(p) ==
    \E inode \in IF tmpFile = 0 THEN NewInode ELSE {tmpFile} : Truncated(p, inode)

\* Mutant of NewLock: the lock has the entry that was synchronised.
LoneLock(p) ==
    [Empty EXCEPT ![proc[p].name] =
        [revision |-> proc[p].schema, etag |-> proc[p].etag]]

NewLock(p) ==
    [proc[p].read EXCEPT ![proc[p].name] =
        [revision |-> proc[p].schema, etag |-> proc[p].etag]]

\* Where another process has written meanwhile, the end of a longer lock remains.
FillTmp(p) ==
    LET i == proc[p].inode IN
    /\ At(p, "filling")
    /\ \/ files' = [files EXCEPT ![i] = NewLock(p)]
       \/ files[i] # Torn /\ files' = [files EXCEPT ![i] = Torn]
    /\ Goto(p, "replacing")
    /\ UNCHANGED <<world, snapshots, lockFile, tmpFile, syncsSoFar>>

\* rename: an error if another process has renamed the file already.
Replace(p) ==
    /\ At(p, "replacing")
    /\ IF tmpFile # 0
       THEN /\ lockFile' = tmpFile
            /\ tmpFile' = 0
            /\ Synced(p, proc[p].schema)
       ELSE /\ Failed(p)
            /\ UNCHANGED <<lockFile, tmpFile>>
    /\ UNCHANGED <<world, snapshots, files, syncsSoFar>>

SyncStep(p) ==
    \/ NotModified(p)
    \/ \E sends \in BOOLEAN : Fetched(p, sends)
    \/ FetchFails(p)
    \/ Reuse(p)
    \/ ReuseFails(p)
    \/ KeepSnapshot(p)
    \/ MissSnapshot(p)
    \/ OpenSnapshot(p)
    \/ FillSnapshot(p)
    \/ ReadLock(p)
    \/ OpenTmp(p)
    \/ FillTmp(p)
    \/ Replace(p)

Next ==
    \/ \E d \in Documents : Publish(d)
    \/ \E n \in Names, op \in Operations : EditManifest(n, op)
    \/ \E p \in Procs :
        \/ \E n \in Names : Start(p, n)
        \/ SyncStep(p)
        \/ Crash(p)

Spec == Init /\ [][Next]_lockVars

-----------------------------------------------------------------------------
(* Properties *)

\* The lock is replaced as a whole or not at all (schema_sources.py:34).
LockIsAtomic == alone => Readable

\* An entry names the schema that came with its ETag, and a file that somebody
\* has at least begun to write, whoever else is at work.
EntriesAreTrue ==
    Readable => \A n \in Names : TheLock[n] # None =>
        /\ snapshots[<<n, TheLock[n].revision>>] # "absent"
        /\ TheLock[n].etag # None =>
            \E op \in Operations : TheLock[n].revision = SchemaOf[<<TheLock[n].etag, op>>]

\* A sync changes the entry of its own schema and no other.
EntriesSurvive ==
    [][alone => \A n \in Names : TheLock'[n] # TheLock[n] =>
            \E p \in Procs : proc[p].name = n /\ At(p, "replacing")]_lockVars

\* What sync_schema returns is the schema of the operation in the document that
\* the service answered about, a 304 included, whatever was published, locked or
\* cut short before; as long as the manifest stays, for a 304 says nothing of the
\* operation.
SyncedIsTrue ==
    edits = 0 /\ alone => \A p \in Procs : At(p, "synced") =>
        proc[p].result = SchemaOf[<<proc[p].seen, proc[p].op>>]

\* And it is what the lock names from then on: what was synchronised is what later
\* validations use.
ResultIsLocked ==
    [][\A p \in Procs : alone' /\ ~At(p, "synced") /\ proc'[p].pc = "synced" =>
            /\ TheLock'[proc[p].name] # None
            /\ TheLock'[proc[p].name].revision = proc'[p].result]_lockVars
=============================================================================
