-------------------------- MODULE SchemaLockProofs --------------------------
(***************************************************************************)
(* What a lock file says, for any number of processes that synchronise at  *)
(* once, are killed, and write over each other's temporary file.           *)
(*                                                                         *)
(* A lock that can be parsed is a whole lock that some process made of one *)
(* it had read and of one entry, so what is true of every entry made is    *)
(* true of every lock in a file or in the hands of a process.              *)
(*                                                                         *)
(* As long as no two syncs have overlapped (alone), more is true of the    *)
(* one that runs: the lock it began with is still there (CalmInv), and     *)
(* says of every schema what its operation had (AsIsInv).                  *)
(***************************************************************************)
EXTENDS SchemaLock, TLAPS

USE DocumentsHoldSchemas, NoneIsNothing, BoundsAreNumbers

-----------------------------------------------------------------------------
(* Type correctness *)

LEMMA LocksAreRead == LockTypeOK /\ Readable => TheLock \in Locks
<1>1. Empty \in Locks
  BY DEF Empty, Locks
<1> QED
  BY <1>1 DEF LockTypeOK, Readable, TheLock, Content

LEMMA IdleIsRecord == Idle \in ProcRecord
<1>1. Empty \in Locks
  BY DEF Empty, Locks
<1> QED
  BY <1>1 DEF Idle, ProcRecord, Pc

\* A process past the answer of the service holds a schema, and knows of what.
Carrying == {"snapshot", "creating", "writing", "locking", "opening", "filling"}

RecordOK(r) ==
    /\ r \in ProcRecord
    /\ r.pc \in Carrying => r.schema \in Schemas
    /\ r.pc \in Carrying \cup {"asking", "reusing"} => r.name \in Names
    /\ r.pc = "asking" => r.op \in Operations

WorldOK ==
    /\ published \in Documents
    /\ configured \in [Names -> Operations]
    /\ syncs \in 0 .. MaxSyncs
    /\ edits \in 0 .. MaxEdits
    /\ alone \in BOOLEAN

StorageOK ==
    /\ snapshots \in [Names \X Schemas -> {"absent", "torn", "whole"}]
    /\ files \in [Inodes -> Content]
    /\ lockFile \in Inodes \cup {0}
    /\ tmpFile \in Inodes \cup {0}

ProcsOK == proc \in [Procs -> ProcRecord] /\ \A p \in Procs : RecordOK(proc[p])

Typed == WorldOK /\ StorageOK /\ ProcsOK

LEMMA TypedIsTypeOK == Typed => LockTypeOK
BY DEF Typed, WorldOK, StorageOK, ProcsOK, LockTypeOK

LEMMA TypedInit == Init => Typed
<1> SUFFICES ASSUME Init PROVE Typed
  OBVIOUS
<1>1. RecordOK(Idle)
  BY IdleIsRecord DEF RecordOK, Carrying, Idle
<1>2. ProcsOK
  BY <1>1 DEF Init, ProcsOK, RecordOK
<1>3. WorldOK /\ StorageOK
  BY DEF Init, WorldOK, StorageOK, Content
<1> QED
  BY <1>2, <1>3 DEF Typed

\* It suffices to look at the process that takes the step.
LEMMA ProcsStayOK ==
    ASSUME ProcsOK, NEW p \in Procs, NEW r, RecordOK(r),
           proc' = [proc EXCEPT ![p] = r]
    PROVE  ProcsOK'
<1>1. proc' \in [Procs -> ProcRecord]
  BY DEF ProcsOK, RecordOK
<1>2. \A q \in Procs : proc'[q] = IF q = p THEN r ELSE proc[q]
  BY DEF ProcsOK
<1> HIDE DEF ProcsOK
<1>3. \A q \in Procs : RecordOK(proc'[q])
  BY <1>2 DEF ProcsOK
<1> QED
  BY <1>1, <1>3 DEF ProcsOK

LEMMA GotoOK ==
    ASSUME ProcsOK, NEW p \in Procs, NEW pc \in Carrying \cup {"replacing"},
           proc[p].pc \in Carrying, Goto(p, pc)
    PROVE  ProcsOK'
<1>1. RecordOK(proc[p])
  BY DEF ProcsOK
<1>2. RecordOK([proc[p] EXCEPT !.pc = pc])
  BY <1>1 DEF RecordOK, ProcRecord, Carrying, Pc
<1> QED
  BY <1>2, ProcsStayOK DEF Goto

LEMMA StoppedOK ==
    ASSUME ProcsOK, NEW p \in Procs, NEW pc \in {"failed", "killed"}, Stopped(p, pc)
    PROVE  ProcsOK'
<1>1. RecordOK([Idle EXCEPT !.pc = pc])
  BY IdleIsRecord DEF RecordOK, ProcRecord, Carrying, Pc
<1> QED
  BY <1>1, ProcsStayOK DEF Stopped

LEMMA SyncedOK ==
    ASSUME ProcsOK, NEW p \in Procs, NEW s \in Schemas \cup {None}, Synced(p, s)
    PROVE  ProcsOK'
<1> DEFINE r == [pc |-> "synced", name |-> proc[p].name, op |-> proc[p].op,
                 etag |-> None, seen |-> proc[p].seen, schema |-> None,
                 read |-> Empty, inode |-> 0, result |-> s]
<1>1. proc[p] \in ProcRecord /\ Empty \in Locks
  BY DEF ProcsOK, Empty, Locks
<1>2. r \in ProcRecord
  BY <1>1 DEF ProcRecord, Pc
<1>3. RecordOK(r)
  BY <1>2 DEF RecordOK, Carrying
<1>4. proc' = [proc EXCEPT ![p] = r]
  BY DEF Synced
<1> HIDE DEF r
<1> QED
  BY <1>3, <1>4, ProcsStayOK

LEMMA NewLockIsLock ==
    ASSUME ProcsOK, NEW p \in Procs, proc[p].schema \in Schemas
    PROVE  NewLock(p) \in Locks
<1>1. proc[p].read \in Locks /\ proc[p].etag \in Documents \cup {None}
  BY DEF ProcsOK, ProcRecord
<1>2. [revision |-> proc[p].schema, etag |-> proc[p].etag] \in Entry
  BY <1>1 DEF Entry
<1> QED
  BY <1>1, <1>2 DEF NewLock, Locks

LEMMA TypedNext == Typed /\ [Next]_lockVars => Typed'
<1> SUFFICES ASSUME Typed, [Next]_lockVars PROVE Typed'
  OBVIOUS
<1> USE DEF Typed
<1>1. ASSUME NEW d \in Documents, Publish(d)
      PROVE  Typed'
  BY <1>1 DEF Publish, lock, syncsSoFar, WorldOK, StorageOK, ProcsOK
<1>2. ASSUME NEW n \in Names, NEW op \in Operations, EditManifest(n, op)
      PROVE  Typed'
  BY <1>2 DEF EditManifest, lock, syncsSoFar, WorldOK, StorageOK, ProcsOK
<1>3. ASSUME NEW p \in Procs, NEW n \in Names, Start(p, n)
      PROVE  Typed'
  <2> DEFINE pc == IF Readable THEN "asking" ELSE "failed"
             etag == IF ~Readable \/ TheLock[n] = None THEN None ELSE TheLock[n].etag
             r == [Idle EXCEPT !.pc = pc, !.name = n, !.op = configured[n], !.etag = etag]
  <2>1. etag \in Documents \cup {None}
    BY LocksAreRead, TypedIsTypeOK DEF Locks, Entry
  <2>2. pc \in {"asking", "failed"} /\ configured[n] \in Operations
    BY DEF WorldOK
  <2> HIDE DEF pc, etag
  <2>3. RecordOK(r)
    BY <2>1, <2>2, IdleIsRecord DEF RecordOK, ProcRecord, Carrying, Pc
  <2>4. proc' = [proc EXCEPT ![p] = r]
    BY <1>3 DEF Start, pc, etag
  <2> HIDE DEF r
  <2>5. ProcsOK'
    BY <2>3, <2>4, ProcsStayOK
  <2>6. WorldOK' /\ StorageOK'
    BY <1>3 DEF Start, world, lock, WorldOK, StorageOK
  <2> QED
    BY <2>5, <2>6
<1>4. UNCHANGED <<world, syncsSoFar>> => WorldOK'
  BY DEF world, syncsSoFar, WorldOK
<1>5. UNCHANGED <<snapshots, lock>> => StorageOK'
  BY DEF lock, StorageOK
<1>6. ASSUME NEW p \in Procs, Crash(p)
      PROVE  Typed'
  BY <1>6, <1>4, <1>5, StoppedOK DEF Crash
<1>7. ASSUME NEW p \in Procs, NotModified(p)
      PROVE  Typed'
  <2>0. RecordOK(proc[p]) /\ proc[p].pc = "asking" /\ published \in Documents
    BY <1>7 DEF NotModified, At, ProcsOK, WorldOK
  <2>1. RecordOK([proc[p] EXCEPT !.pc = "reusing", !.seen = published])
    BY <2>0 DEF RecordOK, ProcRecord, Carrying, Pc
  <2>2. ProcsOK'
    BY <1>7, <2>1, ProcsStayOK DEF NotModified
  <2> QED
    BY <1>7, <1>4, <1>5, <2>2 DEF NotModified
<1>8. ASSUME NEW p \in Procs, NEW sends \in BOOLEAN, Fetched(p, sends)
      PROVE  Typed'
  <2> DEFINE s == SchemaOf[<<published, proc[p].op>>]
             etag == IF sends THEN published ELSE None
             r == [proc[p] EXCEPT !.pc = "snapshot", !.seen = published, !.schema = s,
                                  !.etag = etag]
  <2>1. At(p, "asking") /\ s # None /\ proc' = [proc EXCEPT ![p] = r]
        /\ UNCHANGED <<world, snapshots, lock, syncsSoFar>>
    BY <1>8 DEF Fetched, Received
  <2>2. RecordOK(proc[p])
    BY DEF ProcsOK
  <2>3. s \in Schemas
    BY <2>1, <2>2 DEF At, RecordOK, WorldOK
  <2>4. published \in Documents /\ etag \in Documents \cup {None}
    BY DEF WorldOK
  <2> HIDE DEF s, etag
  <2>5. RecordOK(r)
    BY <2>1, <2>2, <2>3, <2>4 DEF At, RecordOK, ProcRecord, Carrying, Pc
  <2> HIDE DEF r
  <2>6. ProcsOK'
    BY <2>1, <2>5, ProcsStayOK
  <2> QED
    BY <1>4, <1>5, <2>1, <2>6
<1>9. ASSUME NEW p \in Procs, FetchFails(p)
      PROVE  Typed'
  BY <1>9, <1>4, <1>5, StoppedOK DEF FetchFails, Failed
<1>10. ASSUME NEW p \in Procs, Reuse(p)
      PROVE  Typed'
  <2>1. RecordOK(proc[p]) /\ proc[p].pc = "reusing"
    BY <1>10 DEF Reuse, At, ProcsOK
  <2>2. TheLock[proc[p].name].revision \in Schemas
    BY <1>10, <2>1, LocksAreRead, TypedIsTypeOK DEF Reuse, Loadable, RecordOK, Locks, Entry
  <2>3. ProcsOK'
    BY <1>10, <2>2, SyncedOK DEF Reuse
  <2> QED
    BY <1>10, <1>4, <1>5, <2>3 DEF Reuse
<1>11. ASSUME NEW p \in Procs, ReuseFails(p)
      PROVE  Typed'
  BY <1>11, <1>4, <1>5, StoppedOK DEF ReuseFails, Failed
<1>12. ASSUME NEW p \in Procs, KeepSnapshot(p)
      PROVE  Typed'
  BY <1>12, <1>4, <1>5, GotoOK DEF KeepSnapshot, At, Carrying
<1>13. ASSUME NEW p \in Procs, MissSnapshot(p)
      PROVE  Typed'
  BY <1>13, <1>4, <1>5, GotoOK DEF MissSnapshot, At, Carrying
<1>14. ASSUME NEW p \in Procs, OpenSnapshot(p)
      PROVE  Typed'
  <2>1. ProcsOK'
    BY <1>14, GotoOK DEF OpenSnapshot, At, Carrying
  <2>2. StorageOK'
    BY <1>14 DEF OpenSnapshot, lock, StorageOK
  <2> QED
    BY <1>14, <1>4, <2>1, <2>2 DEF OpenSnapshot
<1>15. ASSUME NEW p \in Procs, FillSnapshot(p)
      PROVE  Typed'
  <2>1. ProcsOK'
    BY <1>15, GotoOK DEF FillSnapshot, At, Carrying
  <2>2. StorageOK'
    BY <1>15 DEF FillSnapshot, lock, StorageOK
  <2> QED
    BY <1>15, <1>4, <2>1, <2>2 DEF FillSnapshot
<1>16. ASSUME NEW p \in Procs, ReadLock(p)
      PROVE  Typed'
  <2>1. CASE ~Readable
    BY <1>16, <1>4, <1>5, <2>1, StoppedOK DEF ReadLock, Failed
  <2>2. CASE Readable
    <3>1. RecordOK(proc[p]) /\ proc[p].pc = "locking"
      BY <1>16 DEF ReadLock, At, ProcsOK
    <3>2. TheLock \in Locks
      BY <2>2, LocksAreRead, TypedIsTypeOK
    <3>3. RecordOK([proc[p] EXCEPT !.pc = "opening", !.read = TheLock])
      BY <3>1, <3>2 DEF RecordOK, ProcRecord, Carrying, Pc
    <3>4. ProcsOK'
      BY <1>16, <2>2, <3>3, ProcsStayOK DEF ReadLock
    <3> QED
      BY <1>16, <1>4, <1>5, <3>4 DEF ReadLock
  <2> QED
    BY <2>1, <2>2
<1>17. ASSUME NEW p \in Procs, OpenTmp(p)
      PROVE  Typed'
  <2>1. PICK inode \in IF tmpFile = 0 THEN NewInode ELSE {tmpFile} : Truncated(p, inode)
    BY <1>17 DEF OpenTmp
  <2>2. inode \in Inodes
    BY <2>1 DEF NewInode, Unused, StorageOK
  <2>3. RecordOK(proc[p]) /\ proc[p].pc = "opening"
    BY <2>1 DEF Truncated, At, ProcsOK
  <2>4. RecordOK([proc[p] EXCEPT !.pc = "filling", !.inode = inode])
    BY <2>2, <2>3 DEF RecordOK, ProcRecord, Carrying, Pc
  <2>5. ProcsOK'
    BY <2>1, <2>4, ProcsStayOK DEF Truncated
  <2>6. StorageOK'
    BY <2>1, <2>2 DEF Truncated, StorageOK, Content
  <2> QED
    BY <1>4, <2>1, <2>5, <2>6 DEF Truncated
<1>18. ASSUME NEW p \in Procs, FillTmp(p)
      PROVE  Typed'
  <2>1. proc[p].pc = "filling" /\ proc[p].schema \in Schemas
    BY <1>18 DEF FillTmp, At, ProcsOK, RecordOK, Carrying
  <2>2. NewLock(p) \in Content /\ Torn \in Content
    BY <2>1, NewLockIsLock DEF Content
  <2>3. StorageOK'
    BY <1>18, <2>2 DEF FillTmp, StorageOK
  <2>4. ProcsOK'
    BY <1>18, <2>1, GotoOK DEF FillTmp, Carrying
  <2> QED
    BY <1>18, <1>4, <2>3, <2>4 DEF FillTmp
<1>19. ASSUME NEW p \in Procs, Replace(p)
      PROVE  Typed'
  <2>1. proc[p].schema \in Schemas \cup {None}
    BY DEF ProcsOK, ProcRecord
  <2>2. ProcsOK'
    BY <1>19, <2>1, SyncedOK, StoppedOK DEF Replace, Failed
  <2>3. StorageOK'
    BY <1>19 DEF Replace, StorageOK
  <2> QED
    BY <1>19, <1>4, <2>2, <2>3 DEF Replace
<1>20. CASE UNCHANGED lockVars
  BY <1>20 DEF lockVars, world, lock, syncsSoFar, WorldOK, StorageOK, ProcsOK
<1> QED
  BY <1>1, <1>2, <1>3, <1>6, <1>7, <1>8, <1>9, <1>10, <1>11, <1>12, <1>13, <1>14, <1>15,
     <1>16, <1>17, <1>18, <1>19, <1>20 DEF Next, SyncStep

\* Every variable, record and file of the syncs has the shape it is meant to have.
THEOREM LockTypeCorrect == Spec => []LockTypeOK
<1>1. Spec => []Typed
  BY TypedInit, TypedNext, PTL DEF Spec
<1> QED
  BY <1>1, TypedIsTypeOK, PTL

-----------------------------------------------------------------------------
(* What the entries say *)

EntryTrue(snaps, n, e) ==
    e # None =>
        /\ snaps[<<n, e.revision>>] # "absent"
        /\ e.etag # None => \E op \in Operations : e.revision = SchemaOf[<<e.etag, op>>]

LockTrue(snaps, l) == \A n \in Names : EntryTrue(snaps, n, l[n])

\* The snapshot of these processes has been opened, if it was not there.
Written == {"writing", "locking", "opening", "filling"}

RecordTrue(snaps, r) ==
    /\ LockTrue(snaps, r.read)
    /\ r.pc \in Carrying /\ r.etag # None =>
           \E op \in Operations : r.schema = SchemaOf[<<r.etag, op>>]
    /\ r.pc \in Written => snaps[<<r.name, r.schema>>] # "absent"

FilesTrue == \A i \in Inodes : files[i] # Torn => LockTrue(snapshots, files[i])
ProcsTrue == \A p \in Procs : RecordTrue(snapshots, proc[p])

Kept == \A x \in Names \X Schemas : snapshots[x] # "absent" => snapshots'[x] # "absent"

LEMMA EntriesStayTrue ==
    ASSUME NEW s, NEW t, NEW l \in Locks, LockTrue(s, l),
           \A x \in Names \X Schemas : s[x] # "absent" => t[x] # "absent"
    PROVE  LockTrue(t, l)
<1> SUFFICES ASSUME NEW n \in Names, l[n] # None
             PROVE  EntryTrue(t, n, l[n])
  BY DEF LockTrue, EntryTrue
<1>1. l[n].revision \in Schemas
  BY DEF Locks, Entry
<1> QED
  BY <1>1 DEF LockTrue, EntryTrue

LEMMA RecordsStayTrue ==
    ASSUME NEW s, NEW t, NEW r, RecordOK(r), RecordTrue(s, r),
           \A x \in Names \X Schemas : s[x] # "absent" => t[x] # "absent"
    PROVE  RecordTrue(t, r)
<1>1. LockTrue(t, r.read)
  BY EntriesStayTrue DEF RecordTrue, RecordOK, ProcRecord
<1>2. r.pc \in Written => r.name \in Names /\ r.schema \in Schemas
  BY DEF RecordOK, Carrying, Written
<1> QED
  BY <1>1, <1>2 DEF RecordTrue

LEMMA FilesStayTrue ==
    ASSUME StorageOK, FilesTrue, Kept, UNCHANGED files
    PROVE  FilesTrue'
<1> SUFFICES ASSUME NEW i \in Inodes, files[i] # Torn
             PROVE  LockTrue(snapshots', files[i])
  BY DEF FilesTrue
<1>1. files[i] \in Locks
  BY DEF StorageOK, Content
<1> QED
  BY <1>1, EntriesStayTrue DEF FilesTrue, Kept

LEMMA ProcsStayTrue ==
    ASSUME ProcsOK, ProcsTrue, Kept, NEW p \in Procs, NEW r,
           RecordTrue(snapshots', r), proc' = [proc EXCEPT ![p] = r]
    PROVE  ProcsTrue'
<1> SUFFICES ASSUME NEW q \in Procs PROVE RecordTrue(snapshots', proc'[q])
  BY DEF ProcsTrue
<1>1. proc'[q] = IF q = p THEN r ELSE proc[q]
  BY DEF ProcsOK
<1>2. RecordTrue(snapshots', proc[q])
  BY RecordsStayTrue DEF ProcsOK, ProcsTrue, Kept
<1> QED
  BY <1>1, <1>2

LEMMA NothingReadIsTrue == \A s : LockTrue(s, Empty)
BY DEF LockTrue, EntryTrue, Empty

\* A process at rest holds no lock, and what it says is nobody's entry.
LEMMA IdleIsTrue ==
    ASSUME NEW s, NEW r, r.read = Empty, r.pc \notin Carrying
    PROVE  RecordTrue(s, r)
BY NothingReadIsTrue DEF RecordTrue, Written, Carrying

LEMMA StoppedStaysTrue ==
    ASSUME ProcsOK, ProcsTrue, Kept, NEW p \in Procs, NEW pc \in {"failed", "killed"},
           Stopped(p, pc)
    PROVE  ProcsTrue'
<1> DEFINE r == [Idle EXCEPT !.pc = pc]
<1>1. r.read = Empty /\ r.pc \notin Carrying
  BY DEF Idle, Carrying
<1>2. proc' = [proc EXCEPT ![p] = r]
  BY DEF Stopped
<1> HIDE DEF r
<1> QED
  BY <1>1, <1>2, IdleIsTrue, ProcsStayTrue

LEMMA SyncedStaysTrue ==
    ASSUME ProcsOK, ProcsTrue, Kept, NEW p \in Procs, NEW s, Synced(p, s)
    PROVE  ProcsTrue'
<1> DEFINE r == [pc |-> "synced", name |-> proc[p].name, op |-> proc[p].op,
                 etag |-> None, seen |-> proc[p].seen, schema |-> None,
                 read |-> Empty, inode |-> 0, result |-> s]
<1>1. r.read = Empty /\ r.pc \notin Carrying
  BY DEF Carrying
<1>2. proc' = [proc EXCEPT ![p] = r]
  BY DEF Synced
<1> HIDE DEF r
<1> QED
  BY <1>1, <1>2, IdleIsTrue, ProcsStayTrue

\* A lock that is made says what the read one said, and the truth of its own schema.
LEMMA NewLockIsTrue ==
    ASSUME ProcsOK, ProcsTrue, NEW p \in Procs, proc[p].pc = "filling"
    PROVE  LockTrue(snapshots, NewLock(p))
<1> DEFINE e == [revision |-> proc[p].schema, etag |-> proc[p].etag]
<1>1. RecordOK(proc[p]) /\ RecordTrue(snapshots, proc[p])
  BY DEF ProcsOK, ProcsTrue
<1>2. proc[p].name \in Names /\ proc[p].read \in Locks
  BY <1>1 DEF RecordOK, ProcRecord, Carrying
<1>3. EntryTrue(snapshots, proc[p].name, e)
  BY <1>1 DEF RecordTrue, EntryTrue, Carrying, Written
<1>4. NewLock(p) = [proc[p].read EXCEPT ![proc[p].name] = e]
  BY DEF NewLock
<1> HIDE DEF e
<1>5. \A n \in Names : NewLock(p)[n] = IF n = proc[p].name THEN e ELSE proc[p].read[n]
  BY <1>2, <1>4 DEF Locks
<1> QED
  BY <1>1, <1>3, <1>5 DEF LockTrue, RecordTrue

Truthful == FilesTrue /\ ProcsTrue

LEMMA TrueInit == Init => Truthful
<1> SUFFICES ASSUME Init PROVE Truthful
  OBVIOUS
<1>1. RecordTrue(snapshots, Idle)
  BY IdleIsTrue DEF Idle, Carrying
<1> QED
  BY <1>1 DEF Init, Truthful, FilesTrue, ProcsTrue

LEMMA TrueNext == Typed /\ Truthful /\ [Next]_lockVars => Truthful'
<1> SUFFICES ASSUME Typed, Truthful, [Next]_lockVars PROVE Truthful'
  OBVIOUS
<1> USE DEF Typed, Truthful
<1>1. UNCHANGED snapshots => Kept
  BY DEF Kept
<1>2. ASSUME UNCHANGED <<snapshots, files, proc>>
      PROVE  Truthful'
  BY <1>2 DEF FilesTrue, ProcsTrue
<1>3. ASSUME NEW d \in Documents, Publish(d)
      PROVE  Truthful'
  BY <1>2, <1>3 DEF Publish, lock
<1>4. ASSUME NEW n \in Names, NEW op \in Operations, EditManifest(n, op)
      PROVE  Truthful'
  BY <1>2, <1>4 DEF EditManifest, lock
<1>5. ASSUME NEW p \in Procs, NEW n \in Names, Start(p, n)
      PROVE  Truthful'
  <2> DEFINE pc == IF Readable THEN "asking" ELSE "failed"
             etag == IF ~Readable \/ TheLock[n] = None THEN None ELSE TheLock[n].etag
             r == [Idle EXCEPT !.pc = pc, !.name = n, !.op = configured[n], !.etag = etag]
  <2>1. pc \notin Carrying
    BY DEF Carrying
  <2> HIDE DEF pc, etag
  <2>2. r.read = Empty /\ r.pc \notin Carrying
    BY <2>1 DEF Idle
  <2>3. proc' = [proc EXCEPT ![p] = r] /\ UNCHANGED <<snapshots, files>>
    BY <1>5 DEF Start, pc, etag, lock
  <2> HIDE DEF r
  <2> QED
    BY <1>1, <2>2, <2>3, IdleIsTrue, ProcsStayTrue, FilesStayTrue
<1>6. ASSUME NEW p \in Procs, Crash(p)
      PROVE  Truthful'
  BY <1>1, <1>6, StoppedStaysTrue, FilesStayTrue DEF Crash, lock
<1>7. ASSUME NEW p \in Procs, NotModified(p)
      PROVE  Truthful'
  <2> DEFINE r == [proc[p] EXCEPT !.pc = "reusing", !.seen = published]
  <2>1. RecordTrue(snapshots, proc[p]) /\ proc[p] \in ProcRecord
    BY DEF ProcsTrue, ProcsOK
  <2>2. r.read = proc[p].read /\ r.pc = "reusing"
    BY <2>1 DEF ProcRecord
  <2>3. proc' = [proc EXCEPT ![p] = r] /\ UNCHANGED <<snapshots, files>>
    BY <1>7 DEF NotModified, lock
  <2> HIDE DEF r
  <2>4. RecordTrue(snapshots, r)
    BY <2>1, <2>2 DEF RecordTrue, Carrying, Written
  <2> QED
    BY <1>1, <2>3, <2>4, ProcsStayTrue, FilesStayTrue
<1>8. ASSUME NEW p \in Procs, NEW sends \in BOOLEAN, Fetched(p, sends)
      PROVE  Truthful'
  <2> DEFINE s == SchemaOf[<<published, proc[p].op>>]
             etag == IF sends THEN published ELSE None
             r == [proc[p] EXCEPT !.pc = "snapshot", !.seen = published, !.schema = s,
                                  !.etag = etag]
  <2>1. At(p, "asking") /\ proc' = [proc EXCEPT ![p] = r]
        /\ UNCHANGED <<snapshots, files>>
    BY <1>8 DEF Fetched, Received, lock
  <2>2. RecordTrue(snapshots, proc[p]) /\ RecordOK(proc[p])
    BY DEF ProcsTrue, ProcsOK
  <2>3. etag # None => \E op \in Operations : s = SchemaOf[<<etag, op>>]
    BY <2>1, <2>2 DEF At, RecordOK
  <2> HIDE DEF s, etag
  <2>4. r.read = proc[p].read /\ r.pc = "snapshot" /\ r.schema = s /\ r.etag = etag
    BY <2>2 DEF RecordOK, ProcRecord
  <2> HIDE DEF r
  <2>5. RecordTrue(snapshots, r)
    BY <2>2, <2>3, <2>4 DEF RecordTrue, Written
  <2> QED
    BY <1>1, <2>1, <2>5, ProcsStayTrue, FilesStayTrue
<1>9. ASSUME NEW p \in Procs, FetchFails(p) \/ ReuseFails(p)
      PROVE  Truthful'
  BY <1>1, <1>9, StoppedStaysTrue, FilesStayTrue DEF FetchFails, ReuseFails, Failed, lock
<1>10. ASSUME NEW p \in Procs, Reuse(p)
      PROVE  Truthful'
  BY <1>1, <1>10, SyncedStaysTrue, FilesStayTrue DEF Reuse, lock
\* A process that goes on with its schema, whose file is there when it has to be.
<1>11. ASSUME NEW p \in Procs, NEW pc \in Carrying \cup {"replacing"}, Goto(p, pc),
              proc[p].pc \in Carrying, Kept, UNCHANGED files,
              pc \in Written => snapshots'[Snapshot(p)] # "absent"
       PROVE  Truthful'
  <2> DEFINE r == [proc[p] EXCEPT !.pc = pc]
  <2>1. RecordOK(proc[p]) /\ RecordTrue(snapshots, proc[p])
    BY DEF ProcsTrue, ProcsOK
  <2>2. /\ r.read = proc[p].read /\ r.pc = pc /\ r.schema = proc[p].schema
        /\ r.etag = proc[p].etag /\ r.name = proc[p].name
    BY <2>1 DEF RecordOK, ProcRecord
  <2>3. proc' = [proc EXCEPT ![p] = r]
    BY <1>11 DEF Goto
  <2> HIDE DEF r
  <2>4. RecordTrue(snapshots', proc[p])
    BY <1>11, <2>1, RecordsStayTrue DEF Kept
  <2>5. RecordTrue(snapshots', r)
    BY <1>11, <2>2, <2>4 DEF RecordTrue, Snapshot
  <2> QED
    BY <1>11, <2>3, <2>5, ProcsStayTrue, FilesStayTrue
<1>12. ASSUME NEW p \in Procs, KeepSnapshot(p) \/ MissSnapshot(p)
       PROVE  Truthful'
  <2>1. UNCHANGED <<snapshots, files>> /\ proc[p].pc = "snapshot"
    BY <1>12 DEF KeepSnapshot, MissSnapshot, lock, At
  <2>2. CASE KeepSnapshot(p)
    <3>1. Goto(p, "locking") /\ snapshots'[Snapshot(p)] # "absent"
      BY <2>1, <2>2 DEF KeepSnapshot, Snapshot
    <3> QED
      BY <1>1, <1>11, <2>1, <3>1 DEF Carrying
  <2>3. CASE MissSnapshot(p)
    <3>1. Goto(p, "creating")
      BY <2>3 DEF MissSnapshot
    <3> QED
      BY <1>1, <1>11, <2>1, <3>1 DEF Carrying, Written
  <2> QED
    BY <1>12, <2>2, <2>3
<1>13. ASSUME NEW p \in Procs, OpenSnapshot(p) \/ FillSnapshot(p)
       PROVE  Truthful'
  <2>1. proc[p].pc \in Carrying /\ UNCHANGED files
    BY <1>13 DEF OpenSnapshot, FillSnapshot, At, Carrying, lock
  <2>2. Snapshot(p) \in Names \X Schemas
    BY <2>1 DEF ProcsOK, RecordOK, Snapshot
  <2>3. PICK v \in {"torn", "whole"} : snapshots' = [snapshots EXCEPT ![Snapshot(p)] = v]
    BY <1>13 DEF OpenSnapshot, FillSnapshot
  <2>4. Kept /\ snapshots'[Snapshot(p)] # "absent"
    BY <2>2, <2>3 DEF Kept, StorageOK
  <2>5. PICK pc \in {"writing", "locking"} : Goto(p, pc)
    BY <1>13 DEF OpenSnapshot, FillSnapshot
  <2> QED
    BY <1>11, <2>1, <2>4, <2>5 DEF Carrying
<1>14. ASSUME NEW p \in Procs, ReadLock(p)
       PROVE  Truthful'
  <2>1. UNCHANGED <<snapshots, files>>
    BY <1>14 DEF ReadLock, lock
  <2>2. CASE ~Readable
    BY <1>1, <1>14, <2>1, <2>2, StoppedStaysTrue, FilesStayTrue DEF ReadLock, Failed
  <2>3. CASE Readable
    <3> DEFINE r == [proc[p] EXCEPT !.pc = "opening", !.read = TheLock]
    <3>1. RecordOK(proc[p]) /\ RecordTrue(snapshots, proc[p]) /\ proc[p].pc = "locking"
      BY <1>14 DEF ReadLock, At, ProcsTrue, ProcsOK
    <3>2. LockTrue(snapshots, TheLock)
      BY <2>3, NothingReadIsTrue DEF Readable, TheLock, FilesTrue, StorageOK
    <3>3. /\ r.read = TheLock /\ r.pc = "opening" /\ r.schema = proc[p].schema
          /\ r.etag = proc[p].etag /\ r.name = proc[p].name
      BY <3>1 DEF RecordOK, ProcRecord
    <3>4. proc' = [proc EXCEPT ![p] = r]
      BY <1>14, <2>3 DEF ReadLock
    <3> HIDE DEF r
    <3>5. RecordTrue(snapshots, r)
      BY <3>1, <3>2, <3>3 DEF RecordTrue, Carrying, Written
    <3> QED
      BY <1>1, <2>1, <3>4, <3>5, ProcsStayTrue, FilesStayTrue
  <2> QED
    BY <2>2, <2>3
<1>15. ASSUME NEW p \in Procs, OpenTmp(p)
       PROVE  Truthful'
  <2>1. PICK inode : Truncated(p, inode)
    BY <1>15 DEF OpenTmp
  <2> DEFINE r == [proc[p] EXCEPT !.pc = "filling", !.inode = inode]
  <2>2. RecordOK(proc[p]) /\ RecordTrue(snapshots, proc[p]) /\ proc[p].pc = "opening"
    BY <2>1 DEF Truncated, At, ProcsTrue, ProcsOK
  <2>3. /\ r.read = proc[p].read /\ r.pc = "filling" /\ r.schema = proc[p].schema
        /\ r.etag = proc[p].etag /\ r.name = proc[p].name
    BY <2>2 DEF RecordOK, ProcRecord
  <2>4. proc' = [proc EXCEPT ![p] = r] /\ UNCHANGED snapshots
    BY <2>1 DEF Truncated
  <2> HIDE DEF r
  <2>5. RecordTrue(snapshots, r)
    BY <2>2, <2>3 DEF RecordTrue, Carrying, Written
  <2>6. ProcsTrue'
    BY <1>1, <2>4, <2>5, ProcsStayTrue
  <2>7. \A i \in Inodes : files'[i] = files[i] \/ files'[i] = Torn
    BY <2>1 DEF Truncated, StorageOK
  <2>8. FilesTrue'
    BY <2>4, <2>7 DEF FilesTrue
  <2> QED
    BY <2>6, <2>8
<1>16. ASSUME NEW p \in Procs, FillTmp(p)
       PROVE  Truthful'
  <2>1. proc[p].pc = "filling" /\ Goto(p, "replacing") /\ UNCHANGED snapshots
    BY <1>16 DEF FillTmp, At
  <2> DEFINE r == [proc[p] EXCEPT !.pc = "replacing"]
  <2>2. RecordOK(proc[p]) /\ RecordTrue(snapshots, proc[p])
    BY DEF ProcsTrue, ProcsOK
  <2>3. r.read = proc[p].read /\ r.pc = "replacing"
    BY <2>2 DEF RecordOK, ProcRecord
  <2>4. proc' = [proc EXCEPT ![p] = r]
    BY <2>1 DEF Goto
  <2> HIDE DEF r
  <2>5. RecordTrue(snapshots, r)
    BY <2>2, <2>3 DEF RecordTrue, Carrying, Written
  <2>6. ProcsTrue'
    BY <1>1, <2>1, <2>4, <2>5, ProcsStayTrue
  <2>7. LockTrue(snapshots, NewLock(p))
    BY <2>1, NewLockIsTrue
  <2>8. \A i \in Inodes : files'[i] \in {files[i], NewLock(p), Torn}
    BY <1>16 DEF FillTmp, StorageOK
  <2>9. FilesTrue'
    BY <2>1, <2>7, <2>8 DEF FilesTrue
  <2> QED
    BY <2>6, <2>9
<1>17. ASSUME NEW p \in Procs, Replace(p)
       PROVE  Truthful'
  BY <1>1, <1>17, SyncedStaysTrue, StoppedStaysTrue, FilesStayTrue DEF Replace, Failed
<1>18. CASE UNCHANGED lockVars
  BY <1>2, <1>18 DEF lockVars, lock
<1> QED
  BY <1>3, <1>4, <1>5, <1>6, <1>7, <1>8, <1>9, <1>10, <1>12, <1>13, <1>14, <1>15, <1>16,
     <1>17, <1>18 DEF Next, SyncStep

\* A lock that can be parsed names, for every schema, a snapshot somebody has begun
\* to write, and one that belongs to the document its ETag is of: a 304 is answered
\* to a process that holds what the service had then, whoever wrote the lock.
THEOREM LockedIsTrue == Spec => []EntriesAreTrue
<1>1. Spec => [](Typed /\ Truthful)
  BY TypedInit, TypedNext, TrueInit, TrueNext, PTL DEF Spec
<1>2. Typed /\ Truthful => EntriesAreTrue
  <2> SUFFICES ASSUME Typed, Truthful, Readable PROVE LockTrue(snapshots, TheLock)
    BY DEF EntriesAreTrue, LockTrue, EntryTrue
  <2> QED
    BY NothingReadIsTrue DEF Typed, Truthful, Readable, TheLock, FilesTrue, StorageOK
<1> QED
  BY <1>1, <1>2, PTL

-----------------------------------------------------------------------------
(* One process at a time *)

\* While no two processes were at work at once, what a process has read of the lock
\* is the lock, and the temporary file is its own: cut short by a kill it is never
\* the file that is the lock.
OneRuns == \A p, q \in Running : p = q

Apart == lockFile # 0 => lockFile # tmpFile

InHand(p) ==
    LET r == proc[p] IN
    /\ r.pc \in {"opening", "filling", "replacing"} => r.read = TheLock
    /\ r.pc \in {"filling", "replacing"} => tmpFile # 0 /\ r.inode = tmpFile
    /\ r.pc = "filling" => files[tmpFile] = Torn
    /\ r.pc = "replacing" =>
            files[tmpFile] = NewLock(p) /\ r.name \in Names /\ r.schema \in Schemas

Calm == OneRuns /\ Readable /\ Apart /\ \A p \in Procs : InHand(p)
CalmInv == alone => Calm

OthersRest(p) == \A q \in Procs : q # p => proc[q].pc \in Resting

LEMMA OneRunsOthersRest ==
    ASSUME OneRuns, NEW p \in Procs, proc[p].pc \notin Resting
    PROVE  OthersRest(p)
BY DEF OneRuns, OthersRest, Running

LEMMA RestingHoldsNothing ==
    ASSUME NEW p \in Procs, proc[p].pc \notin {"opening", "filling", "replacing"}
    PROVE  InHand(p)
BY DEF InHand

\* It suffices to look at the process that takes the step.
LEMMA StaysCalm ==
    ASSUME ProcsOK, NEW p \in Procs, OthersRest(p), NEW r,
           proc' = [proc EXCEPT ![p] = r],
           Readable', Apart', InHand(p)'
    PROVE  Calm'
<1>1. \A q \in Procs : q # p => proc'[q].pc \in Resting
  BY DEF ProcsOK, OthersRest
<1>2. OneRuns'
  BY <1>1 DEF OneRuns, Running
<1>3. ASSUME NEW q \in Procs PROVE InHand(q)'
  BY <1>1 DEF InHand, Resting
<1> QED
  BY <1>2, <1>3 DEF Calm

\* A step that leaves the files alone and ends with nothing of the lock in hand.
LEMMA StaysCalmElsewhere ==
    ASSUME ProcsOK, Calm, NEW p \in Procs, OthersRest(p), NEW r,
           proc' = [proc EXCEPT ![p] = r],
           r.pc \notin {"opening", "filling", "replacing"}, UNCHANGED lock
    PROVE  Calm'
<1>1. Readable' /\ Apart'
  BY DEF Calm, Readable, TheLock, Apart, lock
<1>2. proc'[p] = r
  BY DEF ProcsOK
<1>3. InHand(p)'
  BY <1>2 DEF InHand
<1> QED
  BY <1>1, <1>3, StaysCalm

LEMMA StaysCalmStopped ==
    ASSUME ProcsOK, Calm, NEW p \in Procs, OthersRest(p),
           NEW pc \in {"failed", "killed"}, Stopped(p, pc), UNCHANGED lock
    PROVE  Calm'
<1> DEFINE r == [Idle EXCEPT !.pc = pc]
<1>1. r.pc \notin {"opening", "filling", "replacing"}
  BY DEF Idle
<1>2. proc' = [proc EXCEPT ![p] = r]
  BY DEF Stopped
<1> HIDE DEF r
<1> QED
  BY <1>1, <1>2, StaysCalmElsewhere

LEMMA StaysCalmGoing ==
    ASSUME ProcsOK, Calm, NEW p \in Procs, OthersRest(p),
           NEW pc \in {"creating", "writing", "locking"}, Goto(p, pc), UNCHANGED lock
    PROVE  Calm'
<1> DEFINE r == [proc[p] EXCEPT !.pc = pc]
<1>1. r.pc \notin {"opening", "filling", "replacing"}
  BY DEF ProcsOK, ProcRecord
<1>2. proc' = [proc EXCEPT ![p] = r]
  BY DEF Goto
<1> HIDE DEF r
<1> QED
  BY <1>1, <1>2, StaysCalmElsewhere

\* Opening the temporary file, and filling it, is not seen in the lock.
LEMMA OpenKeepsLock ==
    ASSUME StorageOK, Apart, NEW p \in Procs, NEW inode, Truncated(p, inode),
           inode \in IF tmpFile = 0 THEN NewInode ELSE {tmpFile}
    PROVE  /\ TheLock' = TheLock /\ Apart'
           /\ inode \in Inodes /\ inode # 0 /\ files'[inode] = Torn /\ tmpFile' = inode
<1>1. inode \in Inodes /\ inode # lockFile
  BY DEF NewInode, Unused, StorageOK, Apart
<1>2. 0 \notin Inodes
  BY DEF Inodes
<1>3. /\ files' = [files EXCEPT ![inode] = Torn] /\ tmpFile' = inode
      /\ lockFile' = lockFile
  BY DEF Truncated
<1>4. \A i \in Inodes : files'[i] = IF i = inode THEN Torn ELSE files[i]
  BY <1>3 DEF StorageOK
<1> QED
  BY <1>1, <1>2, <1>3, <1>4 DEF TheLock, Apart, StorageOK

LEMMA FillKeepsLock ==
    ASSUME Typed, Calm, NEW p \in Procs, FillTmp(p)
    PROVE  /\ TheLock' = TheLock
           /\ files'[tmpFile] = NewLock(p)
<1>1. proc[p].inode = tmpFile /\ tmpFile # 0 /\ files[tmpFile] = Torn
  BY DEF FillTmp, At, Calm, InHand
<1>2. /\ files' = [files EXCEPT ![tmpFile] = NewLock(p)] /\ lockFile' = lockFile
  BY <1>1 DEF FillTmp
<1>3. tmpFile \in Inodes
  BY <1>1 DEF Typed, StorageOK
<1>4. \A i \in Inodes : files'[i] = IF i = tmpFile THEN NewLock(p) ELSE files[i]
  BY <1>2 DEF Typed, StorageOK
<1> QED
  BY <1>1, <1>2, <1>3, <1>4 DEF TheLock, Typed, StorageOK, Calm, Apart

\* What is renamed is the lock that was read with one entry changed.
LEMMA ReplaceMakesLock ==
    ASSUME Typed, Calm, NEW p \in Procs, Replace(p)
    PROVE  /\ tmpFile # 0 /\ lockFile' = tmpFile /\ tmpFile' = 0
           /\ TheLock' = NewLock(p) /\ NewLock(p) \in Locks
           /\ proc[p].name \in Names
           /\ NewLock(p)[proc[p].name] = [revision |-> proc[p].schema, etag |-> proc[p].etag]
           /\ \A n \in Names : n # proc[p].name => NewLock(p)[n] = TheLock[n]
           /\ Synced(p, proc[p].schema)
<1>1. /\ proc[p].read = TheLock /\ tmpFile # 0 /\ files[tmpFile] = NewLock(p)
      /\ proc[p].name \in Names /\ proc[p].schema \in Schemas
  BY DEF Replace, At, Calm, InHand
<1>2. /\ lockFile' = tmpFile /\ tmpFile' = 0 /\ UNCHANGED files
      /\ Synced(p, proc[p].schema)
  BY <1>1 DEF Replace
<1>3. TheLock' = NewLock(p)
  BY <1>1, <1>2 DEF TheLock
<1>4. NewLock(p) \in Locks /\ proc[p].read \in Locks
  BY <1>1, NewLockIsLock DEF Typed, ProcsOK, ProcRecord
<1>5. \A n \in Names : NewLock(p)[n] =
        IF n = proc[p].name THEN [revision |-> proc[p].schema, etag |-> proc[p].etag]
        ELSE proc[p].read[n]
  BY <1>1, <1>4 DEF NewLock, Locks
<1> QED
  BY <1>1, <1>2, <1>3, <1>4, <1>5

LEMMA CalmInit == Init => CalmInv
<1> SUFFICES ASSUME Init PROVE Calm
  BY DEF CalmInv
<1>1. \A p \in Procs : proc[p] = Idle
  BY DEF Init
<1>2. TheLock = Empty /\ Empty \in Locks
  BY DEF Init, TheLock, Empty, Locks
<1>3. Readable /\ Apart
  BY <1>2, TornIsNoLock DEF Readable, Init, Apart
<1>4. \A p \in Procs : InHand(p)
  BY <1>1, RestingHoldsNothing DEF Idle
<1>5. OneRuns
  BY <1>1 DEF OneRuns, Running, Idle, Resting
<1> QED
  BY <1>3, <1>4, <1>5 DEF Calm

LEMMA CalmNext == Typed /\ CalmInv /\ [Next]_lockVars => CalmInv'
<1> SUFFICES ASSUME Typed, CalmInv, [Next]_lockVars, alone' PROVE Calm'
  BY DEF CalmInv
<1> USE DEF Typed
<1>1. ASSUME UNCHANGED <<lock, proc, alone>>
      PROVE  Calm'
  BY <1>1 DEF CalmInv, Calm, OneRuns, Running, Readable, TheLock, Apart, InHand, NewLock, lock
<1>2. ASSUME NEW d \in Documents, Publish(d)
      PROVE  Calm'
  BY <1>1, <1>2 DEF Publish, syncsSoFar
<1>3. ASSUME NEW n \in Names, NEW op \in Operations, EditManifest(n, op)
      PROVE  Calm'
  BY <1>1, <1>3 DEF EditManifest, syncsSoFar
<1>4. ASSUME NEW p \in Procs, NEW n \in Names, Start(p, n)
      PROVE  Calm'
  <2> DEFINE pc == IF Readable THEN "asking" ELSE "failed"
             etag == IF ~Readable \/ TheLock[n] = None THEN None ELSE TheLock[n].etag
             r == [Idle EXCEPT !.pc = pc, !.name = n, !.op = configured[n], !.etag = etag]
  <2>1. Calm /\ OthersRest(p)
    BY <1>4 DEF Start, CalmInv, Running, OthersRest
  <2>2. pc \in {"asking", "failed"}
    OBVIOUS
  <2> HIDE DEF pc, etag
  <2>3. r.pc \notin {"opening", "filling", "replacing"}
    BY <2>2 DEF Idle
  <2>4. proc' = [proc EXCEPT ![p] = r] /\ UNCHANGED lock
    BY <1>4 DEF Start, pc, etag
  <2> HIDE DEF r
  <2> QED
    BY <2>1, <2>3, <2>4, StaysCalmElsewhere
<1>5. ASSUME NEW p \in Procs, p \in Running, alone' = alone
      PROVE  Calm /\ OthersRest(p)
  BY <1>5, OneRunsOthersRest DEF CalmInv, Running, Calm
<1>6. ASSUME NEW p \in Procs, SyncStep(p) \/ Crash(p)
      PROVE  Calm /\ OthersRest(p)
  <2>1. alone' = alone
    BY <1>6 DEF SyncStep, NotModified, Fetched, Received, FetchFails, Reuse, ReuseFails,
       KeepSnapshot, MissSnapshot, OpenSnapshot, FillSnapshot, ReadLock, OpenTmp,
       Truncated, FillTmp, Replace, Crash, syncsSoFar
  <2>2. p \in Running
    BY <1>6 DEF SyncStep, NotModified, Fetched, Received, FetchFails, Reuse, ReuseFails,
       KeepSnapshot, MissSnapshot, OpenSnapshot, FillSnapshot, ReadLock, OpenTmp,
       Truncated, FillTmp, Replace, Crash, At, Running, Resting
  <2> QED
    BY <1>5, <2>1, <2>2
<1>7. ASSUME NEW p \in Procs, Crash(p) \/ FetchFails(p) \/ ReuseFails(p)
      PROVE  Calm'
  <2>1. Calm /\ OthersRest(p)
    BY <1>6, <1>7 DEF SyncStep
  <2>2. PICK pc \in {"failed", "killed"} : Stopped(p, pc)
    BY <1>7 DEF Crash, FetchFails, ReuseFails, Failed
  <2>3. UNCHANGED lock
    BY <1>7 DEF Crash, FetchFails, ReuseFails
  <2> QED
    BY <2>1, <2>2, <2>3, StaysCalmStopped
<1>8. ASSUME NEW p \in Procs, NotModified(p)
      PROVE  Calm'
  <2> DEFINE r == [proc[p] EXCEPT !.pc = "reusing", !.seen = published]
  <2>1. Calm /\ OthersRest(p)
    BY <1>6, <1>8 DEF SyncStep
  <2>2. r.pc = "reusing"
    BY DEF ProcsOK, ProcRecord
  <2>3. proc' = [proc EXCEPT ![p] = r] /\ UNCHANGED lock
    BY <1>8 DEF NotModified
  <2> HIDE DEF r
  <2> QED
    BY <2>1, <2>2, <2>3, StaysCalmElsewhere
<1>9. ASSUME NEW p \in Procs, NEW sends \in BOOLEAN, Fetched(p, sends)
      PROVE  Calm'
  <2> DEFINE r == [proc[p] EXCEPT !.pc = "snapshot", !.seen = published,
                                  !.schema = SchemaOf[<<published, proc[p].op>>],
                                  !.etag = IF sends THEN published ELSE None]
  <2>1. Calm /\ OthersRest(p)
    BY <1>6, <1>9 DEF SyncStep
  <2>2. r.pc = "snapshot"
    BY DEF ProcsOK, ProcRecord
  <2>3. proc' = [proc EXCEPT ![p] = r] /\ UNCHANGED lock
    BY <1>9 DEF Fetched, Received
  <2> HIDE DEF r
  <2> QED
    BY <2>1, <2>2, <2>3, StaysCalmElsewhere
<1>10. ASSUME NEW p \in Procs, NEW s, Synced(p, s), Calm, OthersRest(p), UNCHANGED lock
       PROVE  Calm'
  <2> DEFINE r == [pc |-> "synced", name |-> proc[p].name, op |-> proc[p].op,
                   etag |-> None, seen |-> proc[p].seen, schema |-> None,
                   read |-> Empty, inode |-> 0, result |-> s]
  <2>1. r.pc = "synced"
    OBVIOUS
  <2>2. proc' = [proc EXCEPT ![p] = r]
    BY <1>10 DEF Synced
  <2> HIDE DEF r
  <2> QED
    BY <1>10, <2>1, <2>2, StaysCalmElsewhere
<1>11. ASSUME NEW p \in Procs, Reuse(p)
       PROVE  Calm'
  BY <1>6, <1>10, <1>11 DEF SyncStep, Reuse
<1>12. ASSUME NEW p \in Procs,
              KeepSnapshot(p) \/ MissSnapshot(p) \/ OpenSnapshot(p) \/ FillSnapshot(p)
       PROVE  Calm'
  <2>1. Calm /\ OthersRest(p)
    BY <1>6, <1>12 DEF SyncStep
  <2>2. PICK pc \in {"creating", "writing", "locking"} : Goto(p, pc)
    BY <1>12 DEF KeepSnapshot, MissSnapshot, OpenSnapshot, FillSnapshot
  <2>3. UNCHANGED lock
    BY <1>12 DEF KeepSnapshot, MissSnapshot, OpenSnapshot, FillSnapshot
  <2> QED
    BY <2>1, <2>2, <2>3, StaysCalmGoing
<1>13. ASSUME NEW p \in Procs, ReadLock(p)
       PROVE  Calm'
  <2> DEFINE r == [proc[p] EXCEPT !.pc = "opening", !.read = TheLock]
  <2>1. Calm /\ OthersRest(p)
    BY <1>6, <1>13 DEF SyncStep
  <2>2. r.pc = "opening" /\ r.read = TheLock
    BY DEF ProcsOK, ProcRecord
  <2>3. proc' = [proc EXCEPT ![p] = r] /\ UNCHANGED lock
    BY <1>13, <2>1 DEF ReadLock, Calm
  <2> HIDE DEF r
  <2>4. proc'[p] = r /\ TheLock' = TheLock
    BY <2>3 DEF ProcsOK, TheLock, lock
  <2>5. InHand(p)'
    BY <2>2, <2>4 DEF InHand
  <2>6. Readable' /\ Apart'
    BY <2>1, <2>3, <2>4 DEF Calm, Readable, Apart, lock
  <2> QED
    BY <2>1, <2>3, <2>5, <2>6, StaysCalm
<1>14. ASSUME NEW p \in Procs, OpenTmp(p)
       PROVE  Calm'
  <2>1. Calm /\ OthersRest(p)
    BY <1>6, <1>14 DEF SyncStep
  <2>2. PICK inode \in IF tmpFile = 0 THEN NewInode ELSE {tmpFile} : Truncated(p, inode)
    BY <1>14 DEF OpenTmp
  <2>3. /\ TheLock' = TheLock /\ Apart'
        /\ inode \in Inodes /\ inode # 0 /\ files'[inode] = Torn /\ tmpFile' = inode
    BY <2>1, <2>2, OpenKeepsLock DEF Calm
  <2> DEFINE r == [proc[p] EXCEPT !.pc = "filling", !.inode = inode]
  <2>4. proc[p].read = TheLock
    BY <2>1, <2>2 DEF Truncated, At, Calm, InHand
  <2>5. r.pc = "filling" /\ r.read = TheLock /\ r.inode = inode
    BY <2>4 DEF ProcsOK, ProcRecord
  <2>6. proc' = [proc EXCEPT ![p] = r]
    BY <2>2 DEF Truncated
  <2> HIDE DEF r
  <2>7. proc'[p] = r
    BY <2>6 DEF ProcsOK
  <2>8. InHand(p)'
    BY <2>3, <2>5, <2>7 DEF InHand
  <2>9. Readable'
    BY <2>1, <2>3 DEF Calm, Readable
  <2> QED
    BY <2>1, <2>3, <2>6, <2>8, <2>9, StaysCalm
<1>15. ASSUME NEW p \in Procs, FillTmp(p)
       PROVE  Calm'
  <2>1. Calm /\ OthersRest(p)
    BY <1>6, <1>15 DEF SyncStep
  <2>2. TheLock' = TheLock /\ files'[tmpFile] = NewLock(p)
    BY <1>15, <2>1, FillKeepsLock
  <2> DEFINE r == [proc[p] EXCEPT !.pc = "replacing"]
  <2>3. /\ proc[p].pc = "filling" /\ proc[p].read = TheLock /\ tmpFile # 0
        /\ proc[p].inode = tmpFile /\ UNCHANGED <<lockFile, tmpFile>>
    BY <1>15, <2>1 DEF FillTmp, At, Calm, InHand
  <2>4. proc[p].name \in Names /\ proc[p].schema \in Schemas
    BY <2>3 DEF ProcsOK, RecordOK, Carrying
  <2>5. /\ r.pc = "replacing" /\ r.read = proc[p].read /\ r.inode = proc[p].inode
        /\ r.name = proc[p].name /\ r.schema = proc[p].schema /\ r.etag = proc[p].etag
    BY DEF ProcsOK, ProcRecord
  <2>6. proc' = [proc EXCEPT ![p] = r]
    BY <1>15 DEF FillTmp, Goto
  <2> HIDE DEF r
  <2>7. proc'[p] = r
    BY <2>6 DEF ProcsOK
  <2>8. NewLock(p)' = NewLock(p)
    BY <2>5, <2>7 DEF NewLock
  <2>9. InHand(p)'
    BY <2>2, <2>3, <2>4, <2>5, <2>7, <2>8 DEF InHand
  <2>10. Readable' /\ Apart'
    BY <2>1, <2>2, <2>3 DEF Calm, Readable, Apart
  <2> QED
    BY <2>1, <2>6, <2>9, <2>10, StaysCalm
<1>16. ASSUME NEW p \in Procs, Replace(p)
       PROVE  Calm'
  <2>1. Calm /\ OthersRest(p)
    BY <1>6, <1>16 DEF SyncStep
  <2> DEFINE r == [pc |-> "synced", name |-> proc[p].name, op |-> proc[p].op,
                   etag |-> None, seen |-> proc[p].seen, schema |-> None,
                   read |-> Empty, inode |-> 0, result |-> proc[p].schema]
  <2>2. /\ tmpFile # 0 /\ lockFile' = tmpFile /\ tmpFile' = 0
        /\ TheLock' = NewLock(p) /\ NewLock(p) \in Locks /\ Synced(p, proc[p].schema)
    BY <1>16, <2>1, ReplaceMakesLock
  <2>3. r.pc = "synced"
    OBVIOUS
  <2>4. proc' = [proc EXCEPT ![p] = r]
    BY <2>2 DEF Synced
  <2> HIDE DEF r
  <2>5. InHand(p)'
    BY <2>3, <2>4 DEF InHand, ProcsOK
  <2>6. Readable' /\ Apart'
    BY <2>2, TornIsNoLock DEF Readable, Apart
  <2> QED
    BY <2>1, <2>4, <2>5, <2>6, StaysCalm
<1>17. CASE UNCHANGED lockVars
  BY <1>1, <1>17 DEF lockVars, syncsSoFar
<1> QED
  BY <1>2, <1>3, <1>4, <1>7, <1>8, <1>9, <1>11, <1>12, <1>13, <1>14, <1>15, <1>16, <1>17
     DEF Next, SyncStep

\* Whenever the process, killed or not, left the lock, it can be parsed, as long as no
\* two were at work at once: a lock cut short is only ever in the temporary file.
THEOREM LockReplacedWhole == Spec => []LockIsAtomic
<1>1. Spec => [](Typed /\ CalmInv)
  BY TypedInit, TypedNext, CalmInit, CalmNext, PTL DEF Spec
<1>2. CalmInv => LockIsAtomic
  BY DEF CalmInv, Calm, LockIsAtomic
<1> QED
  BY <1>1, <1>2, PTL

\* Nobody but the process that renames changes the lock.
LEMMA LockStays ==
    ASSUME Typed, Calm, [Next]_lockVars, \A p \in Procs : ~Replace(p)
    PROVE  TheLock' = TheLock
<1>1. UNCHANGED lock => TheLock' = TheLock
  BY DEF lock, TheLock
<1>2. ASSUME NEW p \in Procs, OpenTmp(p)
      PROVE  TheLock' = TheLock
  BY <1>2, OpenKeepsLock DEF OpenTmp, Typed, Calm
<1>3. ASSUME NEW p \in Procs, FillTmp(p)
      PROVE  TheLock' = TheLock
  BY <1>3, FillKeepsLock
<1>4. ASSUME NEW p \in Procs, SyncStep(p), ~OpenTmp(p), ~FillTmp(p), ~Replace(p)
      PROVE  UNCHANGED lock
  BY <1>4 DEF SyncStep, NotModified, Fetched, Received, FetchFails, Reuse, ReuseFails,
     KeepSnapshot, MissSnapshot, OpenSnapshot, FillSnapshot, ReadLock
<1>5. ASSUME NEW p \in Procs, SyncStep(p)
      PROVE  TheLock' = TheLock
  BY <1>1, <1>2, <1>3, <1>4, <1>5
<1>6. ASSUME NEW p \in Procs, (\E n \in Names : Start(p, n)) \/ Crash(p)
      PROVE  TheLock' = TheLock
  BY <1>1, <1>6 DEF Start, Crash
<1>7. ASSUME (\E d \in Documents : Publish(d))
             \/ \E n \in Names, op \in Operations : EditManifest(n, op)
      PROVE  TheLock' = TheLock
  BY <1>1, <1>7 DEF Publish, EditManifest
<1>8. CASE UNCHANGED lockVars
  BY <1>1, <1>8 DEF lockVars
<1> QED
  BY <1>5, <1>6, <1>7, <1>8 DEF Next

LEMMA LockChangesByName ==
    ASSUME Typed, Calm, [Next]_lockVars, NEW n \in Names, TheLock'[n] # TheLock[n]
    PROVE  \E p \in Procs : proc[p].name = n /\ At(p, "replacing")
<1>1. PICK p \in Procs : Replace(p)
  BY LockStays
<1>2. TheLock' = NewLock(p) /\ \A m \in Names : m # proc[p].name => NewLock(p)[m] = TheLock[m]
  BY <1>1, ReplaceMakesLock
<1>3. proc[p].name = n
  BY <1>2
<1> QED
  BY <1>1, <1>3 DEF Replace

\* As long as no two syncs were at work at once, one changes the entry of its own
\* schema and leaves every other entry of the lock as it was.
THEOREM SyncKeepsOtherEntries == Spec => EntriesSurvive
<1>1. Spec => [](Typed /\ CalmInv)
  BY TypedInit, TypedNext, CalmInit, CalmNext, PTL DEF Spec
<1>2. Typed /\ CalmInv /\ [Next]_lockVars =>
        [alone => \A n \in Names : TheLock'[n] # TheLock[n] =>
            \E p \in Procs : proc[p].name = n /\ At(p, "replacing")]_lockVars
  BY LockChangesByName DEF CalmInv
<1> QED
  BY <1>1, <1>2, PTL DEF Spec, EntriesSurvive

\* A process that comes to rest with a result has reused an entry or made one.
LEMMA SyncedByTwo ==
    ASSUME Typed, [Next]_lockVars, NEW p \in Procs, proc[p].pc # "synced",
           proc'[p].pc = "synced"
    PROVE  Reuse(p) \/ Replace(p)
<1> USE DEF Typed
<1>1. ASSUME NEW q \in Procs, NEW r, proc' = [proc EXCEPT ![q] = r], r.pc # "synced"
      PROVE  FALSE
  BY <1>1 DEF ProcsOK
<1>2. ASSUME NEW q \in Procs, NEW pc \in Pc \ {"synced"}, Goto(q, pc)
      PROVE  FALSE
  <2>1. [proc[q] EXCEPT !.pc = pc].pc = pc
    BY DEF ProcsOK, ProcRecord
  <2> QED
    BY <1>1, <1>2, <2>1 DEF Goto
<1>3. ASSUME NEW q \in Procs, NEW pc \in {"failed", "killed"}, Stopped(q, pc)
      PROVE  FALSE
  BY <1>1, <1>3 DEF Stopped, Idle
<1>4. ASSUME NEW q \in Procs, NEW n \in Names, Start(q, n)
      PROVE  FALSE
  <2> DEFINE pc == IF Readable THEN "asking" ELSE "failed"
             etag == IF ~Readable \/ TheLock[n] = None THEN None ELSE TheLock[n].etag
             r == [Idle EXCEPT !.pc = pc, !.name = n, !.op = configured[n], !.etag = etag]
  <2>1. pc # "synced"
    OBVIOUS
  <2> HIDE DEF pc, etag
  <2>2. r.pc # "synced"
    BY <2>1 DEF Idle
  <2>3. proc' = [proc EXCEPT ![q] = r]
    BY <1>4 DEF Start, pc, etag
  <2> HIDE DEF r
  <2> QED
    BY <1>1, <2>2, <2>3
<1>5. ASSUME NEW q \in Procs, SyncStep(q), ~Reuse(q), ~Replace(q)
      PROVE  FALSE
  <2>1. CASE NotModified(q)
    <3>1. [proc[q] EXCEPT !.pc = "reusing", !.seen = published].pc # "synced"
      BY DEF ProcsOK, ProcRecord
    <3> QED
      BY <1>1, <2>1, <3>1 DEF NotModified
  <2>2. ASSUME NEW sends \in BOOLEAN, Fetched(q, sends)
        PROVE  FALSE
    <3>1. [proc[q] EXCEPT !.pc = "snapshot", !.seen = published,
                          !.schema = SchemaOf[<<published, proc[q].op>>],
                          !.etag = IF sends THEN published ELSE None].pc # "synced"
      BY DEF ProcsOK, ProcRecord
    <3> QED
      BY <1>1, <2>2, <3>1 DEF Fetched, Received
  <2>3. CASE FetchFails(q) \/ ReuseFails(q)
    BY <1>3, <2>3 DEF FetchFails, ReuseFails, Failed
  <2>4. CASE KeepSnapshot(q) \/ MissSnapshot(q) \/ OpenSnapshot(q) \/ FillSnapshot(q)
             \/ FillTmp(q)
    BY <1>2, <2>4 DEF KeepSnapshot, MissSnapshot, OpenSnapshot, FillSnapshot, FillTmp, Pc
  <2>5. CASE ReadLock(q)
    <3>1. [proc[q] EXCEPT !.pc = "opening", !.read = TheLock].pc # "synced"
      BY DEF ProcsOK, ProcRecord
    <3> QED
      BY <1>1, <1>3, <2>5, <3>1 DEF ReadLock, Failed
  <2>6. CASE OpenTmp(q)
    <3>1. PICK inode : Truncated(q, inode)
      BY <2>6 DEF OpenTmp
    <3>2. [proc[q] EXCEPT !.pc = "filling", !.inode = inode].pc # "synced"
      BY DEF ProcsOK, ProcRecord
    <3> QED
      BY <1>1, <3>1, <3>2 DEF Truncated
  <2> QED
    BY <1>5, <2>1, <2>2, <2>3, <2>4, <2>5, <2>6 DEF SyncStep
<1>6. ASSUME NEW q \in Procs, Crash(q)
      PROVE  FALSE
  BY <1>3, <1>6 DEF Crash
<1>7. ASSUME NEW q \in Procs, Reuse(q) \/ Replace(q), q # p
      PROVE  FALSE
  <2>1. PICK r : proc' = [proc EXCEPT ![q] = r]
    BY <1>7 DEF Reuse, Replace, Synced, Failed, Stopped
  <2> QED
    BY <1>7, <2>1 DEF ProcsOK
<1>8. PICK q \in Procs : (\E n \in Names : Start(q, n)) \/ SyncStep(q) \/ Crash(q)
  BY DEF Next, Publish, EditManifest, lockVars, lock
<1> QED
  BY <1>4, <1>5, <1>6, <1>7, <1>8

\* Where no two processes were at work at once, the schema that sync_schema returns is
\* the one that the lock names when it does: what was synchronised is what is used.
THEOREM ResultIsInTheLock == Spec => ResultIsLocked
<1>1. Spec => [](Typed /\ CalmInv)
  BY TypedInit, TypedNext, CalmInit, CalmNext, PTL DEF Spec
<1>2. ASSUME Typed, CalmInv, [Next]_lockVars, NEW p \in Procs, alone', ~At(p, "synced"),
             proc'[p].pc = "synced"
      PROVE  /\ TheLock'[proc[p].name] # None
             /\ TheLock'[proc[p].name].revision = proc'[p].result
  <2>1. Reuse(p) \/ Replace(p)
    BY <1>2, SyncedByTwo DEF At
  <2>2. ASSUME NEW s, Synced(p, s)
        PROVE  proc'[p].result = s
    BY <1>2, <2>2 DEF Synced, Typed, ProcsOK
  <2>3. CASE Reuse(p)
    <3>1. TheLock' = TheLock /\ TheLock[proc[p].name] # None
          /\ Synced(p, TheLock[proc[p].name].revision)
      BY <2>3 DEF Reuse, Loadable, TheLock, lock
    <3> QED
      BY <2>2, <3>1
  <2>4. CASE Replace(p)
    <3>1. Calm
      BY <1>2, <2>4 DEF Replace, syncsSoFar, CalmInv
    <3>2. /\ TheLock'[proc[p].name] = [revision |-> proc[p].schema, etag |-> proc[p].etag]
          /\ Synced(p, proc[p].schema) /\ TheLock' \in Locks /\ proc[p].name \in Names
      BY <1>2, <2>4, <3>1, ReplaceMakesLock
    <3>3. [revision |-> proc[p].schema, etag |-> proc[p].etag] \in Entry
      BY <1>2, <2>4, <3>1 DEF Replace, At, Calm, InHand, Typed, ProcsOK, ProcRecord, Entry
    <3> QED
      BY <2>2, <3>2, <3>3, NoneIsNoEntry
  <2> QED
    BY <2>1, <2>3, <2>4
<1>3. Typed /\ CalmInv /\ [Next]_lockVars =>
        [\A p \in Procs : alone' /\ ~At(p, "synced") /\ proc'[p].pc = "synced" =>
            /\ TheLock'[proc[p].name] # None
            /\ TheLock'[proc[p].name].revision = proc'[p].result]_lockVars
  BY <1>2
<1> QED
  BY <1>1, <1>3, PTL DEF Spec, ResultIsLocked

-----------------------------------------------------------------------------
(* What is returned *)

\* While the manifest stays and no two processes were at work at once, an ETag that a
\* process asks with is the one of the entry, so that the entry a 304 sends back to
\* says what the operation is in the document that the service answered about.
ReadAsIs(p) ==
    LET r == proc[p] IN
    /\ r.pc \notin Resting => r.name \in Names /\ r.op = configured[r.name]
    /\ r.pc = "asking" /\ r.etag # None =>
            TheLock[r.name] # None /\ TheLock[r.name].etag = r.etag
    /\ r.pc = "reusing" =>
            TheLock[r.name] # None /\ TheLock[r.name].etag = r.seen /\ r.seen # None
    /\ r.pc \in Carrying \cup {"replacing"} =>
            /\ r.schema = SchemaOf[<<r.seen, r.op>>]
            /\ r.etag # None => r.etag = r.seen
    /\ r.pc = "synced" => r.result = SchemaOf[<<r.seen, r.op>>]

AsConfigured ==
    \A n \in Names : TheLock[n] # None /\ TheLock[n].etag # None =>
        TheLock[n].revision = SchemaOf[<<TheLock[n].etag, configured[n]>>]

AsIs == AsConfigured /\ \A p \in Procs : ReadAsIs(p)
AsIsInv == alone /\ edits = 0 => AsIs

\* A process at rest says nothing of the lock, so what it said stays so.
LEMMA OthersReadAsIs ==
    ASSUME ProcsOK, NEW p \in Procs, OthersRest(p), \A q \in Procs : ReadAsIs(q),
           NEW r, proc' = [proc EXCEPT ![p] = r], ReadAsIs(p)'
    PROVE  \A q \in Procs : ReadAsIs(q)'
<1> SUFFICES ASSUME NEW q \in Procs, q # p PROVE ReadAsIs(q)'
  OBVIOUS
<1>1. proc'[q] = proc[q] /\ proc[q].pc \in Resting
  BY DEF ProcsOK, OthersRest
<1> QED
  BY <1>1 DEF ReadAsIs, Resting, Carrying

LEMMA StoppedAsIs ==
    ASSUME ProcsOK, NEW p \in Procs, OthersRest(p), \A q \in Procs : ReadAsIs(q),
           NEW pc \in {"failed", "killed"}, Stopped(p, pc)
    PROVE  \A q \in Procs : ReadAsIs(q)'
<1> DEFINE r == [Idle EXCEPT !.pc = pc]
<1>1. r.pc \in {"failed", "killed"}
  BY DEF Idle
<1>2. proc' = [proc EXCEPT ![p] = r]
  BY DEF Stopped
<1> HIDE DEF r
<1>3. proc'[p] = r
  BY <1>2 DEF ProcsOK
<1>4. ReadAsIs(p)'
  BY <1>1, <1>3 DEF ReadAsIs, Resting, Carrying
<1> QED
  BY <1>2, <1>4, OthersReadAsIs

LEMMA SyncedAsIs ==
    ASSUME ProcsOK, NEW p \in Procs, OthersRest(p), \A q \in Procs : ReadAsIs(q),
           NEW s, Synced(p, s), s = SchemaOf[<<proc[p].seen, proc[p].op>>]
    PROVE  \A q \in Procs : ReadAsIs(q)'
<1> DEFINE r == [pc |-> "synced", name |-> proc[p].name, op |-> proc[p].op,
                 etag |-> None, seen |-> proc[p].seen, schema |-> None,
                 read |-> Empty, inode |-> 0, result |-> s]
<1>1. /\ r.pc = "synced" /\ r.seen = proc[p].seen /\ r.op = proc[p].op /\ r.result = s
  OBVIOUS
<1>2. proc' = [proc EXCEPT ![p] = r]
  BY DEF Synced
<1> HIDE DEF r
<1>3. proc'[p] = r
  BY <1>2 DEF ProcsOK
<1>4. ReadAsIs(p)'
  BY <1>1, <1>3 DEF ReadAsIs, Resting, Carrying
<1> QED
  BY <1>2, <1>4, OthersReadAsIs

LEMMA GoneOnAsIs ==
    ASSUME ProcsOK, NEW p \in Procs, OthersRest(p), \A q \in Procs : ReadAsIs(q),
           proc[p].pc \in Carrying, configured' = configured,
           NEW pc \in Carrying \cup {"replacing"},
           NEW r, r.pc = pc, r.name = proc[p].name, r.op = proc[p].op,
           r.seen = proc[p].seen, r.schema = proc[p].schema, r.etag = proc[p].etag,
           proc' = [proc EXCEPT ![p] = r]
    PROVE  \A q \in Procs : ReadAsIs(q)'
<1>1. proc'[p] = r
  BY DEF ProcsOK
<1>2. ReadAsIs(p)
  OBVIOUS
<1>3. ReadAsIs(p)'
  BY <1>1, <1>2 DEF ReadAsIs, Resting, Carrying
<1> QED
  BY <1>3, OthersReadAsIs

LEMMA AsIsInit == Init => AsIsInv
<1> SUFFICES ASSUME Init PROVE AsIs
  BY DEF AsIsInv
<1>1. \A p \in Procs : proc[p] = Idle
  BY DEF Init
<1>2. \A p \in Procs : ReadAsIs(p)
  BY <1>1 DEF ReadAsIs, Idle, Resting, Carrying
<1>3. AsConfigured
  BY DEF Init, AsConfigured, TheLock, Empty
<1> QED
  BY <1>2, <1>3 DEF AsIs

\* The lock that is renamed says of the schema that was synchronised what it is.
LEMMA ReplacedAsConfigured ==
    ASSUME Typed, Calm, AsIs, NEW p \in Procs, Replace(p)
    PROVE  AsConfigured'
<1>1. /\ TheLock' = NewLock(p) /\ proc[p].name \in Names
      /\ NewLock(p)[proc[p].name] = [revision |-> proc[p].schema, etag |-> proc[p].etag]
      /\ \A n \in Names : n # proc[p].name => NewLock(p)[n] = TheLock[n]
  BY ReplaceMakesLock
<1>2. configured' = configured
  BY DEF Replace, world
<1>3. /\ proc[p].schema = SchemaOf[<<proc[p].seen, proc[p].op>>]
      /\ proc[p].etag # None => proc[p].etag = proc[p].seen
      /\ proc[p].op = configured[proc[p].name]
  BY DEF Replace, At, AsIs, ReadAsIs, Resting
<1> SUFFICES ASSUME NEW n \in Names, NewLock(p)[n] # None, NewLock(p)[n].etag # None
             PROVE  NewLock(p)[n].revision = SchemaOf[<<NewLock(p)[n].etag, configured[n]>>]
  BY <1>1, <1>2 DEF AsConfigured
<1>4. CASE n = proc[p].name
  BY <1>1, <1>3, <1>4
<1>5. CASE n # proc[p].name
  BY <1>1, <1>5 DEF AsIs, AsConfigured
<1> QED
  BY <1>4, <1>5

LEMMA AsIsNext == Typed /\ CalmInv /\ AsIsInv /\ [Next]_lockVars => AsIsInv'
<1> SUFFICES ASSUME Typed, CalmInv, AsIsInv, [Next]_lockVars, alone', edits' = 0
             PROVE  AsIs'
  BY DEF AsIsInv
<1> USE DEF Typed
<1>0. ASSUME NEW p \in Procs, SyncStep(p) \/ Crash(p)
      PROVE  /\ Calm /\ AsIs /\ OthersRest(p)
             /\ configured' = configured
             /\ \A q \in Procs : ReadAsIs(q)
  <2>1. UNCHANGED <<world, alone>>
    BY <1>0 DEF SyncStep, NotModified, Fetched, Received, FetchFails, Reuse, ReuseFails,
       KeepSnapshot, MissSnapshot, OpenSnapshot, FillSnapshot, ReadLock, OpenTmp,
       Truncated, FillTmp, Replace, Crash, syncsSoFar
  <2>2. proc[p].pc \notin Resting
    BY <1>0 DEF SyncStep, NotModified, Fetched, Received, FetchFails, Reuse, ReuseFails,
       KeepSnapshot, MissSnapshot, OpenSnapshot, FillSnapshot, ReadLock, OpenTmp,
       Truncated, FillTmp, Replace, Crash, At, Running, Resting
  <2>3. Calm /\ AsIs
    BY <2>1 DEF CalmInv, AsIsInv, world
  <2> QED
    BY <2>1, <2>2, <2>3, OneRunsOthersRest DEF Calm, AsIs, world
<1>1. ASSUME UNCHANGED <<lock, proc, alone, configured, edits>>
      PROVE  AsIs'
  BY <1>1 DEF AsIsInv, AsIs, AsConfigured, ReadAsIs, TheLock, lock
<1>2. ASSUME NEW d \in Documents, Publish(d)
      PROVE  AsIs'
  BY <1>1, <1>2 DEF Publish, syncsSoFar
<1>3. ASSUME NEW n \in Names, NEW op \in Operations, EditManifest(n, op)
      PROVE  AsIs'
  BY <1>3 DEF EditManifest, WorldOK
<1>5. ASSUME NEW p \in Procs, NEW n \in Names, Start(p, n)
      PROVE  AsIs'
  <2> DEFINE pc == IF Readable THEN "asking" ELSE "failed"
             etag == IF ~Readable \/ TheLock[n] = None THEN None ELSE TheLock[n].etag
             r == [Idle EXCEPT !.pc = pc, !.name = n, !.op = configured[n], !.etag = etag]
  <2>1. /\ Calm /\ AsIs /\ OthersRest(p) /\ UNCHANGED <<lock, configured>>
        /\ proc' = [proc EXCEPT ![p] = r]
    BY <1>5 DEF Start, CalmInv, AsIsInv, Running, OthersRest, world
  <2>2. TheLock' = TheLock
    BY <2>1 DEF lock, TheLock
  <2>3. pc \in {"asking", "failed"}
    OBVIOUS
  <2>4. etag # None => TheLock[n] # None /\ TheLock[n].etag = etag
    OBVIOUS
  <2> HIDE DEF pc, etag
  <2>5. r.pc = pc /\ r.name = n /\ r.op = configured[n] /\ r.etag = etag
    BY DEF Idle
  <2> HIDE DEF r
  <2>6. proc'[p] = r
    BY <2>1 DEF ProcsOK
  <2>7. ReadAsIs(p)'
    BY <2>1, <2>2, <2>3, <2>4, <2>5, <2>6 DEF ReadAsIs, Resting, Carrying
  <2>8. \A q \in Procs : ReadAsIs(q)'
    BY <2>1, <2>7, OthersReadAsIs DEF AsIs
  <2>9. AsConfigured'
    BY <2>1, <2>2 DEF AsIs, AsConfigured
  <2> QED
    BY <2>8, <2>9 DEF AsIs
<1>6. ASSUME NEW p \in Procs, UNCHANGED <<lock, configured>>, AsIs,
             \A q \in Procs : ReadAsIs(q)'
      PROVE  AsIs'
  BY <1>6 DEF AsIs, AsConfigured, TheLock, lock
<1>7. ASSUME NEW p \in Procs, Crash(p) \/ FetchFails(p) \/ ReuseFails(p)
      PROVE  AsIs'
  <2>1. /\ AsIs /\ OthersRest(p) /\ configured' = configured
        /\ \A q \in Procs : ReadAsIs(q)
    BY <1>0, <1>7 DEF SyncStep
  <2>2. PICK pc \in {"failed", "killed"} : Stopped(p, pc)
    BY <1>7 DEF Crash, FetchFails, ReuseFails, Failed
  <2>3. UNCHANGED lock
    BY <1>7 DEF Crash, FetchFails, ReuseFails
  <2> QED
    BY <1>6, <2>1, <2>2, <2>3, StoppedAsIs
<1>8. ASSUME NEW p \in Procs, NotModified(p)
      PROVE  AsIs'
  <2> DEFINE r == [proc[p] EXCEPT !.pc = "reusing", !.seen = published]
  <2>1. /\ AsIs /\ OthersRest(p) /\ configured' = configured
        /\ \A q \in Procs : ReadAsIs(q)
    BY <1>0, <1>8 DEF SyncStep
  <2>2. /\ proc[p].pc = "asking" /\ proc[p].etag = published /\ published # None
        /\ proc' = [proc EXCEPT ![p] = r] /\ UNCHANGED lock
    BY <1>8 DEF NotModified, At, WorldOK
  <2>3. r.pc = "reusing" /\ r.seen = published /\ r.name = proc[p].name /\ r.op = proc[p].op
    BY DEF ProcsOK, ProcRecord
  <2> HIDE DEF r
  <2>4. proc'[p] = r /\ TheLock' = TheLock
    BY <2>2 DEF ProcsOK, lock, TheLock
  <2>5. ReadAsIs(p)
    BY <2>1
  <2>6. ReadAsIs(p)'
    BY <2>1, <2>2, <2>3, <2>4, <2>5 DEF ReadAsIs, Resting, Carrying
  <2> QED
    BY <1>6, <2>1, <2>2, <2>6, OthersReadAsIs
<1>9. ASSUME NEW p \in Procs, NEW sends \in BOOLEAN, Fetched(p, sends)
      PROVE  AsIs'
  <2> DEFINE etag == IF sends THEN published ELSE None
             s == SchemaOf[<<published, proc[p].op>>]
             r == [proc[p] EXCEPT !.pc = "snapshot", !.seen = published, !.schema = s,
                                  !.etag = etag]
  <2>1. /\ AsIs /\ OthersRest(p) /\ configured' = configured
        /\ \A q \in Procs : ReadAsIs(q)
    BY <1>0, <1>9 DEF SyncStep
  <2>2. /\ proc[p].pc = "asking" /\ proc' = [proc EXCEPT ![p] = r] /\ UNCHANGED lock
    BY <1>9 DEF Fetched, Received, At
  <2>3. etag # None => etag = published
    OBVIOUS
  <2>4. /\ r.pc = "snapshot" /\ r.seen = published /\ r.schema = s /\ r.etag = etag
        /\ r.name = proc[p].name /\ r.op = proc[p].op
    BY DEF ProcsOK, ProcRecord
  <2> HIDE DEF r, etag
  <2>5. proc'[p] = r
    BY <2>2 DEF ProcsOK
  <2>6. ReadAsIs(p)
    BY <2>1
  <2>7. ReadAsIs(p)'
    BY <2>1, <2>2, <2>3, <2>4, <2>5, <2>6 DEF ReadAsIs, Resting, Carrying
  <2> QED
    BY <1>6, <2>1, <2>2, <2>7, OthersReadAsIs
<1>10. ASSUME NEW p \in Procs, Reuse(p)
       PROVE  AsIs'
  <2>1. /\ AsIs /\ OthersRest(p) /\ configured' = configured
        /\ \A q \in Procs : ReadAsIs(q)
    BY <1>0, <1>10 DEF SyncStep
  <2> DEFINE s == TheLock[proc[p].name].revision
  <2>2. proc[p].pc = "reusing" /\ Synced(p, s) /\ UNCHANGED lock
    BY <1>10 DEF Reuse, At
  <2>3. s = SchemaOf[<<proc[p].seen, proc[p].op>>]
    BY <2>1, <2>2 DEF AsIs, AsConfigured, ReadAsIs, Resting
  <2> HIDE DEF s
  <2>4. \A q \in Procs : ReadAsIs(q)'
    BY <2>1, <2>2, <2>3, SyncedAsIs
  <2> QED
    BY <1>6, <2>1, <2>2, <2>4
<1>11. ASSUME NEW p \in Procs,
              KeepSnapshot(p) \/ MissSnapshot(p) \/ OpenSnapshot(p) \/ FillSnapshot(p)
              \/ FillTmp(p)
       PROVE  AsIs'
  <2>1. /\ AsIs /\ Calm /\ OthersRest(p) /\ configured' = configured
        /\ \A q \in Procs : ReadAsIs(q)
    BY <1>0, <1>11 DEF SyncStep
  <2>2. PICK pc \in Carrying \cup {"replacing"} : Goto(p, pc)
    BY <1>11 DEF KeepSnapshot, MissSnapshot, OpenSnapshot, FillSnapshot, FillTmp, Carrying
  <2>3. proc[p].pc \in Carrying
    BY <1>11 DEF KeepSnapshot, MissSnapshot, OpenSnapshot, FillSnapshot, FillTmp, At, Carrying
  <2> DEFINE r == [proc[p] EXCEPT !.pc = pc]
  <2>4. /\ r.pc = pc /\ r.name = proc[p].name /\ r.op = proc[p].op /\ r.seen = proc[p].seen
        /\ r.schema = proc[p].schema /\ r.etag = proc[p].etag
    BY DEF ProcsOK, ProcRecord
  <2>5. proc' = [proc EXCEPT ![p] = r]
    BY <2>2 DEF Goto
  <2> HIDE DEF r
  <2>6. \A q \in Procs : ReadAsIs(q)'
    BY <2>1, <2>3, <2>4, <2>5, GoneOnAsIs
  <2>7. TheLock' = TheLock
    BY <1>11, <2>1, FillKeepsLock DEF KeepSnapshot, MissSnapshot, OpenSnapshot,
       FillSnapshot, TheLock, lock
  <2> QED
    BY <2>1, <2>6, <2>7 DEF AsIs, AsConfigured
<1>12. ASSUME NEW p \in Procs, ReadLock(p)
       PROVE  AsIs'
  <2>1. /\ AsIs /\ Calm /\ OthersRest(p) /\ configured' = configured
        /\ \A q \in Procs : ReadAsIs(q)
    BY <1>0, <1>12 DEF SyncStep
  <2> DEFINE r == [proc[p] EXCEPT !.pc = "opening", !.read = TheLock]
  <2>2. /\ proc[p].pc \in Carrying /\ proc' = [proc EXCEPT ![p] = r] /\ UNCHANGED lock
    BY <1>12, <2>1 DEF ReadLock, At, Calm, Carrying
  <2>3. /\ r.pc = "opening" /\ r.name = proc[p].name /\ r.op = proc[p].op
        /\ r.seen = proc[p].seen /\ r.schema = proc[p].schema /\ r.etag = proc[p].etag
    BY DEF ProcsOK, ProcRecord
  <2> HIDE DEF r
  <2>4. "opening" \in Carrying
    BY DEF Carrying
  <2>5. \A q \in Procs : ReadAsIs(q)'
    BY <2>1, <2>2, <2>3, <2>4, GoneOnAsIs
  <2> QED
    BY <1>6, <2>1, <2>2, <2>5
<1>13. ASSUME NEW p \in Procs, OpenTmp(p)
       PROVE  AsIs'
  <2>1. /\ AsIs /\ Calm /\ OthersRest(p) /\ configured' = configured
        /\ \A q \in Procs : ReadAsIs(q)
    BY <1>0, <1>13 DEF SyncStep
  <2>2. PICK inode \in IF tmpFile = 0 THEN NewInode ELSE {tmpFile} : Truncated(p, inode)
    BY <1>13 DEF OpenTmp
  <2>3. TheLock' = TheLock
    BY <2>1, <2>2, OpenKeepsLock DEF Calm
  <2> DEFINE r == [proc[p] EXCEPT !.pc = "filling", !.inode = inode]
  <2>4. proc[p].pc \in Carrying /\ proc' = [proc EXCEPT ![p] = r]
    BY <2>2 DEF Truncated, At, Carrying
  <2>5. /\ r.pc = "filling" /\ r.name = proc[p].name /\ r.op = proc[p].op
        /\ r.seen = proc[p].seen /\ r.schema = proc[p].schema /\ r.etag = proc[p].etag
    BY DEF ProcsOK, ProcRecord
  <2> HIDE DEF r
  <2>6. "filling" \in Carrying
    BY DEF Carrying
  <2>7. \A q \in Procs : ReadAsIs(q)'
    BY <2>1, <2>4, <2>5, <2>6, GoneOnAsIs
  <2> QED
    BY <2>1, <2>3, <2>7 DEF AsIs, AsConfigured
<1>14. ASSUME NEW p \in Procs, Replace(p)
       PROVE  AsIs'
  <2>1. /\ AsIs /\ Calm /\ OthersRest(p) /\ \A q \in Procs : ReadAsIs(q)
    BY <1>0, <1>14 DEF SyncStep
  <2>2. Synced(p, proc[p].schema)
    BY <1>14, <2>1, ReplaceMakesLock
  <2>3. proc[p].schema = SchemaOf[<<proc[p].seen, proc[p].op>>]
    BY <1>14, <2>1 DEF Replace, At, ReadAsIs
  <2>4. \A q \in Procs : ReadAsIs(q)'
    BY <2>1, <2>2, <2>3, SyncedAsIs
  <2>5. AsConfigured'
    BY <1>14, <2>1, ReplacedAsConfigured
  <2> QED
    BY <2>4, <2>5 DEF AsIs
<1>15. CASE UNCHANGED lockVars
  BY <1>1, <1>15 DEF lockVars, world, syncsSoFar
<1> QED
  BY <1>2, <1>3, <1>5, <1>7, <1>8, <1>9, <1>10, <1>11, <1>12, <1>13, <1>14, <1>15
     DEF Next, SyncStep

\* A sync returns what its operation is in the document that the service answered about,
\* whether it fetched the document or was told that nothing had changed.
THEOREM WhatIsReturned == Spec => []SyncedIsTrue
<1>1. Spec => [](Typed /\ CalmInv /\ AsIsInv)
  BY TypedInit, TypedNext, CalmInit, CalmNext, AsIsInit, AsIsNext, PTL DEF Spec
<1>2. AsIsInv => SyncedIsTrue
  BY DEF AsIsInv, AsIs, ReadAsIs, SyncedIsTrue, At
<1> QED
  BY <1>1, <1>2, PTL

=============================================================================
