------------------------------ MODULE ServiceCall ------------------------------
(***************************************************************************)
(* The service steps of a template (sdk/service.py): each sends a request,  *)
(* and sends it again where should_retry allows it.                         *)
(*                                                                         *)
(* Between the process and the service is a network that loses requests    *)
(* and answers and delivers requests late, long after the process has      *)
(* stopped waiting.  A process may be killed; the next one begins the step *)
(* again that no checkpoint was saved for.                                 *)
(***************************************************************************)
EXTENDS Naturals, Sequences

CONSTANTS
    Calls,          \* the calls of the template, in order
    Backends,       \* the backends of the project
    Secured,        \* those that name variables for a token (token_env)
    Retries,        \* the argument of run_service_step
    MaxBegins,      \* times a step is begun
    None

IDEMPOTENT == {"GET", "HEAD", "PUT", "DELETE", "PATCH"}
Methods == IDEMPOTENT \cup {"POST"}

\* A status and a body, as far as the code tells them apart: 2xx with a mapping that
\* has what later calls select, with other JSON, without a body, with something else;
\* 404; another 4xx, or 3xx with something else; 429; 5xx; and 3xx with a mapping,
\* with other JSON, without a body: a redirection is not followed.
Moved == {"movedMapping", "movedJson", "movedEmpty"}
Answers == {"mapping", "json", "empty", "garbled", "notFound", "refused", "busy",
            "broken"} \cup Moved

\* Those after which the service has done what it was asked for.  One that breaks may
\* have, too.
Accepted == {"mapping", "json", "empty", "garbled"}
MayCommit == Accepted \cup {"broken"}

\* kwargs, and the placeholders ($root or $root.part) of path, query and body, as
\* far as they are for products of other calls: a call is named by its place.
ASSUME CallsAreCalls ==
    Calls \in Seq([method : Methods, backend : Backends, optional_404 : BOOLEAN,
                   public : BOOLEAN, kwargs : SUBSET Nat,
                   refs : SUBSET [root : Nat, dotted : BOOLEAN]])

ASSUME SecuredAreBackends == Secured \subseteq Backends

ASSUME BoundsAreCounts == Retries \in Nat /\ MaxBegins \in Nat

Steps == DOMAIN Calls
Results == {"mapping", "product", "nothing", "skipped", "failed"}

ASSUME NoneIsNoAnswer == None \notin Answers \cup Results

\* auth: with an Authorization header.
Requests == [step : Steps, begin : 1 .. MaxBegins, attempt : 1 .. (Retries + 1),
             auth : BOOLEAN]

VARIABLES
    tokens,         \* the backends the process has a token for
    decided,        \* whether this is a process that `decide` started
    pc,             \* where the process is
    step,           \* the first step no checkpoint was saved for
    begun,          \* step -> how often it was begun
    attempt,
    answer,         \* what has come back for the request that is waited for
    inFlight,       \* requests the service has not seen
    committed,      \* requests it has carried out
    http_status,    \* step -> the answer it returned with, for its row
    result          \* step -> what it returned

environment == <<tokens, decided>>
client == <<environment, pc, step, begun, attempt>>
service == <<inFlight, committed>>
told == <<http_status, result>>
callVars == <<client, answer, service, told>>

CallTypeOK ==
    /\ tokens \subseteq Secured
    /\ decided \in BOOLEAN
    /\ pc \in {"preflight", "blocked", "ready", "asking", "sleeping", "returned",
               "ended", "killed"}
    /\ step \in 1 .. (Len(Calls) + 1)
    /\ begun \in [Steps -> 0 .. MaxBegins]
    /\ attempt \in 0 .. (Retries + 1)
    /\ answer \in Answers \cup {None}
    /\ inFlight \subseteq Requests
    /\ committed \subseteq Requests
    /\ http_status \in [Steps -> Answers \cup {None}]
    /\ result \in [Steps -> Results \cup {None}]

Init ==
    /\ tokens \in SUBSET Secured
    /\ decided = FALSE
    /\ pc = "preflight"
    /\ step = 1
    /\ begun = [k \in Steps |-> 0]
    /\ attempt = 0
    /\ answer = None
    /\ inFlight = {} /\ committed = {}
    /\ http_status = [k \in Steps |-> None]
    /\ result = [k \in Steps |-> None]

Call == Calls[step]

\* bearer(backend.token()), but not for a public call.
Authorized == ~Call.public /\ Call.backend \in tokens
Request == [step |-> step, begin |-> begun[step], attempt |-> attempt,
            auth |-> Authorized]

-----------------------------------------------------------------------------
(* Before the first step *)

NeedsCredential(b) == \E k \in Steps : Calls[k].backend = b /\ ~Calls[k].public

\* backend_requirements: the backends a token is missing for.
Missing == {b \in Secured \ tokens : NeedsCredential(b)}

Preflight ==
    /\ pc = "preflight"
    /\ pc' = IF Missing = {} THEN "ready" ELSE "blocked"
    /\ UNCHANGED <<environment, step, begun, attempt, answer, service, told>>

\* Mutant of Interpolates: what is in the pool is not looked at.
InterpolatesAnything == \A ref \in Call.refs : ref.root \in Call.kwargs /\ ref.root < step

\* validate_call and value_of: a placeholder is for a declared key, some step has
\* produced it, and what is selected with a dot is in it.  (Nothing, which a 404 or
\* an empty answer leave in the pool, has no parts; without a dot it is sent as it
\* is, "None" in a path.)
Interpolates ==
    \A ref \in Call.refs :
        /\ ref.root \in Call.kwargs
        /\ ref.root \in 1 .. (step - 1)
        /\ ref.dotted => result[ref.root] = "mapping"

-----------------------------------------------------------------------------
(* The process *)

\* Mutant of ShouldRetry: POST like any other method.
RetryAny(status) ==
    /\ attempt < Retries + 1
    /\ status \in {None, "busy", "broken"}

\* None: a connection error or a timeout.
ShouldRetry(status) ==
    /\ attempt < Retries + 1 /\ Call.method \in IDEMPOTENT
    /\ status \in {None, "busy", "broken"}

\* Mutant of Outcome: what is not found, or not allowed, is nothing.
ForgivingOutcome(status) ==
    CASE status = "notFound" /\ Call.optional_404 -> "skipped"
      [] status \in {"mapping", "movedMapping"} -> "mapping"
      [] status \in {"json", "movedJson"} -> "product"
      [] status \in {"empty", "movedEmpty", "notFound", "refused"} -> "nothing"
      [] OTHER -> "failed"

\* optional_404, CLIENT_ERROR and _parse, in this order: what a redirection has for a
\* body is taken for the answer.
Outcome(status) ==
    CASE status = "notFound" /\ Call.optional_404 -> "skipped"
      [] status \in {"mapping", "movedMapping"} -> "mapping"
      [] status \in {"json", "movedJson"} -> "product"
      [] status \in {"empty", "movedEmpty"} -> "nothing"
      [] OTHER -> "failed"

\* A failed step ends the run; the result of another goes to the checkpoint.
Return(value, status) ==
    /\ pc' = IF value = "failed" THEN "ended" ELSE "returned"
    /\ result' = [result EXCEPT ![step] = value]
    /\ http_status' = [http_status EXCEPT ![step] = status]
    /\ answer' = None
    /\ UNCHANGED <<environment, step, begun, attempt, service>>

Sent(n) ==
    /\ attempt' = n
    /\ inFlight' = inFlight \cup {[step |-> step, begin |-> begun'[step], attempt |-> n,
                                    auth |-> Authorized]}
    /\ answer' = None
    /\ pc' = "asking"
    /\ UNCHANGED <<environment, step, committed, told>>

Begin ==
    /\ pc = "ready" /\ step \in Steps /\ begun[step] < MaxBegins
    /\ Interpolates
    /\ begun' = [begun EXCEPT ![step] = begun[step] + 1]
    /\ Sent(1)

\* interpolate raises CallSpecError.
NotInterpolated ==
    /\ pc = "ready" /\ step \in Steps /\ ~Interpolates
    /\ Return("failed", None)

Sleep ==
    /\ pc' = "sleeping"
    /\ answer' = None
    /\ UNCHANGED <<environment, step, begun, attempt, service, told>>

Receive ==
    /\ pc = "asking" /\ answer # None
    /\ IF ShouldRetry(answer) THEN Sleep ELSE Return(Outcome(answer), answer)

\* Mutant of TimeOut: only the first attempt is timed.
TimeOutFirst ==
    /\ pc = "asking" /\ attempt = 1
    /\ IF ShouldRetry(None) THEN Sleep ELSE Return("failed", None)

\* Or a transport error.  The request stays where it is, and so may its effect.
TimeOut ==
    /\ pc = "asking"
    /\ IF ShouldRetry(None) THEN Sleep ELSE Return("failed", None)

Retry ==
    /\ pc = "sleeping"
    /\ begun' = begun
    /\ Sent(attempt + 1)

\* The checkpoint after the step.
Save ==
    /\ pc = "returned"
    /\ step' = step + 1
    /\ pc' = IF step = Len(Calls) THEN "ended" ELSE "ready"
    /\ attempt' = 0
    /\ UNCHANGED <<environment, begun, answer, service, told>>

-----------------------------------------------------------------------------
(* What happens to it *)

Crash ==
    /\ pc \in {"asking", "sleeping", "returned"}
    /\ pc' = "killed"
    /\ attempt' = 0
    /\ answer' = None
    /\ UNCHANGED <<environment, step, begun, service, told>>

\* The run is decided again, whether its process was killed or its step failed, by
\* somebody who may have other tokens; `decide` has no preflight.  (A run that was
\* blocked there has no checkpoint to continue from.)
Again ==
    /\ pc \in {"killed", "ended"} /\ step \in Steps
    /\ tokens' \in SUBSET Secured
    /\ decided' = TRUE
    /\ pc' = "ready"
    /\ attempt' = 0
    /\ UNCHANGED <<step, begun, answer, service, told>>

\* The service sees a request, and answers the process if it still waits.
Arrive(r, a) ==
    /\ r \in inFlight
    /\ inFlight' = inFlight \ {r}
    /\ \/ a \in MayCommit /\ committed' = committed \cup {r}
       \/ a \notin Accepted /\ UNCHANGED committed
    /\ answer' = IF pc = "asking" /\ r = Request THEN a ELSE answer
    /\ UNCHANGED <<client, told>>

CallStep == Preflight \/ Begin \/ NotInterpolated \/ Receive \/ TimeOut \/ Retry \/ Save

Next ==
    \/ CallStep
    \/ Crash
    \/ Again
    \/ \E r \in inFlight, a \in Answers : Arrive(r, a)

\* The timeout of a request and the end of asyncio.sleep are certain.
Spec == Init /\ [][Next]_callVars /\ WF_callVars(CallStep)

-----------------------------------------------------------------------------
(* Properties *)

\* "POST is never retried" (service.py:309): however late its requests arrive, a
\* POST is carried out at most once each time its step is begun.
PostsNotRepeated ==
    \A r, s \in committed :
        Calls[r.step].method = "POST" /\ r.step = s.step /\ r.begin = s.begin => r = s

\* "A failed step, never a silent None" (service.py:44): a step that succeeds has been
\* carried out, unless the answer was a redirection, which says that it was not and
\* is a success all the same, whether its body is JSON or there is none.
SuccessIsCommitted ==
    \A k \in Steps :
        result[k] \in {"mapping", "product", "nothing"} /\ http_status[k] \notin Moved =>
            \E r \in committed : r.step = k

\* A call is made only with what it needs.  The steps before it have succeeded; what
\* it selects from a product is there, and not "None" (service.py:246-253); and
\* before anyone decides the run, it has its token: "a run with no credential stops
\* before the first step rather than after the expensive one" (service.py:378).  A
\* token is not sent where it is not needed (service.py:436).
CallsAreProvided ==
    \A r \in committed \cup inFlight :
        LET call == Calls[r.step] IN
        /\ \A k \in 1 .. (r.step - 1) :
                result[k] \in {"mapping", "product", "nothing", "skipped"}
        /\ \A ref \in call.refs : ref.dotted => result[ref.root] = "mapping"
        /\ ~decided /\ call.backend \in Secured => (r.auth <=> ~call.public)

\* A step that was begun ends: there is an end to the attempts and to each of them.
CallsEnd == pc = "asking" ~> pc \in {"returned", "ended", "killed"}
=============================================================================
