--------------------------- MODULE ServiceCallProofs ---------------------------
(***************************************************************************)
(* What the service has carried out, for every template, number of retries *)
(* and number of times a step is begun, with requests that arrive at any   *)
(* later time or never.                                                    *)
(***************************************************************************)
EXTENDS ServiceCall, TLAPS

USE CallsAreCalls, SecuredAreBackends, BoundsAreCounts, NoneIsNoAnswer

-----------------------------------------------------------------------------
(* Type correctness *)

\* A process that waits, or is about to ask again, is at an attempt of a step.
AtAttempt ==
    /\ pc \in {"asking", "sleeping"} =>
        step \in Steps /\ begun[step] \in 1 .. MaxBegins /\ attempt \in 1 .. (Retries + 1)
    /\ pc = "sleeping" => attempt < Retries + 1 /\ Call.method \in IDEMPOTENT
    /\ pc = "returned" => step \in Steps

Typed == CallTypeOK /\ AtAttempt

LEMMA StepsAreNumbers == Len(Calls) \in Nat /\ Steps = 1 .. Len(Calls)
BY DEF Steps

LEMMA TypedInit == Init => Typed
<1> SUFFICES ASSUME Init PROVE Typed
  OBVIOUS
<1>1. begun \in [Steps -> 0 .. MaxBegins] /\ attempt \in 0 .. (Retries + 1)
  BY DEF Init
<1>2. step \in 1 .. (Len(Calls) + 1)
  BY StepsAreNumbers DEF Init
<1>3. /\ http_status \in [Steps -> Answers \cup {None}]
      /\ result \in [Steps -> Results \cup {None}]
      /\ answer \in Answers \cup {None}
  BY DEF Init
<1>4. inFlight \subseteq Requests /\ committed \subseteq Requests
  BY DEF Init
<1>5. tokens \subseteq Secured /\ decided \in BOOLEAN /\ pc = "preflight"
  BY DEF Init
<1> QED
  BY <1>1, <1>2, <1>3, <1>4, <1>5 DEF Typed, CallTypeOK, AtAttempt

LEMMA OutcomesAreResults == \A a \in Answers : Outcome(a) \in Results
BY DEF Outcome, Results

LEMMA ReturnIsTyped ==
    ASSUME Typed, step \in Steps, NEW v \in Results, NEW a \in Answers \cup {None},
           Return(v, a)
    PROVE  Typed'
<1>1. result' \in [Steps -> Results \cup {None}]
  BY DEF Typed, CallTypeOK, Return
<1>2. http_status' \in [Steps -> Answers \cup {None}]
  BY DEF Typed, CallTypeOK, Return
<1>3. pc' \in {"ended", "returned"}
  BY DEF Return
<1> QED
  BY <1>1, <1>2, <1>3 DEF Typed, CallTypeOK, AtAttempt, Return, service, environment

LEMMA SentIsTyped ==
    ASSUME Typed, step \in Steps, NEW n \in 1 .. (Retries + 1), Sent(n),
           begun' \in [Steps -> 0 .. MaxBegins], begun'[step] \in 1 .. MaxBegins
    PROVE  Typed'
<1>1. [step |-> step, begin |-> begun'[step], attempt |-> n, auth |-> Authorized]
        \in Requests
  BY DEF Requests, Authorized
<1>2. inFlight' \subseteq Requests
  BY <1>1 DEF Typed, CallTypeOK, Sent
<1>3. pc' = "asking" /\ attempt' = n /\ answer' = None /\ step' = step
  BY DEF Sent
<1>4. AtAttempt'
  BY <1>3 DEF AtAttempt
<1>5. UNCHANGED <<environment, committed, http_status, result>>
  BY DEF Sent, told
<1> QED
  BY <1>2, <1>3, <1>4, <1>5 DEF Typed, CallTypeOK, environment

LEMMA SleepIsTyped ==
    ASSUME Typed, pc = "asking", NEW a, ShouldRetry(a), Sleep
    PROVE  Typed'
BY DEF Typed, CallTypeOK, AtAttempt, ShouldRetry, Sleep, Call, environment, service, told

LEMMA TypedNext == Typed /\ [Next]_callVars => Typed'
<1> SUFFICES ASSUME Typed, [Next]_callVars PROVE Typed'
  OBVIOUS
<1>1. CASE Begin
  <2>1. step \in Steps /\ begun[step] < MaxBegins
        /\ begun' = [begun EXCEPT ![step] = begun[step] + 1] /\ Sent(1)
    BY <1>1 DEF Begin
  <2>2. begun' \in [Steps -> 0 .. MaxBegins] /\ begun'[step] \in 1 .. MaxBegins
    BY <2>1 DEF Typed, CallTypeOK
  <2> QED
    BY <2>1, <2>2, SentIsTyped
<1>2. CASE NotInterpolated
  BY <1>2, ReturnIsTyped DEF NotInterpolated, Results
<1>3. CASE Receive
  <2>1. pc = "asking" /\ answer \in Answers /\ step \in Steps
    BY <1>3 DEF Receive, Typed, CallTypeOK, AtAttempt
  <2> QED
    BY <1>3, <2>1, OutcomesAreResults, ReturnIsTyped, SleepIsTyped DEF Receive
<1>4. CASE TimeOut
  <2>1. pc = "asking" /\ step \in Steps
    BY <1>4 DEF TimeOut, Typed, AtAttempt
  <2> QED
    BY <1>4, <2>1, ReturnIsTyped, SleepIsTyped DEF TimeOut, Results
<1>5. CASE Retry
  <2>1. /\ step \in Steps /\ begun[step] \in 1 .. MaxBegins
        /\ attempt + 1 \in 1 .. (Retries + 1) /\ begun' = begun /\ Sent(attempt + 1)
    BY <1>5 DEF Retry, Typed, AtAttempt, CallTypeOK
  <2> QED
    BY <2>1, SentIsTyped DEF Typed, CallTypeOK
<1>6. CASE Save
  BY <1>6, StepsAreNumbers DEF Save, Typed, CallTypeOK, AtAttempt, environment, service,
     told
<1>7. CASE Crash
  BY <1>7 DEF Crash, Typed, CallTypeOK, AtAttempt, environment, service,
     told
<1>8. CASE Again
  BY <1>8 DEF Again, Typed, CallTypeOK, AtAttempt, environment, service,
     told
<1>9. ASSUME NEW r \in inFlight, NEW a \in Answers, Arrive(r, a)
      PROVE  Typed'
  <2>1. inFlight' \subseteq Requests /\ committed' \subseteq Requests
    BY <1>9 DEF Arrive, Typed, CallTypeOK
  <2>2. answer' \in Answers \cup {None}
    BY <1>9 DEF Arrive, Typed, CallTypeOK
  <2> QED
    BY <1>9, <2>1, <2>2 DEF Arrive, Typed, CallTypeOK, AtAttempt, Call, client,
       environment, told
<1>11. CASE Preflight
  BY <1>11 DEF Preflight, Typed, CallTypeOK, AtAttempt, environment, service, told
<1>10. CASE UNCHANGED callVars
  BY <1>10 DEF callVars, client, environment, service, told, Typed, CallTypeOK,
     AtAttempt, Call
<1> QED
  BY <1>1, <1>2, <1>3, <1>4, <1>5, <1>6, <1>7, <1>8, <1>9, <1>10, <1>11
     DEF Next, CallStep

\* Requests, attempts and results have the shape they are meant to have; no step is
\* attempted more than Retries times after the first.
THEOREM CallTypeCorrect == Spec => []CallTypeOK
<1>1. Spec => []Typed
  BY TypedInit, TypedNext, PTL DEF Spec
<1> QED
  BY <1>1, PTL DEF Typed

-----------------------------------------------------------------------------
(* What was sent *)

Made == inFlight \cup committed

\* Nothing is sent for a step that was not reached.
NothingAhead == \A r \in Made : r.step <= step

\* The steps the process has left behind, and the one it has the result of.
Good == {"mapping", "product", "nothing", "skipped"}
BehindIsGood ==
    /\ \A k \in Steps : k < step => result[k] \in Good
    /\ pc = "returned" => result[step] \in Good

SentInOrder == NothingAhead /\ BehindIsGood

LEMMA SentInOrderInit == Init => SentInOrder
BY StepsAreNumbers DEF Init, SentInOrder, NothingAhead, BehindIsGood, Made

LEMMA NothingNewIsSent ==
    ASSUME Typed, NothingAhead, Made' \subseteq Made, step' \in Nat, step' >= step
    PROVE  NothingAhead'
<1>1. step \in Nat /\ \A r \in Made : r.step \in Nat
  BY StepsAreNumbers DEF Typed, CallTypeOK, Made, Requests
<1> SUFFICES ASSUME NEW r \in Made' PROVE r.step <= step'
  BY DEF NothingAhead
<1>2. r.step \in Nat /\ r.step <= step
  BY <1>1 DEF NothingAhead
<1> QED
  BY <1>1, <1>2

LEMMA ReturnKeepsOrder ==
    ASSUME Typed, SentInOrder, step \in Steps, NEW v \in Results, NEW a, Return(v, a)
    PROVE  SentInOrder'
<1>1. step \in Nat /\ step' = step /\ Made' = Made
  BY StepsAreNumbers DEF Return, service, Made
<1>2. NothingAhead'
  BY <1>1, NothingNewIsSent DEF SentInOrder
<1>3. \A k \in Steps : k < step => result'[k] = result[k]
  BY <1>1, StepsAreNumbers DEF Return, Typed, CallTypeOK
<1>4. pc' = "returned" => result'[step] \in Good
  BY DEF Return, Typed, CallTypeOK, Results, Good
<1> QED
  BY <1>1, <1>2, <1>3, <1>4 DEF SentInOrder, BehindIsGood

LEMMA SentKeepsOrder ==
    ASSUME Typed, SentInOrder, step \in Steps, NEW n, Sent(n)
    PROVE  SentInOrder'
<1> DEFINE new == [step |-> step, begin |-> begun'[step], attempt |-> n,
                   auth |-> Authorized]
<1>1. Made' = Made \cup {new}
  BY DEF Sent, Made
<1>2. step' = step /\ pc' = "asking" /\ UNCHANGED result
  BY DEF Sent, told
<1>4. new.step = step /\ step \in Nat
  BY StepsAreNumbers
<1> HIDE DEF new
<1>5. NothingAhead'
  BY <1>1, <1>2, <1>4 DEF SentInOrder, NothingAhead
<1> QED
  BY <1>2, <1>5 DEF SentInOrder, BehindIsGood

LEMMA SentInOrderNext == Typed /\ SentInOrder /\ [Next]_callVars => SentInOrder'
<1> SUFFICES ASSUME Typed, SentInOrder, [Next]_callVars PROVE SentInOrder'
  OBVIOUS
<1>1. step \in Nat
  BY StepsAreNumbers DEF Typed, CallTypeOK
\* A step that neither sends nor returns.
<1>2. ASSUME Made' \subseteq Made, UNCHANGED <<step, result>>,
             pc' = "returned" => pc = "returned"
      PROVE  SentInOrder'
  <2>1. NothingAhead'
    BY <1>1, <1>2, NothingNewIsSent DEF SentInOrder
  <2> QED
    BY <1>2, <2>1 DEF SentInOrder, BehindIsGood
<1>3. CASE Begin
  BY <1>3, SentKeepsOrder DEF Begin
<1>4. CASE NotInterpolated
  BY <1>4, ReturnKeepsOrder DEF NotInterpolated, Results
<1>5. Sleep => SentInOrder'
  BY <1>2 DEF Sleep, service, told, Made
<1>6. CASE Receive
  <2>1. answer \in Answers /\ step \in Steps
    BY <1>6 DEF Receive, Typed, CallTypeOK, AtAttempt
  <2> QED
    BY <1>5, <1>6, <2>1, OutcomesAreResults, ReturnKeepsOrder DEF Receive
<1>7. CASE TimeOut
  <2>1. step \in Steps
    BY <1>7 DEF TimeOut, Typed, AtAttempt
  <2> QED
    BY <1>5, <1>7, <2>1, ReturnKeepsOrder DEF TimeOut, Results
<1>8. CASE Retry
  <2>1. step \in Steps
    BY <1>8 DEF Retry, Typed, AtAttempt
  <2> QED
    BY <1>8, <2>1, SentKeepsOrder DEF Retry
<1>9. CASE Save
  <2>1. step' = step + 1 /\ Made' = Made /\ UNCHANGED result /\ pc' # "returned"
    BY <1>9 DEF Save, service, told, Made
  <2>2. NothingAhead'
    BY <1>1, <2>1, NothingNewIsSent DEF SentInOrder
  <2>3. \A k \in Steps : k < step' => result[k] \in Good
    BY <1>1, <1>9, <2>1, StepsAreNumbers DEF Save, SentInOrder, BehindIsGood
  <2> QED
    BY <2>1, <2>2, <2>3 DEF SentInOrder, BehindIsGood
<1>10. CASE Crash
  BY <1>2, <1>10 DEF Crash, service, told, Made
<1>11. CASE Again
  BY <1>2, <1>11 DEF Again, service, told, Made
<1>14. CASE Preflight
  BY <1>2, <1>14 DEF Preflight, service, told, Made
<1>12. ASSUME NEW r \in inFlight, NEW a \in Answers, Arrive(r, a)
       PROVE  SentInOrder'
  <2>1. Made' \subseteq Made
    BY <1>12 DEF Arrive, Made
  <2> QED
    BY <1>2, <1>12, <2>1 DEF Arrive, client, told
<1>13. CASE UNCHANGED callVars
  BY <1>2, <1>13 DEF callVars, client, service, told, Made
<1> QED
  BY <1>3, <1>4, <1>6, <1>7, <1>8, <1>9, <1>10, <1>11, <1>12, <1>13,
     <1>14 DEF Next, CallStep

\* A POST has one request for each time its step is begun, whatever token it had.
BegunSoFar == \A r \in Made : r.begin <= begun[r.step]
PostsAreOne ==
    \A r, s \in Made :
        Calls[r.step].method = "POST" /\ r.step = s.step /\ r.begin = s.begin => r = s

OnePost == BegunSoFar /\ PostsAreOne

LEMMA OnePostInit == Init => OnePost
BY DEF Init, OnePost, BegunSoFar, PostsAreOne, Made

LEMMA OnePostNext == Typed /\ OnePost /\ [Next]_callVars => OnePost'
<1> SUFFICES ASSUME Typed, OnePost, [Next]_callVars PROVE OnePost'
  OBVIOUS
<1>1. Made' \subseteq Made /\ begun' = begun => OnePost'
  BY DEF OnePost, BegunSoFar, PostsAreOne
<1>2. \A r \in Made : r.step \in Steps /\ r.begin \in Nat
  BY DEF Typed, CallTypeOK, Requests, Made
<1>3. CASE Begin
  <2> DEFINE new == [step |-> step, begin |-> begun'[step], attempt |-> 1,
                     auth |-> Authorized]
  <2>1. Made' = Made \cup {new}
    BY <1>3 DEF Begin, Sent, Made
  <2>2. begun[step] \in Nat /\ begun' = [begun EXCEPT ![step] = begun[step] + 1]
        /\ step \in Steps
    BY <1>3 DEF Begin, Typed, CallTypeOK
  <2>3. begun'[step] = begun[step] + 1 /\ \A k \in Steps : begun'[k] >= begun[k]
    BY <2>2 DEF Typed, CallTypeOK
  <2>4. new.step = step /\ new.begin = begun'[step]
    OBVIOUS
  <2> HIDE DEF new
  <2>5. \A r \in Made : r.step = step => r.begin < new.begin
    BY <1>2, <2>2, <2>3, <2>4 DEF OnePost, BegunSoFar
  <2>6. \A r \in Made : r.begin <= begun'[r.step]
    <3> SUFFICES ASSUME NEW r \in Made PROVE r.begin <= begun'[r.step]
      OBVIOUS
    <3>1. r.begin <= begun[r.step] /\ r.step \in Steps /\ r.begin \in Nat
      BY <1>2 DEF OnePost, BegunSoFar
    <3>2. begun[r.step] \in Nat
      BY <3>1 DEF Typed, CallTypeOK
    <3>3. begun'[r.step] \in Nat
      BY <2>2, <3>1, <3>2 DEF Typed, CallTypeOK
    <3> QED
      BY <2>3, <3>1, <3>2, <3>3
  <2>7. BegunSoFar'
    BY <2>1, <2>2, <2>3, <2>4, <2>6 DEF BegunSoFar
  <2>8. PostsAreOne'
    BY <1>2, <2>1, <2>2, <2>3, <2>4, <2>5 DEF OnePost, PostsAreOne
  <2> QED
    BY <2>7, <2>8 DEF OnePost
<1>4. CASE Retry
  <2> DEFINE new == [step |-> step, begin |-> begun'[step], attempt |-> attempt + 1,
                     auth |-> Authorized]
  <2>1. Made' = Made \cup {new} /\ begun' = begun
    BY <1>4 DEF Retry, Sent, Made
  <2>2. Calls[step].method # "POST" /\ begun[step] \in Nat
    BY <1>4 DEF Retry, Typed, AtAttempt, CallTypeOK, Call, IDEMPOTENT
  <2>3. new.step = step /\ new.begin = begun[step]
    BY <2>1
  <2> HIDE DEF new
  <2> QED
    BY <2>1, <2>2, <2>3 DEF OnePost, BegunSoFar, PostsAreOne
<1>5. Return("failed", None) => OnePost'
  BY <1>1 DEF Return, service, Made
<1>6. Sleep => OnePost'
  BY <1>1 DEF Sleep, service, Made
<1>7. CASE Receive
  BY <1>1, <1>6, <1>7 DEF Receive, Return, service, Made
<1>8. CASE NotInterpolated \/ TimeOut
  BY <1>5, <1>6, <1>8 DEF NotInterpolated, TimeOut
<1>9. CASE Preflight \/ Save
  BY <1>1, <1>9 DEF Preflight, Save, service, Made
<1>10. CASE Crash \/ Again
  BY <1>1, <1>10 DEF Crash, Again, service, Made
<1>11. ASSUME NEW r \in inFlight, NEW a \in Answers, Arrive(r, a)
       PROVE  OnePost'
  BY <1>1, <1>11 DEF Arrive, client, Made
<1>12. CASE UNCHANGED callVars
  BY <1>1, <1>12 DEF callVars, client, service, Made
<1> QED
  BY <1>3, <1>4, <1>7, <1>8, <1>9, <1>10, <1>11, <1>12 DEF Next, CallStep

\* Whatever is lost, late or killed, the service carries out a POST at most once for
\* each time its step is begun: there is only ever one request of it to arrive.
THEOREM PostsCarriedOutOnce == Spec => []PostsNotRepeated
<1>1. OnePost => PostsNotRepeated
  BY DEF OnePost, PostsAreOne, PostsNotRepeated, Made
<1>2. Spec => [](Typed /\ OnePost)
  BY TypedInit, TypedNext, OnePostInit, OnePostNext, PTL DEF Spec
<1> QED
  BY <1>1, <1>2, PTL

-----------------------------------------------------------------------------
(* What calls are made of *)

RefsHold(k) ==
    \A ref \in Calls[k].refs :
        ref.root \in 1 .. (k - 1) /\ (ref.dotted => result[ref.root] = "mapping")

MadeOfProducts == \A r \in Made : RefsHold(r.step)
StillInterpolates == pc \in {"asking", "sleeping"} => RefsHold(step)

\* Until the run is decided its process is the one that passed the preflight.
Preflighted == ~decided => pc \in {"preflight", "blocked"} \/ Missing = {}
MadeWithTokens ==
    ~decided => \A r \in Made :
        Calls[r.step].backend \in Secured => (r.auth <=> ~Calls[r.step].public)

Provided == MadeOfProducts /\ StillInterpolates /\ Preflighted /\ MadeWithTokens

LEMMA ProvidedInit == Init => Provided
BY DEF Init, Provided, MadeOfProducts, StillInterpolates, Preflighted, MadeWithTokens, Made

LEMMA NothingMoreIsNeeded ==
    ASSUME Provided, Made' \subseteq Made, UNCHANGED <<environment, step>>,
           \A k \in Steps : k < step => result'[k] = result[k],
           Typed, SentInOrder,
           pc' \in {"asking", "sleeping"} => pc \in {"asking", "sleeping"},
           pc' \in {"preflight", "blocked"} \/ pc \notin {"preflight", "blocked"}
    PROVE  Provided'
<1>1. \A k \in Steps : k <= step /\ RefsHold(k) => RefsHold(k)'
  <2> SUFFICES ASSUME NEW k \in Steps, k <= step, RefsHold(k), NEW ref \in Calls[k].refs
               PROVE  /\ ref.root \in 1 .. (k - 1)
                      /\ ref.dotted => result'[ref.root] = "mapping"
    BY DEF RefsHold
  <2>1. ref.root \in 1 .. (k - 1) /\ (ref.dotted => result[ref.root] = "mapping")
    BY DEF RefsHold
  <2>2. step \in Nat
    BY StepsAreNumbers DEF Typed, CallTypeOK
  <2>3. ref.root \in Steps /\ ref.root < step
    BY <2>1, <2>2, StepsAreNumbers
  <2> QED
    BY <2>1, <2>3
<1>2. MadeOfProducts'
  BY <1>1 DEF Provided, MadeOfProducts, SentInOrder, NothingAhead, Made, Typed, CallTypeOK,
     Requests
<1>3. StillInterpolates'
  BY <1>1, StepsAreNumbers DEF Provided, StillInterpolates, Typed, AtAttempt, CallTypeOK
<1>4. Preflighted'
  BY DEF Provided, Preflighted, Missing, environment
<1>5. MadeWithTokens'
  BY DEF Provided, MadeWithTokens, environment
<1> QED
  BY <1>2, <1>3, <1>4, <1>5 DEF Provided

LEMMA SentIsProvided ==
    ASSUME Typed, SentInOrder, Provided, step \in Steps, RefsHold(step), NEW n, Sent(n),
           pc \notin {"preflight", "blocked"}
    PROVE  Provided'
<1> DEFINE new == [step |-> step, begin |-> begun'[step], attempt |-> n,
                   auth |-> Authorized]
<1>1. Made' = Made \cup {new}
  BY DEF Sent, Made
<1>2. UNCHANGED <<tokens, decided, step, result>> /\ pc' = "asking"
  BY DEF Sent, environment, told
<1>3. \A k : RefsHold(k)' <=> RefsHold(k)
  BY <1>2 DEF RefsHold
<1>4. new.step = step /\ (new.auth <=> Authorized)
  OBVIOUS
<1>5. ~decided /\ Call.backend \in Secured => (Authorized <=> ~Call.public)
  BY DEF Provided, Preflighted, Missing, NeedsCredential, Authorized, Call
<1> HIDE DEF new
<1>6. MadeOfProducts'
  BY <1>1, <1>3, <1>4 DEF Provided, MadeOfProducts
<1>7. StillInterpolates'
  BY <1>2, <1>3 DEF StillInterpolates
<1>8. Preflighted'
  BY <1>2 DEF Provided, Preflighted, Missing
<1>9. MadeWithTokens'
  BY <1>1, <1>2, <1>4, <1>5 DEF Provided, MadeWithTokens, Call
<1> QED
  BY <1>6, <1>7, <1>8, <1>9 DEF Provided

LEMMA ProvidedNext == Typed /\ SentInOrder /\ Provided /\ [Next]_callVars => Provided'
<1> SUFFICES ASSUME Typed, SentInOrder, Provided, [Next]_callVars PROVE Provided'
  OBVIOUS
<1>1. \A v, a : Return(v, a) /\ pc \in {"ready", "asking"} => Provided'
  <2> SUFFICES ASSUME NEW v, NEW a, Return(v, a), pc \in {"ready", "asking"}
               PROVE  Provided'
    OBVIOUS
  <2>1. \A k \in Steps : k < step => result'[k] = result[k]
    BY StepsAreNumbers DEF Return, Typed, CallTypeOK
  <2> QED
    BY <2>1, NothingMoreIsNeeded DEF Return, service, Made
<1>2. Sleep /\ pc = "asking" => Provided'
  BY NothingMoreIsNeeded DEF Sleep, service, told, Made
<1>3. CASE Preflight
  <2>1. UNCHANGED <<environment, step, service, result>>
    BY <1>3 DEF Preflight, told
  <2>2. Preflighted'
    BY <1>3, <2>1 DEF Preflight, Preflighted, Missing, environment
  <2>3. MadeOfProducts' /\ MadeWithTokens'
    BY <2>1 DEF Provided, MadeOfProducts, MadeWithTokens, RefsHold, Made, environment, service
  <2>4. StillInterpolates'
    BY <1>3 DEF Preflight, StillInterpolates
  <2> QED
    BY <2>2, <2>3, <2>4 DEF Provided
<1>4. CASE Begin
  BY <1>4, SentIsProvided DEF Begin, Interpolates, RefsHold, Call
<1>5. CASE NotInterpolated
  BY <1>1, <1>5 DEF NotInterpolated
<1>6. CASE Receive
  BY <1>1, <1>2, <1>6 DEF Receive
<1>7. CASE TimeOut
  BY <1>1, <1>2, <1>7 DEF TimeOut
<1>8. CASE Retry
  <2>1. pc = "sleeping" /\ step \in Steps /\ RefsHold(step) /\ Sent(attempt + 1)
    BY <1>8 DEF Retry, Typed, AtAttempt, Provided, StillInterpolates
  <2> QED
    BY <2>1, SentIsProvided
<1>9. CASE Save
  <2>1. UNCHANGED <<environment, service, result>> /\ pc' \in {"ended", "ready"}
        /\ pc = "returned"
    BY <1>9 DEF Save, told
  <2>2. MadeOfProducts' /\ MadeWithTokens' /\ StillInterpolates'
    BY <2>1 DEF Provided, MadeOfProducts, MadeWithTokens, StillInterpolates, RefsHold, Made,
       environment, service
  <2>3. Preflighted'
    BY <2>1 DEF Provided, Preflighted, Missing, environment
  <2> QED
    BY <2>2, <2>3 DEF Provided
<1>10. CASE Crash
  BY <1>10, NothingMoreIsNeeded DEF Crash, service, told, Made
<1>11. CASE Again
  BY <1>11 DEF Again, Provided, MadeOfProducts, MadeWithTokens, StillInterpolates,
     Preflighted, RefsHold, Made, service, told
<1>12. ASSUME NEW r \in inFlight, NEW a \in Answers, Arrive(r, a)
       PROVE  Provided'
  <2>1. Made' \subseteq Made
    BY <1>12 DEF Arrive, Made
  <2> QED
    BY <1>12, <2>1, NothingMoreIsNeeded DEF Arrive, client, told
<1>13. CASE UNCHANGED callVars
  BY <1>13, NothingMoreIsNeeded DEF callVars, client, service, told, Made
<1> QED
  BY <1>3, <1>4, <1>5, <1>6, <1>7, <1>8, <1>9, <1>10, <1>11, <1>12, <1>13
     DEF Next, CallStep

\* No call is made before the steps it follows have succeeded, with a part of a
\* product that has no parts, or, until the run is decided, without the token the
\* preflight asked for.
THEOREM CallsMadeWithWhatTheyNeed == Spec => []CallsAreProvided
<1>1. Typed /\ SentInOrder /\ Provided => CallsAreProvided
  <2> SUFFICES ASSUME Typed, SentInOrder, Provided, NEW r \in committed \cup inFlight
               PROVE  /\ \A k \in 1 .. (r.step - 1) : result[k] \in Good
                      /\ \A ref \in Calls[r.step].refs :
                            ref.dotted => result[ref.root] = "mapping"
                      /\ ~decided /\ Calls[r.step].backend \in Secured =>
                            (r.auth <=> ~Calls[r.step].public)
    BY DEF CallsAreProvided, Good
  <2>1. r.step \in Steps /\ r.step <= step /\ step \in Nat
    BY StepsAreNumbers DEF Typed, CallTypeOK, Requests, SentInOrder, NothingAhead, Made
  <2>2. ASSUME NEW k \in 1 .. (r.step - 1) PROVE result[k] \in Good
    <3>1. k \in Steps /\ k < step
      BY <2>1, StepsAreNumbers
    <3> QED
      BY <3>1 DEF SentInOrder, BehindIsGood
  <2>3. \A ref \in Calls[r.step].refs : ref.dotted => result[ref.root] = "mapping"
    BY DEF Provided, MadeOfProducts, RefsHold, Made
  <2>4. ~decided /\ Calls[r.step].backend \in Secured =>
            (r.auth <=> ~Calls[r.step].public)
    BY DEF Provided, MadeWithTokens, Made
  <2> QED
    BY <2>2, <2>3, <2>4
<1>2. Spec => [](Typed /\ SentInOrder /\ Provided)
  BY TypedInit, TypedNext, SentInOrderInit, SentInOrderNext, ProvidedInit, ProvidedNext,
     PTL DEF Spec
<1> QED
  BY <1>1, <1>2, PTL

-----------------------------------------------------------------------------
(* What was carried out *)

\* An answer that says so is the answer of a request that was carried out.
AnswersAreTrue == pc = "asking" /\ answer \in Accepted => Request \in committed

CarriedOut == AnswersAreTrue /\ SuccessIsCommitted

LEMMA CarriedOutInit == Init => CarriedOut
BY DEF Init, CarriedOut, AnswersAreTrue, SuccessIsCommitted, Accepted, Results

\* What a step returned stays true: the service forgets nothing.
LEMMA SuccessStays ==
    ASSUME SuccessIsCommitted, committed \subseteq committed',
           UNCHANGED <<http_status, result>>
    PROVE  SuccessIsCommitted'
BY DEF SuccessIsCommitted

LEMMA ReturnIsTrue ==
    ASSUME Typed, CarriedOut, step \in Steps, NEW v \in Results, NEW a, Return(v, a),
           v \in {"mapping", "product", "nothing"} =>
                a \in Moved \/ \E r \in committed : r.step = step
    PROVE  CarriedOut'
<1>1. AnswersAreTrue'
  BY DEF Return, AnswersAreTrue
<1>2. \A k \in Steps : /\ result'[k] = IF k = step THEN v ELSE result[k]
                       /\ http_status'[k] = IF k = step THEN a ELSE http_status[k]
  BY DEF Return, Typed, CallTypeOK
<1>3. committed' = committed
  BY DEF Return, service
<1>4. SuccessIsCommitted'
  BY <1>2, <1>3 DEF CarriedOut, SuccessIsCommitted
<1> QED
  BY <1>1, <1>4 DEF CarriedOut

LEMMA CarriedOutNext == Typed /\ CarriedOut /\ [Next]_callVars => CarriedOut'
<1> SUFFICES ASSUME Typed, CarriedOut, [Next]_callVars PROVE CarriedOut'
  OBVIOUS
\* A step after which nothing has come back.
<1>1. ASSUME pc' # "asking" \/ answer' = None,
             UNCHANGED <<committed, http_status, result>>
      PROVE  CarriedOut'
  <2>1. SuccessIsCommitted'
    BY <1>1, SuccessStays DEF CarriedOut
  <2>2. AnswersAreTrue'
    BY <1>1 DEF AnswersAreTrue, Accepted, Answers
  <2> QED
    BY <2>1, <2>2 DEF CarriedOut
<1>2. CASE Begin
  BY <1>1, <1>2 DEF Begin, Sent, told
<1>3. CASE NotInterpolated
  BY <1>3, ReturnIsTrue DEF NotInterpolated, Results
<1>4. Sleep => CarriedOut'
  BY <1>1 DEF Sleep, service, told
<1>5. CASE Receive
  <2>1. answer \in Answers /\ step \in Steps /\ pc = "asking"
    BY <1>5 DEF Receive, Typed, CallTypeOK, AtAttempt
  <2>2. Outcome(answer) \in {"mapping", "product", "nothing"} => answer \in Accepted \cup Moved
    BY <2>1 DEF Outcome, Accepted, Moved
  <2>3. answer \in Accepted => \E r \in committed : r.step = step
    BY <2>1 DEF CarriedOut, AnswersAreTrue, Request
  <2> QED
    BY <1>4, <1>5, <2>1, <2>2, <2>3, OutcomesAreResults, ReturnIsTrue DEF Receive
<1>6. CASE TimeOut
  <2>1. step \in Steps
    BY <1>6 DEF TimeOut, Typed, AtAttempt
  <2> QED
    BY <1>4, <1>6, <2>1, ReturnIsTrue DEF TimeOut, Results
<1>7. CASE Retry
  BY <1>1, <1>7 DEF Retry, Sent, told
<1>8. CASE Save
  BY <1>1, <1>8 DEF Save, service, told
<1>9. CASE Crash
  BY <1>1, <1>9 DEF Crash, service, told
<1>10. CASE Again
  BY <1>1, <1>10 DEF Again, service, told
<1>11. ASSUME NEW r \in inFlight, NEW a \in Answers, Arrive(r, a)
       PROVE  CarriedOut'
  <2>1. committed \subseteq committed' /\ UNCHANGED <<http_status, result>>
    BY <1>11 DEF Arrive, told
  <2>2. Request' = Request /\ pc' = pc
    BY <1>11 DEF Arrive, client, environment, Request, Authorized, Call
  <2>3. AnswersAreTrue'
    BY <1>11, <2>1, <2>2 DEF Arrive, CarriedOut, AnswersAreTrue
  <2> QED
    BY <2>1, <2>3, SuccessStays DEF CarriedOut
<1>12. CASE UNCHANGED callVars
  BY <1>12 DEF callVars, client, environment, service, told, CarriedOut, AnswersAreTrue,
     SuccessIsCommitted, Request, Authorized, Call
<1>13. CASE Preflight
  BY <1>1, <1>13 DEF Preflight, service, told
<1> QED
  BY <1>2, <1>3, <1>5, <1>6, <1>7, <1>8, <1>9, <1>10, <1>11, <1>12, <1>13
     DEF Next, CallStep

\* A step that returned a product, or nothing, has been carried out, unless the answer
\* was a redirection, with or without a body.
THEOREM SuccessWasCarriedOut == Spec => []SuccessIsCommitted
<1>1. Spec => [](Typed /\ CarriedOut)
  BY TypedInit, TypedNext, CarriedOutInit, CarriedOutNext, PTL DEF Spec
<1> QED
  BY <1>1, PTL DEF CarriedOut
=============================================================================
