----------------------- MODULE NotificationRelayProofs -----------------------
(***************************************************************************)
(* Theorems about NotificationRelay, for any number of calls and threads,  *)
(* any mix of calls and any number of broken exchanges.                    *)
(***************************************************************************)
EXTENDS NotificationRelay, FiniteSetTheorems, TLAPS

LEMMA JobShape ==
    /\ \A c \in Calls : Relay(c) \in Jobs /\ Client(c) \in Jobs
    /\ \A c, d \in Calls : Relay(c) # Client(d)
    /\ \A c, d \in Calls : (Relay(c) = Relay(d) \/ Client(c) = Client(d)) => c = d
    /\ Free \notin Jobs
    /\ \A j \in Jobs : j = Relay(j.call) \/ j = Client(j.call)
  BY DEF Relay, Client, Jobs, Free

LEMMA KindShape ==
    ASSUME NEW k \in CallKind
    PROVE  /\ k.bank \in Banks /\ k.endpoint \in Endpoints /\ k.async \in BOOLEAN
           /\ Target(k) \in Endpoints
  BY DEF CallKind, Endpoints, Target
-----------------------------------------------------------------------------
LEMMA TypeInit == Init => TypeOK
  BY LossesAssumption DEF Init, TypeOK, NoCall, Resting

LEMMA TypeStep == TypeOK /\ [Next]_vars => TypeOK'
  <1> SUFFICES ASSUME TypeOK, [Next]_vars PROVE TypeOK'
    OBVIOUS
  <1> USE DEF TypeOK, Resting, Finished
  <1>1. ASSUME NEW c \in Calls, Submit(c) PROVE TypeOK'
    BY <1>1, JobShape, KindsAssumption DEF Submit
  <1>2. ASSUME NEW c \in Calls, Send(c) PROVE pending' \subseteq Jobs /\
               exchange' \in [Calls -> {"none", "submitted", "sent"} \cup Finished]
    BY <1>2, JobShape DEF Send
  <1>3. ASSUME NEW c \in Calls, ExecutorSend(c) PROVE TypeOK'
    BY <1>2, <1>3 DEF ExecutorSend
  <1>4. ASSUME NEW c \in Calls, RemoteHandles(c) \/ Lose(c) PROVE TypeOK'
    BY <1>4, LossesAssumption DEF RemoteHandles, Lose
  <1>5. ASSUME NEW t \in Threads, NEW j \in Jobs, Dispatch(t, j) PROVE TypeOK'
    BY <1>5 DEF Dispatch, callVars
  <1>6. ASSUME NEW t \in Threads, Work(t) PROVE TypeOK'
    <2> SUFFICES ASSUME NEW c \in Calls,
                        \/ ServeShort(t, c) \/ Prepare(t, c) \/ Invoke(t, c)
                        \/ ClientHandles(t, c) \/ Finish(t, c)
                 PROVE  TypeOK'
      BY <1>6 DEF Work
    <2>1. CASE ServeShort(t, c)
      BY <2>1 DEF ServeShort, Answer, Release
    <2>2. CASE Prepare(t, c)
      BY <2>2 DEF Prepare, Answer, Release
    <2>3. CASE Invoke(t, c)
      <3>1. CASE Send(c)
        BY <1>2, <2>3, <3>1 DEF Invoke
      <3>2. CASE exchange' = [exchange EXCEPT ![c] = "submitted"] /\ UNCHANGED pending
        BY <2>3, <3>2 DEF Invoke
      <3> QED
        BY <2>3, <3>1, <3>2 DEF Invoke
    <2>4. CASE ClientHandles(t, c)
      BY <2>4 DEF ClientHandles, Release
    <2>5. CASE Finish(t, c)
      <3>1. StatusOf(c) \in {"none", "own", "ok", "error", "500"}
        BY DEF StatusOf
      <3> QED
        BY <2>5, <3>1 DEF Finish, Answer, Release
    <2> QED
      BY <2>1, <2>2, <2>3, <2>4, <2>5
  <1>7. CASE UNCHANGED vars
    BY <1>7 DEF vars
  <1> QED
    BY <1>1, <1>3, <1>4, <1>5, <1>6, <1>7 DEF Next

\* The variables of the relay and of the container keep their types.
THEOREM TypeCorrect == Spec => []TypeOK
  BY TypeInit, TypeStep, PTL DEF Spec
-----------------------------------------------------------------------------
LEMMA DisciplineInit == Init => JobDiscipline
  BY JobShape DEF Init, JobDiscipline, JobsDisjoint, JobsFollowPhase, Nowhere, Resting

LEMMA DisciplineStep == TypeOK /\ JobDiscipline /\ [Next]_vars => JobDiscipline'
  <1> SUFFICES ASSUME TypeOK, JobDiscipline, [Next]_vars PROVE JobDiscipline'
    OBVIOUS
  <1> USE DEF TypeOK, JobDiscipline
  <1>0. ASSUME UNCHANGED <<pending, serving>>
        PROVE  JobsDisjoint' /\ \A j : Nowhere(j) => Nowhere(j)'
    BY <1>0 DEF JobsDisjoint, Nowhere
  <1>1. ASSUME NEW c \in Calls, Submit(c) PROVE JobDiscipline'
    <2>1. Nowhere(Relay(c)) /\ Nowhere(Client(c))
      BY <1>1 DEF Submit, JobsFollowPhase
    <2>2. JobsDisjoint'
      BY <1>1, <2>1 DEF Submit, JobsDisjoint, Nowhere
    <2>3. JobsFollowPhase'
      BY <1>1, <2>1, JobShape DEF Submit, JobsFollowPhase, Nowhere, Resting
    <2> QED
      BY <2>2, <2>3
  <1>2. ASSUME NEW c \in Calls, Send(c), Nowhere(Client(c)), UNCHANGED serving,
               phase[c] \in {"built", "waiting", "answered"},
               phase' = [phase EXCEPT ![c] = IF @ = "built" THEN "waiting" ELSE @]
        PROVE  JobDiscipline'
    <2>1. JobsDisjoint'
      BY <1>2 DEF Send, JobsDisjoint, Nowhere
    <2>2. JobsFollowPhase'
      BY <1>2, JobShape DEF Send, JobsFollowPhase, Nowhere, Resting
    <2> QED
      BY <2>1, <2>2
  <1>3. ASSUME NEW c \in Calls, ExecutorSend(c) PROVE JobDiscipline'
    BY <1>2, <1>3 DEF ExecutorSend, JobsFollowPhase
  <1>4. ASSUME NEW c \in Calls, RemoteHandles(c) \/ Lose(c) PROVE JobDiscipline'
    <2>1. CASE RemoteHandles(c)
      BY <1>0, <2>1 DEF RemoteHandles, JobsFollowPhase
    <2>2. CASE Lose(c)
      BY <1>0, <2>2 DEF Lose, JobsFollowPhase
    <2> QED
      BY <1>4, <2>1, <2>2
  <1>5. ASSUME NEW t \in Threads, NEW j \in Jobs, Dispatch(t, j) PROVE JobDiscipline'
    <2>1. JobsDisjoint'
      BY <1>5, JobShape DEF Dispatch, JobsDisjoint
    <2>2. \A i \in Jobs : Nowhere(i) => Nowhere(i)'
      BY <1>5 DEF Dispatch, Nowhere
    <2>3. UNCHANGED <<phase, exchange>>
      BY <1>5 DEF Dispatch, callVars
    <2> QED
      BY <2>1, <2>2, <2>3, JobShape DEF JobsFollowPhase
  <1>6. ASSUME NEW t \in Threads, NEW c \in Calls, serving[t] \in {Relay(c), Client(c)}, Release(t),
               UNCHANGED pending
        PROVE  /\ JobsDisjoint'
               /\ \A d \in Calls : /\ Nowhere(Relay(d)) => Nowhere(Relay(d))'
                                   /\ Nowhere(Client(d)) => Nowhere(Client(d))'
               /\ serving[t] = Relay(c) => Nowhere(Relay(c))'
    BY <1>6, JobShape DEF Release, JobsDisjoint, Nowhere
  <1>7. ASSUME NEW t \in Threads, NEW c \in Calls, ServeShort(t, c) PROVE JobDiscipline'
    BY <1>6, <1>7 DEF ServeShort, Answer, JobsFollowPhase, Resting
  <1>8. ASSUME NEW t \in Threads, NEW c \in Calls, Prepare(t, c) PROVE JobDiscipline'
    BY <1>6, <1>8 DEF Prepare, Answer, JobsDisjoint, JobsFollowPhase, Nowhere, Resting
  <1>9. ASSUME NEW t \in Threads, NEW c \in Calls, Invoke(t, c) PROVE JobDiscipline'
    <2>1. CASE Send(c)
      BY <1>2, <1>9, <2>1 DEF Invoke, JobsFollowPhase
    <2>2. CASE exchange' = [exchange EXCEPT ![c] = "submitted"] /\ UNCHANGED pending
      BY <1>0, <1>9, <2>2 DEF Invoke, JobsFollowPhase, Resting
    <2> QED
      BY <1>9, <2>1, <2>2 DEF Invoke
  <1>10. ASSUME NEW t \in Threads, NEW c \in Calls, ClientHandles(t, c) PROVE JobDiscipline'
    BY <1>6, <1>10 DEF ClientHandles, JobsFollowPhase
  <1>11. ASSUME NEW t \in Threads, NEW c \in Calls, Finish(t, c) PROVE JobDiscipline'
    BY <1>6, <1>11 DEF Finish, Answer, JobsFollowPhase, Resting
  <1>12. CASE UNCHANGED vars
    BY <1>12 DEF vars, JobsDisjoint, JobsFollowPhase, Nowhere
  <1> QED
    BY <1>1, <1>3, <1>4, <1>5, <1>7, <1>8, <1>9, <1>10, <1>11, <1>12 DEF Next, Work

\* No call is served twice and no notification is sent twice, whatever the
\* threads, the executor, the clients and the network do.
THEOREM JobsSafe == Spec => []JobDiscipline
  BY TypeInit, TypeStep, DisciplineInit, DisciplineStep, PTL DEF Spec
-----------------------------------------------------------------------------
\* If every thread were blocked, threads would map one to one to calls.
LEMMA Pigeonhole == TypeOK /\ JobDiscipline => SomeThreadCanServe
  <1> SUFFICES ASSUME TypeOK, JobDiscipline, Cardinality(Calls) < Cardinality(Threads),
                      \A t \in Threads : Blocked(t)
               PROVE  FALSE
    BY DEF SomeThreadCanServe
  <1> DEFINE f == [t \in Threads |-> serving[t].call]
  <1>1. ASSUME NEW t \in Threads PROVE f[t] \in Calls /\ serving[t] = Relay(f[t])
    <2>1. PICK c \in Calls : serving[t] = Relay(c)
      BY DEF Blocked
    <2>2. Relay(c).call = c
      BY DEF Relay
    <2> QED
      BY <2>1, <2>2
  <1>2. f \in [Threads -> Calls]
    BY <1>1
  <1>3. \A t, u \in Threads : f[t] = f[u] => t = u
    BY <1>1, JobShape DEF JobDiscipline, JobsDisjoint
  <1>4. \E t, u \in Threads : t # u /\ f[t] = f[u]
    <2> HIDE DEF f
    <2> QED
      BY <1>2, FiniteAssumption, FS_PigeonHole
  <1> QED
    BY <1>3, <1>4

\* Calls that wait for the bundled client, fewer than the container's threads,
\* never take the thread that client needs.
THEOREM NoStarvation == Spec => []SomeThreadCanServe
  BY TypeInit, TypeStep, DisciplineInit, DisciplineStep, Pigeonhole, PTL DEF Spec
-----------------------------------------------------------------------------
\* A call that has come in is one of the kinds testers make, and has no Client
\* before its method runs.
ClientDiscipline ==
    \A c \in Calls :
        /\ phase[c] # "idle" => call[c] \in CallKind
        /\ phase[c] = "queued" => client[c] = "none"
        /\ (phase[c] = "answered" /\ client[c] = "open") =>
              call[c].bank = "gil" /\ call[c].endpoint \in {"absent", "malformed"}

LEMMA ClientInit == Init => ClientDiscipline
  BY DEF Init, ClientDiscipline

\* Only the GIL resource lets an endpoint through that no target can be made of.
LEMMA Unusable ==
    ASSUME NEW k \in CallKind, k.bank # "short", TargetThrows(Target(k))
    PROVE  k.bank = "gil" /\ k.endpoint \in {"absent", "malformed"}
  BY DEF CallKind, Banks, Endpoints, Target, TargetThrows, UkValid

LEMMA ClientStep == TypeOK /\ ClientDiscipline /\ [Next]_vars => ClientDiscipline'
  <1> SUFFICES ASSUME TypeOK, ClientDiscipline, [Next]_vars PROVE ClientDiscipline'
    OBVIOUS
  <1> USE DEF TypeOK, Resting
  <1>1. ASSUME NEW c \in Calls, Submit(c) PROVE ClientDiscipline'
    BY <1>1, KindsAssumption DEF Submit, ClientDiscipline
  <1>2. ASSUME NEW c \in Calls, ExecutorSend(c) \/ RemoteHandles(c) \/ Lose(c) PROVE ClientDiscipline'
    <2>1. UNCHANGED <<call, phase, client>>
      BY <1>2 DEF ExecutorSend, RemoteHandles, Lose
    <2> QED
      BY <2>1 DEF ClientDiscipline
  <1>3. ASSUME NEW t \in Threads, NEW c \in Calls, ServeShort(t, c) PROVE ClientDiscipline'
    BY <1>3 DEF ServeShort, Answer, ClientDiscipline
  <1>4. ASSUME NEW t \in Threads, NEW c \in Calls, Prepare(t, c) PROVE ClientDiscipline'
    <2>1. /\ phase[c] = "queued" /\ call[c].bank # "short"
          /\ client' = [client EXCEPT ![c] = "open"] /\ UNCHANGED call
      BY <1>4 DEF Prepare
    <2>2. call[c] \in CallKind
      BY <2>1 DEF ClientDiscipline
    <2>3. CASE phase' = [phase EXCEPT ![c] = "built"]
      BY <2>1, <2>3 DEF ClientDiscipline
    <2>4. CASE TargetThrows(Target(call[c])) /\ Answer(c, "500")
      BY <2>1, <2>2, <2>4, Unusable DEF ClientDiscipline, Answer
    <2> QED
      BY <1>4, <2>3, <2>4 DEF Prepare
  <1>5. ASSUME NEW t \in Threads, NEW c \in Calls, Invoke(t, c) PROVE ClientDiscipline'
    <2>1. /\ phase' = [phase EXCEPT ![c] = "waiting"] /\ phase[c] = "built"
          /\ UNCHANGED <<call, client>>
      BY <1>5 DEF Invoke
    <2> QED
      BY <2>1 DEF ClientDiscipline
  <1>6. ASSUME NEW t \in Threads, NEW c \in Calls, ClientHandles(t, c) PROVE ClientDiscipline'
    BY <1>6 DEF ClientHandles, ClientDiscipline
  <1>7. ASSUME NEW t \in Threads, NEW c \in Calls, Finish(t, c) PROVE ClientDiscipline'
    <2>1. /\ client' = [client EXCEPT ![c] = "closed"] /\ UNCHANGED call
          /\ phase' = [phase EXCEPT ![c] = "answered"] /\ phase[c] = "waiting"
      BY <1>7 DEF Finish, Answer
    <2> QED
      BY <2>1 DEF ClientDiscipline
  <1>8. ASSUME NEW t \in Threads, NEW j \in Jobs, Dispatch(t, j) PROVE ClientDiscipline'
    BY <1>8 DEF Dispatch, callVars, ClientDiscipline
  <1>9. CASE UNCHANGED vars
    BY <1>9 DEF vars, callVars, ClientDiscipline
  <1> QED
    BY <1>1, <1>2, <1>3, <1>4, <1>5, <1>6, <1>7, <1>8, <1>9 DEF Next, Work

\* Whatever breaks, an answered call leaves no Client open but where no target
\* could be built.
THEOREM ReleasedSafe == Spec => []ClientReleased
  <1>1. ClientDiscipline => ClientReleased
    BY DEF ClientDiscipline, ClientReleased
  <1> QED
    BY <1>1, TypeInit, TypeStep, ClientInit, ClientStep, PTL DEF Spec
-----------------------------------------------------------------------------
LEMMA HandledInit == Init => HandledDiscipline
  BY JobShape DEF Init, HandledDiscipline, Nowhere

LEMMA HandledStep ==
    TypeOK /\ JobDiscipline /\ HandledDiscipline /\ [Next]_vars => HandledDiscipline'
  <1> SUFFICES ASSUME TypeOK, JobDiscipline, HandledDiscipline, [Next]_vars
               PROVE  HandledDiscipline'
    OBVIOUS
  <1> USE DEF TypeOK
  <1>1. ASSUME NEW c \in Calls, Submit(c) PROVE HandledDiscipline'
    <2>1. \A d \in Calls : Nowhere(Client(d)) => Nowhere(Client(d))'
      BY <1>1, JobShape DEF Submit, Nowhere
    <2> QED
      BY <1>1, <2>1 DEF Submit, HandledDiscipline
  <1>2. ASSUME NEW c \in Calls, Send(c), exchange[c] \in {"none", "submitted"},
               UNCHANGED <<serving, handled, status, call>>,
               \A d \in Calls : status[d] = "ok" => phase'[d] = "answered"
        PROVE  HandledDiscipline'
    <2>1. \A d \in Calls \ {c} : Nowhere(Client(d)) => Nowhere(Client(d))'
      BY <1>2, JobShape DEF Send, Nowhere
    <2>2. Nowhere(Client(c))' \/ Target(call'[c]) = "bundled"
      BY <1>2 DEF Send, Nowhere, JobDiscipline, JobsFollowPhase
    <2>3. exchange'[c] \in {"sent", "lost"} /\ \A d \in Calls \ {c} : exchange'[d] = exchange[d]
      BY <1>2 DEF Send
    <2> QED
      BY <1>2, <2>1, <2>2, <2>3 DEF HandledDiscipline
  <1>3. ASSUME NEW c \in Calls, ExecutorSend(c) PROVE HandledDiscipline'
    BY <1>2, <1>3 DEF ExecutorSend, HandledDiscipline
  <1>4. ASSUME NEW c \in Calls, RemoteHandles(c) PROVE HandledDiscipline'
    <2>1. Nowhere(Client(c))
      BY <1>4 DEF RemoteHandles, HandledDiscipline
    <2>2. \A d \in Calls : Nowhere(Client(d)) => Nowhere(Client(d))'
      BY <1>4 DEF RemoteHandles, Nowhere
    <2> QED
      BY <1>4, <2>1, <2>2 DEF RemoteHandles, HandledDiscipline
  <1>5. ASSUME NEW c \in Calls, Lose(c) PROVE HandledDiscipline'
    <2>1. \A d \in Calls : Nowhere(Client(d)) => Nowhere(Client(d))'
      BY <1>5 DEF Lose, Nowhere
    <2> QED
      BY <1>5, <2>1 DEF Lose, HandledDiscipline
  <1>6. ASSUME NEW t \in Threads, NEW j \in Jobs, Dispatch(t, j) PROVE HandledDiscipline'
    <2>1. \A i \in Jobs : Nowhere(i) => Nowhere(i)'
      BY <1>6 DEF Dispatch, Nowhere
    <2> QED
      BY <1>6, <2>1, JobShape DEF Dispatch, callVars, HandledDiscipline
  <1>7. ASSUME NEW t \in Threads, Release(t), UNCHANGED pending
        PROVE  \A d \in Calls : Nowhere(Client(d)) => Nowhere(Client(d))'
    BY <1>7, JobShape DEF Release, Nowhere
  <1>8. ASSUME NEW t \in Threads, NEW c \in Calls, ServeShort(t, c) PROVE HandledDiscipline'
    BY <1>7, <1>8 DEF ServeShort, Answer, HandledDiscipline
  <1>9. ASSUME NEW t \in Threads, NEW c \in Calls, Prepare(t, c) PROVE HandledDiscipline'
    <2>1. \A d \in Calls : Nowhere(Client(d)) => Nowhere(Client(d))'
      BY <1>7, <1>9 DEF Prepare, Nowhere
    <2>2. \A d \in Calls : status'[d] = "ok" => status[d] = "ok" /\ phase'[d] = "answered"
      BY <1>9 DEF Prepare, Answer, HandledDiscipline
    <2> QED
      BY <1>9, <2>1, <2>2 DEF Prepare, HandledDiscipline
  <1>10. ASSUME NEW t \in Threads, NEW c \in Calls, Invoke(t, c) PROVE HandledDiscipline'
    <2>1. exchange[c] = "none" /\ \A d \in Calls : status[d] = "ok" => phase'[d] = "answered"
      BY <1>10 DEF Invoke, JobDiscipline, JobsFollowPhase, HandledDiscipline
    <2>2. CASE Send(c)
      BY <1>2, <1>10, <2>1, <2>2 DEF Invoke
    <2>3. CASE exchange' = [exchange EXCEPT ![c] = "submitted"] /\ UNCHANGED pending
      <3>1. \A d \in Calls : Nowhere(Client(d)) => Nowhere(Client(d))'
        BY <1>10, <2>3 DEF Invoke, Nowhere
      <3> QED
        BY <1>10, <2>1, <2>3, <3>1 DEF Invoke, HandledDiscipline
    <2> QED
      BY <1>10, <2>2, <2>3 DEF Invoke
  <1>11. ASSUME NEW t \in Threads, NEW c \in Calls, ClientHandles(t, c) PROVE HandledDiscipline'
    <2>1. \A d \in Calls : Nowhere(Client(d)) => Nowhere(Client(d))'
      BY <1>7, <1>11 DEF ClientHandles
    <2>2. Nowhere(Client(c))'
      BY <1>11, JobShape DEF ClientHandles, Release, Nowhere, JobDiscipline, JobsDisjoint
    <2>3. exchange[c] \notin {"none", "submitted"}
      BY <1>11 DEF ClientHandles, Nowhere, JobDiscipline, JobsFollowPhase
    <2>4. exchange'[c] \in Finished /\ handled'[c] = "bundled"
      BY <1>11, <2>3 DEF ClientHandles, Finished
    <2> QED
      BY <1>11, <2>1, <2>2, <2>4 DEF ClientHandles, HandledDiscipline, Finished
  <1>12. ASSUME NEW t \in Threads, NEW c \in Calls, Finish(t, c) PROVE HandledDiscipline'
    <2>1. StatusOf(c) = "ok" => exchange[c] = "ok"
      BY DEF StatusOf
    <2> QED
      BY <1>7, <1>12, <2>1 DEF Finish, Answer, HandledDiscipline
  <1>13. CASE UNCHANGED vars
    BY <1>13 DEF vars, Nowhere, HandledDiscipline
  <1> QED
    BY <1>1, <1>3, <1>4, <1>5, <1>6, <1>8, <1>9, <1>10, <1>11, <1>12, <1>13 DEF Next, Work

\* A client handles each notification at most once, and a tester is told "ok"
\* only of a notification that has been handled.
THEOREM HandledSafe == Spec => []HandledDiscipline
  BY TypeInit, TypeStep, DisciplineInit, DisciplineStep, HandledInit, HandledStep, PTL DEF Spec
-----------------------------------------------------------------------------
(***************************************************************************)
(* NotificationRelay implements NotificationService                        *)
(***************************************************************************)
Stage   == [c \in Calls |-> IF phase[c] \in Resting THEN phase[c] ELSE "open"]
Outcome == [c \in Calls |-> IF status[c] \in {"none", "ok"} THEN status[c] ELSE "other"]
Once    == [c \in Calls |-> handled[c] # "none"]

LEMMA ServiceStep ==
    TypeOK /\ JobDiscipline /\ HandledDiscipline /\ [Next]_vars => [Service!Next]_(Service!vars)
  <1> SUFFICES ASSUME TypeOK, JobDiscipline, HandledDiscipline, [Next]_vars
               PROVE  Service!Next \/ UNCHANGED <<Stage, Outcome, Once>>
    BY DEF Service!vars, Stage, Outcome, Once
  <1> USE DEF TypeOK, Resting
  <1>1. ASSUME NEW c \in Calls, Submit(c) PROVE Service!Next
    <2>1. Stage[c] # "open" /\ Stage' = [Stage EXCEPT ![c] = "open"]
      BY <1>1 DEF Submit, Stage
    <2>2. Outcome' = [Outcome EXCEPT ![c] = "none"] /\ Once' = [Once EXCEPT ![c] = FALSE]
      BY <1>1 DEF Submit, Outcome, Once
    <2> QED
      BY <2>1, <2>2 DEF Service!Submit, Service!Next, Stage, Outcome, Once
  <1>2. ASSUME NEW c \in Calls, NEW who \in {"bundled", "local", "remote"},
               handled' = [handled EXCEPT ![c] = who], handled[c] = "none", phase[c] # "idle",
               UNCHANGED <<phase, status>>
        PROVE  Service!Next
    <2>1. Stage[c] # "idle" /\ Outcome[c] # "ok" /\ ~Once[c]
      BY <1>2 DEF Stage, Outcome, Once, HandledDiscipline
    <2>2. Once' = [Once EXCEPT ![c] = TRUE] /\ Stage' = Stage /\ Outcome' = Outcome
      BY <1>2 DEF Stage, Outcome, Once
    <2> QED
      BY <2>1, <2>2 DEF Service!Handle, Service!Next, Stage, Outcome, Once
  <1>3. ASSUME NEW c \in Calls, RemoteHandles(c) PROVE Service!Next
    <2>1. handled[c] = "none" /\ phase[c] # "idle"
      BY <1>3 DEF RemoteHandles, HandledDiscipline, JobDiscipline, JobsFollowPhase
    <2> QED
      BY <1>2, <1>3, <2>1 DEF RemoteHandles
  <1>4. ASSUME NEW t \in Threads, NEW c \in Calls, ClientHandles(t, c) PROVE Service!Next
    <2>1. handled[c] = "none" /\ exchange[c] # "none"
      BY <1>4 DEF ClientHandles, Nowhere, HandledDiscipline, JobDiscipline, JobsFollowPhase
    <2>2. phase[c] # "idle"
      BY <2>1 DEF JobDiscipline, JobsFollowPhase
    <2> QED
      BY <1>2, <1>4, <2>1, <2>2 DEF ClientHandles
  <1>5. ASSUME NEW c \in Calls, NEW s \in {"own", "ok", "error", "500"},
               phase[c] \notin Resting, Answer(c, s), UNCHANGED handled,
               s = "ok" => handled[c] # "none"
        PROVE  Service!Next
    <2>1. Stage[c] = "open" /\ Stage' = [Stage EXCEPT ![c] = "answered"] /\ Once' = Once
      BY <1>5 DEF Answer, Stage, Once
    <2>2. Outcome' = [Outcome EXCEPT ![c] = IF s = "ok" THEN "ok" ELSE "other"]
      BY <1>5 DEF Answer, Outcome
    <2>3. s = "ok" => Once[c]
      BY <1>5 DEF Once
    <2> QED
      BY <2>1, <2>2, <2>3
         DEF Service!Answer, Service!Succeed, Service!Other, Service!Next, Stage, Outcome, Once
  <1>6. ASSUME NEW t \in Threads, NEW c \in Calls, ServeShort(t, c) PROVE Service!Next
    BY <1>5, <1>6 DEF ServeShort
  <1>7. ASSUME NEW t \in Threads, NEW c \in Calls, Finish(t, c) PROVE Service!Next
    <2>1. StatusOf(c) \in {"ok", "error", "500"} /\ (StatusOf(c) = "ok" => handled[c] # "none")
      BY <1>7 DEF StatusOf, HandledDiscipline
    <2> QED
      BY <1>5, <1>7, <2>1 DEF Finish
  <1>9. ASSUME NEW t \in Threads, NEW c \in Calls, Prepare(t, c)
        PROVE  Service!Next \/ UNCHANGED <<Stage, Outcome, Once>>
    <2>1. CASE phase' = [phase EXCEPT ![c] = "built"] /\ UNCHANGED status
      BY <1>9, <2>1 DEF Prepare, Stage, Outcome, Once
    <2>2. CASE Answer(c, "500")
      BY <1>5, <1>9, <2>2 DEF Prepare
    <2> QED
      BY <1>9, <2>1, <2>2 DEF Prepare
  <1>10. ASSUME NEW t \in Threads, NEW c \in Calls, Invoke(t, c)
         PROVE  UNCHANGED <<Stage, Outcome, Once>>
    BY <1>10 DEF Invoke, Stage, Outcome, Once
  <1>11. CASE UNCHANGED <<phase, status, handled>>
    BY <1>11 DEF Stage, Outcome, Once
  <1> QED
    BY <1>1, <1>3, <1>4, <1>6, <1>7, <1>9, <1>10, <1>11
       DEF Next, Work, ExecutorSend, Lose, Dispatch, callVars, vars

\* Through threads, executors, self-calls and broken exchanges, the relay is a
\* service that answers each call once and never claims a success it had not.
THEOREM Implementation == Spec => ImplementsService
  <1>1. Init => Service!Init
    <2> SUFFICES ASSUME Init PROVE Service!Init
      OBVIOUS
    <2>1. \A c \in Calls : phase[c] = "idle" /\ status[c] = "none" /\ handled[c] = "none"
      BY DEF Init
    <2>2. [c \in Calls |-> IF phase[c] \in Resting THEN phase[c] ELSE "open"]
              = [c \in Calls |-> "idle"]
      BY <2>1 DEF Resting
    <2>3. [c \in Calls |-> IF status[c] \in {"none", "ok"} THEN status[c] ELSE "other"]
              = [c \in Calls |-> "none"]
      BY <2>1
    <2>4. [c \in Calls |-> handled[c] # "none"] = [c \in Calls |-> FALSE]
      BY <2>1, Zenon
    <2> QED
      BY <2>2, <2>3, <2>4 DEF Service!Init
  <1> QED
    BY <1>1, TypeInit, TypeStep, DisciplineInit, DisciplineStep, HandledInit, HandledStep,
       ServiceStep, PTL DEF Spec, ImplementsService, Service!Spec
-----------------------------------------------------------------------------
(***************************************************************************)
(* Why calls are answered (InsideCallsAnswered, without fairness)          *)
(*                                                                         *)
(* Every step but a tester's brings one call nearer to its end, so that a  *)
(* call takes a bounded number of them; and in a pool larger than the      *)
(* number of connections there is always such a step to take for a call    *)
(* that depends on nobody outside the server.                              *)
(***************************************************************************)
PhaseLeft(p) == CASE p = "queued" -> 13 [] p = "built" -> 12 [] p = "waiting" -> 1 [] OTHER -> 0
ExchangeLeft(e) == CASE e = "submitted" -> 8 [] e = "sent" -> 5 [] e \in {"ok", "error"} -> 1 [] OTHER -> 0
Served(j) == \E t \in Threads : serving[t] = j
JobLeft(j) == IF j \in pending THEN 2 ELSE IF Served(j) THEN 1 ELSE 0

\* The steps that call c can still take, at most.
Left(c) == PhaseLeft(phase[c]) + ExchangeLeft(exchange[c]) + JobLeft(Relay(c)) + JobLeft(Client(c))

Numbers == \A c \in Calls : Left(c) \in Nat
Lowers(c) == Left(c)' < Left(c) /\ \A d \in Calls \ {c} : Left(d)' = Left(d)

LEMMA Weights ==
    /\ PhaseLeft("queued") = 13 /\ PhaseLeft("built") = 12 /\ PhaseLeft("waiting") = 1
    /\ PhaseLeft("answered") = 0 /\ PhaseLeft("idle") = 0
    /\ ExchangeLeft("submitted") = 8 /\ ExchangeLeft("sent") = 5 /\ ExchangeLeft("ok") = 1
    /\ ExchangeLeft("error") = 1 /\ ExchangeLeft("lost") = 0 /\ ExchangeLeft("none") = 0
  BY DEF PhaseLeft, ExchangeLeft

LEMMA LeftTypes ==
    /\ \A p : PhaseLeft(p) \in Nat
    /\ \A e : ExchangeLeft(e) \in Nat
    /\ \A j : JobLeft(j) \in 0..2 /\ JobLeft(j)' \in 0..2
  <1>1. \A p : PhaseLeft(p) \in {13, 12, 1, 0}
    BY DEF PhaseLeft
  <1>2. \A e : ExchangeLeft(e) \in {8, 5, 1, 0}
    BY DEF ExchangeLeft
  <1>3. \A j : JobLeft(j) \in {0, 1, 2} /\ JobLeft(j)' \in {0, 1, 2}
    BY DEF JobLeft
  <1> QED
    BY <1>1, <1>2, <1>3

\* A call whose place is the same has as much left.
LEMMA LeftKept ==
    ASSUME NEW d \in Calls, phase'[d] = phase[d], exchange'[d] = exchange[d],
           JobLeft(Relay(d))' = JobLeft(Relay(d)), JobLeft(Client(d))' = JobLeft(Client(d))
    PROVE  Left(d)' = Left(d)
  BY DEF Left

LEMMA LeftLower ==
    ASSUME NEW c \in Calls,
           PhaseLeft(phase'[c]) + ExchangeLeft(exchange'[c]) + JobLeft(Relay(c))' + JobLeft(Client(c))'
             < PhaseLeft(phase[c]) + ExchangeLeft(exchange[c]) + JobLeft(Relay(c)) + JobLeft(Client(c)),
           \A d \in Calls \ {c} :
              /\ phase'[d] = phase[d] /\ exchange'[d] = exchange[d]
              /\ JobLeft(Relay(d))' = JobLeft(Relay(d)) /\ JobLeft(Client(d))' = JobLeft(Client(d))
    PROVE  Lowers(c)
  <1>1. Left(c)' < Left(c)
    BY DEF Left
  <1> QED
    BY <1>1, LeftKept DEF Lowers

LEMMA JobsSame ==
    ASSUME UNCHANGED <<pending, serving>> PROVE \A j : JobLeft(j)' = JobLeft(j)
  BY DEF JobLeft, Served

\* A thread that is done takes away its own job.
LEMMA JobsReleased ==
    ASSUME TypeOK, JobsDisjoint, NEW t \in Threads, NEW i \in Jobs, serving[t] = i, Release(t),
           UNCHANGED pending
    PROVE  /\ JobLeft(i)' = 0 /\ JobLeft(i) = 1
           /\ \A j \in Jobs \ {i} : JobLeft(j)' = JobLeft(j)
  <1>1. \A u \in Threads : serving'[u] = IF u = t THEN Free ELSE serving[u]
    BY DEF Release, TypeOK
  <1>2. i \notin pending /\ i # Free /\ \A u \in Threads : serving[u] = i => u = t
    BY JobShape DEF JobsDisjoint
  <1>3. Served(i) /\ ~Served(i)'
    BY <1>1, <1>2 DEF Served
  <1>4. ASSUME NEW j \in Jobs \ {i} PROVE Served(j)' <=> Served(j)
    BY <1>1, <1>4, JobShape DEF Served
  <1> QED
    BY <1>2, <1>3, <1>4 DEF JobLeft

LEMMA JobsSent ==
    ASSUME NEW c \in Calls, Send(c), UNCHANGED serving
    PROVE  \A j \in Jobs \ {Client(c)} : JobLeft(j)' = JobLeft(j)
  <1>1. \A j \in Jobs \ {Client(c)} : j \in pending' <=> j \in pending
    BY DEF Send
  <1>2. \A j : Served(j)' <=> Served(j)
    BY DEF Served
  <1> QED
    BY <1>1, <1>2 DEF JobLeft

LEMMA DispatchLowers ==
    ASSUME TypeOK, NEW t \in Threads, NEW j \in Jobs, Dispatch(t, j)
    PROVE  \E c \in Calls : Lowers(c)
  <1>1. PICK c \in Calls : j \in {Relay(c), Client(c)}
    BY JobShape DEF Jobs
  <1>2. /\ UNCHANGED <<phase, exchange>> /\ serving[t] = Free /\ j \in pending
        /\ pending' = pending \ {j} /\ serving' = [serving EXCEPT ![t] = j]
    BY DEF Dispatch, callVars
  <1>3. \A u \in Threads : serving'[u] = IF u = t THEN j ELSE serving[u]
    BY <1>2 DEF TypeOK
  <1>4. JobLeft(j) = 2 /\ JobLeft(j)' = 1
    BY <1>2, <1>3 DEF JobLeft, Served
  <1>5. ASSUME NEW k \in Jobs \ {j} PROVE JobLeft(k)' = JobLeft(k)
    <2>1. Served(k)' <=> Served(k)
      BY <1>2, <1>3, <1>5, JobShape DEF Served
    <2> QED
      BY <1>2, <2>1 DEF JobLeft
  <1>6. /\ PhaseLeft(phase'[c]) = PhaseLeft(phase[c]) /\ PhaseLeft(phase[c]) \in Nat
        /\ ExchangeLeft(exchange'[c]) = ExchangeLeft(exchange[c]) /\ ExchangeLeft(exchange[c]) \in Nat
    BY <1>2, LeftTypes
  <1>7. \/ JobLeft(Relay(c))' = 1 /\ JobLeft(Relay(c)) = 2 /\ JobLeft(Client(c))' = JobLeft(Client(c))
        \/ JobLeft(Client(c))' = 1 /\ JobLeft(Client(c)) = 2 /\ JobLeft(Relay(c))' = JobLeft(Relay(c))
    BY <1>1, <1>4, <1>5, JobShape
  <1>8. /\ JobLeft(Relay(c)) \in 0..2 /\ JobLeft(Client(c)) \in 0..2
    BY LeftTypes
  <1>9. PhaseLeft(phase'[c]) + ExchangeLeft(exchange'[c]) + JobLeft(Relay(c))' + JobLeft(Client(c))'
          < PhaseLeft(phase[c]) + ExchangeLeft(exchange[c]) + JobLeft(Relay(c)) + JobLeft(Client(c))
    BY ONLY <1>6, <1>7, <1>8
  <1>10. \A d \in Calls \ {c} :
              /\ phase'[d] = phase[d] /\ exchange'[d] = exchange[d]
              /\ JobLeft(Relay(d))' = JobLeft(Relay(d)) /\ JobLeft(Client(d))' = JobLeft(Client(d))
    BY <1>1, <1>2, <1>5, JobShape
  <1> QED
    BY <1>9, <1>10, LeftLower

\* A step of call c that lowers its phase or its exchange by more than it adds.
LEMMA StepLowers ==
    ASSUME NEW c \in Calls,
           \A d \in Calls \ {c} : phase'[d] = phase[d] /\ exchange'[d] = exchange[d],
           \A j \in Jobs \ {Relay(c), Client(c)} : JobLeft(j)' = JobLeft(j),
           JobLeft(Relay(c))' <= JobLeft(Relay(c)),
           \/ /\ JobLeft(Client(c))' <= JobLeft(Client(c))
              /\ PhaseLeft(phase'[c]) + ExchangeLeft(exchange'[c])
                   < PhaseLeft(phase[c]) + ExchangeLeft(exchange[c])
           \/ PhaseLeft(phase'[c]) + ExchangeLeft(exchange'[c]) + 3
                <= PhaseLeft(phase[c]) + ExchangeLeft(exchange[c])
    PROVE  Lowers(c)
  <1>1. /\ JobLeft(Relay(c)) \in 0..2 /\ JobLeft(Client(c)) \in 0..2
        /\ JobLeft(Relay(c))' \in 0..2 /\ JobLeft(Client(c))' \in 0..2
        /\ PhaseLeft(phase'[c]) \in Nat /\ ExchangeLeft(exchange'[c]) \in Nat
        /\ PhaseLeft(phase[c]) \in Nat /\ ExchangeLeft(exchange[c]) \in Nat
    BY LeftTypes
  <1>2. PhaseLeft(phase'[c]) + ExchangeLeft(exchange'[c]) + JobLeft(Relay(c))' + JobLeft(Client(c))'
          < PhaseLeft(phase[c]) + ExchangeLeft(exchange[c]) + JobLeft(Relay(c)) + JobLeft(Client(c))
    BY <1>1
  <1>3. \A d \in Calls \ {c} :
              /\ phase'[d] = phase[d] /\ exchange'[d] = exchange[d]
              /\ JobLeft(Relay(d))' = JobLeft(Relay(d)) /\ JobLeft(Client(d))' = JobLeft(Client(d))
    BY JobShape
  <1> QED
    BY <1>2, <1>3, LeftLower

LEMMA SendLowers ==
    ASSUME TypeOK, NEW c \in Calls, Send(c), UNCHANGED serving,
           \/ phase[c] = "built" /\ exchange[c] = "none" /\ phase' = [phase EXCEPT ![c] = "waiting"]
           \/ exchange[c] = "submitted" /\ UNCHANGED phase
    PROVE  Lowers(c)
  <1>1. /\ exchange'[c] \in {"sent", "lost"}
        /\ \A d \in Calls \ {c} : phase'[d] = phase[d] /\ exchange'[d] = exchange[d]
    BY DEF Send, TypeOK
  <1>2. \/ phase[c] = "built" /\ exchange[c] = "none" /\ phase'[c] = "waiting"
        \/ exchange[c] = "submitted" /\ phase'[c] = phase[c]
    BY DEF TypeOK
  <1>3. \A j \in Jobs \ {Client(c)} : JobLeft(j)' = JobLeft(j)
    BY JobsSent
  <1>4. JobLeft(Relay(c))' = JobLeft(Relay(c))
    BY <1>3, JobShape
  <1>5. PhaseLeft(phase'[c]) + ExchangeLeft(exchange'[c]) + 3
          <= PhaseLeft(phase[c]) + ExchangeLeft(exchange[c])
    BY <1>1, <1>2, Weights, LeftTypes
  <1>6. JobLeft(Relay(c))' <= JobLeft(Relay(c))
    BY <1>4, LeftTypes
  <1> QED
    BY <1>1, <1>3, <1>5, <1>6, StepLowers

\* Steps that leave the container's queue and threads as they are.
LEMMA ElsewhereLowers ==
    ASSUME TypeOK, NEW c \in Calls, UNCHANGED <<pending, serving>>,
           \A d \in Calls \ {c} : phase'[d] = phase[d] /\ exchange'[d] = exchange[d],
           PhaseLeft(phase'[c]) + ExchangeLeft(exchange'[c])
             < PhaseLeft(phase[c]) + ExchangeLeft(exchange[c])
    PROVE  Lowers(c)
  <1>1. \A j : JobLeft(j)' = JobLeft(j) /\ JobLeft(j) \in 0..2
    BY JobsSame, LeftTypes
  <1>2. JobLeft(Relay(c))' <= JobLeft(Relay(c)) /\ JobLeft(Client(c))' <= JobLeft(Client(c))
    BY <1>1
  <1> QED
    BY <1>1, <1>2, StepLowers

\* Steps that end a relay's work.
LEMMA AnswerLowers ==
    ASSUME TypeOK, JobDiscipline, NEW c \in Calls, NEW t \in Threads, NEW s,
           serving[t] = Relay(c), phase[c] \in {"queued", "waiting"}, Answer(c, s), Release(t),
           UNCHANGED <<exchange, pending>>
    PROVE  Lowers(c)
  <1>1. /\ phase'[c] = "answered" /\ exchange'[c] = exchange[c]
        /\ \A d \in Calls \ {c} : phase'[d] = phase[d] /\ exchange'[d] = exchange[d]
    BY DEF Answer, TypeOK
  <1>2. /\ JobLeft(Relay(c))' = 0 /\ JobLeft(Relay(c)) = 1
        /\ \A j \in Jobs \ {Relay(c)} : JobLeft(j)' = JobLeft(j)
    BY JobsReleased, JobShape DEF JobDiscipline
  <1>3. JobLeft(Client(c))' <= JobLeft(Client(c))
    <2>1. JobLeft(Client(c))' = JobLeft(Client(c))
      BY <1>2, JobShape
    <2> QED
      BY <2>1, LeftTypes
  <1>4. PhaseLeft(phase'[c]) + ExchangeLeft(exchange'[c])
          < PhaseLeft(phase[c]) + ExchangeLeft(exchange[c])
    BY <1>1, Weights, LeftTypes
  <1> QED
    BY <1>1, <1>2, <1>3, <1>4, StepLowers

LEMMA ClientHandlesLowers ==
    ASSUME TypeOK, JobDiscipline, NEW c \in Calls, NEW t \in Threads, ClientHandles(t, c)
    PROVE  Lowers(c)
  <1>1. /\ serving[t] = Client(c) /\ Release(t) /\ UNCHANGED <<pending, phase>>
        /\ exchange'[c] = IF exchange[c] = "sent" THEN "ok" ELSE exchange[c]
        /\ \A d \in Calls \ {c} : phase'[d] = phase[d] /\ exchange'[d] = exchange[d]
    BY DEF ClientHandles, TypeOK
  <1>2. /\ JobLeft(Client(c))' = 0 /\ JobLeft(Client(c)) = 1
        /\ \A j \in Jobs \ {Client(c)} : JobLeft(j)' = JobLeft(j)
    BY <1>1, JobsReleased, JobShape DEF JobDiscipline
  <1>3. JobLeft(Relay(c))' = JobLeft(Relay(c)) /\ JobLeft(Relay(c)) \in 0..2
    BY <1>2, JobShape, LeftTypes
  <1>4. /\ ExchangeLeft(exchange'[c]) <= ExchangeLeft(exchange[c])
        /\ ExchangeLeft(exchange'[c]) \in Nat /\ ExchangeLeft(exchange[c]) \in Nat
        /\ PhaseLeft(phase'[c]) = PhaseLeft(phase[c]) /\ PhaseLeft(phase[c]) \in Nat
    BY <1>1, Weights, LeftTypes
  <1>5. PhaseLeft(phase'[c]) + ExchangeLeft(exchange'[c]) + JobLeft(Relay(c))' + JobLeft(Client(c))'
          < PhaseLeft(phase[c]) + ExchangeLeft(exchange[c]) + JobLeft(Relay(c)) + JobLeft(Client(c))
    BY ONLY <1>2, <1>3, <1>4
  <1>6. \A d \in Calls \ {c} :
              /\ phase'[d] = phase[d] /\ exchange'[d] = exchange[d]
              /\ JobLeft(Relay(d))' = JobLeft(Relay(d)) /\ JobLeft(Client(d))' = JobLeft(Client(d))
    BY <1>1, <1>2, JobShape
  <1> QED
    BY <1>5, <1>6, LeftLower

LEMMA WorkLowers ==
    ASSUME TypeOK, JobDiscipline, NEW c \in Calls, NEW t \in Threads,
           ServeShort(t, c) \/ Prepare(t, c) \/ Invoke(t, c) \/ Finish(t, c)
    PROVE  Lowers(c)
  <1>1. CASE ServeShort(t, c)
    BY <1>1, AnswerLowers DEF ServeShort
  <1>2. CASE Prepare(t, c)
    <2>1. CASE phase' = [phase EXCEPT ![c] = "built"] /\ UNCHANGED serving
      <3>1. /\ phase[c] = "queued" /\ phase'[c] = "built" /\ UNCHANGED <<exchange, pending, serving>>
            /\ \A d \in Calls \ {c} : phase'[d] = phase[d]
        BY <1>2, <2>1 DEF Prepare, TypeOK
      <3>2. PhaseLeft(phase'[c]) + ExchangeLeft(exchange'[c])
              < PhaseLeft(phase[c]) + ExchangeLeft(exchange[c])
        BY <3>1, Weights, LeftTypes
      <3> QED
        BY <3>1, <3>2, ElsewhereLowers
    <2>2. CASE Answer(c, "500") /\ Release(t)
      BY <1>2, <2>2, AnswerLowers DEF Prepare
    <2> QED
      BY <1>2, <2>1, <2>2 DEF Prepare
  <1>3. CASE Invoke(t, c)
    <2>1. /\ phase[c] = "built" /\ phase' = [phase EXCEPT ![c] = "waiting"] /\ exchange[c] = "none"
          /\ UNCHANGED serving
      BY <1>3 DEF Invoke, JobDiscipline, JobsFollowPhase
    <2>2. CASE Send(c)
      BY <2>1, <2>2, SendLowers
    <2>3. CASE exchange' = [exchange EXCEPT ![c] = "submitted"] /\ UNCHANGED pending
      <3>1. /\ phase'[c] = "waiting" /\ exchange'[c] = "submitted"
            /\ \A d \in Calls \ {c} : phase'[d] = phase[d] /\ exchange'[d] = exchange[d]
        BY <2>1, <2>3 DEF TypeOK
      <3>2. PhaseLeft(phase'[c]) + ExchangeLeft(exchange'[c])
              < PhaseLeft(phase[c]) + ExchangeLeft(exchange[c])
        BY <2>1, <3>1, Weights
      <3> QED
        BY <2>1, <2>3, <3>1, <3>2, ElsewhereLowers
    <2> QED
      BY <1>3, <2>2, <2>3 DEF Invoke
  <1>4. CASE Finish(t, c)
    BY <1>4, AnswerLowers DEF Finish
  <1> QED
    BY <1>1, <1>2, <1>3, <1>4

LEMMA OutsideLowers ==
    ASSUME TypeOK, NEW c \in Calls, ExecutorSend(c) \/ RemoteHandles(c) \/ Lose(c)
    PROVE  Lowers(c)
  <1>1. CASE ExecutorSend(c)
    BY <1>1, SendLowers DEF ExecutorSend
  <1>2. CASE RemoteHandles(c) \/ Lose(c)
    <2>1. /\ UNCHANGED <<phase, pending, serving>>
          /\ \A d \in Calls \ {c} : exchange'[d] = exchange[d]
          /\ \/ exchange[c] = "sent" /\ exchange'[c] \in {"ok", "error", "lost"}
             \/ exchange[c] \in {"ok", "error"} /\ exchange'[c] = "lost"
      BY <1>2 DEF RemoteHandles, Lose, TypeOK
    <2>2. PhaseLeft(phase'[c]) + ExchangeLeft(exchange'[c])
            < PhaseLeft(phase[c]) + ExchangeLeft(exchange[c])
      BY <2>1, Weights, LeftTypes
    <2> QED
      BY <2>1, <2>2, ElsewhereLowers
  <1> QED
    BY <1>1, <1>2

Onward == (\E c \in Calls : Submit(c)) \/ (\E c \in Calls : Lowers(c))

\* For any number of threads, calls and losses, every step but a new call of a
\* tester leaves one call less to do and the others as much as they had: with
\* finitely many connections the server and its clients do not go on for ever
\* without being called.  (the queue, invoke, submit and get, finally)
THEOREM CallsRunOut == Spec => [][Numbers /\ Onward]_vars
  <1>1. Numbers
    BY LeftTypes DEF Numbers, Left
  <1>2. TypeOK /\ JobDiscipline /\ [Next]_vars => [Numbers /\ Onward]_vars
    <2> SUFFICES ASSUME TypeOK, JobDiscipline, Next PROVE Onward
      BY <1>1
    <2>1. ASSUME NEW t \in Threads, Work(t) PROVE Onward
      BY <2>1, WorkLowers, ClientHandlesLowers DEF Work, Onward
    <2>2. ASSUME NEW t \in Threads, NEW j \in Jobs, Dispatch(t, j) PROVE Onward
      BY <2>2, DispatchLowers DEF Onward
    <2> QED
      BY <2>1, <2>2, OutsideLowers DEF Next, Onward
  <1> QED
    BY <1>2, TypeInit, TypeStep, DisciplineInit, DisciplineStep, PTL DEF Spec

\* A job that is somewhere in the container.
Present(j) == j \in pending \/ Served(j)

\* What has been begun is somewhere: the converse of JobsFollowPhase.
NothingForgotten ==
    \A c \in Calls :
        /\ phase[c] = "queued" => Present(Relay(c))
        /\ phase[c] \in {"built", "waiting"} => Served(Relay(c)) /\ call[c].bank # "short"
        /\ phase[c] = "waiting" => exchange[c] # "none"
        /\ (exchange[c] = "sent" /\ Target(call[c]) = "bundled") => Present(Client(c))

LEMMA PresentKept ==
    ASSUME UNCHANGED <<pending, serving>>
    PROVE  \A j : (Present(j)' <=> Present(j)) /\ (Served(j)' <=> Served(j))
  BY DEF Present, Served

LEMMA PresentReleased ==
    ASSUME TypeOK, NEW t \in Threads, NEW i \in Jobs, serving[t] = i, Release(t), UNCHANGED pending
    PROVE  \A j \in Jobs \ {i} : (Present(j) => Present(j)') /\ (Served(j) => Served(j)')
  <1>1. \A u \in Threads : serving'[u] = IF u = t THEN Free ELSE serving[u]
    BY DEF Release, TypeOK
  <1> QED
    BY <1>1 DEF Present, Served

LEMMA ForgottenInit == Init => NothingForgotten
  BY DEF Init, NothingForgotten

LEMMA ForgottenSend ==
    ASSUME TypeOK, NothingForgotten, NEW c \in Calls, Send(c), UNCHANGED <<call, serving>>,
           \/ phase[c] = "built" /\ phase' = [phase EXCEPT ![c] = "waiting"]
           \/ UNCHANGED phase
    PROVE  NothingForgotten'
  <1>1. /\ exchange'[c] \in {"sent", "lost"}
        /\ \A d \in Calls \ {c} : phase'[d] = phase[d] /\ exchange'[d] = exchange[d]
    BY DEF Send, TypeOK
  <1>2. \A j : (Present(j) => Present(j)') /\ (Served(j)' <=> Served(j))
    BY DEF Send, Present, Served
  <1>3. Target(call[c]) = "bundled" => Present(Client(c))'
    BY DEF Send, Present
  <1>4. \/ phase[c] = "built" /\ phase'[c] = "waiting"
        \/ phase'[c] = phase[c]
    BY DEF TypeOK
  <1>5. ASSUME NEW d \in Calls \ {c}
        PROVE  /\ phase'[d] = "queued" => Present(Relay(d))'
               /\ phase'[d] \in {"built", "waiting"} => Served(Relay(d))' /\ call'[d].bank # "short"
               /\ phase'[d] = "waiting" => exchange'[d] # "none"
               /\ (exchange'[d] = "sent" /\ Target(call'[d]) = "bundled") => Present(Client(d))'
    BY <1>1, <1>2 DEF NothingForgotten
  <1>6. /\ phase'[c] = "queued" => Present(Relay(c))'
        /\ phase'[c] \in {"built", "waiting"} => Served(Relay(c))' /\ call'[c].bank # "short"
        /\ phase'[c] = "waiting" => exchange'[c] # "none"
        /\ (exchange'[c] = "sent" /\ Target(call'[c]) = "bundled") => Present(Client(c))'
    BY <1>1, <1>2, <1>3, <1>4 DEF NothingForgotten
  <1> QED
    BY <1>5, <1>6 DEF NothingForgotten

LEMMA ForgottenStep ==
    TypeOK /\ JobDiscipline /\ NothingForgotten /\ [Next]_vars => NothingForgotten'
  <1> SUFFICES ASSUME TypeOK, JobDiscipline, NothingForgotten, [Next]_vars PROVE NothingForgotten'
    OBVIOUS
  <1>1. ASSUME NEW c \in Calls, Submit(c) PROVE NothingForgotten'
    <2>1. \A j : (Present(j) => Present(j)') /\ (Served(j)' <=> Served(j))
      BY <1>1 DEF Submit, Present, Served
    <2>2. Present(Relay(c))'
      BY <1>1 DEF Submit, Present
    <2>3. /\ phase'[c] = "queued" /\ exchange'[c] = "none"
          /\ \A d \in Calls \ {c} : /\ phase'[d] = phase[d] /\ exchange'[d] = exchange[d]
                                    /\ call'[d] = call[d]
      BY <1>1 DEF Submit, TypeOK
    <2> QED
      BY <2>1, <2>2, <2>3 DEF NothingForgotten
  <1>2. ASSUME NEW c \in Calls, ExecutorSend(c) PROVE NothingForgotten'
    BY <1>2, ForgottenSend DEF ExecutorSend
  <1>3. ASSUME NEW c \in Calls, RemoteHandles(c) \/ Lose(c) PROVE NothingForgotten'
    <2>1. /\ UNCHANGED <<call, phase, pending, serving>> /\ exchange'[c] \in Finished
          /\ \A d \in Calls \ {c} : exchange'[d] = exchange[d]
      BY <1>3 DEF RemoteHandles, Lose, TypeOK, Finished
    <2> QED
      BY <2>1, PresentKept DEF NothingForgotten, Finished
  <1>4. ASSUME NEW t \in Threads, NEW j \in Jobs, Dispatch(t, j) PROVE NothingForgotten'
    <2>1. \A u \in Threads : serving'[u] = IF u = t THEN j ELSE serving[u]
      BY <1>4 DEF Dispatch, TypeOK
    <2>2. serving[t] = Free /\ pending' = pending \ {j} /\ UNCHANGED <<call, phase, exchange>>
      BY <1>4 DEF Dispatch, callVars
    <2>3. \A i \in Jobs : (Present(i) => Present(i)') /\ (Served(i) => Served(i)')
      BY <2>1, <2>2, JobShape DEF Present, Served
    <2> QED
      BY <2>2, <2>3, JobShape DEF NothingForgotten
  <1>5. ASSUME NEW t \in Threads, NEW c \in Calls, NEW s, serving[t] = Relay(c), Answer(c, s),
               Release(t), UNCHANGED <<call, exchange, pending>>
        PROVE  NothingForgotten'
    <2>1. \A j \in Jobs \ {Relay(c)} : (Present(j) => Present(j)') /\ (Served(j) => Served(j)')
      BY <1>5, PresentReleased, JobShape
    <2>2. phase'[c] = "answered" /\ \A d \in Calls \ {c} : phase'[d] = phase[d]
      BY <1>5 DEF Answer, TypeOK
    <2> QED
      BY <1>5, <2>1, <2>2, JobShape DEF NothingForgotten
  <1>6. ASSUME NEW t \in Threads, NEW c \in Calls, ServeShort(t, c) \/ Finish(t, c)
        PROVE  NothingForgotten'
    BY <1>5, <1>6 DEF ServeShort, Finish
  <1>7. ASSUME NEW t \in Threads, NEW c \in Calls, Prepare(t, c) PROVE NothingForgotten'
    <2>1. CASE phase' = [phase EXCEPT ![c] = "built"] /\ UNCHANGED serving
      <3>1. /\ phase'[c] = "built" /\ phase[c] = "queued" /\ call[c].bank # "short"
            /\ UNCHANGED <<call, exchange, pending, serving>>
            /\ \A d \in Calls \ {c} : phase'[d] = phase[d]
        BY <1>7, <2>1 DEF Prepare, TypeOK
      <3>2. Served(Relay(c))'
        BY <1>7, <2>1 DEF Prepare, Served
      <3> QED
        BY <3>1, <3>2, PresentKept DEF NothingForgotten
    <2>2. CASE Answer(c, "500") /\ Release(t)
      BY <1>5, <1>7, <2>2 DEF Prepare
    <2> QED
      BY <1>7, <2>1, <2>2 DEF Prepare
  <1>8. ASSUME NEW t \in Threads, NEW c \in Calls, Invoke(t, c) PROVE NothingForgotten'
    <2>1. /\ phase[c] = "built" /\ phase' = [phase EXCEPT ![c] = "waiting"]
          /\ UNCHANGED <<call, serving>>
      BY <1>8 DEF Invoke
    <2>2. CASE Send(c)
      BY <2>1, <2>2, ForgottenSend
    <2>3. CASE exchange' = [exchange EXCEPT ![c] = "submitted"] /\ UNCHANGED pending
      <3>1. /\ phase'[c] = "waiting" /\ exchange'[c] = "submitted"
            /\ \A d \in Calls \ {c} : phase'[d] = phase[d] /\ exchange'[d] = exchange[d]
        BY <2>1, <2>3 DEF TypeOK
      <3> QED
        BY <2>1, <2>3, <3>1, PresentKept DEF NothingForgotten
    <2> QED
      BY <1>8, <2>2, <2>3 DEF Invoke
  <1>9. ASSUME NEW t \in Threads, NEW c \in Calls, ClientHandles(t, c) PROVE NothingForgotten'
    <2>1. /\ UNCHANGED <<call, phase>> /\ exchange'[c] # "sent"
          /\ exchange'[c] = "none" => exchange[c] = "none"
          /\ \A d \in Calls \ {c} : exchange'[d] = exchange[d]
      BY <1>9 DEF ClientHandles, TypeOK
    <2>2. \A j \in Jobs \ {Client(c)} : (Present(j) => Present(j)') /\ (Served(j) => Served(j)')
      BY <1>9, PresentReleased, JobShape DEF ClientHandles
    <2> QED
      BY <2>1, <2>2, JobShape DEF NothingForgotten
  <1>10. CASE UNCHANGED vars
    BY <1>10, PresentKept DEF vars, callVars, NothingForgotten
  <1> QED
    BY <1>1, <1>2, <1>3, <1>4, <1>6, <1>7, <1>8, <1>9, <1>10 DEF Next, Work

\* The guards of a thread's steps for call c, but for which of them it is.
CanWork(t, c) ==
    \/ serving[t] = Relay(c) /\ phase[c] \in {"queued", "built"}
    \/ serving[t] = Relay(c) /\ phase[c] = "waiting" /\ exchange[c] \in Finished
    \/ serving[t] = Client(c)

\* A thread that is free, or can go on with what it serves.
Available == \E t \in Threads : serving[t] = Free \/ \E d \in Calls : CanWork(t, d)

\* Calls that depend on nobody outside the server.
Inside(c) == call[c].bank = "short" \/ Target(call[c]) = "bundled"

\* Something can be done for every call inside the server that is not answered: a
\* thread goes on with it, the executor sends it, or its job is in the queue and
\* some thread is free or can go on.
NeverStuck ==
    \A c \in Calls : (phase[c] \notin Resting /\ Inside(c)) =>
        \/ \E t \in Threads : CanWork(t, c)
        \/ exchange[c] = "submitted"
        \/ (Relay(c) \in pending \/ Client(c) \in pending) /\ Available

LEMMA ThreadAvailable ==
    ASSUME TypeOK, JobDiscipline, NEW t \in Threads, ~Blocked(t)
    PROVE  Available
  <1>1. serving[t] \in Jobs \cup {Free}
    BY DEF TypeOK
  <1>2. ASSUME NEW d \in Calls, serving[t] = Relay(d) PROVE CanWork(t, d)
    <2>1. phase[d] \notin Resting
      BY <1>2 DEF JobDiscipline, JobsFollowPhase, Nowhere
    <2>2. phase[d] \in {"queued", "built", "waiting"}
      BY <2>1 DEF TypeOK
    <2> QED
      BY <1>2, <2>2 DEF Blocked, CanWork
  <1>3. CASE serving[t] \in Jobs
    <2>1. PICK d \in Calls : serving[t] \in {Relay(d), Client(d)}
      BY <1>3, JobShape DEF Jobs
    <2>2. CanWork(t, d)
      BY <1>2, <2>1 DEF CanWork
    <2> QED
      BY <2>2 DEF Available
  <1> QED
    BY <1>1, <1>3 DEF Available

LEMMA Unstuck ==
    TypeOK /\ JobDiscipline /\ NothingForgotten /\ (\E t \in Threads : ~Blocked(t)) => NeverStuck
  <1> SUFFICES ASSUME TypeOK, JobDiscipline, NothingForgotten, Available,
                      NEW c \in Calls, phase[c] \notin Resting, Inside(c),
                      ~\E t \in Threads : CanWork(t, c), exchange[c] # "submitted"
               PROVE  Relay(c) \in pending \/ Client(c) \in pending
    BY ThreadAvailable DEF NeverStuck
  <1>1. phase[c] \in {"queued", "built", "waiting"}
    BY DEF TypeOK
  <1>2. CASE phase[c] \in {"queued", "built"}
    BY <1>2 DEF NothingForgotten, Present, Served, CanWork
  <1>3. CASE phase[c] = "waiting"
    <2>1. PICK t \in Threads : serving[t] = Relay(c)
      BY <1>3 DEF NothingForgotten, Served
    <2>2. exchange[c] \notin Finished
      BY <1>3, <2>1 DEF CanWork
    <2>3. exchange[c] = "sent"
      BY <1>3, <2>2 DEF TypeOK, NothingForgotten
    <2>4. Target(call[c]) = "bundled"
      BY <1>3 DEF NothingForgotten, Inside
    <2>5. Present(Client(c)) /\ ~Served(Client(c))
      BY <2>3, <2>4 DEF NothingForgotten, Served, CanWork
    <2> QED
      BY <2>5 DEF Present
  <1> QED
    BY <1>1, <1>2, <1>3

\* In a pool larger than the number of connections no call to the server itself is
\* ever stuck, however many relays wait for their clients; together with
\* CallsRunOut and a fair queue it is answered.
THEOREM NoDeadlock ==
    Cardinality(Calls) < Cardinality(Threads) => (Spec => []NeverStuck)
  <1> SUFFICES ASSUME Cardinality(Calls) < Cardinality(Threads) PROVE Spec => []NeverStuck
    OBVIOUS
  <1>1. SomeThreadCanServe => \E t \in Threads : ~Blocked(t)
    BY DEF SomeThreadCanServe
  <1>2. TypeOK /\ JobDiscipline /\ NothingForgotten => NeverStuck
    BY <1>1, Pigeonhole, Unstuck
  <1> QED
    BY <1>2, TypeInit, TypeStep, DisciplineInit, DisciplineStep, ForgottenInit, ForgottenStep, PTL DEF Spec
=============================================================================
