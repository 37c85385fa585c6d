-------------------------- MODULE NotificationRelay --------------------------
(***************************************************************************)
(* The notify resources GILFranceResource.handle(endpoint, isAsync, ..)    *)
(* and UKCBCCResource.handle(endpoint, isAsync, ..), the redirect GET of   *)
(* UKCBCCResource, and ClientResource, the mock client bundled with the    *)
(* bank.                                                                   *)
(*                                                                         *)
(* A notify resource keeps its container thread while it calls the client  *)
(* named by a request header.  When that is the bundled client, the call   *)
(* comes back to the same server and needs a second thread of the same     *)
(* pool.  No timeout is set anywhere.                                      *)
(***************************************************************************)
EXTENDS Naturals, FiniteSets

CONSTANTS Calls,      \* connections testers call through, one call at a time each
          Threads,    \* the container's request threads
          Kinds,      \* the calls testers make, a subset of CallKind
          MaxLosses   \* bound on exchanges with a client that break

Banks     == {"gil", "uk", "redirect", "short"}
Endpoints == {"absent", "malformed", "bundled", "local", "remote"}

\* bank: the resource called ("short": any that calls nobody).  endpoint: what
\* header X-Mockbank-NotificationEndpoint names.  async: header X-Mockbank-Async.
CallKind == [bank : Banks, endpoint : Endpoints, async : BOOLEAN]
NoCall   == [bank |-> "none", endpoint |-> "absent", async |-> FALSE]

ASSUME KindsAssumption  == Kinds \subseteq CallKind
ASSUME FiniteAssumption == IsFiniteSet(Calls) /\ IsFiniteSet(Threads) /\ Threads # {}
ASSUME LossesAssumption == MaxLosses \in Nat

\* What a thread works on: a tester's call, or the call it makes to ClientResource.
Relay(c)  == [call |-> c, role |-> "relay"]
Client(c) == [call |-> c, role |-> "client"]
Jobs      == [call : Calls, role : {"relay", "client"}]
Free      == [call |-> "none", role |-> "none"]

VARIABLES call,       \* call[c]: the kind of the call
          phase,      \* phase[c]: how far its resource method has got
          client,     \* client[c]: the javax.ws.rs Client the method creates
          exchange,   \* exchange[c]: its HTTP exchange with the notified client
          handled,    \* handled[c]: which client has handled the notification
          status,     \* status[c]: the tester's answer: the resource's own, the
                      \* client's response ("ok", "error"), or an exception ("500")
          pending,    \* jobs in the container's queue
          serving,    \* serving[t]: the job thread t runs
          losses      \* broken exchanges so far

callVars == <<call, phase, client, exchange, handled, status>>
vars == <<call, phase, client, exchange, handled, status, pending, serving, losses>>

Resting  == {"idle", "answered"}
Finished == {"ok", "error", "lost"}

TypeOK ==
    /\ call \in [Calls -> CallKind \cup {NoCall}]
    /\ phase \in [Calls -> Resting \cup {"queued", "built", "waiting"}]
    /\ client \in [Calls -> {"none", "open", "closed"}]
    /\ exchange \in [Calls -> {"none", "submitted", "sent"} \cup Finished]
    /\ handled \in [Calls -> {"none", "bundled", "local", "remote"}]
    /\ status \in [Calls -> {"none", "own", "ok", "error", "500"}]
    /\ pending \subseteq Jobs
    /\ serving \in [Threads -> Jobs \cup {Free}]
    /\ losses \in 0..MaxLosses

Nowhere(j) == j \notin pending /\ \A t \in Threads : serving[t] # j
-----------------------------------------------------------------------------
Init ==
    /\ call = [c \in Calls |-> NoCall]
    /\ phase = [c \in Calls |-> "idle"]
    /\ client = [c \in Calls |-> "none"]
    /\ exchange = [c \in Calls |-> "none"]
    /\ handled = [c \in Calls |-> "none"]
    /\ status = [c \in Calls |-> "none"]
    /\ pending = {}
    /\ serving = [t \in Threads |-> Free]
    /\ losses = 0

\* A tester calls.  A connection is used again only when nothing of its last
\* call is left on the server.
Submit(c) ==
    /\ phase[c] \in Resting
    /\ Nowhere(Client(c))
    /\ \E k \in Kinds : call' = [call EXCEPT ![c] = k]
    /\ phase' = [phase EXCEPT ![c] = "queued"]
    /\ client' = [client EXCEPT ![c] = "none"]
    /\ exchange' = [exchange EXCEPT ![c] = "none"]
    /\ handled' = [handled EXCEPT ![c] = "none"]
    /\ status' = [status EXCEPT ![c] = "none"]
    /\ pending' = pending \cup {Relay(c)}
    /\ UNCHANGED <<serving, losses>>

\* Mutant: the job stays in the queue.
DispatchKeeps(t, j) ==
    /\ serving[t] = Free
    /\ j \in pending
    /\ serving' = [serving EXCEPT ![t] = j]
    /\ UNCHANGED <<callVars, pending, losses>>

\* A free container thread takes a job from the queue.
Dispatch(t, j) ==
    /\ serving[t] = Free
    /\ j \in pending
    /\ pending' = pending \ {j}
    /\ serving' = [serving EXCEPT ![t] = j]
    /\ UNCHANGED <<callVars, losses>>

Release(t) == serving' = [serving EXCEPT ![t] = Free]

Answer(c, s) ==
    /\ phase' = [phase EXCEPT ![c] = "answered"]
    /\ status' = [status EXCEPT ![c] = s]

\* The method of a resource that calls nobody.
ServeShort(t, c) ==
    /\ serving[t] = Relay(c)
    /\ phase[c] = "queued"
    /\ call[c].bank = "short"
    /\ Answer(c, "own")
    /\ Release(t)
    /\ UNCHANGED <<call, client, exchange, handled, pending, losses>>

\* The endpoints UrlValidator accepts: without ALLOW_LOCAL_URLS it wants a
\* host with a top-level domain, so a null header or a localhost URL fails.
UkValid == {"bundled", "remote"}

\* The UK resource replaces an invalid endpoint by its default.
Target(k) == IF k.bank \in {"uk", "redirect"} /\ k.endpoint \notin UkValid
             THEN "bundled" ELSE k.endpoint

\* What client.target(..) and request() throw for, before the try block.
TargetThrows(endpoint) == endpoint \in {"absent", "malformed"}
TargetReturns(endpoint) == endpoint # "absent"

\* The method up to its try block: a Client is created, then the target built.
Prepare(t, c) ==
    /\ serving[t] = Relay(c)
    /\ phase[c] = "queued"
    /\ call[c].bank # "short"
    /\ client' = [client EXCEPT ![c] = "open"]
    /\ \/ /\ TargetReturns(Target(call[c]))
          /\ phase' = [phase EXCEPT ![c] = "built"]
          /\ UNCHANGED <<status, serving>>
       \/ /\ TargetThrows(Target(call[c]))
          /\ Answer(c, "500")
          /\ Release(t)
    /\ UNCHANGED <<call, exchange, handled, pending, losses>>

\* The request goes out.  To the bundled client it is one more job for the
\* container; a malformed URI that got this far makes the call throw.
Send(c) ==
    /\ exchange' = [exchange EXCEPT
                      ![c] = IF Target(call[c]) = "malformed" THEN "lost" ELSE "sent"]
    /\ pending' = IF Target(call[c]) = "bundled" THEN pending \cup {Client(c)} ELSE pending

\* Mutant: the asynchronous branch falls through to the synchronous call.
InvokeTwice(t, c) ==
    /\ serving[t] = Relay(c)
    /\ phase[c] = "built"
    /\ phase' = [phase EXCEPT ![c] = "waiting"]
    /\ IF call[c].async
       THEN /\ exchange' = [exchange EXCEPT ![c] = "submitted"]
            /\ pending' = pending \cup {Client(c)}
       ELSE Send(c)
    /\ UNCHANGED <<call, client, handled, status, serving, losses>>

\* invocation.invoke(..), or invocation.submit(..) followed by get().
Invoke(t, c) ==
    /\ serving[t] = Relay(c)
    /\ phase[c] = "built"
    /\ phase' = [phase EXCEPT ![c] = "waiting"]
    /\ \/ /\ ~call[c].async
          /\ Send(c)
       \/ /\ call[c].async
          /\ exchange' = [exchange EXCEPT ![c] = "submitted"]
          /\ UNCHANGED pending
    /\ UNCHANGED <<call, client, handled, status, serving, losses>>

\* The Client's own executor thread makes the call that was submitted.
ExecutorSend(c) ==
    /\ exchange[c] = "submitted"
    /\ Send(c)
    /\ UNCHANGED <<call, phase, client, handled, status, serving, losses>>

\* ClientResource.handle answers "All OK!".  If the exchange broke, nobody reads it.
ClientHandles(t, c) ==
    /\ serving[t] = Client(c)
    /\ handled' = [handled EXCEPT ![c] = "bundled"]
    /\ exchange' = [exchange EXCEPT ![c] = IF @ = "sent" THEN "ok" ELSE @]
    /\ Release(t)
    /\ UNCHANGED <<call, phase, client, status, pending, losses>>

\* A client elsewhere answers, with a response or with an HTTP error.
RemoteHandles(c) ==
    /\ exchange[c] = "sent"
    /\ Target(call[c]) \in {"local", "remote"}
    /\ handled' = [handled EXCEPT ![c] = Target(call[c])]
    /\ \E result \in {"ok", "error"} : exchange' = [exchange EXCEPT ![c] = result]
    /\ UNCHANGED <<call, phase, client, status, pending, serving, losses>>

\* The connection breaks, or the response cannot be read.
Lose(c) ==
    /\ losses < MaxLosses
    /\ losses' = losses + 1
    /\ phase[c] = "waiting"
    /\ exchange[c] \in {"sent", "ok", "error"}
    /\ exchange' = [exchange EXCEPT ![c] = "lost"]
    /\ UNCHANGED <<call, phase, client, handled, status, pending, serving>>

\* Mutant: an exception from get() is logged, and the response taken as given.
StatusOfOptimistic(c) == IF call[c].async THEN "ok" ELSE exchange[c]

\* Mutant: whatever the call throws is caught and logged, and null returned,
\* which the container answers with 204.
StatusOfSwallowed(c) == IF exchange[c] = "ok" THEN "ok" ELSE "empty"

\* An HTTP error is a WebApplicationException, which carries the client's status
\* to the tester; from get() it arrives inside an ExecutionException.
StatusOf(c) ==
    IF exchange[c] = "ok" \/ (exchange[c] = "error" /\ ~call[c].async)
    THEN exchange[c] ELSE "500"

\* Mutant: client.close() after the call instead of in the finally block.
FinishUnguarded(t, c) ==
    /\ serving[t] = Relay(c)
    /\ phase[c] = "waiting"
    /\ exchange[c] \in Finished
    /\ client' = [client EXCEPT ![c] = IF exchange[c] = "ok" THEN "closed" ELSE @]
    /\ Answer(c, StatusOf(c))
    /\ Release(t)
    /\ UNCHANGED <<call, exchange, handled, pending, losses>>

\* Mutant: only a response ends the wait.
FinishOnResponse(t, c) ==
    /\ serving[t] = Relay(c)
    /\ phase[c] = "waiting"
    /\ exchange[c] \in {"ok", "error"}
    /\ client' = [client EXCEPT ![c] = "closed"]
    /\ Answer(c, StatusOf(c))
    /\ Release(t)
    /\ UNCHANGED <<call, exchange, handled, pending, losses>>

\* Mutant: the answer goes out while the thread is still in client.close().
FinishLingering(t, c) ==
    /\ serving[t] = Relay(c)
    /\ phase[c] = "waiting"
    /\ exchange[c] \in Finished
    /\ client' = [client EXCEPT ![c] = "closed"]
    /\ Answer(c, StatusOf(c))
    /\ UNCHANGED <<call, exchange, handled, pending, serving, losses>>

\* The call returns or throws, the finally block closes the Client.
Finish(t, c) ==
    /\ serving[t] = Relay(c)
    /\ phase[c] = "waiting"
    /\ exchange[c] \in Finished
    /\ client' = [client EXCEPT ![c] = "closed"]
    /\ Answer(c, StatusOf(c))
    /\ Release(t)
    /\ UNCHANGED <<call, exchange, handled, pending, losses>>

Work(t) == \E c \in Calls : \/ ServeShort(t, c) \/ Prepare(t, c) \/ Invoke(t, c)
                            \/ ClientHandles(t, c) \/ Finish(t, c)

Next == \/ \E c \in Calls : Submit(c) \/ ExecutorSend(c) \/ RemoteHandles(c) \/ Lose(c)
        \/ \E t \in Threads : Work(t) \/ \E j \in Jobs : Dispatch(t, j)

Spec == Init /\ [][Next]_vars

\* Threads run.  The container's queue is first come, first served: a job is not
\* passed over for ever while threads come free.  Nothing makes testers call or
\* clients elsewhere answer.
Fairness ==
    /\ \A t \in Threads : WF_vars(Work(t))
    /\ \A j \in Jobs : SF_vars(\E t \in Threads : Dispatch(t, j))
    /\ \A c \in Calls : WF_vars(ExecutorSend(c))

FairSpec == Spec /\ Fairness
-----------------------------------------------------------------------------
(***************************************************************************)
(* Properties                                                              *)
(***************************************************************************)

\* A thread that can do nothing before some client answers.
Blocked(t) == \E c \in Calls : /\ serving[t] = Relay(c)
                               /\ phase[c] = "waiting"
                               /\ exchange[c] \notin Finished

\* With more threads than connections the relays never take the whole pool:
\* a thread is left for the call to the bundled client they all wait for.
SomeThreadCanServe ==
    Cardinality(Calls) < Cardinality(Threads) => \E t \in Threads : ~Blocked(t)

\* An answered call leaves an open Client behind (its connections and its
\* executor) only where the target could not be built: the GIL resource called
\* without a usable endpoint header.
ClientReleased ==
    \A c \in Calls :
        (phase[c] = "answered" /\ client[c] = "open") =>
            call[c].bank = "gil" /\ call[c].endpoint \in {"absent", "malformed"}

\* A call is served by at most one thread, and a thread at work has taken its
\* job off the queue: no notification is sent twice.
JobsDisjoint ==
    /\ \A t \in Threads : serving[t] \notin pending
    /\ \A t, u \in Threads : serving[t] = serving[u] /\ serving[t] # Free => t = u

\* Where a call's jobs may be, by how far the call has got.
JobsFollowPhase ==
    \A c \in Calls :
        /\ phase[c] \in Resting => Nowhere(Relay(c))
        /\ phase[c] \in {"queued", "built"} => exchange[c] = "none"
        /\ exchange[c] \in {"none", "submitted"} => Nowhere(Client(c))
        /\ exchange[c] # "none" => phase[c] \in {"waiting", "answered"}

JobDiscipline == JobsDisjoint /\ JobsFollowPhase

\* A client handles a notification at most once, and what the tester hears of it
\* agrees with that; a request still on its way has been handled by nobody.
HandledDiscipline ==
    \A c \in Calls :
        /\ ~Nowhere(Client(c)) => handled[c] = "none" /\ Target(call[c]) = "bundled"
        /\ exchange[c] \in {"none", "submitted", "sent"} => handled[c] = "none"
        /\ exchange[c] \in {"ok", "error"} => handled[c] # "none"
        /\ status[c] = "ok" => handled[c] # "none" /\ phase[c] = "answered"

Service == INSTANCE NotificationService WITH
    stage <- [c \in Calls |-> IF phase[c] \in Resting THEN phase[c] ELSE "open"],
    outcome <- [c \in Calls |-> IF status[c] \in {"none", "ok"} THEN status[c]
                                ELSE "other"],
    handledOnce <- [c \in Calls |-> handled[c] # "none"]

\* The service NotificationService promises.
ImplementsService == Service!Spec

\* Every call that depends on nobody outside the server is answered.
InsideCallsAnswered ==
    \A c \in Calls :
        (phase[c] = "queued" /\ (call[c].bank = "short" \/ Target(call[c]) = "bundled"))
            ~> (phase[c] = "answered")
=============================================================================
