------------------------- MODULE NotificationService -------------------------
(***************************************************************************)
(* What the notify resources promise a tester: each call is answered at    *)
(* most once, and a successful answer means that the client has handled    *)
(* this very notification, once, and that this is its response.  Any other *)
(* answer promises nothing: the client may have handled the notification,  *)
(* or may still do so.                                                     *)
(*                                                                         *)
(* Module NotificationRelay is the detailed specification.                 *)
(***************************************************************************)
CONSTANT Calls          \* connections testers call through, one call at a time each

VARIABLES stage,        \* stage[c]: "idle", "open" or "answered"
          outcome,      \* outcome[c]: "none", "ok" or "other"
          handledOnce   \* handledOnce[c]: the client has handled the notification

vars == <<stage, outcome, handledOnce>>

Init == /\ stage = [c \in Calls |-> "idle"]
        /\ outcome = [c \in Calls |-> "none"]
        /\ handledOnce = [c \in Calls |-> FALSE]

Submit(c) == /\ stage[c] # "open"
             /\ stage' = [stage EXCEPT ![c] = "open"]
             /\ outcome' = [outcome EXCEPT ![c] = "none"]
             /\ handledOnce' = [handledOnce EXCEPT ![c] = FALSE]

Handle(c) == /\ stage[c] # "idle"
             /\ outcome[c] # "ok"
             /\ ~handledOnce[c]
             /\ handledOnce' = [handledOnce EXCEPT ![c] = TRUE]
             /\ UNCHANGED <<stage, outcome>>

Answer(c, result) == /\ stage[c] = "open"
                     /\ stage' = [stage EXCEPT ![c] = "answered"]
                     /\ outcome' = [outcome EXCEPT ![c] = result]
                     /\ UNCHANGED handledOnce

Succeed(c) == handledOnce[c] /\ Answer(c, "ok")
Other(c)   == Answer(c, "other")

Next == \E c \in Calls : Submit(c) \/ Handle(c) \/ Succeed(c) \/ Other(c)

Spec == Init /\ [][Next]_vars
=============================================================================
