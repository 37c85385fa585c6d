----------------------------- MODULE LoanService -----------------------------
(***************************************************************************)
(* What a merchant relies on when it finances loans through the bank: a    *)
(* request is decided once, however often it is sent, and a loan moves on  *)
(* only along the sequence of 4CB_Examples (or, when it reuses a credit    *)
(* line, of Reuse_Creditline_Examples), one decided request at a time.     *)
(*                                                                         *)
(* Module LoanBank is the detailed specification.                          *)
(***************************************************************************)
CONSTANTS Loans,        \* loans merchants finance
          Reusing       \* the ones that draw on an existing credit line

Steps == {"application", "confirmation", "close", "charge", "refund"}
Results == {"ACCEPTED", "REJECTED", "PENDING", "PROCESSING_ERROR"}

Stages == {"new", "pending", "accepted", "rejected", "failed",
           "confirmed", "closed", "charged", "refunded"}

\* The request a loan needs next.
Starts(l) == IF l \in Reusing THEN "confirmation" ELSE "application"
NextStep(l, stage) ==
    CASE stage = "new"       -> Starts(l)
      [] stage = "accepted"  -> "confirmation"
      [] stage = "confirmed" -> "close"
      [] stage = "closed"    -> "charge"
      [] stage = "charged"   -> "refund"
      [] OTHER               -> "none"

\* Where a decided request takes it.
After(step, result) ==
    CASE step = "application" -> (CASE result = "ACCEPTED" -> "accepted"
                                    [] result = "REJECTED" -> "rejected"
                                    [] result = "PENDING"  -> "pending"
                                    [] OTHER               -> "failed")
      [] step = "confirmation" -> "confirmed"
      [] step = "close"        -> "closed"
      [] step = "charge"       -> "charged"
      [] step = "refund"       -> "refunded"

VARIABLES decision,     \* decision[l][step]: the results given for a request
          stage         \* stage[l]: how far loan l has come

vars == <<decision, stage>>

Init == /\ decision = [l \in Loans |-> [s \in Steps |-> {}]]
        /\ stage = [l \in Loans |-> "new"]

\* Only an application may be declined.
Decide(l, s) ==
    /\ UNCHANGED stage
    /\ decision[l][s] = {}
    /\ \E r \in IF s = "application" THEN Results ELSE {"ACCEPTED"} :
          decision' = [decision EXCEPT ![l][s] = {r}]

Advance(l, s) ==
    /\ s = NextStep(l, stage[l])
    /\ UNCHANGED decision
    /\ \E r \in decision[l][s] : stage' = [stage EXCEPT ![l] = After(s, r)]

\* The status notification for an application left pending.
Resolve(l) ==
    /\ UNCHANGED decision
    /\ stage[l] = "pending"
    /\ \E verdict \in {"accepted", "rejected"} : stage' = [stage EXCEPT ![l] = verdict]

Next == \E l \in Loans : Resolve(l) \/ \E s \in Steps : Decide(l, s) \/ Advance(l, s)

Spec == Init /\ [][Next]_vars
=============================================================================
