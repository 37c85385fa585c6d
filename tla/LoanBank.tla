------------------------------ MODULE LoanBank ------------------------------
(***************************************************************************)
(* GILFranceResource.handle(Request) and what it calls: the mock bank that *)
(* decides loan requests, together with the merchant it is a mock for.     *)
(*                                                                         *)
(* The bank keeps no state: a decision depends on the request alone.  The  *)
(* merchant follows the sequence of the examples, sends a request again    *)
(* when no answer comes, and hears from a tester's status notification     *)
(* (module NotificationRelay) how a pending application ended.  Requests   *)
(* and responses get lost, overtake each other, and arrive twice.          *)
(***************************************************************************)
EXTENDS Naturals, FiniteSets

CONSTANTS Loans, Reusing,
          Endings,      \* how customers' family names end, see FamilyNameEndings
          Stray,        \* requests testers send as well, in no order at all
          MaxCopies     \* bound on copies of one request in transit

FamilyNameEndings == {"AA", "DD", "other", "missing"}

ASSUME ReusingAssumption == Reusing \subseteq Loans
ASSUME EndingsAssumption == Endings \subseteq FamilyNameEndings
ASSUME CopiesAssumption  == MaxCopies \in Nat \ {0}

VARIABLES familyName,   \* familyName[l]: how the name in l's application ends
          stage,        \* stage[l]: where the merchant believes loan l to be
          copies,       \* copies[r]: copies of request r on their way to the bank
          answers,      \* responses on their way to the merchant
          given,        \* every response the bank has given
          notified      \* loans a status notification has accepted

vars == <<familyName, stage, copies, answers, given, notified>>

Steps == {"application", "confirmation", "close", "charge", "refund"}

ASSUME StrayAssumption == Stray \subseteq Steps

Contract == INSTANCE LoanService WITH
    decision <- [l \in Loans |-> [s \in Steps |->
                    {a.result : a \in {b \in given : b.request = [loan |-> l, step |-> s]}}]]

Request(l, s) == [loan |-> l, step |-> s]
HealthCheckRequest == [loan |-> "none", step |-> "healthCheck"]
Requests == [loan : Loans, step : Steps] \cup {HealthCheckRequest}

NoId == "no external loan id"
Codes == {0, 100, 200, 300}

\* Mutant: fillCommonResponse is not called.
ResponseUncorrelated(r, result, code, id) ==
    [request |-> [loan |-> "none", step |-> r.step],
     result |-> result, code |-> code, externalLoanId |-> id]

\* fillCommonResponse: a response repeats the ids of its request.
Response(r, result, code, id) ==
    [request |-> r, result |-> result, code |-> code, externalLoanId |-> id]

Responses == [request : Requests \ {HealthCheckRequest}, result : Contract!Results, code : Codes,
              externalLoanId : Loans \cup {NoId}]

\* A request that reuses a credit line names the credit line and no loan.
ExternalLoanId(r) == IF r.loan \in Reusing THEN NoId ELSE r.loan

TypeOK ==
    /\ familyName \in [Loans -> Endings]
    /\ stage \in [Loans -> Contract!Stages]
    /\ copies \in [Requests -> 0..MaxCopies]
    /\ answers \subseteq Responses /\ given \subseteq Responses
    /\ notified \subseteq Loans
-----------------------------------------------------------------------------
(***************************************************************************)
(* The bank                                                                *)
(***************************************************************************)

\* Mutant: the suffix test of the rejected names is forgotten.
determineApplicationResultLax(r) ==
    CASE familyName[r.loan] = "missing" -> Response(r, "PROCESSING_ERROR", 300, NoId)
      [] familyName[r.loan] = "other"   -> Response(r, "PENDING", 200, NoId)
      [] OTHER                          -> Response(r, "ACCEPTED", 0, NoId)

\* Mutant: pending answers keep the code of a rejection.
determineApplicationResultStale(r) ==
    CASE familyName[r.loan] = "missing" -> Response(r, "PROCESSING_ERROR", 300, NoId)
      [] familyName[r.loan] = "AA"      -> Response(r, "ACCEPTED", 0, NoId)
      [] familyName[r.loan] = "DD"      -> Response(r, "REJECTED", 100, NoId)
      [] OTHER                          -> Response(r, "PENDING", 100, NoId)

\* Mutant: a loan is applied for only once.
determineApplicationResultOnce(r) ==
    CASE \E a \in given : a.request = r   -> Response(r, "REJECTED", 100, NoId)
      [] familyName[r.loan] = "missing" -> Response(r, "PROCESSING_ERROR", 300, NoId)
      [] familyName[r.loan] = "AA"      -> Response(r, "ACCEPTED", 0, NoId)
      [] familyName[r.loan] = "DD"      -> Response(r, "REJECTED", 100, NoId)
      [] OTHER                          -> Response(r, "PENDING", 200, NoId)

determineApplicationResult(r) ==
    CASE familyName[r.loan] = "missing" -> Response(r, "PROCESSING_ERROR", 300, NoId)
      [] familyName[r.loan] = "AA"      -> Response(r, "ACCEPTED", 0, NoId)
      [] familyName[r.loan] = "DD"      -> Response(r, "REJECTED", 100, NoId)
      [] OTHER                          -> Response(r, "PENDING", 200, NoId)

determineConfirmationResult(r) == Response(r, "ACCEPTED", 0, ExternalLoanId(r))
determineAdjustmentResult(r)   == Response(r, "ACCEPTED", 0, NoId)
determineChargeResult(r)       == Response(r, "ACCEPTED", 0, NoId)

\* Mutant: adjustments are not dispatched.
handleNoAdjustment(r) ==
    CASE r.step = "application"         -> {determineApplicationResult(r)}
      [] r.step = "confirmation"        -> {determineConfirmationResult(r)}
      [] r.step = "charge"              -> {determineChargeResult(r)}
      [] OTHER                          -> {}

\* Mutant: the test for a missing name is gone, and the method throws.
handleUnchecked(r) ==
    CASE r.step = "application" /\ familyName[r.loan] # "missing"
                                        -> {determineApplicationResult(r)}
      [] r.step = "confirmation"        -> {determineConfirmationResult(r)}
      [] r.step \in {"close", "refund"} -> {determineAdjustmentResult(r)}
      [] r.step = "charge"              -> {determineChargeResult(r)}
      [] OTHER                          -> {}

\* The dispatch on the request's class.  A class it does not name gets no
\* content, which is no response at all.
handle(r) ==
    CASE r.step = "application"         -> {determineApplicationResult(r)}
      [] r.step = "confirmation"        -> {determineConfirmationResult(r)}
      [] r.step \in {"close", "refund"} -> {determineAdjustmentResult(r)}
      [] r.step = "charge"              -> {determineChargeResult(r)}
      [] OTHER                          -> {}

Handle(r) ==
    /\ copies[r] > 0
    /\ copies' = [copies EXCEPT ![r] = @ - 1]
    /\ answers' = answers \cup handle(r)
    /\ given' = given \cup handle(r)
    /\ UNCHANGED <<familyName, stage, notified>>
-----------------------------------------------------------------------------
(***************************************************************************)
(* The merchant, the testers and the network (external)                    *)
(***************************************************************************)
Init ==
    /\ familyName \in [Loans -> Endings]
    /\ stage = [l \in Loans |-> "new"]
    /\ copies = [r \in Requests |-> 0]
    /\ answers = {}
    /\ given = {}
    /\ notified = {}

Send(r) ==
    /\ copies[r] < MaxCopies
    /\ copies' = [copies EXCEPT ![r] = @ + 1]
    /\ UNCHANGED <<familyName, stage, answers, given, notified>>

\* The request the loan needs now, for the first time or once more.
Ask(l) == \E s \in Steps : s = Contract!NextStep(l, stage[l]) /\ Send(Request(l, s))

HealthCheck == Send(HealthCheckRequest)

\* A tester sends a request of the loan whenever he likes.
AskOutOfTurn(l) == \E s \in Stray : Send(Request(l, s))

\* A response to a request whose outcome is already known is ignored.
Receive(a) ==
    /\ a \in answers
    /\ answers' = answers \ {a}
    /\ LET l == a.request.loan IN
          stage' = IF a.request.step = Contract!NextStep(l, stage[l])
                   THEN [stage EXCEPT ![l] = Contract!After(a.request.step, a.result)]
                   ELSE stage
    /\ UNCHANGED <<familyName, copies, given, notified>>

\* A tester has the bank notify the merchant how a pending application ended.
Notify(l) ==
    /\ stage[l] = "pending"
    /\ \E verdict \in {"accepted", "rejected"} :
          /\ stage' = [stage EXCEPT ![l] = verdict]
          /\ notified' = IF verdict = "accepted" THEN notified \cup {l} ELSE notified
    /\ UNCHANGED <<familyName, copies, answers, given>>

LoseRequest(r) ==
    /\ copies[r] > 0
    /\ copies' = [copies EXCEPT ![r] = @ - 1]
    /\ UNCHANGED <<familyName, stage, answers, given, notified>>

LoseAnswer(a) ==
    /\ a \in answers
    /\ answers' = answers \ {a}
    /\ UNCHANGED <<familyName, stage, copies, given, notified>>

Next == \/ HealthCheck
        \/ \E l \in Loans : Ask(l) \/ AskOutOfTurn(l) \/ Notify(l)
        \/ \E r \in Requests : Handle(r) \/ LoseRequest(r)
        \/ \E a \in answers : Receive(a) \/ LoseAnswer(a)

Spec == Init /\ [][Next]_vars

\* The merchant repeats an unanswered request, and a request (a response) that
\* is sent for ever gets through.  Nothing makes a tester notify.
Fairness ==
    /\ \A l \in Loans : WF_vars(Ask(l))
    /\ \A r \in Requests : SF_vars(Handle(r))
    /\ \A l \in Loans, s \in Steps :
          SF_vars(\E a \in answers : a.request = Request(l, s) /\ Receive(a))

FairSpec == Spec /\ Fairness
-----------------------------------------------------------------------------
(***************************************************************************)
(* Properties                                                              *)
(***************************************************************************)
Financed == {"confirmed", "closed", "charged", "refunded"}

\* A loan is confirmed or charged only if its application was accepted, by the
\* bank's own answer or by a status notification: never after a rejection or a
\* processing error, whatever was lost, repeated or late.
FinancedOnlyIfAccepted ==
    \A l \in Loans \ Reusing :
        stage[l] \in Financed \cup {"accepted"} => familyName[l] = "AA" \/ l \in notified

\* The range of codes that gil_fr.xsd gives each result.
CodeFits(a) ==
    CASE a.result = "ACCEPTED" -> a.code = 0
      [] a.result = "REJECTED" -> a.code \in 100..199
      [] a.result = "PENDING"  -> a.code \in 200..299
      [] OTHER                 -> a.code \in 300..399

\* The promises of gil_fr.xsd for results, and for the loan id of loans that open
\* a credit line of their own: it may be left out of a response, and is otherwise
\* the one of the request.  (ReuseNamesLoan is the promise for the other loans.)
ResponsesFitSchema ==
    \A a \in given :
        /\ CodeFits(a)
        /\ a.request.loan \notin Reusing => a.externalLoanId \in {NoId, a.request.loan}

\* What gil_fr.xsd and the example Reuse_Creditline_Step1_loanConfirmationResponse
\* want of a loan on an existing credit line: its request names no loan, and the
\* response that confirms it brings the id of the new one.
ReuseNamesLoan ==
    \A a \in given :
        (a.request.step = "confirmation" /\ a.request.loan \in Reusing) => a.externalLoanId # NoId

\* What the merchant knows of a loan it has really been told: decisions are
\* made once however often a request arrives.
ImplementsContract == Contract!Spec

\* An accepted loan is charged in the end, through losses and repetitions.
AcceptedIsCharged ==
    \A l \in Loans : (stage[l] = "accepted") ~> (stage[l] \in {"charged", "refunded"})

\* Every application is answered.
ApplicationIsDecided ==
    \A l \in Loans \ Reusing : (copies[Request(l, "application")] > 0) ~> (stage[l] # "new")
=============================================================================
