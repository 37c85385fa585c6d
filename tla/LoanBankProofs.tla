--------------------------- MODULE LoanBankProofs ---------------------------
(***************************************************************************)
(* Proofs about LoanBank, for any loans, any number of copies of a request *)
(* in transit, and requests in or out of order.                            *)
(*                                                                         *)
(* The argument rests on one fact: the bank keeps no state, so that what   *)
(* it has ever given for a request is what it would give now.              *)
(***************************************************************************)
EXTENDS LoanBank, TLAPS

USE DEF Steps, Contract!Results, Contract!Stages

\* Every response the bank has given is the one its request determines, and
\* the merchant receives nothing else.
GivenOK   == \A a \in given : a.request \in Requests /\ handle(a.request) = {a}
AnswersOK == answers \subseteq given

IInv == TypeOK /\ GivenOK /\ AnswersOK /\ FinancedOnlyIfAccepted
-----------------------------------------------------------------------------
(***************************************************************************)
(* The operators the model is built from                                   *)
(***************************************************************************)

\* A response is a response to its request.
LEMMA HandleAnswers ==
    ASSUME TypeOK, NEW r \in Requests, NEW a \in handle(r)
    PROVE  /\ a \in Responses
           /\ a.request = r
           /\ handle(r) = {a}
           /\ r \in [loan : Loans, step : Steps]
  <1>1. r.step \in Steps /\ r \in [loan : Loans, step : Steps]
    BY DEF handle, Requests, HealthCheckRequest
  <1>2. r \in Requests \ {HealthCheckRequest} /\ r.loan \in Loans
    BY <1>1 DEF HealthCheckRequest
  <1>3. CASE r.step = "application"
    BY <1>1, <1>2, <1>3 DEF handle, determineApplicationResult, Response, Responses, Codes
  <1>4. CASE r.step = "confirmation"
    BY <1>1, <1>2, <1>4
    DEF handle, determineConfirmationResult, ExternalLoanId, Response, Responses, Codes
  <1>5. CASE r.step \in {"close", "refund"}
    BY <1>1, <1>2, <1>5 DEF handle, determineAdjustmentResult, Response, Responses, Codes
  <1>6. CASE r.step = "charge"
    BY <1>1, <1>2, <1>6 DEF handle, determineChargeResult, Response, Responses, Codes
  <1> QED
    BY <1>1, <1>3, <1>4, <1>5, <1>6

\* What is given for a request is decided by the customer's name alone.
LEMMA HandleStable ==
    ASSUME familyName' = familyName, NEW r
    PROVE  handle(r)' = handle(r)
  BY DEF handle, determineApplicationResult, determineConfirmationResult,
         determineAdjustmentResult, determineChargeResult, Response, ExternalLoanId

\* A decided request leads to a stage.
LEMMA AfterType ==
    ASSUME NEW s \in Steps, NEW r \in Contract!Results
    PROVE  Contract!After(s, r) \in Contract!Stages
  BY DEF Contract!After

\* A loan needs a confirmation only after an accepted application, unless it
\* reuses a credit line; and only an accepted application gets it there.
LEMMA WayToFinance ==
    ASSUME NEW l \in Loans \ Reusing, NEW st \in Contract!Stages,
           NEW r \in Contract!Results, NEW s \in Steps,
           s = Contract!NextStep(l, st),
           Contract!After(s, r) \in Financed \cup {"accepted"}
    PROVE  \/ s = "application" /\ r = "ACCEPTED"
           \/ st \in Financed \cup {"accepted"}
  BY DEF Contract!After, Contract!NextStep, Contract!Starts, Financed
-----------------------------------------------------------------------------
(***************************************************************************)
(* The invariant                                                           *)
(***************************************************************************)
LEMMA InvInit == Init => IInv
  <1> SUFFICES ASSUME Init PROVE IInv
    OBVIOUS
  <1>1. TypeOK
    BY CopiesAssumption DEF Init, TypeOK
  <1>2. GivenOK /\ AnswersOK /\ FinancedOnlyIfAccepted
    BY DEF Init, GivenOK, AnswersOK, FinancedOnlyIfAccepted, Financed
  <1> QED
    BY <1>1, <1>2 DEF IInv

\* A step that neither gives a response nor moves a loan.
LEMMA InvQuiet ==
    ASSUME IInv, TypeOK', UNCHANGED <<familyName, stage, given, notified>>,
           answers' \subseteq answers
    PROVE  IInv'
  <1>1. GivenOK'
    BY HandleStable DEF IInv, GivenOK
  <1>2. AnswersOK'
    BY DEF IInv, AnswersOK
  <1>3. FinancedOnlyIfAccepted'
    BY DEF IInv, FinancedOnlyIfAccepted
  <1> QED
    BY <1>1, <1>2, <1>3 DEF IInv

LEMMA InvSend ==
    ASSUME IInv, NEW r \in Requests, Send(r)
    PROVE  IInv'
  <1>1. TypeOK'
    BY CopiesAssumption DEF IInv, TypeOK, Send
  <1> QED
    BY <1>1, InvQuiet DEF Send

LEMMA InvHandle ==
    ASSUME IInv, NEW r \in Requests, Handle(r)
    PROVE  IInv'
  <1> USE DEF IInv
  <1>1. TypeOK'
    BY HandleAnswers, CopiesAssumption DEF TypeOK, Handle
  <1>2. GivenOK'
    <2> SUFFICES ASSUME NEW a \in given' PROVE a.request \in Requests /\ handle(a.request)' = {a}
      BY DEF GivenOK
    <2>1. a.request \in Requests /\ handle(a.request) = {a}
      BY HandleAnswers DEF GivenOK, Handle
    <2> QED
      BY <2>1, HandleStable DEF Handle
  <1>3. AnswersOK'
    BY DEF AnswersOK, Handle
  <1>4. FinancedOnlyIfAccepted'
    BY DEF FinancedOnlyIfAccepted, Handle
  <1> QED
    BY <1>1, <1>2, <1>3, <1>4

LEMMA InvReceive ==
    ASSUME IInv, NEW a \in answers, Receive(a)
    PROVE  IInv'
  <1> DEFINE l == a.request.loan
             s == a.request.step
  <1>1. /\ a \in Responses /\ l \in Loans /\ s \in Steps /\ a.result \in Contract!Results
        /\ handle(a.request) = {a}
    BY DEF IInv, TypeOK, GivenOK, AnswersOK, Responses, Requests, HealthCheckRequest
  <1>2. /\ UNCHANGED <<familyName, copies, given, notified>> /\ answers' = answers \ {a}
        /\ \/ stage' = stage
           \/ /\ s = Contract!NextStep(l, stage[l])
              /\ stage' = [stage EXCEPT ![l] = Contract!After(s, a.result)]
    BY DEF Receive
  <1>3. TypeOK'
    BY <1>1, <1>2, AfterType DEF IInv, TypeOK
  <1>4. GivenOK'
    BY <1>2, HandleStable DEF IInv, GivenOK
  <1>5. AnswersOK'
    BY <1>2 DEF IInv, AnswersOK
  <1>6. FinancedOnlyIfAccepted'
    <2>1. CASE stage' = stage
      BY <1>2, <2>1 DEF IInv, FinancedOnlyIfAccepted
    <2>2. CASE /\ s = Contract!NextStep(l, stage[l])
               /\ stage' = [stage EXCEPT ![l] = Contract!After(s, a.result)]
      <3> SUFFICES ASSUME NEW m \in Loans \ Reusing, stage'[m] \in Financed \cup {"accepted"}
                   PROVE  familyName[m] = "AA" \/ m \in notified
        BY <1>2 DEF FinancedOnlyIfAccepted
      <3>1. CASE m # l
        BY <2>2, <3>1 DEF IInv, TypeOK, FinancedOnlyIfAccepted
      <3>2. CASE m = l
        <4>1. stage[l] \in Contract!Stages /\ stage'[l] = Contract!After(s, a.result)
          BY <1>1, <2>2 DEF IInv, TypeOK
        <4>2. \/ s = "application" /\ a.result = "ACCEPTED"
              \/ stage[l] \in Financed \cup {"accepted"}
          BY <1>1, <2>2, <3>2, <4>1, WayToFinance
        <4>3. (s = "application" /\ a.result = "ACCEPTED") => familyName[l] = "AA"
          BY <1>1 DEF handle, determineApplicationResult, Response
        <4> QED
          BY <3>2, <4>2, <4>3 DEF IInv, FinancedOnlyIfAccepted
      <3> QED
        BY <3>1, <3>2
    <2> QED
      BY <1>2, <2>1, <2>2
  <1> QED
    BY <1>3, <1>4, <1>5, <1>6 DEF IInv

LEMMA InvNotify ==
    ASSUME IInv, NEW l \in Loans, Notify(l)
    PROVE  IInv'
  <1>1. PICK verdict \in {"accepted", "rejected"} :
          /\ stage' = [stage EXCEPT ![l] = verdict]
          /\ notified' = IF verdict = "accepted" THEN notified \cup {l} ELSE notified
    BY DEF Notify
  <1>2. UNCHANGED <<familyName, copies, answers, given>>
    BY DEF Notify
  <1>3. TypeOK'
    BY <1>1, <1>2 DEF IInv, TypeOK
  <1>4. GivenOK' /\ AnswersOK'
    BY <1>2, HandleStable DEF IInv, GivenOK, AnswersOK
  <1>5. FinancedOnlyIfAccepted'
    BY <1>1, <1>2 DEF IInv, TypeOK, FinancedOnlyIfAccepted, Financed
  <1> QED
    BY <1>3, <1>4, <1>5 DEF IInv

LEMMA InvLoseRequest ==
    ASSUME IInv, NEW r \in Requests, LoseRequest(r)
    PROVE  IInv'
  <1>1. TypeOK'
    BY CopiesAssumption DEF IInv, TypeOK, LoseRequest
  <1> QED
    BY <1>1, InvQuiet DEF LoseRequest

LEMMA InvLoseAnswer ==
    ASSUME IInv, NEW a \in answers, LoseAnswer(a)
    PROVE  IInv'
  <1>1. TypeOK'
    BY DEF IInv, TypeOK, LoseAnswer
  <1> QED
    BY <1>1, InvQuiet DEF LoseAnswer

LEMMA InvNext == IInv /\ [Next]_vars => IInv'
  <1> SUFFICES ASSUME IInv, [Next]_vars PROVE IInv'
    OBVIOUS
  <1>0. HealthCheckRequest \in Requests /\ \A l \in Loans, s \in Steps : Request(l, s) \in Requests
    BY DEF Requests, Request
  <1>1. CASE HealthCheck
    BY <1>0, <1>1, InvSend DEF HealthCheck
  <1>2. ASSUME NEW l \in Loans, Ask(l) PROVE IInv'
    BY <1>0, <1>2, InvSend DEF Ask
  <1>3. ASSUME NEW l \in Loans, AskOutOfTurn(l) PROVE IInv'
    BY <1>0, <1>3, InvSend, StrayAssumption DEF AskOutOfTurn
  <1>4. ASSUME NEW l \in Loans, Notify(l) PROVE IInv'
    BY <1>4, InvNotify
  <1>5. ASSUME NEW r \in Requests, Handle(r) \/ LoseRequest(r) PROVE IInv'
    BY <1>5, InvHandle, InvLoseRequest
  <1>6. ASSUME NEW a \in answers, Receive(a) \/ LoseAnswer(a) PROVE IInv'
    BY <1>6, InvReceive, InvLoseAnswer
  <1>7. CASE UNCHANGED vars
    <2>1. TypeOK'
      BY <1>7 DEF IInv, TypeOK, vars
    <2> QED
      BY <1>7, <2>1, InvQuiet DEF vars
  <1> QED
    BY <1>1, <1>2, <1>3, <1>4, <1>5, <1>6, <1>7 DEF Next

\* The strengthened invariant holds.
THEOREM Invariant == Spec => []IInv
  BY InvInit, InvNext, PTL DEF Spec

\* The variables keep their types.
THEOREM TypeCorrect == Spec => []TypeOK
  <1>1. IInv => TypeOK
    BY DEF IInv
  <1> QED
    BY <1>1, Invariant, PTL

\* No loan is confirmed or charged on a rejection, a failure or a silence,
\* whatever the network does to requests and responses.
THEOREM FinanceSafe == Spec => []FinancedOnlyIfAccepted
  <1>1. IInv => FinancedOnlyIfAccepted
    BY DEF IInv
  <1> QED
    BY <1>1, Invariant, PTL

\* Every response the bank gives has a code of its result's range, and for a loan
\* with a credit line of its own no loan id but its request's.
THEOREM SchemaKept == Spec => []ResponsesFitSchema
  <1>1. IInv => ResponsesFitSchema
    <2> SUFFICES ASSUME IInv, NEW a \in given
                 PROVE  /\ CodeFits(a)
                        /\ a.request.loan \notin Reusing => a.externalLoanId \in {NoId, a.request.loan}
      BY DEF ResponsesFitSchema
    <2>1. handle(a.request) = {a}
      BY DEF IInv, GivenOK
    <2> QED
      BY <2>1 DEF CodeFits, handle, determineApplicationResult, determineConfirmationResult,
                  determineAdjustmentResult, determineChargeResult, Response, ExternalLoanId
  <1> QED
    BY <1>1, Invariant, PTL
-----------------------------------------------------------------------------
(***************************************************************************)
(* Refinement                                                              *)
(***************************************************************************)
Decision == [l \in Loans |-> [s \in Steps |->
                {a.result : a \in {b \in given : b.request = [loan |-> l, step |-> s]}}]]

\* A function of two arguments that differs from another in one place.
LEMMA ChangedOnce ==
    ASSUME NEW A, NEW B, NEW C, NEW f \in [A -> [B -> C]], NEW g \in [A -> [B -> C]],
           NEW l \in A, NEW s \in B, NEW x \in C,
           \A m \in A, t \in B : g[m][t] = IF m = l /\ t = s THEN x ELSE f[m][t]
    PROVE  g = [f EXCEPT ![l][s] = x]
  OBVIOUS

\* Only an application is ever declined.
LEMMA OnlyApplicationsDeclined ==
    ASSUME NEW r, NEW a \in handle(r), r.step # "application"
    PROVE  a.result = "ACCEPTED"
  BY DEF handle, determineConfirmationResult, determineAdjustmentResult,
         determineChargeResult, Response

LEMMA DecisionStep ==
    ASSUME IInv, NEW r \in Requests, Handle(r)
    PROVE  [Contract!Next]_(Contract!vars)
  <1>1. stage' = stage /\ given' = given \cup handle(r)
    BY DEF Handle
  <1>2. CASE handle(r) \subseteq given
    <2>1. given' = given
      BY <1>1, <1>2
    <2> QED
      BY <1>1, <2>1 DEF Contract!vars
  <1>3. CASE ~(handle(r) \subseteq given)
    <2>1. PICK a \in handle(r) : a \notin given
      BY <1>3
    <2>2. /\ a \in Responses /\ a.request = r /\ handle(r) = {a}
          /\ r \in [loan : Loans, step : Steps]
      BY HandleAnswers DEF IInv
    <2> DEFINE l == r.loan
               s == r.step
    <2>3. l \in Loans /\ s \in Steps /\ r = [loan |-> l, step |-> s]
      BY <2>2
    <2>4. \A b \in given : b.request # r
      BY <2>1, <2>2 DEF IInv, GivenOK
    <2>5. Decision[l][s] = {}
      BY <2>3, <2>4 DEF Decision
    <2>6. given' = given \cup {a}
      BY <1>1, <2>2
    <2>7. Decision' = [Decision EXCEPT ![l][s] = {a.result}]
      <3>1. \A m \in Loans, t \in Steps :
               Decision'[m][t] = IF m = l /\ t = s THEN {a.result} ELSE Decision[m][t]
        <4> SUFFICES ASSUME NEW m \in Loans, NEW t \in Steps
                     PROVE  Decision'[m][t] = IF m = l /\ t = s THEN {a.result}
                                              ELSE Decision[m][t]
          OBVIOUS
        <4>1. CASE m = l /\ t = s
          BY <2>2, <2>3, <2>4, <2>6, <4>1 DEF Decision
        <4>2. CASE ~(m = l /\ t = s)
          <5>1. a.request # [loan |-> m, step |-> t]
            BY <2>2, <2>3, <4>2
          <5> QED
            BY <2>6, <4>2, <5>1 DEF Decision
        <4> QED
          BY <4>1, <4>2
      <3> DEFINE C == SUBSET {b.result : b \in given'}
      <3>2. Decision \in [Loans -> [Steps -> C]] /\ Decision' \in [Loans -> [Steps -> C]]
        BY <2>6 DEF Decision
      <3>3. {a.result} \in C
        BY <2>6
      <3> HIDE DEF C, l, s, Steps
      <3> QED
        BY <2>3, <3>1, <3>2, <3>3, ChangedOnce
    <2>8. a.result \in IF s = "application" THEN Contract!Results ELSE {"ACCEPTED"}
      BY <2>2, OnlyApplicationsDeclined DEF Responses
    <2>9. Contract!Decide(l, s)
      BY <1>1, <2>5, <2>7, <2>8 DEF Contract!Decide, Decision
    <2> QED
      BY <2>3, <2>9 DEF Contract!Next, Contract!Steps
  <1> QED
    BY <1>2, <1>3

LEMMA AdvanceStep ==
    ASSUME IInv, NEW a \in answers, Receive(a)
    PROVE  [Contract!Next]_(Contract!vars)
  <1> DEFINE l == a.request.loan
             s == a.request.step
  <1>1. /\ a \in given /\ l \in Loans /\ s \in Steps
        /\ a.request = [loan |-> l, step |-> s]
    BY DEF IInv, TypeOK, AnswersOK, Responses, Requests, HealthCheckRequest
  <1>2. given' = given
    BY DEF Receive
  <1>3. CASE s # Contract!NextStep(l, stage[l])
    <2>1. stage' = stage
      BY <1>3 DEF Receive
    <2> QED
      BY <1>2, <2>1 DEF Contract!vars
  <1>4. CASE s = Contract!NextStep(l, stage[l])
    <2>1. stage' = [stage EXCEPT ![l] = Contract!After(s, a.result)]
      BY <1>4 DEF Receive
    <2>2. a.result \in Decision[l][s]
      BY <1>1 DEF Decision
    <2>3. Contract!Advance(l, s)
      BY <1>2, <1>4, <2>1, <2>2 DEF Contract!Advance, Decision
    <2> QED
      BY <1>1, <2>3 DEF Contract!Next, Contract!Steps
  <1> QED
    BY <1>3, <1>4

LEMMA ContractStep == IInv /\ [Next]_vars => [Contract!Next]_(Contract!vars)
  <1> SUFFICES ASSUME IInv, [Next]_vars PROVE [Contract!Next]_(Contract!vars)
    OBVIOUS
  <1>1. CASE UNCHANGED <<given, stage>>
    BY <1>1 DEF Contract!vars
  <1>2. ASSUME NEW l \in Loans, Notify(l) PROVE [Contract!Next]_(Contract!vars)
    <2>1. Contract!Resolve(l)
      BY <1>2 DEF Notify, Contract!Resolve
    <2> QED
      BY <2>1 DEF Contract!Next
  <1>3. ASSUME NEW r \in Requests, Handle(r) PROVE [Contract!Next]_(Contract!vars)
    BY <1>3, DecisionStep
  <1>4. ASSUME NEW a \in answers, Receive(a) PROVE [Contract!Next]_(Contract!vars)
    BY <1>4, AdvanceStep
  <1>5. \/ UNCHANGED <<given, stage>>
        \/ \E l \in Loans : Notify(l)
        \/ \E r \in Requests : Handle(r)
        \/ \E a \in answers : Receive(a)
    BY DEF Next, vars, HealthCheck, Ask, AskOutOfTurn, Send, LoseRequest, LoseAnswer
  <1> QED
    BY <1>1, <1>2, <1>3, <1>4, <1>5

\* The bank and its merchants keep to LoanService: a request is decided once,
\* however often it arrives, and a loan moves on decided requests alone.
THEOREM Implementation == Spec => ImplementsContract
  <1>1. Init => Contract!Init
    BY DEF Init, Contract!Init, Contract!Steps
  <1> QED
    BY <1>1, Invariant, ContractStep, PTL DEF Spec, ImplementsContract, Contract!Spec
-----------------------------------------------------------------------------
(***************************************************************************)
(* Progress without fairness: what AcceptedIsCharged and                   *)
(* ApplicationIsDecided leave when no request or response need arrive      *)
(***************************************************************************)
OnTheWay == Financed \cup {"accepted"}

\* How far along the sequence of requests a stage is.
Rank == [st \in Contract!Stages |->
            CASE st = "new"       -> 0
              [] st = "pending"   -> 1
              [] st = "confirmed" -> 3
              [] st = "closed"    -> 4
              [] st = "charged"   -> 5
              [] st = "refunded"  -> 6
              [] OTHER            -> 2]

\* No loan goes back or leaves the way to its charge, the bank responds to every
\* request of a loan, and the response that a loan needs takes it further.
Onward ==
    /\ \A l \in Loans :
          /\ stage'[l] = stage[l] \/ Rank[stage'[l]] > Rank[stage[l]]
          /\ stage[l] \in OnTheWay => stage'[l] \in OnTheWay
    /\ \A l \in Loans, s \in Steps :
          Handle(Request(l, s)) => \E a \in answers' : a.request = Request(l, s)
    /\ \A a \in answers :
          LET l == a.request.loan IN
             Receive(a) /\ a.request.step = Contract!NextStep(l, stage[l])
                => Rank[stage'[l]] > Rank[stage[l]]

\* The request a loan needs, decided, takes it further on its way.
LEMMA FurtherOn ==
    ASSUME NEW l \in Loans, NEW st \in Contract!Stages, NEW s \in Steps,
           NEW r \in Contract!Results, s = Contract!NextStep(l, st)
    PROVE  /\ Contract!After(s, r) \in Contract!Stages
           /\ Rank[Contract!After(s, r)] > Rank[st]
           /\ st \in OnTheWay => Contract!After(s, r) \in OnTheWay
  <1>1. \/ st = "new" /\ s \in {"application", "confirmation"}
        \/ st = "accepted" /\ s = "confirmation"
        \/ st = "confirmed" /\ s = "close"
        \/ st = "closed" /\ s = "charge"
        \/ st = "charged" /\ s = "refund"
    BY DEF Contract!NextStep, Contract!Starts
  <1>2. /\ s = "application" => Contract!After(s, r) \in {"accepted", "rejected", "failed", "pending"}
        /\ s = "confirmation" => Contract!After(s, r) = "confirmed"
        /\ s = "close" => Contract!After(s, r) = "closed"
        /\ s = "charge" => Contract!After(s, r) = "charged"
        /\ s = "refund" => Contract!After(s, r) = "refunded"
    BY DEF Contract!After
  <1>3. /\ Rank["new"] = 0 /\ Rank["pending"] = 1
        /\ Rank["accepted"] = 2 /\ Rank["rejected"] = 2 /\ Rank["failed"] = 2
        /\ Rank["confirmed"] = 3 /\ Rank["closed"] = 4
        /\ Rank["charged"] = 5 /\ Rank["refunded"] = 6
    BY DEF Rank
  <1> QED
    BY <1>1, <1>2, <1>3, AfterType DEF OnTheWay, Financed

\* What a step of the merchant, the bank or a tester does to one loan.
LEMMA StageStep ==
    ASSUME IInv, [Next]_vars, NEW l \in Loans
    PROVE  /\ stage'[l] = stage[l] \/ Rank[stage'[l]] > Rank[stage[l]]
           /\ stage[l] \in OnTheWay => stage'[l] \in OnTheWay
  <1>1. CASE stage' = stage
    BY <1>1
  <1>2. ASSUME NEW m \in Loans, Notify(m)
        PROVE  /\ stage'[l] = stage[l] \/ Rank[stage'[l]] > Rank[stage[l]]
               /\ stage[l] \in OnTheWay => stage'[l] \in OnTheWay
    <2>1. Rank["pending"] = 1 /\ Rank["accepted"] = 2 /\ Rank["rejected"] = 2
      BY DEF Rank
    <2> QED
      BY <1>2, <2>1 DEF Notify, IInv, TypeOK, OnTheWay, Financed
  <1>3. ASSUME NEW a \in answers, Receive(a)
        PROVE  /\ stage'[l] = stage[l] \/ Rank[stage'[l]] > Rank[stage[l]]
               /\ stage[l] \in OnTheWay => stage'[l] \in OnTheWay
    <2> DEFINE m == a.request.loan
               s == a.request.step
    <2>1. m \in Loans /\ s \in Steps /\ a.result \in Contract!Results
      BY DEF IInv, TypeOK, Responses, Requests, HealthCheckRequest
    <2>2. CASE s = Contract!NextStep(m, stage[m])
      <3>1. stage' = [stage EXCEPT ![m] = Contract!After(s, a.result)]
        BY <1>3, <2>2 DEF Receive
      <3>2. stage \in [Loans -> Contract!Stages]
        BY DEF IInv, TypeOK
      <3>3. CASE l = m
        <4>1. stage[l] \in Contract!Stages /\ stage'[l] = Contract!After(s, a.result)
          BY <3>1, <3>2, <3>3
        <4> HIDE DEF m, s
        <4> QED
          BY <2>1, <2>2, <3>3, <4>1, FurtherOn
      <3>4. CASE l # m
        BY <3>1, <3>2, <3>4
      <3> QED
        BY <3>3, <3>4
    <2>3. CASE s # Contract!NextStep(m, stage[m])
      BY <1>1, <1>3, <2>3 DEF Receive
    <2> QED
      BY <2>2, <2>3
  <1>4. \/ stage' = stage
        \/ \E m \in Loans : Notify(m)
        \/ \E a \in answers : Receive(a)
    BY DEF Next, vars, HealthCheck, Ask, AskOutOfTurn, Send, Handle, LoseRequest, LoseAnswer
  <1> QED
    BY <1>1, <1>2, <1>3, <1>4

LEMMA OnwardStep == IInv /\ [Next]_vars => Onward
  <1> SUFFICES ASSUME IInv, [Next]_vars PROVE Onward
    OBVIOUS
  <1>1. ASSUME NEW l \in Loans, NEW s \in Steps, Handle(Request(l, s))
        PROVE  \E a \in answers' : a.request = Request(l, s)
    <2>1. Request(l, s) \in Requests /\ Request(l, s).step = s
      BY DEF Request, Requests
    <2>2. \E a : a \in handle(Request(l, s))
      BY <2>1 DEF handle
    <2>3. PICK a \in handle(Request(l, s)) : a.request = Request(l, s)
      BY <2>1, <2>2, HandleAnswers DEF IInv
    <2> QED
      BY <1>1, <2>3 DEF Handle
  <1>2. ASSUME NEW a \in answers, Receive(a),
               a.request.step = Contract!NextStep(a.request.loan, stage[a.request.loan])
        PROVE  Rank[stage'[a.request.loan]] > Rank[stage[a.request.loan]]
    <2> DEFINE l == a.request.loan
               s == a.request.step
    <2>1. l \in Loans /\ s \in Steps /\ a.result \in Contract!Results
      BY DEF IInv, TypeOK, Responses, Requests, HealthCheckRequest
    <2>2. stage[l] \in Contract!Stages /\ stage'[l] = Contract!After(s, a.result)
      BY <1>2, <2>1 DEF IInv, TypeOK, Receive
    <2> HIDE DEF l, s
    <2>3. s = Contract!NextStep(l, stage[l])
      BY <1>2 DEF l, s
    <2>4. Rank[stage'[l]] > Rank[stage[l]]
      BY <2>1, <2>2, <2>3, FurtherOn
    <2> QED
      BY <2>4 DEF l
  <1> QED
    BY <1>1, <1>2, StageStep DEF Onward

\* A loan moves at most six times, and then for good: an accepted one only
\* towards its charge.  Each response that it waits for moves it, and the bank
\* has one for each of its requests, however often they arrive.
THEOREM LoansOnward == Spec => [][Onward]_vars
  BY Invariant, OnwardStep, PTL DEF Spec
=============================================================================
