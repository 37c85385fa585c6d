-------------------------- MODULE SwaggerLoginProofs --------------------------
(***************************************************************************)
(* Proofs about SwaggerLogin, for any number of loads and logins, any      *)
(* schemes, in any order and with any flows, and any operations.           *)
(*                                                                         *)
(* A login that nothing has overlapped finds the global variables as it    *)
(* left them: that is what LoginDiscipline adds to the types.              *)
(***************************************************************************)
EXTENDS SwaggerLogin, TLAPS

USE DEF Clients, Keys, Stages, Messages, Scopes, TokenNames, Logins, Flows

\* Until another login is begun, the global variables are those of the login in
\* the window or at the token server.
Disciplined(m) ==
    /\ m.outcome = "lost" => m.overlapped
    /\ (m.step \in {"window", "request"} /\ ~m.overlapped) => tokenName = TokenName[m.scheme]
    /\ (m.step = "window" /\ ~m.overlapped) =>
          Flow[m.scheme] # "application" /\ tokenUrl = TokenUrlOf(m.scheme)
    /\ (m.step = "request" /\ ~m.overlapped) => m.at = m.scheme /\ Flow[m.scheme] # "implicit"

LoginDiscipline == \A l \in Logins : Disciplined(logins[l])

\* A login under way is of some scheme.
LoginOfScheme ==
    \A l \in Logins :
        /\ logins[l].step # "unused" => logins[l].scheme \in Schemes
        /\ logins[l].step = "request" => logins[l].at \in Schemes

IInv == TypeOK /\ LoginOfScheme /\ ShownIsCurrent /\ TokenOfItsScheme
-----------------------------------------------------------------------------
LEMMA NoneIsNoScheme == None \notin Schemes /\ ApiKey \notin Schemes /\ None # ApiKey /\ MaxLoads \in Nat
  BY PageAssumption DEF None, ApiKey

LEMMA InvInit == Init => IInv
  <1> SUFFICES ASSUME Init PROVE IInv
    OBVIOUS
  <1>1. 1 \in Clients /\ 1 \in Int
    BY PageAssumption
  <1>2. TypeOK
    BY <1>1, LoginAssumption DEF Init, PageInit, TypeOK, NoCredentials, AllOff, Unused, LoginRecords
  <1>3. LoginOfScheme /\ ShownIsCurrent /\ TokenOfItsScheme
    BY <1>1 DEF Init, PageInit, LoginOfScheme, ShownIsCurrent, TokenOfItsScheme, NoCredentials, Unused
  <1> QED
    BY <1>2, <1>3 DEF IInv

\* Adding a credential to those of the current client.
LEMMA Put ==
    ASSUME TypeOK, NEW k \in Keys, NEW v \in Keys \cup {None},
           authz' = [authz EXCEPT ![current] = [authz[current] EXCEPT ![k] = v]]
    PROVE  /\ authz' \in [Clients -> [Keys -> Keys \cup {None}]]
           /\ \A d \in Clients, j \in Keys :
                 authz'[d][j] = IF d = current /\ j = k THEN v ELSE authz[d][j]
  <1> DEFINE Row == [Keys -> Keys \cup {None}]
  <1>1. authz \in [Clients -> Row] /\ current \in Clients
    BY DEF TypeOK
  <1>2. authz[current] \in Row
    BY <1>1
  <1>3. [authz[current] EXCEPT ![k] = v] \in Row
    BY <1>2
  <1>4. authz' \in [Clients -> Row]
    BY <1>1, <1>3
  <1>5. ASSUME NEW d \in Clients, NEW j \in Keys
        PROVE  authz'[d][j] = IF d = current /\ j = k THEN v ELSE authz[d][j]
    <2>1. CASE d = current
      BY <1>1, <1>2, <2>1
    <2>2. CASE d # current
      BY <1>1, <2>2
    <2> QED
      BY <2>1, <2>2
  <1> QED
    BY <1>4, <1>5

\* Adding the api key puts it in its place.
LEMMA WithApiKeyType ==
    ASSUME IInv, NEW entered \in BOOLEAN, authz' = WithApiKey(entered)
    PROVE  /\ authz' \in [Clients -> [Keys -> Keys \cup {None}]]
           /\ TokenOfItsScheme'
  <1>1. authz \in [Clients -> [Keys -> Keys \cup {None}]] /\ current \in Clients
    BY DEF IInv, TypeOK
  <1>2. \A d \in Clients, k \in Keys : authz[d][k] \in {None, k}
    BY DEF IInv, TokenOfItsScheme
  <1>3. CASE ~entered
    BY <1>1, <1>2, <1>3 DEF WithApiKey, TokenOfItsScheme
  <1>4. CASE entered
    <2>1. authz' = [authz EXCEPT ![current] = [authz[current] EXCEPT ![ApiKey] = ApiKey]]
      BY <1>4 DEF WithApiKey
    <2>2. ApiKey \in Keys /\ ApiKey \in Keys \cup {None} /\ TypeOK
      BY DEF IInv
    <2>3. /\ authz' \in [Clients -> [Keys -> Keys \cup {None}]]
          /\ \A d \in Clients, k \in Keys :
                authz'[d][k] = IF d = current /\ k = ApiKey THEN ApiKey ELSE authz[d][k]
      BY ONLY <2>1, <2>2, Put, Zenon
    <2> QED
      BY <1>2, <2>3 DEF TokenOfItsScheme
  <1> QED
    BY <1>3, <1>4

\* Rendering keeps the types of the page, and shows the current client if it is built.
LEMMA RenderType ==
    ASSUME IInv, NEW c \in Clients, Succeeds(c)
    PROVE  /\ shown' \in {0} \cup Clients
           /\ icons' \in [Operations -> {"on", "off"}]
           /\ message' \in Messages
           /\ authz' \in [Clients -> [Keys -> Keys \cup {None}]]
           /\ shown' = IF stage'[current] = "built" THEN current ELSE 0
           /\ TokenOfItsScheme'
  <1>1. TypeOK /\ stage' = [stage EXCEPT ![c] = "built"] /\ stage[c] = "pending"
         /\ Render(c) /\ keyField \in BOOLEAN
    BY DEF IInv, Succeeds, TypeOK
  <1>2. CASE stage'[current] = "built"
    <2>1. shown' = current /\ icons' = AllOff /\ message' = "" /\ authz' = WithApiKey(keyField)
      BY <1>1, <1>2 DEF Render
    <2>2. /\ authz' \in [Clients -> [Keys -> Keys \cup {None}]]
          /\ TokenOfItsScheme'
      BY <1>1, <2>1, WithApiKeyType
    <2>3. current \in Clients
      BY <1>1 DEF TypeOK
    <2> QED
      BY <1>2, <2>1, <2>2, <2>3 DEF AllOff
  <1>3. CASE stage'[current] # "built"
    <2>1. stage[current] # "built"
      BY <1>1, <1>3 DEF TypeOK
    <2> QED
      BY <1>1, <1>3, <2>1 DEF IInv, Render, TypeOK, ShownIsCurrent, TokenOfItsScheme
  <1> QED
    BY <1>2, <1>3

\* What holds of the page as long as it is rendered, loaded or left alone.
PageOK ==
    /\ current \in Clients
    /\ stage \in [Clients -> Stages]
    /\ authz \in [Clients -> [Keys -> Keys \cup {None}]]
    /\ shown \in {0} \cup Clients
    /\ icons \in [Operations -> {"on", "off"}]
    /\ message \in Messages
    /\ keyField \in BOOLEAN
    /\ ShownIsCurrent /\ TokenOfItsScheme

\* What holds of the logins and their variables.
LoginsOK ==
    /\ dialog \in BOOLEAN
    /\ enabledScopes \subseteq Scopes
    /\ tokenName \in TokenNames \cup {None}
    /\ tokenUrl \in Schemes \cup {None}
    /\ logins \in [Logins -> LoginRecords]
    /\ LoginOfScheme

LEMMA Parts == (IInv <=> PageOK /\ LoginsOK) /\ (IInv' <=> PageOK' /\ LoginsOK')
  BY DEF IInv, TypeOK, PageOK, LoginsOK

LEMMA PageUnchanged == PageOK /\ UNCHANGED pageVars => PageOK'
  BY DEF PageOK, pageVars, ShownIsCurrent, TokenOfItsScheme

LEMMA LoginsUnchanged == LoginsOK /\ UNCHANGED loginVars => LoginsOK'
  BY DEF LoginsOK, loginVars, LoginOfScheme
-----------------------------------------------------------------------------
(***************************************************************************)
(* The steps of the page                                                   *)
(***************************************************************************)
LEMMA LoadSafe == IInv /\ Load => PageOK'
  <1> SUFFICES ASSUME IInv, Load PROVE PageOK'
    OBVIOUS
  <1>1. TypeOK /\ ShownIsCurrent /\ TokenOfItsScheme
    BY DEF IInv
  <1>2. current' = current + 1 /\ current' \in Clients /\ current \in Clients
    <2>1. current' = current + 1 /\ current < MaxLoads
      BY DEF Load
    <2>2. current \in 1..MaxLoads
      BY <1>1 DEF TypeOK
    <2> QED
      BY ONLY <2>1, <2>2, PageAssumption DEF Clients
  <1>3. /\ stage' \in [Clients -> Stages] /\ stage'[current'] = "pending"
        /\ shown' = 0 /\ icons' \in [Operations -> {"on", "off"}]
        /\ message' \in Messages /\ keyField' \in BOOLEAN
    BY <1>1, <1>2 DEF Load, TypeOK, AllOff
  <1>4. authz' \in [Clients -> [Keys -> Keys \cup {None}]]
    BY <1>1, <1>2 DEF Load, TypeOK
  <1>5. TokenOfItsScheme'
    <2> SUFFICES ASSUME NEW d \in Clients, NEW k \in Keys
                 PROVE  authz'[d][k] \in {None, k}
      BY DEF TokenOfItsScheme
    <2>1. authz' = [authz EXCEPT ![current'] = authz[current]]
      BY <1>2 DEF Load
    <2>2. authz'[d] = IF d = current' THEN authz[current] ELSE authz[d]
      BY <1>1, <1>2, <2>1 DEF TypeOK
    <2> QED
      BY <1>1, <1>2, <2>2 DEF TokenOfItsScheme
  <1>6. ShownIsCurrent'
    BY <1>3 DEF ShownIsCurrent
  <1> QED
    BY <1>2, <1>3, <1>4, <1>5, <1>6 DEF PageOK

LEMMA SettleSafe == ASSUME IInv, NEW c \in Clients, Settle(c) PROVE PageOK'
  <1>1. TypeOK /\ ShownIsCurrent /\ TokenOfItsScheme
    BY DEF IInv
  <1>2. CASE Succeeds(c)
    <2>1. /\ current' \in Clients /\ current' = current /\ keyField' \in BOOLEAN
          /\ stage' \in [Clients -> Stages]
      BY <1>1, <1>2 DEF Succeeds, TypeOK
    <2> QED
      BY <1>2, <2>1, RenderType DEF PageOK, ShownIsCurrent
  <1>3. CASE Fails(c) \/ Throws(c)
    <2>1. /\ current' = current /\ UNCHANGED <<authz, shown, icons, keyField>>
          /\ stage[c] = "pending"
          /\ \E e \in {"failed", "thrown"} : stage' = [stage EXCEPT ![c] = e]
          /\ message' \in Messages
      BY <1>1, <1>3 DEF Fails, Throws, TypeOK
    <2>2. stage' \in [Clients -> Stages] /\ (stage'[current] = "built" <=> stage[current] = "built")
      BY <1>1, <2>1 DEF TypeOK
    <2> QED
      BY <1>1, <2>1, <2>2 DEF PageOK, TypeOK, ShownIsCurrent, TokenOfItsScheme
  <1> QED
    BY <1>2, <1>3 DEF Settle

LEMMA ChangeKeySafe == ASSUME IInv, NEW entered \in BOOLEAN, ChangeKey(entered) PROVE PageOK'
  <1>1. authz' = WithApiKey(entered) /\ keyField' = entered
    BY DEF ChangeKey
  <1>2. authz' \in [Clients -> [Keys -> Keys \cup {None}]] /\ TokenOfItsScheme'
    BY <1>1, WithApiKeyType
  <1> QED
    BY <1>1, <1>2 DEF IInv, ChangeKey, PageOK, TypeOK, ShownIsCurrent
-----------------------------------------------------------------------------
(***************************************************************************)
(* The steps of logins                                                     *)
(***************************************************************************)

\* A token is stored for its own scheme.
LEMMA StoreSafe == ASSUME IInv, NEW s \in Schemes, Store(s, s) PROVE PageOK'
  <1>1. TypeOK /\ ShownIsCurrent /\ TokenOfItsScheme
    BY DEF IInv
  <1>2. /\ s \in Keys /\ s \in Keys \cup {None}
        /\ authz' = [authz EXCEPT ![current] = [authz[current] EXCEPT ![s] = s]]
        /\ UNCHANGED <<current, stage, shown, message, keyField>>
    BY DEF Store
  <1>3. /\ authz' \in [Clients -> [Keys -> Keys \cup {None}]]
        /\ \A d \in Clients, j \in Keys :
              authz'[d][j] = IF d = current /\ j = s THEN s ELSE authz[d][j]
    BY ONLY <1>1, <1>2, Put, Zenon
  <1>4. icons' \in [Operations -> {"on", "off"}]
    BY <1>1 DEF Store, TypeOK
  <1> QED
    BY <1>1, <1>2, <1>3, <1>4 DEF PageOK, TypeOK, ShownIsCurrent, TokenOfItsScheme

LEMMA LogoutSafe == IInv /\ Logout => PageOK'
  <1> SUFFICES ASSUME IInv, Logout PROVE PageOK'
    OBVIOUS
  <1>1. TypeOK /\ ShownIsCurrent /\ TokenOfItsScheme
    BY DEF IInv
  <1>2. /\ authz' = [authz EXCEPT ![current] = NoCredentials]
        /\ UNCHANGED <<current, stage, shown, message, keyField>>
        /\ icons' \in [Operations -> {"on", "off"}]
    BY DEF Logout, AllOff
  <1>3. NoCredentials \in [Keys -> Keys \cup {None}] /\ \A k \in Keys : NoCredentials[k] = None
    BY DEF NoCredentials
  <1>4. authz' \in [Clients -> [Keys -> Keys \cup {None}]]
    BY <1>1, <1>2, <1>3 DEF TypeOK
  <1>5. TokenOfItsScheme'
    BY <1>1, <1>2, <1>3 DEF TypeOK, TokenOfItsScheme
  <1> QED
    BY <1>1, <1>2, <1>4, <1>5 DEF PageOK, TypeOK, ShownIsCurrent

\* A login that begins and one that ends leave the others what they are.
LEMMA BeginType ==
    ASSUME LoginsOK, NEW s \in Schemes, NEW at \in {None, s}, Begin(s, at)
    PROVE  logins' \in [Logins -> LoginRecords] /\ LoginOfScheme'
  <1>1. PICK l \in Logins :
          logins' = [m \in Logins |->
              IF m = l THEN [Unused EXCEPT !.scheme = s, !.at = at, !.granted = (at # None),
                                           !.step = IF at = None THEN "window" ELSE "request"]
              ELSE [logins[m] EXCEPT !.overlapped = @ \/ logins[m].step \in {"window", "request"}]]
    BY DEF Begin
  <1>2. ASSUME NEW m \in Logins
        PROVE  /\ logins'[m] \in LoginRecords
               /\ logins'[m].step # "unused" => logins'[m].scheme \in Schemes
               /\ logins'[m].step = "request" => logins'[m].at \in Schemes
    <2>1. CASE m = l
      BY <1>1, <2>1 DEF Unused, LoginRecords
    <2>2. CASE m # l
      BY <1>1, <2>2 DEF LoginsOK, LoginOfScheme, LoginRecords
    <2> QED
      BY <2>1, <2>2
  <1>3. logins' = [m \in Logins |-> logins'[m]]
    BY <1>1
  <1> QED
    BY <1>2, <1>3 DEF LoginOfScheme

LEMMA EndType ==
    ASSUME LoginsOK, NEW l \in Logins, NEW o \in {"none", "stored", "lost", "refused"},
           logins[l].step # "unused", End(l, o)
    PROVE  logins' \in [Logins -> LoginRecords] /\ LoginOfScheme'
  <1>1. /\ logins \in [Logins -> LoginRecords]
        /\ logins' = [logins EXCEPT ![l] = [[logins[l] EXCEPT !.step = "ended"] EXCEPT !.outcome = o]]
    BY DEF LoginsOK, End
  <1>2. logins[l] \in LoginRecords /\ logins[l].scheme \in Schemes
    BY <1>1 DEF LoginsOK, LoginOfScheme
  <1>3. [[logins[l] EXCEPT !.step = "ended"] EXCEPT !.outcome = o] \in LoginRecords
    BY <1>2 DEF LoginRecords
  <1>4. logins' \in [Logins -> LoginRecords]
    BY <1>1, <1>3
  <1>5. ASSUME NEW m \in Logins
        PROVE  /\ logins'[m].step # "unused" => logins'[m].scheme \in Schemes
               /\ logins'[m].step = "request" => logins'[m].at \in Schemes
    <2>1. CASE m = l
      <3>1. logins'[m].step = "ended" /\ logins'[m].scheme = logins[l].scheme
        BY <1>1, <1>2, <2>1 DEF LoginRecords
      <3> QED
        BY <1>2, <3>1
    <2>2. CASE m # l
      BY <1>1, <2>2 DEF LoginsOK, LoginOfScheme
    <2> QED
      BY <2>1, <2>2
  <1> QED
    BY <1>4, <1>5 DEF LoginOfScheme

\* A login that goes on to a token server.
LEMMA RequestType ==
    ASSUME LoginsOK, NEW l \in Logins, NEW s \in Schemes, NEW granted \in BOOLEAN,
           logins[l].step = "window",
           logins' = [logins EXCEPT ![l].step = "request", ![l].at = s, ![l].granted = granted]
    PROVE  logins' \in [Logins -> LoginRecords] /\ LoginOfScheme'
  <1> DEFINE Next_l == [logins[l] EXCEPT !.step = "request", !.at = s, !.granted = granted]
  <1>1. logins \in [Logins -> LoginRecords] /\ logins' = [logins EXCEPT ![l] = Next_l]
    BY DEF LoginsOK
  <1>2. logins[l] \in LoginRecords /\ logins[l].scheme \in Schemes
    BY <1>1 DEF LoginsOK, LoginOfScheme
  <1>3. /\ Next_l \in LoginRecords
        /\ Next_l.scheme \in Schemes /\ Next_l.at \in Schemes
    BY <1>2 DEF LoginRecords
  <1>4. logins' \in [Logins -> LoginRecords]
    BY <1>1, <1>3
  <1>5. \A m \in Logins : logins'[m] = IF m = l THEN Next_l ELSE logins[m]
    BY <1>1
  <1> HIDE DEF Next_l
  <1>6. \A m \in Logins : /\ logins'[m].step # "unused" => logins'[m].scheme \in Schemes
                          /\ logins'[m].step = "request" => logins'[m].at \in Schemes
    BY <1>3, <1>5 DEF LoginsOK, LoginOfScheme
  <1> QED
    BY <1>4, <1>6 DEF LoginOfScheme

\* Whether the token is stored or lost, the page and the logins stay well.
LEMMA CompleteSafe ==
    ASSUME IInv, NEW l \in Logins, logins[l].step # "unused",
           Complete(l, logins[l].scheme),
           UNCHANGED <<dialog, enabledScopes, tokenName, tokenUrl>>
    PROVE  IInv'
  <1>1. PageOK /\ LoginsOK
    BY Parts
  <1>2. logins[l].scheme \in Schemes
    BY <1>1 DEF LoginsOK, LoginOfScheme
  <1>3. PageOK' /\ \E o \in {"none", "stored", "lost", "refused"} : End(l, o)
    <2>1. CASE TokenName[logins[l].scheme] = tokenName
      BY <1>2, <2>1, StoreSafe DEF Complete
    <2>2. CASE TokenName[logins[l].scheme] # tokenName
      BY <1>1, <2>2, PageUnchanged DEF Complete
    <2> QED
      BY <2>1, <2>2
  <1>4. logins' \in [Logins -> LoginRecords] /\ LoginOfScheme'
    BY <1>1, <1>3, EndType
  <1> QED
    BY <1>1, <1>3, <1>4, Parts DEF LoginsOK

\* A login that ends without a token.
LEMMA EndSafe ==
    ASSUME IInv, NEW l \in Logins, logins[l].step # "unused",
           NEW o \in {"none", "stored", "lost", "refused"}, End(l, o), UNCHANGED pageVars,
           UNCHANGED <<dialog, enabledScopes, tokenName, tokenUrl>>
    PROVE  IInv'
  <1>1. PageOK /\ LoginsOK
    BY Parts
  <1>2. PageOK' /\ logins' \in [Logins -> LoginRecords] /\ LoginOfScheme'
    BY <1>1, PageUnchanged, EndType
  <1> QED
    BY <1>1, <1>2, Parts DEF LoginsOK

LEMMA WindowReturnsSafe ==
    ASSUME IInv, NEW l \in Logins, NEW granted \in BOOLEAN, WindowReturns(l, granted)
    PROVE  IInv'
  <1>1. PageOK /\ LoginsOK /\ logins[l].step = "window"
        /\ UNCHANGED <<dialog, enabledScopes, tokenName, tokenUrl>>
    BY Parts DEF WindowReturns
  <1>2. CASE tokenUrl # None
    <2>1. /\ logins' = [logins EXCEPT ![l].step = "request", ![l].at = tokenUrl, ![l].granted = granted]
          /\ UNCHANGED pageVars
      BY <1>2 DEF WindowReturns
    <2>2. tokenUrl \in Schemes
      BY <1>1, <1>2 DEF LoginsOK
    <2>3. PageOK' /\ logins' \in [Logins -> LoginRecords] /\ LoginOfScheme'
      BY <1>1, <2>1, <2>2, PageUnchanged, RequestType
    <2> QED
      BY <1>1, <2>3, Parts DEF LoginsOK
  <1>3. CASE tokenUrl = None /\ granted /\ Flow[logins[l].scheme] = "implicit"
    BY <1>1, <1>3, CompleteSafe DEF WindowReturns
  <1>4. CASE tokenUrl = None /\ ~(granted /\ Flow[logins[l].scheme] = "implicit")
    <2>1. UNCHANGED pageVars /\ \E o \in {"none", "stored", "lost", "refused"} : End(l, o)
      <3>1. CASE granted
        BY <1>4, <3>1 DEF WindowReturns
      <3>2. CASE ~granted
        BY <1>4, <3>2 DEF WindowReturns
      <3> QED
        BY <3>1, <3>2
    <2> QED
      BY <1>1, <2>1, EndSafe
  <1> QED
    BY <1>2, <1>3, <1>4

LEMMA ServerAnswersSafe == ASSUME IInv, NEW l \in Logins, ServerAnswers(l) PROVE IInv'
  <1>1. logins[l].step = "request" /\ UNCHANGED <<dialog, enabledScopes, tokenName, tokenUrl>>
    BY DEF ServerAnswers
  <1>2. CASE Takes(l)
    <2>1. Complete(l, logins[l].at) /\ logins[l].at = logins[l].scheme
      BY <1>2 DEF ServerAnswers, Takes
    <2> QED
      BY <1>1, <2>1, CompleteSafe
  <1>3. CASE ~Takes(l)
    <2>1. UNCHANGED pageVars /\ \E o \in {"none", "stored", "lost", "refused"} : End(l, o)
      BY <1>3 DEF ServerAnswers
    <2> QED
      BY <1>1, <2>1, EndSafe
  <1> QED
    BY <1>2, <1>3

LEMMA AuthorizeSafe == ASSUME IInv, NEW checked \in SUBSET Schemes, Authorize(checked) PROVE IInv'
  <1>1. PageOK /\ LoginsOK /\ PageOK'
    BY Parts, PageUnchanged DEF Authorize
  <1>2. \A k \in Chosen(checked) : SchemeOrder[k] \in Schemes
    BY DEF Chosen
  <1>3. Opened(checked) \subseteq Chosen(checked) /\ Applications(checked) \subseteq Chosen(checked)
    BY DEF Opened, Applications
  <1>4. tokenUrl' \in Schemes \cup {None}
    BY <1>1, <1>2, <1>3 DEF Authorize, LeaveTokenUrl, TokenUrlOf, LoginsOK
  <1>5. \A s \in Schemes : TokenName[s] \in TokenNames
    OBVIOUS
  <1>6. /\ tokenName' \in TokenNames \cup {None}
        /\ logins' \in [Logins -> LoginRecords] /\ LoginOfScheme'
    <2>1. CASE \E k \in Opened(checked) :
                  tokenName' = TokenName[SchemeOrder[k]] /\ Begin(SchemeOrder[k], None)
      BY <1>1, <1>2, <1>3, <1>5, <2>1, BeginType
    <2>2. CASE \E a \in Applications(checked) :
                  tokenName' = TokenName[SchemeOrder[a]] /\ Begin(SchemeOrder[a], SchemeOrder[a])
      BY <1>1, <1>2, <1>3, <1>5, <2>2, BeginType
    <2>3. CASE UNCHANGED <<tokenName, logins>>
      BY <1>1, <2>3 DEF LoginsOK, LoginOfScheme
    <2> QED
      BY <2>1, <2>2, <2>3 DEF Authorize, LogIn
  <1>7. dialog' \in BOOLEAN /\ enabledScopes' \subseteq Scopes
    BY DEF Authorize
  <1> QED
    BY <1>1, <1>4, <1>6, <1>7, Parts DEF LoginsOK
-----------------------------------------------------------------------------
LEMMA InvNext == IInv /\ [Next]_vars => IInv'
  <1> SUFFICES ASSUME IInv, [Next]_vars PROVE IInv'
    OBVIOUS
  <1>1. PageOK /\ LoginsOK
    BY Parts
  <1>2. CASE UNCHANGED vars
    BY <1>1, <1>2, PageUnchanged, LoginsUnchanged, Parts DEF vars
  <1>3. CASE PageNext /\ UNCHANGED loginVars
    <2>1. PageOK'
      BY <1>3, LoadSafe, SettleSafe, ChangeKeySafe DEF PageNext
    <2> QED
      BY <1>1, <1>3, <2>1, LoginsUnchanged, Parts
  <1>4. CASE OpenDialog \/ Cancel
    <2>1. UNCHANGED pageVars /\ dialog' \in BOOLEAN
          /\ UNCHANGED <<enabledScopes, tokenName, tokenUrl, logins>>
      BY <1>4 DEF OpenDialog, Cancel
    <2> QED
      BY <1>1, <2>1, PageUnchanged, Parts DEF LoginsOK, LoginOfScheme
  <1>5. CASE Logout
    <2>1. enabledScopes' = Scopes /\ UNCHANGED <<dialog, tokenName, tokenUrl, logins>>
      BY <1>5 DEF Logout
    <2> QED
      BY <1>1, <1>5, <2>1, LogoutSafe, Parts DEF LoginsOK, LoginOfScheme
  <1>6. CASE \E checked \in SUBSET Schemes : Authorize(checked)
    BY <1>6, AuthorizeSafe
  <1>7. CASE \E l \in Logins : \E granted \in BOOLEAN : WindowReturns(l, granted)
    BY <1>7, WindowReturnsSafe
  <1>8. CASE \E l \in Logins : ServerAnswers(l)
    BY <1>8, ServerAnswersSafe
  <1>9. CASE \E l \in Logins : WindowCloses(l) \/ ServerFails(l)
    BY <1>9, EndSafe DEF WindowCloses, ServerFails
  <1> QED
    BY <1>2, <1>3, <1>4, <1>5, <1>6, <1>7, <1>8, <1>9 DEF Next, LoginNext

LEMMA Inductive == Spec => []IInv
  BY InvInit, InvNext, PTL DEF Spec
-----------------------------------------------------------------------------
\* The variables of the page and of the logins keep their types.
THEOREM TypeCorrect == Spec => []TypeOK
  <1>1. IInv => TypeOK
    BY DEF IInv
  <1> QED
    BY <1>1, Inductive, PTL

\* The late success of an earlier client never brings its description back.
THEOREM ShownCurrent == Spec => []ShownIsCurrent
  <1>1. IInv => ShownIsCurrent
    BY DEF IInv
  <1> QED
    BY <1>1, Inductive, PTL

\* No token is sent in the place of another scheme's.
THEOREM TokenSafe == Spec => []TokenOfItsScheme
  <1>1. IInv => TokenOfItsScheme
    BY DEF IInv
  <1> QED
    BY <1>1, Inductive, PTL
-----------------------------------------------------------------------------
(***************************************************************************)
(* What the current client holds is only ever added to, except by Logout   *)
(***************************************************************************)
OnlyAdded == \A k \in Keys : authz'[current'][k] \in {authz[current][k], k}

KeptNow ==
    \A k \in Keys :
       (authz[current][k] # None /\ authz'[current'][k] # authz[current][k]) =>
           /\ current' = current /\ shown # 0
           /\ authz'[current] = NoCredentials

LEMMA AddedIsKept == IInv /\ OnlyAdded => KeptNow
  BY DEF IInv, TypeOK, TokenOfItsScheme, OnlyAdded, KeptNow

LEMMA WithApiKeyAdds ==
    ASSUME IInv, NEW entered \in BOOLEAN, authz' = WithApiKey(entered), current' = current
    PROVE  OnlyAdded
  <1>1. CASE ~entered
    BY <1>1 DEF WithApiKey, OnlyAdded
  <1>2. CASE entered
    <2>1. authz' = [authz EXCEPT ![current] = [authz[current] EXCEPT ![ApiKey] = ApiKey]]
      BY <1>2 DEF WithApiKey
    <2>2. ApiKey \in Keys /\ ApiKey \in Keys \cup {None} /\ TypeOK
      BY DEF IInv
    <2>3. \A d \in Clients, k \in Keys :
              authz'[d][k] = IF d = current /\ k = ApiKey THEN ApiKey ELSE authz[d][k]
      BY ONLY <2>1, <2>2, Put, Zenon
    <2> QED
      BY <2>2, <2>3 DEF OnlyAdded, TypeOK
  <1> QED
    BY <1>1, <1>2

LEMMA LoadKeeps == IInv /\ Load => OnlyAdded
  <1> SUFFICES ASSUME IInv, Load PROVE OnlyAdded
    OBVIOUS
  <1>1. current' \in Clients
    BY LoadSafe DEF PageOK
  <1>2. authz \in [Clients -> [Keys -> Keys \cup {None}]]
    BY DEF IInv, TypeOK
  <1>3. authz' = [authz EXCEPT ![current'] = authz[current]]
    BY DEF Load
  <1> QED
    BY <1>1, <1>2, <1>3 DEF OnlyAdded

LEMMA SettleKeeps == ASSUME IInv, NEW c \in Clients, Settle(c) PROVE OnlyAdded
  <1>1. current' = current /\ keyField \in BOOLEAN
    BY DEF Settle, Succeeds, Fails, Throws, IInv, TypeOK
  <1>2. UNCHANGED authz \/ authz' = WithApiKey(keyField)
    BY DEF Settle, Succeeds, Fails, Throws, Render
  <1>3. CASE UNCHANGED authz
    BY <1>1, <1>3 DEF OnlyAdded
  <1>4. CASE authz' = WithApiKey(keyField)
    BY <1>1, <1>4, WithApiKeyAdds
  <1> QED
    BY <1>2, <1>3, <1>4

LEMMA CompleteKeeps ==
    ASSUME IInv, NEW l \in Logins, logins[l].step # "unused", Complete(l, logins[l].scheme)
    PROVE  OnlyAdded
  <1> DEFINE s == logins[l].scheme
  <1>1. TypeOK /\ s \in Keys /\ s \in Keys \cup {None}
    BY DEF IInv, LoginOfScheme
  <1>2. CASE UNCHANGED pageVars
    BY <1>2 DEF pageVars, OnlyAdded
  <1>3. CASE Store(s, s)
    <2>1. authz' = [authz EXCEPT ![current] = [authz[current] EXCEPT ![s] = s]] /\ current' = current
      BY <1>3 DEF Store
    <2>2. \A d \in Clients, k \in Keys :
              authz'[d][k] = IF d = current /\ k = s THEN s ELSE authz[d][k]
      BY ONLY <1>1, <2>1, Put, Zenon
    <2> QED
      BY <1>1, <2>1, <2>2 DEF OnlyAdded, TypeOK
  <1> QED
    BY <1>2, <1>3 DEF Complete

LEMMA LoginKeeps ==
    ASSUME IInv, NEW l \in Logins,
           \/ \E granted \in BOOLEAN : WindowReturns(l, granted)
           \/ WindowCloses(l) \/ ServerAnswers(l) \/ ServerFails(l)
    PROVE  OnlyAdded
  <1>1. logins[l].step # "unused"
    BY DEF WindowReturns, WindowCloses, ServerAnswers, ServerFails
  <1>2. UNCHANGED pageVars \/ Complete(l, logins[l].scheme)
    <2>1. CASE ServerAnswers(l)
      BY <2>1 DEF ServerAnswers, Takes
    <2>2. CASE \E granted \in BOOLEAN : WindowReturns(l, granted)
      <3>1. PICK granted \in BOOLEAN : WindowReturns(l, granted)
        BY <2>2
      <3>2. CASE tokenUrl # None
        BY <3>1, <3>2 DEF WindowReturns
      <3>3. CASE tokenUrl = None /\ granted
        BY <3>1, <3>3 DEF WindowReturns
      <3>4. CASE tokenUrl = None /\ ~granted
        BY <3>1, <3>4 DEF WindowReturns
      <3> QED
        BY <3>2, <3>3, <3>4
    <2> QED
      BY <2>1, <2>2 DEF WindowCloses, ServerFails
  <1>3. CASE UNCHANGED pageVars
    BY <1>3 DEF pageVars, OnlyAdded
  <1> QED
    BY <1>1, <1>2, <1>3, CompleteKeeps

LEMMA LogoutEmpties == IInv /\ Logout => KeptNow
  BY DEF IInv, TypeOK, Logout, KeptNow

LEMMA KeptNext == IInv /\ [Next]_vars => KeptNow
  <1> SUFFICES ASSUME IInv, [Next]_vars PROVE KeptNow
    OBVIOUS
  <1>1. CASE UNCHANGED pageVars
    BY <1>1 DEF pageVars, KeptNow
  <1>2. CASE PageNext
    <2>1. ASSUME NEW entered \in BOOLEAN, ChangeKey(entered) PROVE OnlyAdded
      BY <2>1, WithApiKeyAdds DEF ChangeKey
    <2> QED
      BY <1>2, <2>1, LoadKeeps, SettleKeeps, AddedIsKept DEF PageNext
  <1>3. CASE Logout
    BY <1>3, LogoutEmpties
  <1>4. CASE LoginNext /\ ~Logout
    BY <1>1, <1>4, LoginKeeps, AddedIsKept DEF LoginNext, OpenDialog, Cancel, Authorize
  <1> QED
    BY <1>1, <1>2, <1>3, <1>4 DEF Next, vars

\* No load and no login takes a credential away or puts another in its place.
THEOREM CredentialsSafe == Spec => CredentialsKept
  <1>1. IInv /\ [Next]_vars =>
          [\A k \in Keys :
             (authz[current][k] # None /\ authz'[current'][k] # authz[current][k]) =>
                /\ current' = current /\ shown # 0
                /\ authz'[current] = NoCredentials]_vars
    BY KeptNext DEF KeptNow
  <1> QED
    BY <1>1, Inductive, PTL DEF Spec, CredentialsKept
-----------------------------------------------------------------------------
(***************************************************************************)
(* A login that no other has overlapped is not lost                        *)
(***************************************************************************)
LEMMA DisciplineInit == Init => LoginDiscipline
  BY DEF Init, LoginDiscipline, Disciplined, Unused

LEMMA DisciplineKept ==
    LoginDiscipline /\ UNCHANGED <<tokenName, tokenUrl, logins>> => LoginDiscipline'
  BY DEF LoginDiscipline, Disciplined, TokenUrlOf

\* Ending as lost needs an overlap; any other end is well.
LEMMA EndDisciplined ==
    ASSUME IInv, LoginDiscipline, NEW l \in Logins, NEW o \in {"none", "stored", "lost", "refused"},
           End(l, o), o = "lost" => logins[l].overlapped, UNCHANGED <<tokenName, tokenUrl>>
    PROVE  LoginDiscipline'
  <1>1. /\ logins \in [Logins -> LoginRecords]
        /\ logins' = [logins EXCEPT ![l] = [[logins[l] EXCEPT !.step = "ended"] EXCEPT !.outcome = o]]
    BY DEF IInv, TypeOK, End
  <1>2. ASSUME NEW m \in Logins PROVE Disciplined(logins[m])'
    <2>1. CASE m = l
      <3>1. /\ logins'[m].step = "ended" /\ logins'[m].outcome = o
            /\ logins'[m].overlapped = logins[l].overlapped
        BY <1>1, <2>1 DEF LoginRecords
      <3> QED
        BY <3>1 DEF Disciplined
    <2>2. CASE m # l
      <3>1. logins'[m] = logins[m] /\ Disciplined(logins[m])
        BY <1>1, <2>2 DEF LoginDiscipline
      <3> QED
        BY <3>1 DEF Disciplined, TokenUrlOf
    <2> QED
      BY <2>1, <2>2
  <1> QED
    BY <1>2 DEF LoginDiscipline

\* A login that nothing overlapped is not the one whose token has no name.
LEMMA CompleteDisciplined ==
    ASSUME IInv, LoginDiscipline, NEW l \in Logins, logins[l].step \in {"window", "request"},
           Complete(l, logins[l].scheme), UNCHANGED <<tokenName, tokenUrl>>
    PROVE  LoginDiscipline'
  <1>1. CASE TokenName[logins[l].scheme] = tokenName
    BY <1>1, EndDisciplined DEF Complete
  <1>2. CASE TokenName[logins[l].scheme] # tokenName
    <2>1. logins[l].overlapped
      BY <1>2 DEF LoginDiscipline, Disciplined, IInv, TypeOK, LoginRecords
    <2> QED
      BY <1>2, <2>1, EndDisciplined DEF Complete
  <1> QED
    BY <1>1, <1>2

LEMMA ReturnsDisciplined ==
    ASSUME IInv, LoginDiscipline, NEW l \in Logins, NEW granted \in BOOLEAN, WindowReturns(l, granted)
    PROVE  LoginDiscipline'
  <1> DEFINE s == logins[l].scheme
  <1>1. /\ logins[l].step = "window" /\ UNCHANGED <<tokenName, tokenUrl>>
        /\ logins \in [Logins -> LoginRecords]
        /\ s \in Schemes /\ Flow[s] \in Flows /\ None \notin Schemes
        /\ logins[l].overlapped \in BOOLEAN
    BY LoginAssumption, NoneIsNoScheme DEF WindowReturns, IInv, TypeOK, LoginOfScheme, LoginRecords
  <1>2. ~logins[l].overlapped => Flow[s] # "application" /\ tokenUrl = TokenUrlOf(s)
    BY <1>1 DEF LoginDiscipline, Disciplined
  <1>3. CASE tokenUrl # None
    <2> DEFINE New == [logins[l] EXCEPT !.step = "request", !.at = tokenUrl, !.granted = granted]
    <2>1. logins' = [logins EXCEPT ![l] = New]
      BY <1>3 DEF WindowReturns
    <2>2. /\ New.step = "request" /\ New.at = tokenUrl /\ New.outcome = logins[l].outcome
          /\ New.scheme = s /\ New.overlapped = logins[l].overlapped
      BY <1>1 DEF LoginRecords
    <2>3. ~logins[l].overlapped => tokenUrl = s /\ Flow[s] = "accessCode"
      BY <1>2, <1>3 DEF TokenUrlOf
    <2>4. \A m \in Logins : logins'[m] = IF m = l THEN New ELSE logins[m]
      BY <1>1, <2>1
    <2> HIDE DEF New
    <2>5. ASSUME NEW m \in Logins PROVE Disciplined(logins[m])'
      <3>1. Disciplined(logins[m])
        BY DEF LoginDiscipline
      <3>2. CASE m = l
        BY <1>1, <2>2, <2>3, <2>4, <3>1, <3>2 DEF Disciplined
      <3>3. CASE m # l
        BY <1>1, <2>4, <3>1, <3>3 DEF Disciplined, TokenUrlOf
      <3> QED
        BY <3>2, <3>3
    <2> QED
      BY <2>5 DEF LoginDiscipline
  <1>4. CASE tokenUrl = None /\ granted /\ Flow[s] = "implicit"
    BY <1>1, <1>4, CompleteDisciplined DEF WindowReturns
  <1>5. CASE tokenUrl = None /\ granted /\ Flow[s] # "implicit"
    <2>1. logins[l].overlapped
      BY <1>1, <1>2, <1>5 DEF TokenUrlOf
    <2>2. End(l, "lost")
      BY <1>5 DEF WindowReturns
    <2> QED
      BY <1>1, <2>1, <2>2, EndDisciplined
  <1>6. CASE tokenUrl = None /\ ~granted
    <2>1. End(l, "refused")
      BY <1>6 DEF WindowReturns
    <2> QED
      BY <1>1, <2>1, EndDisciplined
  <1> QED
    BY <1>3, <1>4, <1>5, <1>6

LEMMA AnswersDisciplined ==
    ASSUME IInv, LoginDiscipline, NEW l \in Logins, ServerAnswers(l) PROVE LoginDiscipline'
  <1>1. logins[l].step = "request" /\ UNCHANGED <<tokenName, tokenUrl>>
    BY DEF ServerAnswers
  <1>2. CASE Takes(l)
    BY <1>1, <1>2, CompleteDisciplined DEF ServerAnswers, Takes
  <1>3. CASE ~Takes(l) /\ logins[l].granted
    <2>1. logins[l].overlapped
      BY <1>1, <1>3 DEF Takes, LoginDiscipline, Disciplined, IInv, TypeOK, LoginRecords
    <2> QED
      BY <1>1, <1>3, <2>1, EndDisciplined DEF ServerAnswers
  <1>4. CASE ~Takes(l) /\ ~logins[l].granted
    BY <1>1, <1>4, EndDisciplined DEF ServerAnswers
  <1> QED
    BY <1>2, <1>3, <1>4

\* The login that begins leaves its own name and URL, and overlaps all others.
LEMMA BeginDisciplined ==
    ASSUME IInv, LoginDiscipline, NEW s \in Schemes, NEW at \in {None, s}, Begin(s, at),
           tokenName' = TokenName[s],
           at = None => Flow[s] # "application" /\ tokenUrl' = TokenUrlOf(s),
           at # None => Flow[s] # "implicit"
    PROVE  LoginDiscipline'
  <1>1. PICK l \in Logins :
          logins' = [m \in Logins |->
              IF m = l THEN [Unused EXCEPT !.scheme = s, !.at = at, !.granted = (at # None),
                                           !.step = IF at = None THEN "window" ELSE "request"]
              ELSE [logins[m] EXCEPT !.overlapped = @ \/ logins[m].step \in {"window", "request"}]]
    BY DEF Begin
  <1>2. logins \in [Logins -> LoginRecords]
    BY DEF IInv, TypeOK
  <1>3. ASSUME NEW m \in Logins PROVE Disciplined(logins[m])'
    <2>1. CASE m = l
      <3>1. /\ logins'[m].scheme = s /\ logins'[m].at = at /\ logins'[m].outcome = "none"
            /\ logins'[m].step = IF at = None THEN "window" ELSE "request"
        BY <1>1, <2>1 DEF Unused
      <3>2. CASE at = None
        BY <3>1, <3>2 DEF Disciplined, TokenUrlOf
      <3>3. CASE at # None
        BY <3>1, <3>3 DEF Disciplined
      <3> QED
        BY <3>2, <3>3
    <2>2. CASE m # l
      <3>1. Disciplined(logins[m]) /\ logins[m] \in LoginRecords
        BY <1>2 DEF LoginDiscipline
      <3>2. /\ logins'[m].step = logins[m].step /\ logins'[m].outcome = logins[m].outcome
            /\ logins'[m].overlapped = (logins[m].overlapped \/ logins[m].step \in {"window", "request"})
        BY <1>1, <2>2, <3>1 DEF LoginRecords
      <3> QED
        BY <3>1, <3>2 DEF Disciplined
    <2> QED
      BY <2>1, <2>2
  <1> QED
    BY <1>3 DEF LoginDiscipline

LEMMA AuthorizeDisciplined ==
    ASSUME IInv, LoginDiscipline, NEW checked \in SUBSET Schemes, Authorize(checked)
    PROVE  LoginDiscipline'
  <1>1. \A k \in Chosen(checked) : SchemeOrder[k] \in Schemes /\ k \in Int
    BY LoginAssumption DEF Chosen
  <1>2. Opened(checked) \subseteq Chosen(checked) /\ Applications(checked) \subseteq Chosen(checked)
    BY DEF Opened, Applications
  <1>3. LeaveTokenUrl(checked) /\ LogIn(checked) /\ UNCHANGED pageVars
    BY DEF Authorize
  <1>4. CASE Applications(checked) = {} /\
             \E k \in Opened(checked) :
                /\ LastOpened(k, checked)
                /\ tokenName' = TokenName[SchemeOrder[k]]
                /\ Begin(SchemeOrder[k], None)
    <2>1. PICK k \in Opened(checked) :
             /\ LastOpened(k, checked)
             /\ tokenName' = TokenName[SchemeOrder[k]]
             /\ Begin(SchemeOrder[k], None)
      BY <1>4
    <2>2. PICK j \in Opened(checked) : LastOpened(j, checked) /\ tokenUrl' = TokenUrlOf(SchemeOrder[j])
      BY <1>3, <2>1 DEF LeaveTokenUrl
    <2>3. j = k
      BY <1>1, <1>2, <2>1, <2>2 DEF LastOpened
    <2>4. Flow[SchemeOrder[k]] # "application"
      BY <1>2, <1>4, <2>1 DEF Applications
    <2> QED
      BY <1>1, <1>2, <2>1, <2>2, <2>3, <2>4, BeginDisciplined
  <1>5. CASE \E a \in Applications(checked) :
                /\ tokenName' = TokenName[SchemeOrder[a]]
                /\ Begin(SchemeOrder[a], SchemeOrder[a])
    <2>1. PICK a \in Applications(checked) :
                /\ tokenName' = TokenName[SchemeOrder[a]]
                /\ Begin(SchemeOrder[a], SchemeOrder[a])
      BY <1>5
    <2>2. SchemeOrder[a] \in Schemes /\ Flow[SchemeOrder[a]] = "application" /\ SchemeOrder[a] # None
      BY <1>1, <1>2, NoneIsNoScheme DEF Applications
    <2> QED
      BY <2>1, <2>2, BeginDisciplined
  <1>6. CASE Chosen(checked) = {} /\ UNCHANGED <<tokenName, logins>>
    <2>1. UNCHANGED tokenUrl
      BY <1>2, <1>3, <1>6 DEF LeaveTokenUrl
    <2> QED
      BY <1>6, <2>1, DisciplineKept
  <1> QED
    BY <1>3, <1>4, <1>5, <1>6 DEF LogIn

LEMMA DisciplineNext == IInv /\ LoginDiscipline /\ [Next]_vars => LoginDiscipline'
  <1> SUFFICES ASSUME IInv, LoginDiscipline, [Next]_vars PROVE LoginDiscipline'
    OBVIOUS
  <1>1. CASE UNCHANGED <<tokenName, tokenUrl, logins>>
    BY <1>1, DisciplineKept
  <1>2. CASE \E checked \in SUBSET Schemes : Authorize(checked)
    BY <1>2, AuthorizeDisciplined
  <1>3. CASE \E l \in Logins : \E granted \in BOOLEAN : WindowReturns(l, granted)
    BY <1>3, ReturnsDisciplined
  <1>4. CASE \E l \in Logins : ServerAnswers(l)
    BY <1>4, AnswersDisciplined
  <1>5. CASE \E l \in Logins : WindowCloses(l) \/ ServerFails(l)
    BY <1>5, EndDisciplined DEF WindowCloses, ServerFails
  <1> QED
    BY <1>1, <1>2, <1>3, <1>4, <1>5 DEF Next, LoginNext, OpenDialog, Cancel, Logout, vars, loginVars

\* Logins one after the other do not disturb each other.
THEOREM LostSafe == Spec => []LostOnlyIfOverlapped
  <1>1. LoginDiscipline => LostOnlyIfOverlapped
    BY DEF LoginDiscipline, Disciplined, LostOnlyIfOverlapped
  <1>2. IInv' /\ IInv /\ LoginDiscipline /\ [Next]_vars => LoginDiscipline'
    BY DisciplineNext
  <1> QED
    BY <1>1, <1>2, DisciplineInit, Inductive, PTL DEF Spec
-----------------------------------------------------------------------------
(***************************************************************************)
(* What the client loaded last waits for (LoadIsAnswered, without fairness)*)
(***************************************************************************)

\* The guard of Settle(c), for the client loaded last.
Awaited(c) == current = c /\ stage[c] = "pending"

Known(c) == current # c \/ shown = c \/ message = "failure" \/ stage[c] = "thrown"

AwaitedUntilKnown == \A c \in Clients : Awaited(c) => Known(c)' \/ (Awaited(c)' /\ ~Settle(c))

LEMMA SettleAwaited ==
    ASSUME IInv, NEW c \in Clients, Awaited(c), NEW d \in Clients, Settle(d)
    PROVE  Known(c)' \/ (Awaited(c)' /\ ~Settle(c))
  <1>1. current' = current /\ stage \in [Clients -> Stages]
    BY DEF Settle, Succeeds, Fails, Throws, IInv, TypeOK
  <1>2. CASE d = c
    BY <1>1, <1>2 DEF Settle, Succeeds, Render, Fails, Throws, Awaited, Known
  <1>3. CASE d # c
    <2>1. stage'[c] = "pending"
      BY <1>1, <1>3 DEF Settle, Succeeds, Fails, Throws, Awaited
    <2>2. ~Settle(c)
      BY <1>1, <2>1 DEF Settle, Succeeds, Fails, Throws
    <2> QED
      BY <1>1, <2>1, <2>2 DEF Awaited
  <1> QED
    BY <1>2, <1>3

LEMMA AwaitedNext == IInv /\ [Next]_vars => AwaitedUntilKnown
  <1> SUFFICES ASSUME IInv, [Next]_vars, NEW c \in Clients, Awaited(c)
               PROVE  Known(c)' \/ (Awaited(c)' /\ ~Settle(c))
    BY DEF AwaitedUntilKnown
  <1>1. CASE \E d \in Clients : Settle(d)
    BY <1>1, SettleAwaited
  <1>2. CASE UNCHANGED <<current, stage>>
    <2>1. stage \in [Clients -> Stages]
      BY DEF IInv, TypeOK
    <2>2. ~Settle(c)
      BY <1>2, <2>1 DEF Settle, Succeeds, Fails, Throws
    <2> QED
      BY <1>2, <2>2 DEF Awaited
  <1>3. CASE Load
    <2>1. c \in 1..MaxLoads /\ MaxLoads \in Nat /\ current = c /\ current' = current + 1
      BY <1>3, NoneIsNoScheme DEF Load, Awaited
    <2>2. current' # c
      BY <2>1
    <2> QED
      BY <2>2 DEF Known
  <1> QED
    BY <1>1, <1>2, <1>3 DEF Next, PageNext, ChangeKey, LoginNext, OpenDialog, Cancel, Authorize,
       WindowReturns, WindowCloses, ServerAnswers, ServerFails, Complete, Store, Logout, vars, pageVars

\* A client loaded last stays about to settle until the tester sees it, a failure,
\* a newer load, or it throws; and to settle is enough, whichever client calls the
\* page back in between.  With the fairness of Settle that is LoadIsAnswered.
THEOREM LoadAwaited == Spec => [][AwaitedUntilKnown]_vars
  <1>1. IInv /\ [Next]_vars => [AwaitedUntilKnown]_vars
    BY AwaitedNext
  <1> QED
    BY <1>1, Inductive, PTL DEF Spec
=============================================================================
