---------------------------- MODULE TryOutProofs ----------------------------
(***************************************************************************)
(* Proofs about TryOut, for any parameters, values and credentials, and    *)
(* any number of loads and requests.                                       *)
(***************************************************************************)
EXTENDS TryOut, TLAPS

USE DEF Clients, Keys, Requests

\* The page shows the client loaded last, or none.
ShownIsLast == shown \in {0, current}

\* The operation's tokens that a client has.
Tokens(c) == {s \in Schemes : s \in Security /\ authz[c][s] # None}

\* The first of them is one of them.
FirstOfTokens(c) == IF Tokens(c) = {} THEN bearer[c] = None ELSE bearer[c] \in Tokens(c)

BearerOK ==
    /\ bearer \in [Clients -> (Security \ {ApiKey}) \cup {None}]
    /\ \A c \in Clients : FirstOfTokens(c)

\* A request that nothing has disturbed is the one that the arguments of the last
\* submit and the credentials of now would make.
SentIsLast ==
    \A r \in Requests :
        (requests[r].step = "sent" /\ ~requests[r].disturbed) =>
            requests[r].args = map /\ requests[r].creds = Carried /\ ~Missing(map)

StatusIsAnswered == status # 0 => requests[status].step = "answered"

ViewOK ==
    /\ form \in [Params -> Values \cup {Empty, Blank}]
    /\ map \in Args
    /\ throbber \in BOOLEAN
    /\ requests \in [Requests -> RequestRecords]
    /\ status \in {0} \cup Requests
    /\ curl \in Curls
    /\ SentIsLast /\ StatusIsAnswered /\ CurlRepeatsRequest

PageOK ==
    /\ current \in Clients /\ shown \in {0} \cup Clients
    /\ authz \in [Clients -> [Keys -> Keys \cup {None}]]
    /\ keyField \in BOOLEAN
    /\ ShownIsLast

IInv == PageOK /\ BearerOK /\ ViewOK
-----------------------------------------------------------------------------
LEMMA CarriedType == Carried \in SUBSET Security
  BY DEF Carried

LEMMA InputMapType == ViewOK => InputMap \in Args
  BY DEF ViewOK, InputMap, Args

LEMMA RecordTypes ==
    /\ NoArgs \in Args /\ NoCurl \in Curls
    /\ Unsent \in RequestRecords
    /\ \A args \in Args, creds \in SUBSET Security :
          /\ Curl("request", args, creds) \in Curls
          /\ Curl("undefined", NoArgs, creds) \in Curls
  BY DEF NoArgs, Args, NoCurl, Curls, Unsent, RequestRecords, Curl

LEMMA InvInit == Init => IInv
  <1> SUFFICES ASSUME Init PROVE IInv
    OBVIOUS
  <1>1. 1 \in Clients
    BY PageAssumption
  <1>2. PageOK
    BY <1>1 DEF Init, PageInit, PageOK, NoCredentials, ShownIsLast
  <1>3. ViewOK
    BY RecordTypes DEF Init, ViewOK, SentIsLast, StatusIsAnswered, CurlRepeatsRequest, Unsent
  <1>4. BearerOK
    BY DEF Init, PageInit, BearerOK, FirstOfTokens, Tokens, NoCredentials
  <1> QED
    BY <1>2, <1>3, <1>4 DEF IInv
-----------------------------------------------------------------------------
(***************************************************************************)
(* The page                                                                *)
(***************************************************************************)

\* Changing what the current client holds keeps the type.
LEMMA Changed ==
    ASSUME PageOK, NEW row \in [Keys -> Keys \cup {None}],
           authz' = [authz EXCEPT ![current] = row]
    PROVE  authz' \in [Clients -> [Keys -> Keys \cup {None}]]
  BY DEF PageOK

LEMMA WithApiKeyType ==
    ASSUME PageOK, NEW entered \in BOOLEAN, authz' = WithApiKey(entered)
    PROVE  authz' \in [Clients -> [Keys -> Keys \cup {None}]]
  <1>1. CASE ~entered
    BY <1>1 DEF WithApiKey, PageOK
  <1>2. CASE entered
    <2> DEFINE row == [authz[current] EXCEPT ![ApiKey] = ApiKey]
    <2>1. authz[current] \in [Keys -> Keys \cup {None}]
      BY DEF PageOK
    <2>2. row \in [Keys -> Keys \cup {None}]
      BY <2>1
    <2>3. authz' = [authz EXCEPT ![current] = row]
      BY <1>2 DEF WithApiKey
    <2> QED
      BY ONLY <2>2, <2>3, PageOK, Changed
  <1> QED
    BY <1>1, <1>2

LEMMA LoadSafe == PageOK /\ Load => PageOK'
  <1> SUFFICES ASSUME PageOK, Load PROVE PageOK'
    OBVIOUS
  <1>1. current' = current + 1 /\ current < MaxLoads /\ current \in 1..MaxLoads
    BY DEF PageOK, Load
  <1>2. current' \in Clients
    BY ONLY <1>1, PageAssumption DEF Clients
  <1> QED
    BY <1>1, <1>2 DEF PageOK, Load, ShownIsLast

LEMMA SettleSafe == ASSUME PageOK, NEW c \in Clients, Settle(c) PROVE PageOK'
  <1>1. CASE Succeeds(c)
    <2>1. CASE stage'[current] = "built"
      BY <1>1, <2>1, WithApiKeyType DEF Succeeds, Render, PageOK, ShownIsLast
    <2>2. CASE stage'[current] # "built"
      BY <1>1, <2>2 DEF Succeeds, Render, PageOK, ShownIsLast
    <2> QED
      BY <2>1, <2>2
  <1>2. CASE Fails(c) \/ Throws(c)
    BY <1>2 DEF Fails, Throws, PageOK, ShownIsLast
  <1> QED
    BY <1>1, <1>2 DEF Settle

LEMMA CredentialsSafe ==
    ASSUME PageOK, LoggedOut \/ \E s \in Schemes : TokenArrives(s)
    PROVE  PageOK'
  <1>1. CASE LoggedOut
    <2>1. NoCredentials \in [Keys -> Keys \cup {None}]
      BY DEF NoCredentials
    <2> QED
      BY <1>1, <2>1, Changed DEF LoggedOut, PageOK, ShownIsLast
  <1>2. ASSUME NEW s \in Schemes, TokenArrives(s) PROVE PageOK'
    <2> DEFINE row == [authz[current] EXCEPT ![s] = s]
    <2>1. authz[current] \in [Keys -> Keys \cup {None}]
      BY DEF PageOK
    <2>2. row \in [Keys -> Keys \cup {None}]
      BY <2>1
    <2>3. authz' = [authz EXCEPT ![current] = row]
      BY <1>2 DEF TokenArrives
    <2>4. authz' \in [Clients -> [Keys -> Keys \cup {None}]]
      BY ONLY <2>2, <2>3, PageOK, Changed
    <2> QED
      BY <1>2, <2>4 DEF TokenArrives, PageOK, ShownIsLast
  <1> QED
    BY <1>1, <1>2

LEMMA ChangeKeySafe == ASSUME PageOK, NEW entered \in BOOLEAN, ChangeKey(entered) PROVE PageOK'
  BY WithApiKeyType DEF ChangeKey, PageOK, ShownIsLast

LEMMA PageStepSafe == PageOK /\ PageStep => PageOK'
  BY LoadSafe, SettleSafe, ChangeKeySafe, CredentialsSafe DEF PageStep, PageNext

LEMMA PageUnchanged ==
    ASSUME PageOK, BearerOK, UNCHANGED <<pageVars, bearer>>
    PROVE  PageOK' /\ BearerOK' /\ Carried' = Carried
  BY DEF PageOK, pageVars, ShownIsLast, Carried, BearerOK, FirstOfTokens, Tokens

\* A client whose tokens stay has the same first token.
LEMMA SameTokens ==
    ASSUME NEW c \in Clients, FirstOfTokens(c), bearer'[c] = bearer[c],
           \A s \in Schemes : authz'[c][s] = authz[c][s]
    PROVE  FirstOfTokens(c)'
  BY DEF FirstOfTokens, Tokens

\* The key field changes no tokens.
LEMMA KeyLeavesTokens ==
    ASSUME PageOK, NEW entered \in BOOLEAN, authz' = WithApiKey(entered) \/ authz' = authz,
           NEW c \in Clients, NEW s \in Schemes
    PROVE  authz'[c][s] = authz[c][s]
  <1>1. s # ApiKey
    BY PageAssumption
  <1>2. authz \in [Clients -> [Keys -> Keys \cup {None}]] /\ current \in Clients
    BY DEF PageOK
  <1> QED
    BY <1>1, <1>2 DEF WithApiKey

LEMMA TokenBearer ==
    ASSUME PageOK, BearerOK, NEW s \in Schemes, TokenArrives(s)
    PROVE  BearerOK'
  <1>1. /\ authz' = [authz EXCEPT ![current] = [@ EXCEPT ![s] = s]]
        /\ bearer' = [bearer EXCEPT ![current] = IF @ = None /\ s \in Security THEN s ELSE @]
    BY DEF TokenArrives
  <1>2. s # ApiKey /\ s # None
    BY PageAssumption
  <1>3. authz \in [Clients -> [Keys -> Keys \cup {None}]] /\ current \in Clients
    BY DEF PageOK
  <1>4. bearer' \in [Clients -> (Security \ {ApiKey}) \cup {None}]
    BY <1>1, <1>2, <1>3 DEF BearerOK
  <1>5. ASSUME NEW c \in Clients, c # current PROVE FirstOfTokens(c)'
    BY <1>1, <1>3, <1>5, SameTokens DEF BearerOK
  <1>6. FirstOfTokens(current) /\ bearer[current] \in (Security \ {ApiKey}) \cup {None}
    BY <1>3 DEF BearerOK
  <1>7. authz'[current][s] = s /\ \A k \in Schemes : k # s => authz'[current][k] = authz[current][k]
    BY <1>1, <1>3
  <1>8. bearer'[current] = IF bearer[current] = None /\ s \in Security THEN s ELSE bearer[current]
    BY <1>1, <1>3 DEF BearerOK
  <1>9. current' = current
    BY DEF TokenArrives
  <1>10. ASSUME NEW c \in Clients, c = current PROVE FirstOfTokens(c)'
    <2>1. Tokens(c)' = IF s \in Security THEN Tokens(c) \cup {s} ELSE Tokens(c)
      BY <1>2, <1>7, <1>10 DEF Tokens
    <2>2. None \notin Tokens(c)
      BY PageAssumption DEF Tokens
    <2> QED
      BY <1>6, <1>8, <1>10, <2>1, <2>2 DEF FirstOfTokens
  <1> QED
    BY <1>4, <1>5, <1>10 DEF BearerOK

LEMMA LogoutBearer == PageOK /\ BearerOK /\ LoggedOut => BearerOK'
  <1> SUFFICES ASSUME PageOK, BearerOK, LoggedOut PROVE BearerOK'
    OBVIOUS
  <1>1. /\ authz' = [authz EXCEPT ![current] = NoCredentials]
        /\ bearer' = [bearer EXCEPT ![current] = None]
    BY DEF LoggedOut
  <1>2. authz \in [Clients -> [Keys -> Keys \cup {None}]] /\ current \in Clients
    BY DEF PageOK
  <1>3. ASSUME NEW c \in Clients, c # current PROVE FirstOfTokens(c)'
    BY <1>1, <1>2, <1>3, SameTokens DEF BearerOK
  <1>4. ASSUME NEW c \in Clients, c = current PROVE FirstOfTokens(c)'
    <2>1. authz'[c] = NoCredentials /\ bearer'[c] = None
      BY <1>1, <1>2, <1>4 DEF BearerOK
    <2> QED
      BY <2>1 DEF FirstOfTokens, Tokens, NoCredentials
  <1> QED
    BY <1>1, <1>3, <1>4 DEF BearerOK

LEMMA LoadBearer == PageOK /\ BearerOK /\ Load /\ OrderKept => BearerOK'
  <1> SUFFICES ASSUME PageOK, BearerOK, Load, OrderKept PROVE BearerOK'
    OBVIOUS
  <1>1. current \in Clients /\ current + 1 \in Clients /\ current + 1 # current
    BY PageAssumption DEF PageOK, Load
  <1>2. /\ authz' = [authz EXCEPT ![current + 1] = authz[current]]
        /\ bearer' = [bearer EXCEPT ![current + 1] = bearer[current]]
    BY <1>1 DEF Load, OrderKept
  <1>3. authz \in [Clients -> [Keys -> Keys \cup {None}]]
    BY DEF PageOK
  <1>4. ASSUME NEW c \in Clients, c # current + 1 PROVE FirstOfTokens(c)'
    BY <1>2, <1>3, <1>4, SameTokens DEF BearerOK
  <1>5. ASSUME NEW c \in Clients, c = current + 1 PROVE FirstOfTokens(c)'
    <2>1. authz'[c] = authz[current] /\ bearer'[c] = bearer[current]
      BY <1>1, <1>2, <1>3, <1>5 DEF BearerOK
    <2>2. FirstOfTokens(current)
      BY <1>1 DEF BearerOK
    <2> QED
      BY <2>1, <2>2 DEF FirstOfTokens, Tokens
  <1> QED
    BY <1>1, <1>2, <1>4, <1>5 DEF BearerOK

LEMMA BearerSafe == PageOK /\ BearerOK /\ PageStep => BearerOK'
  <1> SUFFICES ASSUME PageOK, BearerOK, PageStep PROVE BearerOK'
    OBVIOUS
  <1>1. ASSUME UNCHANGED bearer, NEW entered \in BOOLEAN, authz' = WithApiKey(entered) \/ authz' = authz
        PROVE  BearerOK'
    <2>1. ASSUME NEW c \in Clients PROVE FirstOfTokens(c)'
      BY <1>1, <2>1, KeyLeavesTokens, SameTokens DEF BearerOK
    <2> QED
      BY <1>1, <2>1 DEF BearerOK
  <1>2. ASSUME NEW c \in Clients, Settle(c), OrderKept PROVE BearerOK'
    <2>1. UNCHANGED bearer /\ (authz' = WithApiKey(keyField) \/ authz' = authz)
      BY <1>2 DEF Settle, Succeeds, Render, Fails, Throws, OrderKept
    <2> QED
      BY <1>1, <2>1 DEF PageOK
  <1>3. ASSUME NEW entered \in BOOLEAN, ChangeKey(entered), OrderKept PROVE BearerOK'
    BY <1>1, <1>3 DEF ChangeKey, OrderKept
  <1> QED
    BY <1>2, <1>3, LoadBearer, LogoutBearer, TokenBearer DEF PageStep, PageNext
-----------------------------------------------------------------------------
(***************************************************************************)
(* The view                                                                *)
(***************************************************************************)

\* What is disturbed stays in its place, and only what is under way is disturbed.
LEMMA DisturbedKept ==
    ASSUME NEW q \in RequestRecords
    PROVE  /\ Disturbed(q) \in RequestRecords
           /\ Disturbed(q).step = q.step
           /\ q.step = "sent" => Disturbed(q).disturbed
           /\ q.step # "sent" => Disturbed(q) = q
  BY RecordTypes DEF Disturbed, Unsent, RequestRecords

\* What is replaced was answered.
LEMMA ReplacedKept ==
    ASSUME NEW q \in RequestRecords
    PROVE  /\ Replaced(q) \in RequestRecords
           /\ Replaced(q).step = q.step
           /\ q.step # "answered" => Replaced(q) = q
  BY RecordTypes DEF Replaced, Unsent, RequestRecords

LEMMA AsCurlType ==
    ASSUME ViewOK, NEW args \in Args PROVE AsCurl(args) \in Curls
  <1>1. CASE ~Missing(args)
    BY <1>1, RecordTypes, CarriedType DEF AsCurl
  <1>2. CASE Missing(args)
    BY <1>2, RecordTypes DEF AsCurl, ViewOK
  <1> QED
    BY <1>1, <1>2

LEMMA FillSafe ==
    ASSUME IInv, NEW p \in Params, NEW v \in Values \cup {Empty, Blank}, Fill(p, v)
    PROVE  ViewOK'
  <1>1. Carried' = Carried
    BY PageUnchanged DEF IInv, Fill
  <1> QED
    BY <1>1 DEF IInv, Fill, ViewOK, SentIsLast, StatusIsAnswered, CurlRepeatsRequest

\* Once every request under way is disturbed, nothing is asked of them.
LEMMA AllDisturbed ==
    ASSUME ViewOK, requests' = [q \in Requests |-> Disturbed(requests[q])]
    PROVE  /\ requests' \in [Requests -> RequestRecords]
           /\ SentIsLast'
           /\ \A r \in Requests : requests[r].step = "answered" => requests'[r] = requests[r]
  <1>1. \A r \in Requests : requests[r] \in RequestRecords /\ requests'[r] = Disturbed(requests[r])
    BY DEF ViewOK
  <1> QED
    BY <1>1, DisturbedKept DEF SentIsLast

LEMMA SubmitMissingSafe == IInv /\ Submit /\ SubmitMissing => ViewOK'
  <1> SUFFICES ASSUME IInv, Submit, SubmitMissing PROVE ViewOK'
    OBVIOUS
  <1>1. /\ map' = InputMap /\ status' = 0 /\ throbber' = FALSE /\ curl' = AsCurl(InputMap)
        /\ requests' = [q \in Requests |-> Disturbed(Replaced(requests[q]))] /\ form' = form
    BY DEF Submit, SubmitMissing, ShowStatus
  <1>2. ViewOK /\ InputMap \in Args
    BY InputMapType DEF IInv
  <1>3. curl' \in Curls
    BY <1>1, <1>2, AsCurlType
  <1>4. ASSUME NEW r \in Requests
        PROVE  requests'[r] \in RequestRecords /\ (requests'[r].step = "sent" => requests'[r].disturbed)
    <2>1. requests[r] \in RequestRecords /\ requests'[r] = Disturbed(Replaced(requests[r]))
      BY <1>1, <1>2 DEF ViewOK
    <2>2. Replaced(requests[r]) \in RequestRecords
      BY <2>1, ReplacedKept
    <2> QED
      BY <2>1, <2>2, DisturbedKept
  <1>5. requests' \in [Requests -> RequestRecords] /\ SentIsLast'
    BY <1>1, <1>4 DEF SentIsLast
  <1> QED
    BY <1>1, <1>2, <1>3, <1>5 DEF ViewOK, StatusIsAnswered, CurlRepeatsRequest

LEMMA SendSafe == IInv /\ Submit /\ Send => ViewOK'
  <1> SUFFICES ASSUME IInv, Submit, Send PROVE ViewOK'
    OBVIOUS
  <1>1. /\ map' = InputMap /\ throbber' = TRUE /\ form' = form /\ status' = status /\ curl' = curl
        /\ ~Missing(InputMap) /\ Carried' = Carried
    BY PageUnchanged DEF Submit, Send, IInv
  <1>2. ViewOK /\ InputMap \in Args /\ Carried \in SUBSET Security
    BY InputMapType, CarriedType DEF IInv
  <1>3. PICK r \in Requests :
           /\ requests[r].step = "unsent"
           /\ requests' = [q \in Requests |->
                 IF q = r THEN [Unsent EXCEPT !.step = "sent", !.args = InputMap, !.creds = Carried]
                 ELSE Disturbed(requests[q])]
    BY DEF Send
  <1>4. /\ requests'[r] \in RequestRecords
        /\ requests'[r].args = InputMap /\ requests'[r].creds = Carried
    BY <1>2, <1>3 DEF Unsent, RequestRecords
  <1>5. ASSUME NEW q \in Requests, q # r
        PROVE  /\ requests'[q] \in RequestRecords
               /\ requests[q].step = "answered" => requests'[q] = requests[q]
               /\ requests'[q].step = "sent" => requests'[q].disturbed
    <2>1. requests[q] \in RequestRecords /\ requests'[q] = Disturbed(requests[q])
      BY <1>2, <1>3, <1>5 DEF ViewOK
    <2> QED
      BY <2>1, DisturbedKept
  <1>6. requests' \in [Requests -> RequestRecords]
    BY <1>3, <1>4, <1>5
  <1>7. SentIsLast'
    <2>1. Missing(InputMap)' = Missing(InputMap') /\ (Missing(map))' = Missing(InputMap)
      BY <1>1 DEF Missing
    <2> QED
      BY <1>1, <1>4, <1>5, <2>1 DEF SentIsLast
  <1>8. status # 0 => status \in Requests /\ requests[status].step = "answered" /\ status # r
    BY <1>2, <1>3 DEF ViewOK, StatusIsAnswered
  <1>9. status # 0 => requests'[status] = requests[status]
    BY <1>5, <1>8
  <1> QED
    BY <1>1, <1>2, <1>6, <1>7, <1>9 DEF ViewOK, StatusIsAnswered, CurlRepeatsRequest

LEMMA AnsweredSafe == ASSUME IInv, NEW r \in Requests, Answered(r) PROVE ViewOK'
  <1>1. /\ status' = r /\ throbber' = FALSE /\ curl' = AsCurl(map) /\ form' = form /\ map' = map
        /\ requests' = [q \in Requests |->
              IF q = r THEN [requests[r] EXCEPT !.step = "answered"] ELSE Replaced(requests[q])]
        /\ requests[r].step = "sent"
        /\ Carried' = Carried
    BY PageUnchanged DEF Answered, ShowStatus, IInv
  <1>2. ViewOK /\ map \in Args /\ requests[r] \in RequestRecords /\ r # 0
    BY DEF IInv, ViewOK
  <1>3. /\ requests' \in [Requests -> RequestRecords]
        /\ requests'[r].step = "answered" /\ requests'[r].args = requests[r].args
        /\ requests'[r].creds = requests[r].creds /\ requests'[r].disturbed = requests[r].disturbed
        /\ \A q \in Requests : requests'[q].step = "sent" => requests'[q] = requests[q]
    <2>1. ASSUME NEW q \in Requests, q # r
          PROVE  /\ requests'[q] \in RequestRecords
                 /\ requests'[q].step = "sent" => requests'[q] = requests[q]
      <3>1. requests[q] \in RequestRecords /\ requests'[q] = Replaced(requests[q])
        BY <1>1, <1>2, <2>1 DEF ViewOK
      <3> QED
        BY <3>1, ReplacedKept
    <2>2. requests'[r] = [requests[r] EXCEPT !.step = "answered"]
      BY <1>1
    <2>3. /\ requests'[r] \in RequestRecords
          /\ requests'[r].step = "answered" /\ requests'[r].args = requests[r].args
          /\ requests'[r].creds = requests[r].creds /\ requests'[r].disturbed = requests[r].disturbed
      BY <1>2, <2>2 DEF RequestRecords
    <2> QED
      BY <1>1, <2>1, <2>3
  <1>4. curl' \in Curls
    BY <1>1, <1>2, AsCurlType
  <1>5. SentIsLast'
    BY <1>1, <1>2, <1>3 DEF ViewOK, SentIsLast, Missing
  <1>6. ~requests[r].disturbed => curl' = Curl("request", requests[r].args, requests[r].creds)
    BY <1>1, <1>2 DEF ViewOK, SentIsLast, AsCurl
  <1>7. CurlRepeatsRequest'
    BY <1>1, <1>3, <1>6 DEF CurlRepeatsRequest, Curl
  <1> QED
    BY <1>1, <1>2, <1>3, <1>4, <1>5, <1>7 DEF ViewOK, StatusIsAnswered

LEMMA NewViewSafe == ViewOK /\ NewView => ViewOK'
  <1> SUFFICES ASSUME ViewOK, NewView PROVE ViewOK'
    OBVIOUS
  <1>1. /\ form' \in [Params -> Values \cup {Empty, Blank}] /\ map' \in Args /\ curl' \in Curls
        /\ throbber' = FALSE /\ status' = 0
    BY RecordTypes DEF NewView
  <1>2. requests' \in [Requests -> RequestRecords] /\ \A r \in Requests : requests'[r].step # "sent"
    BY RecordTypes DEF NewView, Unsent, RequestRecords
  <1> QED
    BY <1>1, <1>2 DEF ViewOK, SentIsLast, StatusIsAnswered, CurlRepeatsRequest

LEMMA SameViewSafe == ViewOK /\ SameView => ViewOK'
  <1> SUFFICES ASSUME ViewOK, SameView PROVE ViewOK'
    OBVIOUS
  <1>1. UNCHANGED <<form, map, throbber, status, curl>>
    BY DEF SameView
  <1>2. CASE Carried' # Carried
    <2>1. requests' = [q \in Requests |-> Disturbed(requests[q])]
      BY <1>2 DEF SameView
    <2>2. /\ requests' \in [Requests -> RequestRecords] /\ SentIsLast'
          /\ \A r \in Requests : requests[r].step = "answered" => requests'[r] = requests[r]
      BY ONLY <2>1, ViewOK, AllDisturbed
    <2> QED
      BY <1>1, <2>2 DEF ViewOK, StatusIsAnswered, CurlRepeatsRequest
  <1>3. CASE Carried' = Carried
    <2>1. requests' = requests
      BY <1>3 DEF SameView, ViewOK
    <2> QED
      BY <1>1, <1>3, <2>1 DEF ViewOK, SentIsLast, Missing, StatusIsAnswered, CurlRepeatsRequest
  <1> QED
    BY <1>2, <1>3

LEMMA InvNext == IInv /\ [Next]_vars => IInv'
  <1> SUFFICES ASSUME IInv, [Next]_vars PROVE IInv'
    OBVIOUS
  <1>1. CASE PageStep
    BY <1>1, PageStepSafe, BearerSafe, NewViewSafe, SameViewSafe DEF IInv, PageStep
  <1>2. ASSUME NEW p \in Params, NEW v \in Values \cup {Empty, Blank}, Fill(p, v) PROVE IInv'
    BY <1>2, FillSafe, PageUnchanged DEF IInv, Fill
  <1>3. CASE Submit
    BY <1>3, SendSafe, SubmitMissingSafe, PageUnchanged DEF IInv, Submit
  <1>4. ASSUME NEW r \in Requests, Answered(r) PROVE IInv'
    BY <1>4, AnsweredSafe, PageUnchanged DEF IInv, Answered
  <1>5. CASE UNCHANGED vars
    <2>1. PageOK' /\ BearerOK' /\ Carried' = Carried
      BY <1>5, PageUnchanged DEF IInv, vars
    <2> QED
      BY <1>5, <2>1 DEF IInv, vars, viewVars, ViewOK, SentIsLast, Missing, StatusIsAnswered,
         CurlRepeatsRequest
  <1> QED
    BY <1>1, <1>2, <1>3, <1>4, <1>5 DEF Next

LEMMA Inductive == Spec => []IInv
  BY InvInit, InvNext, PTL DEF Spec
-----------------------------------------------------------------------------
\* The page, the view and its requests keep their types.
THEOREM TypeCorrect == Spec => []TypeOK
  <1>1. IInv => TypeOK
    BY DEF IInv, PageOK, BearerOK, ViewOK, TypeOK
  <1> QED
    BY <1>1, Inductive, PTL

\* The curl command is that of the answer beside it, for any number of requests
\* under way, unless something came between that request and its answer.
THEOREM CurlSafe == Spec => []CurlRepeatsRequest
  <1>1. IInv => CurlRepeatsRequest
    BY DEF IInv, ViewOK
  <1> QED
    BY <1>1, Inductive, PTL

\* The credentials that the page has been given for the operation.
Has == {k \in Security : authz[current][k] # None}

SentAuthorized ==
    \A r \in Requests :
        (requests[r].step = "unsent" /\ requests'[r].step = "sent") =>
            LET sent == requests'[r].creds
            IN  /\ sent \subseteq Has
                /\ Has \ Schemes \subseteq sent
                /\ Has \cap Schemes # {} => \E s \in Has : sent \cap Schemes = {s}

\* What is sent is of the page, and of its tokens the first.
LEMMA CarriedOfPage ==
    ASSUME PageOK, BearerOK, shown = current
    PROVE  /\ Carried \subseteq Has
           /\ Has \ Schemes \subseteq Carried
           /\ Has \cap Schemes # {} => \E s \in Has : Carried \cap Schemes = {s}
  <1>1. current \in Clients /\ current # 0
    BY DEF PageOK
  <1>2. Carried = {k \in Has : k = ApiKey \/ k = bearer[current]}
    BY <1>1 DEF Carried, Has
  <1>3. Has \subseteq Schemes \cup {ApiKey} /\ ApiKey \notin Schemes
    BY PageAssumption, TryOutAssumption DEF Has
  <1>4. ASSUME Has \cap Schemes # {} PROVE \E s \in Has : Carried \cap Schemes = {s}
    <2>1. Tokens(current) = Has \cap Schemes
      BY DEF Tokens, Has
    <2>2. bearer[current] \in Has \cap Schemes
      BY <1>1, <1>4, <2>1 DEF BearerOK, FirstOfTokens
    <2>3. Carried \cap Schemes = {bearer[current]}
      BY <1>2, <1>3, <2>2
    <2> QED
      BY <2>2, <2>3
  <1> QED
    BY <1>2, <1>3, <1>4

LEMMA SubmitAuthorized == IInv /\ Submit => SentAuthorized
  <1> SUFFICES ASSUME IInv, Submit, NEW r \in Requests,
                      requests[r].step = "unsent", requests'[r].step = "sent"
               PROVE  requests'[r].creds = Carried /\ shown = current
    BY CarriedOfPage DEF SentAuthorized, IInv
  <1>1. requests[r] \in RequestRecords
    BY DEF IInv, ViewOK
  <1>2. Disturbed(requests[r]).step = "unsent" /\ Disturbed(Replaced(requests[r])).step = "unsent"
    BY <1>1, DisturbedKept, ReplacedKept
  <1>3. Send
    BY <1>2 DEF Submit, SubmitMissing
  <1>4. requests'[r].creds = Carried
    BY <1>2, <1>3 DEF Send, Unsent
  <1>5. shown = current
    BY DEF Submit, IInv, PageOK, ShownIsLast
  <1> QED
    BY <1>4, <1>5

LEMMA OthersSendNothing ==
    ASSUME IInv, UNCHANGED requests \/ NewView \/ SameView \/ \E q \in Requests : Answered(q)
    PROVE  SentAuthorized
  <1> SUFFICES ASSUME NEW r \in Requests, requests[r].step = "unsent" PROVE requests'[r].step = "unsent"
    BY DEF SentAuthorized
  <1>1. requests[r] \in RequestRecords /\ requests \in [Requests -> RequestRecords]
    BY DEF IInv, ViewOK
  <1>2. CASE NewView
    BY <1>2 DEF NewView, Unsent
  <1>3. CASE SameView
    BY <1>1, <1>3, DisturbedKept DEF SameView
  <1>4. ASSUME NEW q \in Requests, Answered(q) PROVE requests'[r].step = "unsent"
    BY <1>1, <1>4, ReplacedKept DEF Answered
  <1> QED
    BY <1>2, <1>3, <1>4

\* Every request carries the credentials that the page has then, whichever
\* clients were loaded and rendered before.
THEOREM AuthorizedSafe == Spec => Authorized
  <1>1. IInv /\ [Next]_vars => SentAuthorized
    BY SubmitAuthorized, OthersSendNothing DEF Next, PageStep, Fill, vars, viewVars
  <1>2. [][SentAuthorized]_vars => Authorized
    BY PTL DEF Authorized, SentAuthorized, Has
  <1> QED
    BY <1>1, <1>2, Inductive, PTL DEF Spec
-----------------------------------------------------------------------------
(***************************************************************************)
(* Why waiting ends (WaitingEnds, without fairness)                        *)
(***************************************************************************)

\* Some request of the view is under way, for which a step Answered has its guard.
Awaiting == \E r \in Requests : requests[r].step = "sent"

WaitsForAnswer == throbber => Awaiting

LEMMA StepsKept ==
    ASSUME ViewOK, SameView, NEW r \in Requests
    PROVE  requests'[r].step = requests[r].step
  <1>1. requests[r] \in RequestRecords
    BY DEF ViewOK
  <1> QED
    BY <1>1, DisturbedKept DEF SameView

LEMMA WaitsNext == IInv /\ WaitsForAnswer /\ [Next]_vars => WaitsForAnswer'
  <1> SUFFICES ASSUME IInv, WaitsForAnswer, [Next]_vars, throbber' PROVE Awaiting'
    BY DEF WaitsForAnswer
  <1>1. CASE PageStep
    <2>1. SameView
      BY <1>1 DEF PageStep, NewView
    <2>2. throbber
      BY <2>1 DEF SameView
    <2> QED
      BY <2>1, <2>2, StepsKept DEF IInv, WaitsForAnswer, Awaiting
  <1>2. CASE Submit
    <2>1. Send
      BY <1>2 DEF Submit, SubmitMissing, ShowStatus
    <2>2. PICK r \in Requests :
             requests' = [q \in Requests |->
                IF q = r THEN [Unsent EXCEPT !.step = "sent", !.args = InputMap, !.creds = Carried]
                ELSE Disturbed(requests[q])]
      BY <2>1 DEF Send
    <2>3. requests'[r].step = "sent"
      BY <2>2 DEF Unsent
    <2> QED
      BY <2>3 DEF Awaiting
  <1>3. CASE UNCHANGED <<throbber, requests>>
    BY <1>3 DEF WaitsForAnswer, Awaiting
  <1> QED
    BY <1>1, <1>2, <1>3 DEF Next, Fill, Answered, ShowStatus, vars, viewVars

\* A view that shows that it is waiting has a request under way, whose answer or
\* failure will come: also after a second submit, an argument missing, or a new
\* page.  (submitOperation and showStatus)
THEOREM NeverInVain == Spec => []WaitsForAnswer
  <1>1. Init => WaitsForAnswer
    BY DEF Init, WaitsForAnswer
  <1> QED
    BY <1>1, WaitsNext, Inductive, PTL DEF Spec

\* Of a request under way while the view waits: waiting ends, or the request stays
\* under way, which its own answer does not leave it.
StillAwaited ==
    \A r \in Requests : (throbber /\ requests[r].step = "sent") =>
        ~throbber' \/ (requests'[r].step = "sent" /\ ~Answered(r))

LEMMA AwaitedNext == IInv /\ [Next]_vars => StillAwaited
  <1> SUFFICES ASSUME IInv, [Next]_vars, NEW r \in Requests, throbber, requests[r].step = "sent", throbber'
               PROVE  requests'[r].step = "sent" /\ ~Answered(r)
    BY DEF StillAwaited
  <1>1. \A q \in Requests : ~Answered(q)
    BY DEF Answered, ShowStatus
  <1>2. requests[r] \in RequestRecords
    BY DEF IInv, ViewOK
  <1>3. CASE PageStep
    <2>1. SameView
      BY <1>3 DEF PageStep, NewView
    <2> QED
      BY <1>1, <2>1, StepsKept DEF IInv
  <1>4. CASE Submit
    <2>1. Send
      BY <1>4 DEF Submit, SubmitMissing, ShowStatus
    <2>2. requests'[r].step = "sent"
      BY <1>2, <2>1, DisturbedKept DEF Send, Unsent
    <2> QED
      BY <1>1, <2>2
  <1>5. CASE UNCHANGED requests
    BY <1>1, <1>5
  <1> QED
    BY <1>1, <1>3, <1>4, <1>5 DEF Next, Fill, vars, viewVars

\* Nothing but the end of waiting takes a request that is waited for away from its
\* answer, and that answer ends it: with NeverInVain and the fairness of answers,
\* WaitingEnds.
THEOREM AnswersEndWaiting == Spec => [][StillAwaited]_vars
  <1>1. IInv /\ [Next]_vars => [StillAwaited]_vars
    BY AwaitedNext
  <1> QED
    BY <1>1, Inductive, PTL DEF Spec
=============================================================================
