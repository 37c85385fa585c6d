---------------------------- MODULE SwaggerLogin ----------------------------
(***************************************************************************)
(* The OAuth logins of swagger-oauth.js, on the page of SwaggerPage.  A    *)
(* click on Authorize leaves what the login is about in global variables   *)
(* and opens a window of the authorization server, or asks a token server  *)
(* at once.  When the window comes back (o2c.html), it reads the globals   *)
(* as they are then; several logins may be under way.                      *)
(***************************************************************************)
EXTENDS SwaggerPage, Sequences

CONSTANTS SchemeOrder,  \* the schemes in the order of the description
          Flow,         \* Flow[s]: "implicit", "accessCode" or "application"
          TokenName,    \* TokenName[s]: what s's servers call a token
          ScopeOf,      \* ScopeOf[s]: the scope s offers
          Required,     \* Required[o]: the scopes in o's information panel
          MaxLogins     \* bound on logins that reach a server

Flows  == {"implicit", "accessCode", "application"}
Scopes == {ScopeOf[s] : s \in Schemes}
TokenNames == {TokenName[s] : s \in Schemes}
Logins == 1..MaxLogins

ASSUME LoginAssumption ==
    /\ SchemeOrder \in Seq(Schemes)
    /\ \A s \in Schemes : \E k \in 1..Len(SchemeOrder) : SchemeOrder[k] = s
    /\ Flow \in [Schemes -> Flows]
    /\ DOMAIN TokenName = Schemes /\ DOMAIN ScopeOf = Schemes
    /\ Required \in [Operations -> SUBSET Scopes]
    /\ MaxLogins \in Nat

VARIABLES dialog,       \* whether the scopes dialog is open
          enabledScopes, \* all of them also stand for null: none is missed
          tokenName,    \* swaggerUi.tokenName
          tokenUrl,     \* swaggerUi.tokenUrl, by the scheme whose server it is
          logins        \* windows and token requests

loginVars == <<dialog, enabledScopes, tokenName, tokenUrl, logins>>
vars == <<pageVars, loginVars>>

\* scheme: where the login was begun.  step: "window" until it comes back,
\* "request" at the token server "at".  granted: by the authorization server.
\* overlapped: another login was begun before this one ended.  outcome, for the
\* properties: "stored", or "lost" for a token (or code) that was granted in vain.
Unused == [scheme |-> None, step |-> "unused", at |-> None, granted |-> FALSE,
           overlapped |-> FALSE, outcome |-> "none"]
LoginRecords ==
    [scheme : Schemes \cup {None}, step : {"unused", "window", "request", "ended"},
     at : Schemes \cup {None}, granted : BOOLEAN, overlapped : BOOLEAN,
     outcome : {"none", "stored", "lost", "refused"}]

TypeOK ==
    /\ current \in Clients
    /\ stage \in [Clients -> Stages]
    /\ authz \in [Clients -> [Keys -> Keys \cup {None}]]
    /\ shown \in {0} \cup Clients
    /\ icons \in [Operations -> {"on", "off"}]
    /\ message \in Messages
    /\ keyField \in BOOLEAN /\ dialog \in BOOLEAN
    /\ enabledScopes \subseteq Scopes
    /\ tokenName \in TokenNames \cup {None}
    /\ tokenUrl \in Schemes \cup {None}
    /\ logins \in [Logins -> LoginRecords]

Init ==
    /\ PageInit
    /\ dialog = FALSE
    /\ enabledScopes = Scopes
    /\ tokenName = None /\ tokenUrl = None
    /\ logins = [l \in Logins |-> Unused]
-----------------------------------------------------------------------------
(***************************************************************************)
(* Icons and the dialog                                                    *)
(***************************************************************************)

\* handleLogin, by a click on an icon that is off.
OpenDialog ==
    /\ shown # 0 /\ \E o \in Operations : icons[o] = "off"
    /\ dialog' = TRUE
    /\ UNCHANGED <<pageVars, enabledScopes, tokenName, tokenUrl, logins>>

Cancel ==
    /\ dialog /\ dialog' = FALSE
    /\ UNCHANGED <<pageVars, enabledScopes, tokenName, tokenUrl, logins>>

\* handleLogout, by a click on an icon that is on, or on the other icon an
\* operation has, which shows its scopes: every credential goes, the api key
\* with the tokens.
Logout ==
    /\ shown # 0 /\ Operations # {}
    /\ authz' = [authz EXCEPT ![current] = NoCredentials]
    /\ enabledScopes' = Scopes
    /\ icons' = AllOff
    /\ UNCHANGED <<current, stage, shown, message, keyField, dialog, tokenName, tokenUrl, logins>>

\* A login that goes to a server with request at (window: at = None).
Begin(s, at) ==
    \E l \in Logins :
        /\ \A m \in Logins : logins[m].step = "unused" <=> m >= l
        /\ logins' = [m \in Logins |->
              IF m = l THEN [Unused EXCEPT !.scheme = s, !.at = at, !.granted = (at # None),
                                           !.step = IF at = None THEN "window" ELSE "request"]
              ELSE [logins[m] EXCEPT !.overlapped = @ \/ logins[m].step \in {"window", "request"}]]

\* Mutant: the token URL of an earlier login is not put away.
TokenUrlOfSticky(s) == IF Flow[s] = "accessCode" THEN s ELSE tokenUrl

TokenUrlOf(s) == IF Flow[s] = "accessCode" THEN s ELSE None

\* The schemes of checked, by their places in the description.  Those of a client
\* that is not built yet are not known.
Chosen(checked) ==
    IF stage[current] = "built"
    THEN {k \in 1..Len(SchemeOrder) : SchemeOrder[k] \in checked} ELSE {}

Applications(checked) == {k \in Chosen(checked) : Flow[SchemeOrder[k]] = "application"}

\* The loop ends with the first of the flow "application".
Opened(checked) == {k \in Chosen(checked) : \A a \in Applications(checked) : k < a}

\* Each scheme in the loop overwrites what the one before has left.
LastOpened(k, checked) == k \in Opened(checked) /\ \A j \in Opened(checked) : j <= k

LeaveTokenUrl(checked) ==
    IF Opened(checked) = {} THEN UNCHANGED tokenUrl
    ELSE \E k \in Opened(checked) :
            LastOpened(k, checked) /\ tokenUrl' = TokenUrlOf(SchemeOrder[k])

\* A window of the last scheme, or a request for the token of the first of the
\* flow "application", and the others are forgotten.  With none of them, nothing
\* useful is opened.
LogIn(checked) ==
    \/ /\ Applications(checked) = {}
       /\ \E k \in Opened(checked) :
             /\ LastOpened(k, checked)
             /\ tokenName' = TokenName[SchemeOrder[k]]
             /\ Begin(SchemeOrder[k], None)
    \/ \E a \in Applications(checked) :
          /\ \A j \in Applications(checked) : a <= j
          /\ tokenName' = TokenName[SchemeOrder[a]]
          /\ Begin(SchemeOrder[a], SchemeOrder[a])
    \/ Chosen(checked) = {} /\ UNCHANGED <<tokenName, logins>>

\* The click on Authorize, with the scopes of some schemes checked.
Authorize(checked) ==
    /\ dialog /\ dialog' = FALSE
    /\ enabledScopes' = {ScopeOf[s] : s \in checked}
    /\ LeaveTokenUrl(checked)
    /\ LogIn(checked)
    /\ UNCHANGED pageVars
-----------------------------------------------------------------------------
(***************************************************************************)
(* Windows and token servers                                               *)
(***************************************************************************)

End(l, outcome) == logins' = [logins EXCEPT ![l].step = "ended", ![l].outcome = outcome]

\* An operation whose scopes are enabled, in one scheme or another, is on.
Satisfied(o) == Required[o] \subseteq enabledScopes

\* The second half of onOAuthComplete.
Store(key, issuer) ==
    /\ authz' = [authz EXCEPT ![current] = [@ EXCEPT ![key] = issuer]]
    /\ icons' = IF shown = 0 THEN icons
                ELSE [o \in Operations |-> IF Satisfied(o) THEN "on" ELSE "off"]
    /\ UNCHANGED <<current, stage, shown, message, keyField>>

\* Mutant: the token is stored for the scheme of the login begun last.
CompleteLatest(l, issuer) ==
    IF TokenName[issuer] = tokenName
    THEN LET begun  == {m \in Logins : logins[m].step # "unused"}
             latest == CHOOSE m \in begun : \A n \in begun : n <= m
         IN  Store(logins[latest].scheme, issuer) /\ End(l, "stored")
    ELSE End(l, "lost") /\ UNCHANGED pageVars

\* onOAuthComplete, with a token of that issuer for login l: it is looked up by
\* the global name.
Complete(l, issuer) ==
    IF TokenName[issuer] = tokenName
    THEN Store(logins[l].scheme, issuer) /\ End(l, "stored")
    ELSE End(l, "lost") /\ UNCHANGED pageVars

\* o2c.html, after the user has granted or denied: with a token URL the code,
\* if there is one, is exchanged at it, otherwise the token, if there is one,
\* is stored.
WindowReturns(l, granted) ==
    LET s == logins[l].scheme IN
    /\ logins[l].step = "window"
    /\ CASE tokenUrl # None ->
              /\ logins' = [logins EXCEPT ![l].step = "request", ![l].at = tokenUrl, ![l].granted = granted]
              /\ UNCHANGED pageVars
         [] tokenUrl = None /\ granted /\ Flow[s] = "implicit" -> Complete(l, s)
         [] tokenUrl = None /\ granted /\ Flow[s] # "implicit" -> End(l, "lost") /\ UNCHANGED pageVars
         [] tokenUrl = None /\ ~granted -> End(l, "refused") /\ UNCHANGED pageVars
    /\ UNCHANGED <<dialog, enabledScopes, tokenName, tokenUrl>>

WindowCloses(l) ==
    /\ logins[l].step = "window"
    /\ End(l, "refused")
    /\ UNCHANGED <<pageVars, dialog, enabledScopes, tokenName, tokenUrl>>

\* The token server takes only codes of its own scheme (external).
Takes(l) == logins[l].granted /\ logins[l].at = logins[l].scheme /\ Flow[logins[l].scheme] # "implicit"

ServerAnswers(l) ==
    /\ logins[l].step = "request"
    /\ IF Takes(l) THEN Complete(l, logins[l].at)
       ELSE End(l, IF logins[l].granted THEN "lost" ELSE "refused") /\ UNCHANGED pageVars
    /\ UNCHANGED <<dialog, enabledScopes, tokenName, tokenUrl>>

\* The error callback of the request.
ServerFails(l) ==
    /\ logins[l].step = "request"
    /\ End(l, "refused")
    /\ UNCHANGED <<pageVars, dialog, enabledScopes, tokenName, tokenUrl>>

LoginNext ==
    \/ OpenDialog \/ Cancel \/ Logout
    \/ \E checked \in SUBSET Schemes : Authorize(checked)
    \/ \E l \in Logins : \/ \E granted \in BOOLEAN : WindowReturns(l, granted)
                         \/ WindowCloses(l) \/ ServerAnswers(l) \/ ServerFails(l)

Next == \/ PageNext /\ UNCHANGED loginVars
        \/ LoginNext

Spec == Init /\ [][Next]_vars

\* The browser ends every request of a client (SpecClient).  Nobody need ever
\* grant a login or close a window.
FairSpec == Spec /\ \A c \in Clients : WF_vars(Settle(c) /\ UNCHANGED loginVars)
-----------------------------------------------------------------------------
(***************************************************************************)
(* Properties                                                              *)
(***************************************************************************)

\* The page shows the description loaded last as soon as it is built, and until
\* then none: the late success of an earlier client brings nothing back.
\* (load, render and MainView.initialize)
ShownIsCurrent == shown = IF stage[current] = "built" THEN current ELSE 0

\* What was entered or granted is kept through every load, and goes only with
\* everything else, by a click on an icon of the page.  (load, handleLogout)
CredentialsKept ==
    [][\A k \in Keys :
          (authz[current][k] # None /\ authz'[current'][k] # authz[current][k]) =>
              /\ current' = current /\ shown # 0
              /\ authz'[current] = NoCredentials]_vars

\* A token is used for the scheme whose servers have issued it, however logins,
\* which share global variables, overlap.  (Authorize, o2c.html, onOAuthComplete)
TokenOfItsScheme == \A c \in Clients, k \in Keys : authz[c][k] \in {None, k}

\* A token that was granted is lost only if another login was begun before it
\* arrived: logins one after the other do not disturb each other.
LostOnlyIfOverlapped == \A l \in Logins : logins[l].outcome = "lost" => logins[l].overlapped

\* The last load is shown, or its failure reported, unless its client throws.
\* (render, onLoadFailure)
LoadIsAnswered ==
    \A c \in Clients :
        (current = c /\ stage[c] = "pending")
          ~> (current # c \/ shown = c \/ message = "failure" \/ stage[c] = "thrown")
=============================================================================
