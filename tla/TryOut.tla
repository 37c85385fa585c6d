------------------------------- MODULE TryOut -------------------------------
(***************************************************************************)
(* Trying out an operation, on the page of SwaggerPage: OperationView      *)
(* sends what its form holds, with the credentials its client has then,    *)
(* and shows whatever answer comes, with a curl command that should repeat *)
(* the request.  Nothing keeps the user from filling in or submitting the  *)
(* form again, logging in or out, or loading another description while     *)
(* answers are outstanding.                                                *)
(*                                                                         *)
(* One operation is followed.  Its media types are left out, and of logins *)
(* (SwaggerLogin) only what they do to credentials is kept.                *)
(***************************************************************************)
EXTENDS SwaggerPage

CONSTANTS Params,       \* the operation's parameters
          Mandatory,    \* the required ones
          Values,       \* what can be filled in
          Security,     \* credentials it names, or all if it names none
          MaxSubmits    \* bound on requests sent

Empty == "empty"        \* nothing is filled in
Blank == "blank"        \* a choice is made whose value is empty

ASSUME TryOutAssumption ==
    /\ Mandatory \subseteq Params /\ Security \subseteq Keys
    /\ {Empty, Blank, None} \cap Values = {}
    /\ MaxSubmits \in Nat

Requests == 1..MaxSubmits
Args  == [Params -> Values \cup {None}]
NoArgs == [p \in Params |-> None]

VARIABLES bearer,       \* bearer[c]: the first of the operation's tokens in authz[c]
          form,         \* what the view's form holds
          map,          \* view.map: the arguments of the last submit
          throbber,     \* whether the view shows that it is waiting
          requests,     \* what was sent, and how far it has got
          status,       \* the request whose answer is shown; 0: none
          curl          \* the curl command shown

viewVars == <<form, map, throbber, requests, status, curl>>
vars == <<pageVars, bearer, viewVars>>

\* disturbed, for the properties: the form was submitted again, or what the operation
\* carries of the credentials changed, before the answer came.  Of an orphaned request the
\* answer comes, or has come, to a view that is no longer part of the page.
Unsent == [step |-> "unsent", args |-> NoArgs, creds |-> {}, disturbed |-> FALSE]
RequestRecords == [step : {"unsent", "sent", "orphaned", "answered"},
                   args : Args, creds : SUBSET Security, disturbed : BOOLEAN]

\* "undefined" is the command "curl -X GET  'undefined'".
Curl(is, args, creds) == [is |-> is, args |-> args, creds |-> creds]
NoCurl == Curl("none", NoArgs, {})
Curls  == [is : {"none", "undefined", "request"}, args : Args, creds : SUBSET Security]

TypeOK ==
    /\ current \in Clients /\ shown \in {0} \cup Clients
    /\ authz \in [Clients -> [Keys -> Keys \cup {None}]]
    /\ bearer \in [Clients -> (Security \ {ApiKey}) \cup {None}]
    /\ form \in [Params -> Values \cup {Empty, Blank}]
    /\ map \in Args
    /\ throbber \in BOOLEAN
    /\ requests \in [Requests -> RequestRecords]
    /\ status \in {0} \cup Requests
    /\ curl \in Curls

Init ==
    /\ PageInit
    /\ bearer = [c \in Clients |-> None]
    /\ form = [p \in Params |-> Empty] /\ map = NoArgs
    /\ throbber = FALSE /\ status = 0 /\ curl = NoCurl
    /\ requests = [r \in Requests |-> Unsent]
-----------------------------------------------------------------------------
(***************************************************************************)
(* The view                                                                *)
(***************************************************************************)

\* SwaggerAuthorizations.apply, of the client that was rendered.  Every token is a
\* header Authorization, and a header that is set is not set again.
Carried ==
    IF shown = 0 THEN {}
    ELSE {k \in Security : authz[shown][k] # None /\ (k = ApiKey \/ k = bearer[shown])}

\* Mutant: jQuery.trim is forgotten.
InputMapUntrimmed == [p \in Params |-> IF form[p] # Empty THEN form[p] ELSE None]

\* getInputMap
InputMap == [p \in Params |-> IF form[p] \in Values THEN form[p] ELSE None]

\* getMissingParams
Missing(args) == \E p \in Mandatory : args[p] = None

\* Mutant: the command is made of what the form holds.
AsCurlOfForm(args) ==
    CASE ~Missing(InputMap) -> Curl("request", InputMap, Carried)
      [] Missing(InputMap) /\ Carried = {} -> Curl("undefined", NoArgs, {})
      [] OTHER -> curl

\* asCurl.  Without a required argument there is no request to describe, and
\* applying a credential to none throws, which leaves the command as it was.
AsCurl(args) ==
    CASE ~Missing(args) -> Curl("request", args, Carried)
      [] Missing(args) /\ Carried = {} -> Curl("undefined", NoArgs, {})
      [] OTHER -> curl

\* showStatus, of a request's answer or (0) of a message, with this.map = args.
ShowStatus(r, args) ==
    /\ status' = r
    /\ throbber' = FALSE
    /\ curl' = AsCurl(args)

\* Mutant: nothing is shown for what cannot be sent.
ShowNothing ==
    /\ throbber' = TRUE
    /\ UNCHANGED <<status, curl>>

Fill(p, v) ==
    /\ shown # 0
    /\ form' = [form EXCEPT ![p] = v]
    /\ UNCHANGED <<pageVars, bearer, map, throbber, requests, status, curl>>

\* What a request carried is kept until it is disturbed, or another answer or a
\* message takes the place of its own.
Disturbed(q) == IF q.step = "sent" THEN [Unsent EXCEPT !.step = "sent", !.disturbed = TRUE] ELSE q
Replaced(q)  == IF q.step = "answered" THEN [Unsent EXCEPT !.step = "answered"] ELSE q

\* Mutant: execute does not report what is missing.
SubmitMissingSilently ==
    /\ Missing(InputMap)
    /\ requests' = [q \in Requests |-> Disturbed(Replaced(requests[q]))]
    /\ ShowNothing

\* execute finds an argument missing that the form has let pass.
SubmitMissing ==
    /\ Missing(InputMap)
    /\ requests' = [q \in Requests |-> Disturbed(Replaced(requests[q]))]
    /\ ShowStatus(0, InputMap)

Send ==
    /\ ~Missing(InputMap)
    /\ \E r \in Requests :
          /\ \A q \in Requests : requests[q].step = "unsent" <=> q >= r
          /\ requests' = [q \in Requests |->
                IF q = r THEN [Unsent EXCEPT !.step = "sent", !.args = InputMap, !.creds = Carried]
                ELSE Disturbed(requests[q])]
    /\ throbber' = TRUE
    /\ UNCHANGED <<status, curl>>

\* submitOperation, of a form in which nothing required is left empty.
Submit ==
    /\ shown # 0 /\ \A p \in Mandatory : form[p] # Empty
    /\ map' = InputMap
    /\ Send \/ SubmitMissing
    /\ UNCHANGED <<pageVars, bearer, form>>

\* The response, or the failure, of a request of the view in the page.
Answered(r) ==
    /\ requests[r].step = "sent"
    /\ requests' = [q \in Requests |->
          IF q = r THEN [requests[r] EXCEPT !.step = "answered"] ELSE Replaced(requests[q])]
    /\ ShowStatus(r, map)
    /\ UNCHANGED <<pageVars, bearer, form, map>>
-----------------------------------------------------------------------------
(***************************************************************************)
(* The page around it                                                      *)
(***************************************************************************)

\* load clears the page, and render draws it anew, also when it is called by an
\* earlier client while the last one is shown.
Redrawn == \/ current' # current
           \/ stage'[current'] = "built" /\ \E c \in Clients : stage[c] # "built" /\ stage'[c] = "built"

\* Another view takes the place of this one.
NewView ==
    /\ form' = [p \in Params |-> Empty] /\ map' = NoArgs
    /\ throbber' = FALSE /\ status' = 0 /\ curl' = NoCurl
    /\ requests' = [r \in Requests |->
          IF requests[r].step = "unsent" THEN Unsent ELSE [Unsent EXCEPT !.step = "orphaned"]]

SameView ==
    /\ requests' = [r \in Requests |->
          IF Carried' # Carried THEN Disturbed(requests[r]) ELSE requests[r]]
    /\ UNCHANGED <<form, map, throbber, status, curl>>

\* onOAuthComplete: whenever a login ends with a token, which is put behind the ones
\* that are there, or in the place of an older one of its scheme.
TokenArrives(s) ==
    /\ authz' = [authz EXCEPT ![current] = [@ EXCEPT ![s] = s]]
    /\ bearer' = [bearer EXCEPT ![current] = IF @ = None /\ s \in Security THEN s ELSE @]
    /\ UNCHANGED <<current, stage, shown, icons, message, keyField>>

\* handleLogout, by a click on an icon of the page.
LoggedOut ==
    /\ shown # 0
    /\ authz' = [authz EXCEPT ![current] = NoCredentials]
    /\ bearer' = [bearer EXCEPT ![current] = None]
    /\ UNCHANGED <<current, stage, shown, icons, message, keyField>>

\* A new client adds the credentials of the old one in their order.
OrderKept ==
    bearer' = IF current' = current THEN bearer ELSE [bearer EXCEPT ![current'] = bearer[current]]

\* What happens on the page, and what it makes of the view.
PageStep ==
    /\ (PageNext /\ OrderKept) \/ LoggedOut \/ \E s \in Schemes : TokenArrives(s)
    /\ IF Redrawn THEN NewView ELSE SameView

Next ==
    \/ PageStep
    \/ \E p \in Params, v \in Values \cup {Empty, Blank} : Fill(p, v)
    \/ Submit
    \/ \E r \in Requests : Answered(r)

Spec == Init /\ [][Next]_vars

\* The browser ends every request.  Nobody need fill in, submit or load anything.
FairSpec == Spec /\ \A r \in Requests : WF_vars(Answered(r))
-----------------------------------------------------------------------------
(***************************************************************************)
(* Properties                                                              *)
(***************************************************************************)

\* Logins and the key field work on the client loaded last, a view on the one it
\* was rendered for: of the credentials that the page has been given for the
\* operation, a request carries those that are no tokens and exactly one of the
\* tokens, and none that was taken back, whatever was loaded and rendered before.
\* (render, onOAuthComplete, execute and apply)
Authorized ==
    [][\A r \in Requests :
          (requests[r].step = "unsent" /\ requests'[r].step = "sent") =>
              LET has  == {k \in Security : authz[current][k] # None}
                  sent == requests'[r].creds
              IN  /\ sent \subseteq has
                  /\ has \ Schemes \subseteq sent
                  /\ has \cap Schemes # {} => \E s \in has : sent \cap Schemes = {s}]_vars

\* The curl command beside an answer has the arguments and credentials of the
\* request that was answered, whatever the form holds by now and whichever
\* answer came last, unless the form was submitted again or the credentials
\* changed before that answer.  (showStatus and asCurl)
CurlRepeatsRequest ==
    (status # 0 /\ ~requests[status].disturbed) =>
        curl = Curl("request", requests[status].args, requests[status].creds)

\* A view does not wait for ever: the throbber that a submit shows goes, also when
\* nothing could be sent or the page was drawn anew.  (submitOperation, showStatus)
WaitingEnds == throbber ~> ~throbber
=============================================================================
