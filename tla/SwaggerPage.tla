----------------------------- MODULE SwaggerPage -----------------------------
(***************************************************************************)
(* SwaggerUi, the page: each load makes a client, which reads and builds a *)
(* description on its own (SpecClient) and calls back when it is built or  *)
(* has failed.  Nothing stops a load from being started before the one     *)
(* before it has ended, and the callbacks belong to the page, not to the   *)
(* client: the success of any client renders the client loaded last.       *)
(***************************************************************************)
EXTENDS Integers

CONSTANTS MaxLoads,     \* bound on loads
          Schemes,      \* security definitions of the description
          Operations    \* its operations that need a login, each with an icon

ApiKey == "api_key"
None   == "none"
Keys   == Schemes \cup {ApiKey}    \* names of credentials
Clients == 1..MaxLoads

ASSUME PageAssumption ==
    /\ MaxLoads \in Nat \ {0}
    /\ {ApiKey, None} \cap Schemes = {}

VARIABLES current,      \* swaggerUi.api: the client of the last load
          stage,        \* how far each client has got
          authz,        \* api.clientAuthorizations.authz: whose credential is where
          shown,        \* the client rendered in the page; 0: none
          icons,        \* of the operations shown
          message,      \* #message-bar
          keyField      \* whether #input_apiKey holds something

pageVars == <<current, stage, authz, shown, icons, message, keyField>>

Stages   == {"none", "pending", "built", "failed", "thrown"}
Messages == {"", "fetching", "finished", "failure"}

NoCredentials == [k \in Keys |-> None]
AllOff        == [o \in Operations |-> "off"]

\* load() at the end of the page's script.
PageInit ==
    /\ current = 1
    /\ stage = [c \in Clients |-> IF c = 1 THEN "pending" ELSE "none"]
    /\ authz = [c \in Clients |-> NoCredentials]
    /\ shown = 0 /\ icons = AllOff
    /\ message = "fetching"
    /\ keyField = FALSE

\* Mutant: a client starts without the authorizations of the one before.
LoadForgetting ==
    /\ current < MaxLoads
    /\ current' = current + 1
    /\ stage' = [stage EXCEPT ![current + 1] = "pending"]
    /\ shown' = 0 /\ icons' = AllOff
    /\ message' = "fetching"
    /\ UNCHANGED <<authz, keyField>>

\* load: what is shown is cleared, and a new client takes over the
\* authorizations of the old one, whatever has become of it.
Load ==
    /\ current < MaxLoads
    /\ current' = current + 1
    /\ stage' = [stage EXCEPT ![current + 1] = "pending"]
    /\ authz' = [authz EXCEPT ![current + 1] = authz[current]]
    /\ shown' = 0 /\ icons' = AllOff
    /\ message' = "fetching"
    /\ UNCHANGED keyField

\* Mutant: an empty key is added as well.
WithApiKeyEmpty(entered) ==
    [authz EXCEPT ![current] = [@ EXCEPT ![ApiKey] = IF entered THEN ApiKey ELSE ""]]

\* addApiKeyAuthorization.
WithApiKey(entered) ==
    IF entered THEN [authz EXCEPT ![current] = [@ EXCEPT ![ApiKey] = ApiKey]] ELSE authz

\* Mutant: the client that has called back is rendered.
RenderOwn(c) ==
    /\ shown' = c /\ icons' = AllOff
    /\ message' = ""
    /\ authz' = WithApiKey(keyField)

\* render, called back by client c: it renders the last client.  If that is not
\* built, sorting its operations throws, and the message stays.
Render(c) ==
    IF stage'[current] = "built"
    THEN /\ shown' = current /\ icons' = AllOff
         /\ message' = ""
         /\ authz' = WithApiKey(keyField)
    ELSE /\ message' = "finished"
         /\ UNCHANGED <<shown, icons, authz>>

Succeeds(c) ==
    /\ stage[c] = "pending"
    /\ stage' = [stage EXCEPT ![c] = "built"]
    /\ Render(c)
    /\ UNCHANGED <<current, keyField>>

\* Mutant: onLoadFailure is not called.
FailsSilently(c) ==
    /\ stage[c] = "pending"
    /\ stage' = [stage EXCEPT ![c] = "failed"]
    /\ UNCHANGED <<current, authz, shown, icons, message, keyField>>

\* onLoadFailure, whichever client it comes from.
Fails(c) ==
    /\ stage[c] = "pending"
    /\ stage' = [stage EXCEPT ![c] = "failed"]
    /\ message' = "failure"
    /\ UNCHANGED <<current, authz, shown, icons, keyField>>

\* A client that throws calls nobody back.
Throws(c) ==
    /\ stage[c] = "pending"
    /\ stage' = [stage EXCEPT ![c] = "thrown"]
    /\ UNCHANGED <<current, authz, shown, icons, message, keyField>>

Settle(c) == Succeeds(c) \/ Fails(c) \/ Throws(c)

\* The change event of #input_apiKey: emptying it takes nothing away.
ChangeKey(entered) ==
    /\ keyField' = entered
    /\ authz' = WithApiKey(entered)
    /\ UNCHANGED <<current, stage, shown, icons, message>>

PageNext == \/ Load
            \/ \E c \in Clients : Settle(c)
            \/ \E entered \in BOOLEAN : ChangeKey(entered)
=============================================================================
