--------------------------- MODULE MCSwaggerLogin ---------------------------
(***************************************************************************)
(* SwaggerLogin on small instances.                                        *)
(***************************************************************************)
EXTENDS SwaggerLogin, TLC

CONSTANTS S1, S2, S3, O1, O2, Read, Write

\* A scheme of each flow.
MCOrder == <<S1, S2, S3>>
MCFlow  == (S1 :> "implicit") @@ (S2 :> "accessCode") @@ (S3 :> "application")

\* Two schemes call their tokens alike, and offer the same scope.
MCTokenName == (S1 :> "access_token") @@ (S2 :> "token") @@ (S3 :> "access_token")
MCScopeOf   == (S1 :> Read) @@ (S2 :> Write) @@ (S3 :> Read)
MCRequired  == (O1 :> {Read}) @@ (O2 :> {Read, Write})
=============================================================================
