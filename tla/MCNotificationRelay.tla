------------------------- MODULE MCNotificationRelay -------------------------
(***************************************************************************)
(* NotificationRelay on small instances.                                   *)
(***************************************************************************)
EXTENDS NotificationRelay

Call(bank, endpoint, async) == [bank |-> bank, endpoint |-> endpoint, async |-> async]

\* A call of each behaviour.  The headers not here behave like one that is:
\* the UK resource treats "malformed" and "local" as it treats "absent".
EachBehaviour ==
    {Call("short", "absent", FALSE)}
      \cup {Call("gil", e, a) : e \in {"bundled", "local"}, a \in BOOLEAN}
      \cup {Call("gil", e, FALSE) : e \in {"absent", "malformed"}}
      \cup {Call("uk", "absent", FALSE), Call("uk", "remote", TRUE),
            Call("redirect", "absent", TRUE)}

\* The calls of the README's example, made asynchronously.
OnlyBundled == {Call("gil", "bundled", TRUE)}
=============================================================================
