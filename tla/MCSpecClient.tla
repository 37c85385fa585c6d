---------------------------- MODULE MCSpecClient ----------------------------
(***************************************************************************)
(* SpecClient on small instances.                                          *)
(***************************************************************************)
EXTENDS SpecClient

CONSTANTS A, B, N1, N2, N3, N4, N5, N6, Api1, Api2

Ref(as, form, d, n) ==
    [as |-> as, form |-> form, doc |-> d, name |-> n, of |-> IF form = "local" THEN Root ELSE d]
Inner(r, d) == IF r.form = "local" THEN [r EXCEPT !.of = d] ELSE r

\* A and B refer to each other, in N4 in a circle; N2 is a part of both, N6 of A alone.
MCLibrary ==
    (Root :> (N3 :> <<Ref("ref", "local", Root, N5)>>))
    @@ (A :> (N1 :> <<Inner(Ref("ref", "local", Root, N6), A), Ref("ref", "http", B, N3)>>
              @@ N2 :> <<>>
              @@ N6 :> <<Inner(Ref("ref", "local", Root, N2), A)>>
              @@ N4 :> <<Ref("ref", "http", B, N4)>>
              @@ Whole :> <<Ref("ref", "http", B, N2)>>))
    @@ (B :> (N2 :> <<>>
              @@ N3 :> <<Ref("ref", "http", A, N2)>>
              @@ N4 :> <<Inner(Ref("ref", "local", Root, N2), B), Ref("ref", "http", A, N4)>>
              @@ Whole :> <<Inner(Ref("ref", "local", Root, N2), B), Ref("ref", "relative", A, N2)>>))

Written == {Ref("ref", "http", A, N1), Ref("ref", "http", B, N3), Ref("ref", "relative", A, N2),
            Ref("ref", "http", A, N4), Ref("inline", "http", B, N3), Ref("inline", "file", A, Whole),
            Ref("inline", "file", B, Whole), Ref("inline", "local", Root, N3),
            Ref("ref", "local", Root, N1), Ref("ref", "http", A, N3)}

Own(n) == [name |-> n, from |-> Root, refs |-> <<>>]

\* Every pair of references, also where a definition of the specification's own
\* has a name that A uses.
Pairs ==
    {[defs |-> <<Own(N5)>>, ops |-> <<a, b>>] : a, b \in Written}
    \cup {[defs |-> <<Own(N5), Own(N1)>>, ops |-> <<a, b>>] : a, b \in {Ref("ref", "http", A, N1),
              Ref("inline", "http", B, N3), Ref("inline", "file", A, Whole), Ref("ref", "local", Root, N1)}}

\* A relative file first, so that the next references are passed over in a
\* round, and last, so that the one before is listed twice.
Long ==
    LET few == {Ref("ref", "http", A, N1), Ref("ref", "relative", A, N2), Ref("inline", "http", B, N3)}
        file == Ref("inline", "file", A, Whole)
    IN  {[defs |-> <<Own(N5)>>, ops |-> <<file, a, b, c>>] : a, b, c \in few}
          \cup {[defs |-> <<Own(N5)>>, ops |-> <<Ref("ref", "http", A, N1), a, a, b, file>>] : a, b \in few}

MCSpecifications == Pairs \cup Long

MCOld == Descriptions

MCModel == Api1 :> N1 @@ Api2 :> N2
=============================================================================
