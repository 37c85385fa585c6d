--------------------------- MODULE XmlEncTextProofs ---------------------------
(***************************************************************************)
(* Proofs about XmlEncText, for any texts to start with and to enclose     *)
(* with, any number of encryptions, one in the other to any depth, and any *)
(* hosts.                                                                  *)
(*                                                                         *)
(* The heart is what the greedy expression matches (GreedyMatch): the tags *)
(* of the ciphertext behind which there are no tags.  The invariant says   *)
(* that what the caller holds has that of the text due at its end, and, as *)
(* the text comes back when it is opened, that so had whatever was         *)
(* encrypted when it was.                                                  *)
(***************************************************************************)
EXTENDS XmlEncText, SequenceTheorems, TLAPS

Tokens == Characters \cup {Open, Close, Markup, Message}
            \cup {Key(n) : n \in Nat} \cup {Data(n) : n \in Nat}
Texts  == Seq(Tokens)
Seals  == [text : Texts, charset : Charsets]

\* The values of ciphertext m stand in their tags from position q + 1 of t on,
\* and no tag stands behind them.
EndsWith(t, m, q) ==
    /\ q + 7 <= Len(t)
    /\ t[q+1] = Open /\ t[q+2] = Key(m) /\ t[q+3] = Close /\ t[q+4] = Markup
    /\ t[q+5] = Open /\ t[q+6] = Data(m) /\ t[q+7] = Close
    /\ \A p \in (q+8)..Len(t) : t[p] \notin {Open, Close}

\* Text t holds, at its end, the ciphertext of the first of the texts d; below[m]
\* are the texts that were due when the m-th of the seals was made.
Keeps(t, d, below, seals) ==
    d # <<>> => \E m \in 1..Len(seals), q \in Nat :
        EndsWith(t, m, q) /\ Head(d) = seals[m].text /\ Tail(d) = below[m]

TypesOK == text \in Texts /\ sealed \in Seq(Seals) /\ due \in Seq(Texts)

Nested(below) ==
    /\ below \in [1..Len(sealed) -> Seq(Texts)]
    /\ Keeps(text, due, below, sealed)
    /\ \A n \in 1..Len(sealed) : Keeps(sealed[n].text, below[n], below, sealed)

Inv == TypesOK /\ \E below : Nested(below)
-----------------------------------------------------------------------------
(***************************************************************************)
(* The regular expression                                                  *)
(***************************************************************************)
LEMMA TokensDiffer ==
    \A m \in Nat : /\ {Open, Close, Markup, Message, Letter, NewLine, Key(m), Data(m)} \subseteq Tokens
                   /\ Characters \subseteq Tokens /\ Beyond \subseteq Characters
                   /\ {Open, Close} \cap (Characters \cup {Key(m), Data(m), Markup}) = {}
                   /\ Open # Close
                   /\ {Open, Close, Markup, NewLine, Key(m), Data(m)} \cap Beyond = {}
                   /\ \A n \in Nat : (Key(m) = Key(n) \/ Data(m) = Data(n)) => m = n
  <1> TAKE m \in Nat
  <1>1. /\ Open.is = "<CipherValue>" /\ Close.is = "</CipherValue>" /\ Markup.is = "markup"
        /\ Letter.is = "letter" /\ NewLine.is = "newline" /\ Accented.is = "accented"
        /\ Foreign.is = "foreign" /\ Damaged.is = "damaged"
        /\ \A n \in Nat : /\ Key(n).is = "key" /\ Key(n).n = n
                         /\ Data(n).is = "data" /\ Data(n).n = n
    BY DEF Token, Letter, NewLine, Accented, Foreign, Damaged, Open, Close, Markup, Key, Data
  <1>3. /\ {Open, Close, Markup, Message, Letter, NewLine, Key(m), Data(m)} \subseteq Tokens
        /\ Characters \subseteq Tokens /\ Beyond \subseteq Characters
    BY DEF Tokens, Characters, Beyond
  <1>5. /\ \A c \in Characters \cup {Key(m), Data(m), Markup} : c \notin {Open, Close}
        /\ Open # Close
    BY <1>1 DEF Characters
  <1>6. {Open, Close, Markup, NewLine, Key(m), Data(m)} \cap Beyond = {}
    BY <1>1 DEF Beyond
  <1>7. \A n \in Nat : (Key(m) = Key(n) \/ Data(m) = Data(n)) => m = n
    BY <1>1
  <1> QED
    BY <1>3, <1>5, <1>6, <1>7

LEMMA NoTags == \A c \in Characters \cup Beyond : c \notin {Open, Close}
  <1>1. 0 \in Nat
    OBVIOUS
  <1> QED
    BY <1>1, TokensDiffer

LEMMA GreedyMatch ==
    ASSUME NEW t \in Texts, NEW m \in Nat, NEW q \in Nat, EndsWith(t, m, q)
    PROVE  Matches(t) # {} /\ Match(t) = <<q + 1, q + 3, q + 5, q + 7>>
  <1> DEFINE last == <<q + 1, q + 3, q + 5, q + 7>>
  <1>1. Len(t) \in Nat /\ DOMAIN t = 1..Len(t)
    BY DEF Texts
  <1>2. last \in Matches(t)
    BY <1>1 DEF Matches, EndsWith
  <1>3. ASSUME NEW k \in Matches(t)
        PROVE  k = last \/ k[1] < q + 1
    <2>1. /\ k = <<k[1], k[2], k[3], k[4]>> /\ \A j \in 1..4 : k[j] \in 1..Len(t)
          /\ t[k[1]] = Open /\ t[k[2]] = Close /\ t[k[3]] = Open /\ t[k[4]] = Close
          /\ k[1] < k[2] /\ k[2] < k[3] /\ k[3] < k[4]
      BY <1>1 DEF Matches
    <2>2. \A p \in 1..Len(t) :
            /\ p > q + 1 /\ t[p] = Open => p = q + 5
            /\ p > q + 1 /\ t[p] = Close => p = q + 3 \/ p = q + 7
      <3> TAKE p \in 1..Len(t)
      <3>1. p \in (q+8)..Len(t) \/ p \in 1..(q+1) \/ p \in {q+2, q+3, q+4, q+5, q+6, q+7}
        BY <1>1
      <3> QED
        BY <3>1, <1>1, TokensDiffer DEF EndsWith
    <2> QED
      BY <2>1, <2>2, <1>1
  <1>4. \A k \in Matches(t) : last = k \/ Greedier(last, k)
    <2> TAKE k \in Matches(t)
    <2>1. CASE k[1] < q + 1
      BY <2>1 DEF Greedier
    <2> QED
      BY <2>1, <1>3
  <1>5. ASSUME NEW k \in Matches(t), \A h \in Matches(t) : k = h \/ Greedier(k, h)
        PROVE  k = last
    <2> SUFFICES ASSUME k[1] < q + 1, Greedier(k, last) PROVE FALSE
      BY <1>2, <1>3, <1>5
    <2>1. PICK j \in 1..4 : k[j] > last[j] /\ \A h \in 1..(j - 1) : k[h] = last[h]
      BY DEF Greedier
    <2>2. k[1] \in Int
      BY <1>1 DEF Matches
    <2> QED
      BY <2>1, <2>2
  <1> HIDE DEF last
  <1>6. Match(t) = last
    BY <1>2, <1>4, <1>5 DEF Match
  <1> QED
    BY <1>2, <1>6 DEF last

LEMMA OneToken ==
    ASSUME NEW t \in Texts, NEW p \in 1..Len(t)
    PROVE  SubSeq(t, p, p) = <<t[p]>>
  <1>1. SubSeq(t, p, p) = <<t[p]>> \o SubSeq(t, p + 1, p)
    BY SubSeqRecursiveFirst DEF Texts
  <1>2. SubSeq(t, p + 1, p) = <<>>
    BY SubSeqEmpty
  <1>3. <<t[p]>> \in Seq(Tokens)
    BY DEF Texts
  <1> QED
    BY <1>1, <1>2, <1>3, ConcatEmptySeq

LEMMA OpensTheLast ==
    ASSUME TypesOK, NEW t \in Texts, NEW m \in 1..Len(sealed), NEW q \in Nat, EndsWith(t, m, q)
    PROVE  Matches(t) # {} /\ Opened(t) = {m}
  <1>1. m \in Nat /\ Len(sealed) \in Nat /\ DOMAIN sealed = 1..Len(sealed)
    BY DEF TypesOK
  <1>2. Matches(t) # {} /\ Match(t) = <<q + 1, q + 3, q + 5, q + 7>>
    BY <1>1, GreedyMatch
  <1>3. SubSeq(t, q + 2, q + 2) = <<Key(m)>> /\ SubSeq(t, q + 6, q + 6) = <<Data(m)>>
    <2>1. q + 2 \in 1..Len(t) /\ q + 6 \in 1..Len(t) /\ t[q+2] = Key(m) /\ t[q+6] = Data(m)
      BY DEF EndsWith, Texts
    <2> QED
      BY <2>1, OneToken
  <1>4. \A n \in 1..Len(sealed) :
          <<Key(n)>> = <<Key(m)>> => n = m
    BY <1>1, TokensDiffer
  <1>5. \A n \in 1..Len(sealed) :
          ( /\ SubSeq(t, Match(t)[1] + 1, Match(t)[2] - 1) = <<Key(n)>>
            /\ SubSeq(t, Match(t)[3] + 1, Match(t)[4] - 1) = <<Data(n)>> ) <=> n = m
    <2>1. /\ Match(t)[1] + 1 = q + 2 /\ Match(t)[2] - 1 = q + 2
          /\ Match(t)[3] + 1 = q + 6 /\ Match(t)[4] - 1 = q + 6
      BY <1>2
    <2> QED
      BY <2>1, <1>3, <1>4
  <1>6. Opened(t) = {n \in 1..Len(sealed) :
                        /\ SubSeq(t, Match(t)[1] + 1, Match(t)[2] - 1) = <<Key(n)>>
                        /\ SubSeq(t, Match(t)[3] + 1, Match(t)[4] - 1) = <<Data(n)>>}
    BY <1>1 DEF Opened
  <1>7. Opened(t) = {n \in 1..Len(sealed) : n = m}
    BY ONLY <1>5, <1>6
  <1>8. {n \in 1..Len(sealed) : n = m} = {m}
    OBVIOUS
  <1> QED
    BY ONLY <1>2, <1>7, <1>8
-----------------------------------------------------------------------------
(***************************************************************************)
(* Texts                                                                   *)
(***************************************************************************)
LEMMA Recoding ==
    ASSUME NEW token \in Tokens, NEW from, NEW to
    PROVE  /\ Recoded(token, from, to) \in Tokens
           /\ token \notin Beyond => Recoded(token, from, to) = token
           /\ token \in Beyond <=> Recoded(token, from, to) \in Beyond
           /\ from = "UTF-8" /\ to = "UTF-8" => Recoded(token, from, to) = token
  BY DEF Recoded, Tokens, Characters, Beyond

\* u is t recoded.
Recodes(u, t) ==
    /\ u \in Texts /\ Len(u) = Len(t)
    /\ \A p \in 1..Len(t) : /\ t[p] \in Beyond <=> u[p] \in Beyond
                            /\ t[p] \notin Beyond => u[p] = t[p]

LEMMA RecodingText ==
    ASSUME NEW t \in Texts, NEW from, NEW to
    PROVE  /\ Recodes(RecodedText(t, from, to), t)
           /\ from = "UTF-8" /\ to = "UTF-8" => RecodedText(t, from, to) = t
  <1>1. DOMAIN t = 1..Len(t) /\ Len(t) \in Nat /\ \A p \in 1..Len(t) : t[p] \in Tokens
    BY DEF Texts
  <1>2. RecodedText(t, from, to) = [p \in 1..Len(t) |-> Recoded(t[p], from, to)]
    BY <1>1 DEF RecodedText
  <1>3. RecodedText(t, from, to) \in [1..Len(t) -> Tokens]
    BY <1>1, <1>2, Recoding
  <1>4. RecodedText(t, from, to) \in Texts /\ Len(RecodedText(t, from, to)) = Len(t)
    BY <1>1, <1>3 DEF Texts
  <1>5. Recodes(RecodedText(t, from, to), t)
    BY <1>1, <1>2, <1>4, Recoding DEF Recodes
  <1>6. ASSUME from = "UTF-8", to = "UTF-8" PROVE RecodedText(t, from, to) = t
    <2>1. \A p \in 1..Len(t) : RecodedText(t, from, to)[p] = t[p]
      BY <1>1, <1>2, <1>6, Recoding
    <2> QED
      BY <1>4, <2>1, SeqEqual DEF Texts
  <1> QED
    BY <1>5, <1>6

\* u is t recoded, with a new line.
Prints(u, t) ==
    /\ u \in Texts /\ Len(u) = Len(t) + 1 /\ u[Len(u)] = NewLine
    /\ \A p \in 1..Len(t) : /\ t[p] \in Beyond <=> u[p] \in Beyond
                            /\ t[p] \notin Beyond => u[p] = t[p]

LEMMA Printing ==
    ASSUME NEW t \in Texts, NEW charset
    PROVE  /\ Prints(Printed(t, charset), t)
           /\ charset = "UTF-8" => Printed(t, charset) = Append(t, NewLine)
  <1> DEFINE r == RecodedText(t, charset, "UTF-8")
  <1>1. /\ Recodes(r, t)
        /\ charset = "UTF-8" => r = t
    BY RecodingText
  <1>2. Printed(t, charset) = Append(r, NewLine)
    BY DEF Printed
  <1>3. NewLine \in Tokens
    BY DEF Tokens, Characters
  <1> HIDE DEF r
  <1>4. /\ Append(r, NewLine) \in Texts /\ Len(Append(r, NewLine)) = Len(r) + 1
        /\ Append(r, NewLine)[Len(r) + 1] = NewLine
        /\ \A p \in 1..Len(r) : Append(r, NewLine)[p] = r[p]
    BY <1>1, <1>3, AppendProperties DEF Recodes, Texts
  <1> QED
    BY <1>1, <1>2, <1>4 DEF Recodes, Prints

\* What decrypt prints: recoded twice.
LEMMA PrintingRecoded ==
    ASSUME NEW t \in Texts, NEW from, NEW charset
    PROVE  Prints(Printed(RecodedText(t, from, charset), charset), t)
  <1>1. Recodes(RecodedText(t, from, charset), t)
    BY RecodingText
  <1>2. Prints(Printed(RecodedText(t, from, charset), charset), RecodedText(t, from, charset))
    BY <1>1, Printing DEF Recodes
  <1> QED
    BY <1>1, <1>2 DEF Recodes, Prints

LEMMA EndPrinted ==
    ASSUME NEW t \in Texts, NEW u, Prints(u, t),
           NEW m \in Nat, NEW q \in Nat, EndsWith(t, m, q)
    PROVE  EndsWith(u, m, q)
  <1>1. Len(t) \in Nat /\ q + 7 <= Len(t)
    BY DEF Texts, EndsWith
  <1>2. \A j \in 1..7 : q + j \in 1..Len(t) /\ t[q + j] \notin Beyond
    BY <1>1, TokensDiffer DEF EndsWith
  <1>3. \A j \in 1..7 : u[q + j] = t[q + j]
    BY <1>2 DEF Prints
  <1>4. ASSUME NEW p \in (q+8)..Len(u) PROVE u[p] \notin {Open, Close}
    <2>1. CASE p = Len(u)
      BY <2>1, TokensDiffer DEF Prints, Characters
    <2>2. CASE p # Len(u)
      <3>1. p \in 1..Len(t) /\ t[p] \notin {Open, Close}
        <4>1. Len(u) = Len(t) + 1
          BY DEF Prints
        <4>2. p \in 1..Len(t) /\ p \in (q+8)..Len(t)
          BY <4>1, <1>1, <2>2
        <4> QED
          BY <4>2 DEF EndsWith
      <3>2. u[p] \in Beyond \/ u[p] = t[p]
        BY <3>1 DEF Prints
      <3> QED
        BY <3>1, <3>2, NoTags
    <2> QED
      BY <2>1, <2>2
  <1> QED
    BY <1>1, <1>3, <1>4 DEF EndsWith, Prints

LEMMA EndBehind ==
    ASSUME NEW s \in Texts, NEW t \in Texts, NEW m, NEW q \in Nat, EndsWith(t, m, q)
    PROVE  EndsWith(s \o t, m, Len(s) + q)
  <1>1. Len(s) \in Nat /\ Len(t) \in Nat /\ Len(s \o t) = Len(s) + Len(t)
    BY ConcatProperties DEF Texts
  <1>2. \A p \in 1..Len(t) : (s \o t)[Len(s) + p] = t[p]
    BY <1>1, ConcatProperties DEF Texts
  <1>4. ASSUME NEW p \in (Len(s) + q + 8)..Len(s \o t) PROVE (s \o t)[p] \notin {Open, Close}
    <2>1. p - Len(s) \in (q + 8)..Len(t) /\ p - Len(s) \in 1..Len(t)
      BY <1>1
    <2> QED
      BY <2>1, <1>1, <1>2 DEF EndsWith
  <1> DEFINE u == s \o t
             k == Len(s) + q
  <1>5. k \in Nat /\ k + 7 <= Len(u)
    BY <1>1 DEF EndsWith
  <1>6. ASSUME NEW j \in 1..7 PROVE u[k + j] = t[q + j]
    <2>1. q + j \in 1..Len(t) /\ k + j = Len(s) + (q + j)
      BY <1>1 DEF EndsWith
    <2> QED
      BY <2>1, <1>2
  <1>7. \A p \in (k + 8)..Len(u) : u[p] \notin {Open, Close}
    BY <1>4
  <1> HIDE DEF u, k
  <1>8. /\ u[k+1] = t[q+1] /\ u[k+2] = t[q+2] /\ u[k+3] = t[q+3] /\ u[k+4] = t[q+4]
        /\ u[k+5] = t[q+5] /\ u[k+6] = t[q+6] /\ u[k+7] = t[q+7]
    BY <1>6
  <1>9. EndsWith(u, m, k)
    BY <1>5, <1>7, <1>8 DEF EndsWith
  <1> QED
    BY <1>9 DEF u, k

LEMMA EndBefore ==
    ASSUME NEW s \in Seq(Characters), NEW t \in Texts, NEW m, NEW q \in Nat, EndsWith(t, m, q)
    PROVE  EndsWith(t \o s, m, q)
  <1>1. s \in Texts
    BY TokensDiffer, SeqMonotonic DEF Texts
  <1>2. Len(s) \in Nat /\ Len(t) \in Nat /\ Len(t \o s) = Len(t) + Len(s)
    BY <1>1, ConcatProperties DEF Texts
  <1>3. /\ \A p \in 1..Len(t) : (t \o s)[p] = t[p]
        /\ \A p \in (Len(t) + 1)..(Len(t) + Len(s)) : (t \o s)[p] = s[p - Len(t)]
    BY <1>1, <1>2, ConcatProperties DEF Texts
  <1>4. \A j \in 1..7 : q + j \in 1..Len(t) /\ (t \o s)[q + j] = t[q + j]
    BY <1>2, <1>3 DEF EndsWith
  <1>5. ASSUME NEW p \in (q + 8)..Len(t \o s) PROVE (t \o s)[p] \notin {Open, Close}
    <2>1. CASE p <= Len(t)
      BY <2>1, <1>2, <1>3 DEF EndsWith
    <2>2. CASE p > Len(t)
      <3>1. p - Len(t) \in 1..Len(s) /\ (t \o s)[p] = s[p - Len(t)]
        BY <2>2, <1>2, <1>3
      <3>2. s[p - Len(t)] \in Characters
        BY <3>1
      <3> QED
        BY <3>1, <3>2, TokensDiffer
    <2> QED
      BY <2>1, <2>2, <1>2
  <1> DEFINE u == t \o s
  <1>6. q + 7 <= Len(u)
    BY <1>2 DEF EndsWith
  <1>7. /\ u[q+1] = t[q+1] /\ u[q+2] = t[q+2] /\ u[q+3] = t[q+3] /\ u[q+4] = t[q+4]
        /\ u[q+5] = t[q+5] /\ u[q+6] = t[q+6] /\ u[q+7] = t[q+7]
    BY <1>4
  <1>8. \A p \in (q+8)..Len(u) : u[p] \notin {Open, Close}
    BY <1>5
  <1> HIDE DEF u
  <1>9. EndsWith(u, m, q)
    BY <1>6, <1>7, <1>8 DEF EndsWith
  <1> QED
    BY <1>9 DEF u

LEMMA CiphertextEnds ==
    ASSUME NEW n \in Nat
    PROVE  Ciphertext(n) \in Texts /\ EndsWith(Ciphertext(n), n, 1)
  <1>1. Ciphertext(n) \in Texts
    BY TokensDiffer DEF Ciphertext, Texts
  <1>2. /\ Len(Ciphertext(n)) = 10
        /\ Ciphertext(n)[2] = Open /\ Ciphertext(n)[3] = Key(n) /\ Ciphertext(n)[4] = Close
        /\ Ciphertext(n)[5] = Markup /\ Ciphertext(n)[6] = Open /\ Ciphertext(n)[7] = Data(n)
        /\ Ciphertext(n)[8] = Close /\ Ciphertext(n)[9] = Markup /\ Ciphertext(n)[10] = NewLine
    BY DEF Ciphertext
  <1>3. \A p \in 9..10 : Ciphertext(n)[p] \notin {Open, Close}
    <2>1. Markup \notin {Open, Close} /\ NewLine \notin {Open, Close}
      BY TokensDiffer DEF Characters
    <2> QED
      BY <1>2, <2>1
  <1> DEFINE c == Ciphertext(n)
  <1>4. /\ 1 + 7 <= Len(c)
        /\ c[1+1] = Open /\ c[1+2] = Key(n) /\ c[1+3] = Close /\ c[1+4] = Markup
        /\ c[1+5] = Open /\ c[1+6] = Data(n) /\ c[1+7] = Close
    BY <1>2
  <1>5. \A p \in (1+8)..Len(c) : c[p] \notin {Open, Close}
    BY <1>2, <1>3
  <1> HIDE DEF c
  <1>6. EndsWith(c, n, 1)
    BY <1>4, <1>5 DEF EndsWith
  <1> QED
    BY <1>1, <1>6 DEF c
-----------------------------------------------------------------------------
(***************************************************************************)
(* The steps                                                               *)
(***************************************************************************)
LEMMA SealTypes ==
    ASSUME TypesOK, NEW n \in 1..Len(sealed)
    PROVE  n \in Nat /\ sealed[n].text \in Texts
  <1>1. Len(sealed) \in Nat /\ sealed[n] \in Seals
    BY DEF TypesOK
  <1> QED
    BY <1>1 DEF Seals

\* decrypt of a text with something due opens what is due.
LEMMA DecryptDue ==
    ASSUME TypesOK, NEW below, Nested(below), NEW charset, Decrypt(charset), due # <<>>
    PROVE  \E m \in 1..Len(sealed) :
              Head(due) = sealed[m].text /\ Tail(due) = below[m] /\ DecryptOpens(m, charset)
  <1>1. PICK m \in 1..Len(sealed), q \in Nat :
           EndsWith(text, m, q) /\ Head(due) = sealed[m].text /\ Tail(due) = below[m]
    BY DEF Nested, Keeps
  <1>2. Matches(text) # {} /\ Opened(text) = {m}
    BY <1>1, OpensTheLast DEF TypesOK
  <1>3. DecryptOpens(m, charset)
    BY <1>2 DEF Decrypt
  <1> QED
    BY <1>1, <1>3

LEMMA TokensSequence == \A s \in Seq(Characters) : s \in Texts
  <1>1. Characters \subseteq Tokens
    BY DEF Tokens
  <1> QED
    BY <1>1, SeqMonotonic DEF Texts

LEMMA InitInv == Init => Inv
  <1> SUFFICES ASSUME Init PROVE Inv
    OBVIOUS
  <1>1. text \in Texts
    BY TextAssumption, TokensSequence DEF Init
  <1>2. TypesOK
    BY <1>1 DEF Init, TypesOK
  <1>3. Nested([n \in 1..Len(sealed) |-> <<>>])
    BY DEF Init, Nested, Keeps
  <1> QED
    BY <1>2, <1>3 DEF Inv

LEMMA EncryptInv == ASSUME Inv, NEW charset \in Charsets, Encrypt(charset) PROVE Inv'
  <1> DEFINE k == Len(sealed) + 1
             seal == [text |-> text, charset |-> charset]
  <1>1. /\ sealed' = Append(sealed, seal) /\ text' = Printed(Ciphertext(k), charset)
        /\ due' = <<text>> \o due
    BY DEF Encrypt
  <1>2. PICK below : Nested(below)
    BY DEF Inv
  <1>3. /\ Len(sealed) \in Nat /\ k \in Nat /\ seal \in Seals /\ sealed \in Seq(Seals)
        /\ text \in Texts /\ due \in Seq(Texts)
    BY DEF Inv, TypesOK, Seals
  <1>4. /\ sealed' \in Seq(Seals) /\ Len(sealed') = k /\ sealed'[k] = seal
        /\ \A n \in 1..Len(sealed) : sealed'[n] = sealed[n]
    BY <1>1, <1>3, AppendProperties
  <1>5. /\ due' \in Seq(Texts) /\ due' # <<>> /\ Head(due') = text /\ Tail(due') = due
    BY <1>1, <1>3
  <1>6. text' \in Texts /\ EndsWith(text', k, 1)
    <2>1. Ciphertext(k) \in Texts /\ EndsWith(Ciphertext(k), k, 1)
      BY <1>3, CiphertextEnds
    <2>2. Prints(text', Ciphertext(k))
      BY <1>1, <2>1, Printing
    <2> QED
      BY <1>3, <2>1, <2>2, EndPrinted DEF Prints
  <1>7. PICK grown : grown = [n \in 1..k |-> IF n = k THEN due ELSE below[n]]
    OBVIOUS
  <1> HIDE DEF k, seal
  <1>8. /\ grown \in [1..Len(sealed') -> Seq(Texts)] /\ grown[k] = due
         /\ \A n \in 1..Len(sealed) : grown[n] = below[n]
    BY <1>2, <1>3, <1>4, <1>7 DEF Nested, k
  <1>9. ASSUME NEW t, NEW d, Keeps(t, d, below, sealed) PROVE Keeps(t, d, grown, sealed')
    <2>1. 1..Len(sealed) \subseteq 1..Len(sealed')
      BY <1>3, <1>4 DEF k
    <2> QED
      BY <1>4, <1>8, <1>9, <2>1 DEF Keeps
  <1>10. Keeps(text', due', grown, sealed')
    <2>1. k \in 1..Len(sealed') /\ 1 \in Nat
      BY <1>3, <1>4 DEF k
    <2>2. Head(due') = sealed'[k].text /\ Tail(due') = grown[k]
      BY <1>4, <1>5, <1>8 DEF seal
    <2> QED
      BY <1>6, <2>1, <2>2 DEF Keeps
  <1>11. ASSUME NEW n \in 1..Len(sealed') PROVE Keeps(sealed'[n].text, grown[n], grown, sealed')
    <2>1. CASE n = k
      <3>1. Keeps(text, due, grown, sealed')
        BY <1>2, <1>9 DEF Nested
      <3> QED
        BY <2>1, <3>1, <1>4, <1>8 DEF seal
    <2>2. CASE n # k
      <3>1. n \in 1..Len(sealed)
        BY <2>2, <1>3, <1>4 DEF k
      <3>2. Keeps(sealed[n].text, below[n], grown, sealed')
        BY <3>1, <1>2, <1>9 DEF Nested
      <3> QED
        BY <3>1, <3>2, <1>4, <1>8
    <2> QED
      BY <2>1, <2>2
  <1>12. TypesOK'
    BY <1>4, <1>5, <1>6 DEF TypesOK
  <1>13. Nested(grown)'
    BY <1>8, <1>10, <1>11 DEF Nested
  <1> QED
    BY <1>12, <1>13 DEF Inv

\* A step that makes no ciphertext only has to do right by what the caller holds.
LEMMA TextInv ==
    ASSUME Inv, UNCHANGED sealed, text' \in Texts, due' \in Seq(Texts),
           \A below : Nested(below) => Keeps(text', due', below, sealed)
    PROVE  Inv'
  <1>1. PICK below : Nested(below)
    BY DEF Inv
  <1>2. Nested(below)'
    BY <1>1 DEF Nested
  <1>3. TypesOK'
    BY DEF Inv, TypesOK
  <1> QED
    BY <1>2, <1>3 DEF Inv

LEMMA DecryptInv == ASSUME Inv, NEW charset, Decrypt(charset) PROVE Inv'
  <1>1. text \in Texts /\ due \in Seq(Texts)
    BY DEF Inv, TypesOK
  <1>2. ASSUME NEW m \in 1..Len(sealed), DecryptOpens(m, charset)
        PROVE  Prints(text', sealed[m].text) /\ text' \in Texts
    BY <1>2, SealTypes, PrintingRecoded DEF DecryptOpens, Inv, Prints
  <1>3. CASE due = <<>>
    <2>1. due' = <<>> /\ UNCHANGED sealed
      BY <1>3 DEF Decrypt, DecryptInvalid, DecryptOpens, DecryptThrows
    <2>2. text' \in Texts
      <3>1. CASE DecryptInvalid(charset)
        <4>1. <<Message>> \in Texts
          BY DEF Tokens, Texts
        <4>2. <<Message>> \o text \in Texts
          BY <1>1, <4>1, ConcatProperties DEF Texts
        <4> QED
          BY <3>1, <4>2, Printing DEF DecryptInvalid, Prints
      <3>2. CASE DecryptThrows
        BY <3>2, <1>1 DEF DecryptThrows
      <3>3. ASSUME NEW n \in Opened(text), DecryptOpens(n, charset) PROVE text' \in Texts
        <4>1. n \in 1..Len(sealed)
          BY DEF Opened, Inv, TypesOK
        <4> QED
          BY <3>3, <4>1, <1>2
      <3> QED
        BY <3>1, <3>2, <3>3 DEF Decrypt
    <2>3. <<>> \in Seq(Texts)
      OBVIOUS
    <2> QED
      BY <2>1, <2>2, <2>3, TextInv DEF Keeps
  <1>4. CASE due # <<>>
    <2>1. ASSUME NEW below, Nested(below)
          PROVE  /\ due' = Tail(due) /\ UNCHANGED sealed /\ text' \in Texts
                 /\ Keeps(text', due', below, sealed)
      <3>1. PICK m \in 1..Len(sealed) :
               Head(due) = sealed[m].text /\ Tail(due) = below[m] /\ DecryptOpens(m, charset)
        BY <1>4, <2>1, DecryptDue DEF Inv
      <3>2. Prints(text', sealed[m].text) /\ text' \in Texts
        BY <3>1, <1>2
      <3>3. due' = below[m] /\ due' = Tail(due) /\ UNCHANGED sealed
        BY <1>4, <3>1 DEF DecryptOpens
      <3>4. Keeps(sealed[m].text, below[m], below, sealed)
        BY <2>1 DEF Nested
      <3>5. ASSUME NEW h \in 1..Len(sealed), NEW q \in Nat, EndsWith(sealed[m].text, h, q)
            PROVE  EndsWith(text', h, q)
        <4>1. sealed[m].text \in Texts /\ h \in Nat
          BY SealTypes DEF Inv
        <4> QED
          BY <3>2, <3>5, <4>1, EndPrinted
      <3>6. Keeps(text', due', below, sealed)
        BY <3>3, <3>4, <3>5 DEF Keeps
      <3> QED
        BY <3>2, <3>3, <3>6
    <2>2. Tail(due) \in Seq(Texts)
      BY <1>1, <1>4
    <2>3. due' = Tail(due) /\ UNCHANGED sealed /\ text' \in Texts
      BY <2>1 DEF Inv
    <2> QED
      BY <2>1, <2>2, <2>3, TextInv
  <1> QED
    BY <1>3, <1>4

\* What the caller writes in front or behind leaves the last ciphertext the last.
LEMMA EncloseInv == ASSUME Inv, Enclose PROVE Inv'
  <1>1. /\ text \in Texts /\ due \in Seq(Texts) /\ UNCHANGED <<sealed, due>>
        /\ \A h \in 1..Len(sealed) : h \in Nat
    BY SealTypes DEF Enclose, Inv, TypesOK
  <1>2. ASSUME NEW s \in Texts, text' = s \o text PROVE Inv'
    <2>1. Len(s) \in Nat /\ text' \in Texts
      BY <1>1, <1>2, ConcatProperties DEF Texts
    <2>2. ASSUME NEW below, Nested(below) PROVE Keeps(text', due', below, sealed)
      <3>1. SUFFICES ASSUME due # <<>> PROVE Keeps(text', due', below, sealed)
        BY <1>1 DEF Keeps
      <3>2. PICK m \in 1..Len(sealed), q \in Nat :
               EndsWith(text, m, q) /\ Head(due) = sealed[m].text /\ Tail(due) = below[m]
        BY <2>2, <3>1 DEF Nested, Keeps
      <3>3. EndsWith(text', m, Len(s) + q) /\ Len(s) + q \in Nat
        BY <1>1, <1>2, <2>1, <3>2, EndBehind
      <3> QED
        BY <1>1, <3>2, <3>3 DEF Keeps
    <2> QED
      BY <1>1, <2>1, <2>2, TextInv
  <1>3. ASSUME NEW s \in Surroundings, text' = text \o s PROVE Inv'
    <2>1. s \in Seq(Characters) /\ s \in Texts
      BY TextAssumption, TokensSequence
    <2>2. text' \in Texts
      BY <1>1, <1>3, <2>1, ConcatProperties DEF Texts
    <2>3. ASSUME NEW below, Nested(below) PROVE Keeps(text', due', below, sealed)
      <3>1. ASSUME NEW m, NEW q \in Nat, EndsWith(text, m, q) PROVE EndsWith(text', m, q)
        BY <1>1, <1>3, <2>1, <3>1, EndBefore
      <3> QED
        BY <1>1, <2>3, <3>1 DEF Nested, Keeps
    <2> QED
      BY <1>1, <2>2, <2>3, TextInv
  <1>4. \A s \in Surroundings : s \in Texts
    BY TextAssumption, TokensSequence
  <1>5. \A n \in 1..Len(sealed) : Ciphertext(n) \in Texts
    BY <1>1, CiphertextEnds
  <1>6. <<Open, Letter, Close>> \in Texts
    BY DEF Tokens, Characters, Texts
  <1> QED
    BY <1>2, <1>3, <1>4, <1>5, <1>6 DEF Enclose

LEMMA SpoilInv == ASSUME Inv, Spoil PROVE Inv'
  <1>1. text \in Texts /\ due' = <<>> /\ UNCHANGED sealed
    BY DEF Spoil, Inv, TypesOK
  <1>2. <<Open, Letter, Close>> \in Texts /\ <<NewLine>> \in Texts
    BY DEF Tokens, Characters, Texts
  <1>3. ASSUME NEW p \in DOMAIN text
        PROVE  SubSeq(text, 1, p - 1) \o <<NewLine>> \o SubSeq(text, p, Len(text)) \in Texts
    <2>1. /\ DOMAIN text = 1..Len(text) /\ Len(text) \in Nat
          /\ \A h \in 1..Len(text) : text[h] \in Tokens
      BY <1>1 DEF Texts
    <2>2. SubSeq(text, 1, p - 1) \in Texts /\ SubSeq(text, p, Len(text)) \in Texts
      BY <2>1, SubSeqProperties DEF Texts
    <2>3. SubSeq(text, 1, p - 1) \o <<NewLine>> \in Texts
      BY <1>2, <2>2, ConcatProperties DEF Texts
    <2> QED
      BY <2>2, <2>3, ConcatProperties DEF Texts
  <1>4. text' \in Texts
    BY <1>1, <1>2, <1>3, ConcatProperties DEF Spoil, Texts
  <1>5. <<>> \in Seq(Texts)
    OBVIOUS
  <1> QED
    BY <1>1, <1>4, <1>5, TextInv DEF Keeps

LEMMA NextInv == Inv /\ [Next]_vars => Inv'
  <1> SUFFICES ASSUME Inv, [Next]_vars PROVE Inv'
    OBVIOUS
  <1>1. CASE UNCHANGED vars
    BY <1>1 DEF vars, Inv, TypesOK, Nested, Keeps
  <1>2. CASE Next
    BY <1>2, EncryptInv, DecryptInv, EncloseInv, SpoilInv DEF Next
  <1> QED
    BY <1>1, <1>2

LEMMA Safety == Spec => []Inv
  BY InitInv, NextInv, PTL DEF Spec
-----------------------------------------------------------------------------
\* What opening a text gives the caller.
LEMMA OpeningGives ==
    ASSUME Inv, Next, Opening
    PROVE  /\ status' = 200 /\ Prints(text', Head(due)) /\ Head(due) \in Texts
           /\ (host' = "UTF-8" /\ \A n \in DOMAIN sealed : sealed[n].charset = "UTF-8")
                 => text' = Append(Head(due), NewLine)
  <1>1. due # <<>>
    BY DEF Opening
  <1>2. PICK charset \in Charsets : host' = charset /\ Decrypt(charset)
    BY DEF Next, Opening
  <1>3. PICK below : Nested(below)
    BY DEF Inv
  <1>4. PICK m \in 1..Len(sealed) : Head(due) = sealed[m].text /\ DecryptOpens(m, charset)
    BY <1>1, <1>2, <1>3, DecryptDue DEF Inv
  <1>5. /\ text' = Printed(RecodedText(sealed[m].text, sealed[m].charset, charset), charset)
        /\ status' = 200
    BY <1>4 DEF DecryptOpens
  <1>6. sealed[m].text \in Texts /\ m \in DOMAIN sealed
    BY SealTypes DEF Inv, TypesOK
  <1>7. Prints(text', sealed[m].text)
    BY <1>5, <1>6, PrintingRecoded
  <1>8. ASSUME charset = "UTF-8", sealed[m].charset = "UTF-8"
        PROVE  text' = Append(sealed[m].text, NewLine)
    <2>1. RecodedText(sealed[m].text, sealed[m].charset, charset) = sealed[m].text
      BY <1>6, <1>8, RecodingText
    <2> QED
      BY <1>5, <1>6, <1>8, <2>1, Printing
  <1> QED
    BY <1>2, <1>4, <1>5, <1>6, <1>7, <1>8

\* The last ciphertext of a text opens, whatever stands before it and however
\* deep it was enclosed in others, and all of ASCII comes back in its place.
THEOREM SealedOpens == Spec => OpensWhatWasSealed
  <1>1. Inv /\ [Next]_vars => [Opening => status' = 200 /\ SameInASCII(text', Head(due))]_vars
    <2> SUFFICES ASSUME Inv, Next, Opening
                 PROVE  status' = 200 /\ SameInASCII(text', Head(due))
      OBVIOUS
    <2>1. status' = 200 /\ Prints(text', Head(due)) /\ Head(due) \in Texts
      BY OpeningGives
    <2> QED
      BY <2>1 DEF Prints, SameInASCII
  <1> QED
    BY <1>1, Safety, PTL DEF Spec, OpensWhatWasSealed

\* Where every host involved uses UTF-8, all of it comes back.
THEOREM Survives == Spec => TextSurvives
  <1>1. Inv /\ [Next]_vars =>
          [(Opening /\ host' = "UTF-8" /\ \A n \in DOMAIN sealed : sealed[n].charset = "UTF-8")
              => text' = Append(Head(due), NewLine)]_vars
    BY OpeningGives
  <1> QED
    BY <1>1, Safety, PTL DEF Spec, TextSurvives
=============================================================================
