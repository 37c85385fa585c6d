------------------------------ MODULE XmlEncText ------------------------------
(***************************************************************************)
(* The texts of POST /xml/encrypt and POST /xml/decrypt: what a caller     *)
(* gets back who encrypts a text, encloses the result in other text, has   *)
(* that encrypted again, and opens it all.  decrypt looks for a ciphertext *)
(* with one greedy regular expression; the service reads requests as       *)
(* UTF-8, and does everything else in the default charset of its host.     *)
(*                                                                         *)
(* Keys are the subject of Cryptor: here every host has the same pair.     *)
(***************************************************************************)
EXTENDS Integers, SequencesExt

CONSTANTS Charsets,    \* default charsets of the hosts
          Documents,   \* texts a caller starts with
          Surroundings, \* texts it puts around what it holds
          MaxSeals,    \* bound on encryptions
          MaxCalls     \* bound on requests and editing

\* A text is a sequence of tokens.  A letter is any character of ASCII; "accented"
\* is in ISO-8859-1 too; "damaged" is what takes the place of characters lost.
Token(is, n) == [is |-> is, n |-> n]
Letter   == Token("letter", 0)
NewLine  == Token("newline", 0)
Accented == Token("accented", 0)
Foreign  == Token("foreign", 0)
Damaged  == Token("damaged", 0)
Open     == Token("<CipherValue>", 0)
Close    == Token("</CipherValue>", 0)
Markup   == Token("markup", 0)    \* the other lines of encrypt
Message  == Token("Invalid XML Enc format:\n ", 0)
Key(n)   == Token("key", n)       \* Base64, of the n-th encryption
Data(n)  == Token("data", n)

Characters == {Letter, NewLine, Accented, Foreign, Damaged}
Beyond     == {Accented, Foreign, Damaged}    \* not ASCII

ASSUME TextAssumption ==
    /\ Charsets \subseteq {"UTF-8", "ISO-8859-1", "US-ASCII"}
    /\ Documents \subseteq Seq(Characters) /\ Surroundings \subseteq Seq(Characters)
    /\ MaxSeals \in Nat /\ MaxCalls \in Nat

VARIABLES text,      \* what the caller holds
          sealed,    \* sealed[n]: the bytes of the n-th encryption, and their charset
          due,       \* for the properties: what the caller had encrypted, last first
          step,      \* what was done last
          host,      \* the charset of the host that served the last request
          status,    \* of the last request, 0 before the first
          calls

vars == <<text, sealed, due, step, host, status, calls>>

Init ==
    /\ text \in Documents
    /\ sealed = <<>> /\ due = <<>>
    /\ step = "none" /\ host = "none" /\ status = 0 /\ calls = 0
-----------------------------------------------------------------------------
(***************************************************************************)
(* Characters                                                              *)
(***************************************************************************)

\* Mutant: new String(bytes, ISO_8859_1).
RecodedLatin(token, from, to) ==
    IF token \notin Beyond \/ (from = "ISO-8859-1" /\ token = Accented) THEN token ELSE Damaged

\* getBytes() in one charset, new String() in another.
Recoded(token, from, to) ==
    IF \/ token \notin Beyond
       \/ from = to /\ from = "UTF-8"
       \/ from = to /\ from = "ISO-8859-1" /\ token = Accented
    THEN token ELSE Damaged

RecodedText(t, from, to) == [p \in DOMAIN t |-> Recoded(t[p], from, to)]

\* PrintStream.println, as callers, who send UTF-8, read it.
Printed(t, charset) == Append(RecodedText(t, charset, "UTF-8"), NewLine)
-----------------------------------------------------------------------------
(***************************************************************************)
(* encrypt and decrypt                                                     *)
(***************************************************************************)

\* encrypt(String)
Ciphertext(n) == <<Markup, Open, Key(n), Close, Markup, Open, Data(n), Close, Markup, NewLine>>

\* Where '.*<CipherValue>(.*)</CipherValue>.*<CipherValue>(.*)</CipherValue>.*'
\* can have its four tags; '.' is any character.
Matches(t) ==
    LET at(tag) == {p \in DOMAIN t : t[p] = tag}
    IN  {m \in at(Open) \X at(Close) \X at(Open) \X at(Close) :
            m[1] < m[2] /\ m[2] < m[3] /\ m[3] < m[4]}

\* m has the first tag in which they differ further on.
Greedier(m, k) == \E j \in 1..4 : m[j] > k[j] /\ \A h \in 1..(j - 1) : m[h] = k[h]

\* Mutant: '.*?' and '(.*?)'.
MatchReluctant(t) == CHOOSE m \in Matches(t) : \A k \in Matches(t) : m = k \/ Greedier(k, m)

Match(t) == CHOOSE m \in Matches(t) : \A k \in Matches(t) : m = k \/ Greedier(m, k)

\* The two groups are the key and the data of an encryption, with nothing else
\* in them: Base64.getDecoder() allows no white space, and other data or keys do
\* not decrypt.
Opened(t) ==
    LET m == Match(t)
    IN  {n \in DOMAIN sealed : /\ SubSeq(t, m[1] + 1, m[2] - 1) = <<Key(n)>>
                               /\ SubSeq(t, m[3] + 1, m[4] - 1) = <<Data(n)>>}

Encrypt(charset) ==
    /\ Len(sealed) < MaxSeals
    /\ sealed' = Append(sealed, [text |-> text, charset |-> charset])
    /\ text' = Printed(Ciphertext(Len(sealed) + 1), charset)
    /\ due' = <<text>> \o due
    /\ status' = 200

DecryptInvalid(charset) ==
    /\ text' = Printed(<<Message>> \o text, charset)
    /\ status' = 200
    /\ UNCHANGED <<sealed, due>>

DecryptOpens(n, charset) ==
    /\ text' = Printed(RecodedText(sealed[n].text, sealed[n].charset, charset), charset)
    /\ status' = 200
    /\ due' = IF due = <<>> THEN <<>> ELSE Tail(due)
    /\ UNCHANGED sealed

\* decode or doFinal throws.  The caller keeps what it has.
DecryptThrows ==
    /\ status' = 500
    /\ UNCHANGED <<text, sealed, due>>

Decrypt(charset) ==
    IF Matches(text) = {} THEN DecryptInvalid(charset)
    ELSE LET opened == Opened(text)
         IN  \/ \E n \in opened : DecryptOpens(n, charset)
             \/ opened = {} /\ DecryptThrows
-----------------------------------------------------------------------------
\* The caller's part: text around what it holds, a ciphertext it was handed
\* before or a value of its own in front.
Enclose ==
    /\ \/ \E s \in Surroundings : text' \in {s \o text, text \o s}
       \/ due # <<>> /\ \E n \in 1..Len(sealed) : text' = Ciphertext(n) \o text
       \/ due # <<>> /\ text' = <<Open, Letter, Close>> \o text
    /\ UNCHANGED <<sealed, due, host, status>>

\* A value of its own behind it, or white space at the end of a value, which XML
\* allows: of such a text nothing is promised.
Spoil ==
    /\ due # <<>> /\ due' = <<>>
    /\ \/ text' = text \o <<Open, Letter, Close>>
       \/ \E p \in DOMAIN text :
            /\ text[p] = Close
            /\ text' = SubSeq(text, 1, p - 1) \o <<NewLine>> \o SubSeq(text, p, Len(text))
    /\ UNCHANGED <<sealed, host, status>>

Next ==
    /\ calls < MaxCalls /\ calls' = calls + 1
    /\ \/ \E c \in Charsets : host' = c /\ \/ Encrypt(c) /\ step' = "encrypt"
                                           \/ Decrypt(c) /\ step' = "decrypt"
       \/ (Enclose \/ Spoil) /\ step' = "edit"

Spec == Init /\ [][Next]_vars
-----------------------------------------------------------------------------
(***************************************************************************)
(* Properties                                                              *)
(***************************************************************************)

\* A request to decrypt a text with a ciphertext that should open.
Opening == step' = "decrypt" /\ calls' # calls /\ due # <<>>

\* u is t, but for characters beyond ASCII, with a new line.
SameInASCII(u, t) ==
    /\ Len(u) = Len(t) + 1 /\ u[Len(u)] = NewLine
    /\ \A p \in 1..Len(t) : t[p] \in Beyond <=> u[p] \in Beyond
    /\ \A p \in 1..Len(t) : t[p] \notin Beyond => u[p] = t[p]

\* The last ciphertext of a text opens, whatever comes before it, parts of other
\* ciphertexts included, however deep it was enclosed in others, and whatever the
\* charsets: all of ASCII that was encrypted comes back in its place, with a new
\* line.  (The expression of Cryptor.decrypt; getBytes, new String, println.)
OpensWhatWasSealed ==
    [][Opening => status' = 200 /\ SameInASCII(text', Head(due))]_vars

\* With UTF-8 everywhere all of it comes back.  It takes every host: encrypting
\* and decrypting on one with another charset does not do, since println writes
\* in that charset what callers read as UTF-8.
TextSurvives ==
    [][(Opening /\ host' = "UTF-8" /\ \A n \in DOMAIN sealed : sealed[n].charset = "UTF-8")
          => text' = Append(Head(due), NewLine)]_vars
=============================================================================
