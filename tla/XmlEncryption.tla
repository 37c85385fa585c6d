---------------------------- MODULE XmlEncryption ----------------------------
(***************************************************************************)
(* What POST /xml/encrypt and POST /xml/decrypt promise their callers,     *)
(* with no key file, no key pair and no constructor in sight: every        *)
(* ciphertext the service ever hands out opens again, whichever request,   *)
(* thread or incarnation of the server handed it out.  The service may     *)
(* refuse a request (status 500) but it never loses a document.            *)
(*                                                                         *)
(* Module Cryptor is the detailed specification; it instantiates this one. *)
(***************************************************************************)
EXTENDS FiniteSets

CONSTANTS Workers,    \* container threads, each serving one request at a time
          KeyPairs,   \* RSA key pairs
          Docs        \* plaintext documents

Ciphertext == [key : KeyPairs, doc : Docs]

\* A body that is no ciphertext: a document, or a message.
Text(t) == [key |-> "none", doc |-> t]

\* Text without the two CipherValue elements decrypt looks for.
NotXmlEnc == Text("not xmlenc")

Request(op, body)    == [op |-> op, body |-> body]
EncryptRequests      == {Request("encrypt", Text(d)) : d \in Docs}
DecryptRequests(cts) == {Request("decrypt", b) : b \in cts \cup {NotXmlEnc}}

Requests == EncryptRequests \cup DecryptRequests(Ciphertext)
NoRequest == Request("none", Text("none"))

\* An answer: an HTTP status and a body.
Answer(status, body) == [status |-> status, body |-> body]
NoAnswer      == Answer(0, Text("none"))
InvalidFormat == Answer(200, Text("invalid format"))  \* Cryptor.java:83
Unavailable   == Answer(500, Text("no key pair"))     \* the constructor threw
BadPadding    == Answer(500, Text("bad padding"))     \* doFinal threw

Answers == {NoAnswer, InvalidFormat, Unavailable, BadPadding}
             \cup {Answer(200, b) : b \in Ciphertext \cup {Text(d) : d \in Docs}}

VARIABLES stage,      \* stage[w]: "idle", "serving" or "replied"
          req,        \* req[w]: the request worker w serves
          reply,      \* reply[w]: its answer, once given
          issued      \* every ciphertext handed to a caller so far

vars == <<stage, req, reply, issued>>

Init == /\ stage = [w \in Workers |-> "idle"]
        /\ req = [w \in Workers |-> NoRequest]
        /\ reply = [w \in Workers |-> NoAnswer]
        /\ issued = {}

Accept(w) ==
    /\ stage[w] # "serving"
    /\ \E r \in EncryptRequests \cup DecryptRequests(issued) :
          req' = [req EXCEPT ![w] = r]
    /\ stage' = [stage EXCEPT ![w] = "serving"]
    /\ reply' = [reply EXCEPT ![w] = NoAnswer]
    /\ UNCHANGED issued

Respond(w, answer) ==
    /\ stage[w] = "serving"
    /\ stage' = [stage EXCEPT ![w] = "replied"]
    /\ reply' = [reply EXCEPT ![w] = answer]
    /\ UNCHANGED req

\* All ciphertexts are made with one key pair: that is why each one opens.
Encrypt(w) ==
    /\ req[w].op = "encrypt"
    /\ \E k \in KeyPairs :
          /\ \A ct \in issued : ct.key = k
          /\ LET ct == [key |-> k, doc |-> req[w].body.doc] IN
                /\ issued' = issued \cup {ct}
                /\ Respond(w, Answer(200, ct))

Decrypt(w) ==
    /\ req[w].op = "decrypt"
    /\ \/ /\ req[w].body = NotXmlEnc
          /\ Respond(w, InvalidFormat)
       \/ /\ req[w].body \in issued
          /\ Respond(w, Answer(200, Text(req[w].body.doc)))
    /\ UNCHANGED issued

Refuse(w) == Respond(w, Unavailable) /\ UNCHANGED issued

Restart == /\ stage' = [w \in Workers |-> "idle"]
           /\ req' = [w \in Workers |-> NoRequest]
           /\ reply' = [w \in Workers |-> NoAnswer]
           /\ UNCHANGED issued

Next == \/ \E w \in Workers : Accept(w) \/ Encrypt(w) \/ Decrypt(w) \/ Refuse(w)
        \/ Restart

Spec == Init /\ [][Next]_vars
=============================================================================
