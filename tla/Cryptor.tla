------------------------------- MODULE Cryptor -------------------------------
(***************************************************************************)
(* crypto.Cryptor and app.XMLEncryptionResource: RSA key pairs kept in two *)
(* files, rsa.x509 and rsa.pk8, shared by every request.                   *)
(*                                                                         *)
(* Guice binds XMLEncryptionResource without a scope, so RESTEasy builds   *)
(* one instance, and with it one Cryptor, for EACH request.  The           *)
(* constructor tests whether both files exist; if so it reads the pair     *)
(* from them, otherwise it generates a pair and writes both files, public  *)
(* half first.  Nothing locks the files, so constructors of concurrent     *)
(* requests interleave between any two file operations, and a crash leaves *)
(* the files as they are.                                                  *)
(***************************************************************************)
EXTENDS Naturals, FiniteSets

CONSTANTS Workers,       \* container threads serving /xml requests
          KeyPairs,      \* the RSA key pairs there are; generation draws an unused one
          Docs,          \* documents callers encrypt
          InitialFiles,  \* contents the two files may have at deployment
          MaxCrashes,    \* bound on server crashes
          MaxIoErrors    \* bound on failing file operations

\* What a file holds when it does not hold its half of a key pair.
Absent  == "absent"
Empty   == "empty"       \* opened for writing (truncated), nothing flushed yet
Garbled == "garbled"     \* partly written, or a longer text overwritten by a shorter
Unusable == {Absent, Empty, Garbled}

\* In the memory of a Cryptor object.
NoHalf == "none"

FileContent == KeyPairs \cup Unusable

ASSUME KeyPairsAssumption == KeyPairs \cap (Unusable \cup {NoHalf}) = {}
ASSUME InitialFilesAssumption == InitialFiles \subseteq [pub : FileContent, priv : FileContent]
ASSUME BoundsAssumption == MaxCrashes \in Nat /\ MaxIoErrors \in Nat

VARIABLES pubFile, privFile, \* the half each file holds, named by its key pair
          made,              \* key pairs in existence: deployed or generated
          pc,                \* pc[w]: the next step of the request worker w serves
          held,              \* held[w]: the keyPair field of its Cryptor
          req, reply, issued,
          crashes, ioErrors

files == <<pubFile, privFile>>
vars == <<pubFile, privFile, made, pc, held, req, reply, issued, crashes, ioErrors>>

Waiting    == {"idle", "replied"}
Loading    == {"readPub", "readPriv"}
Generating == {"generate", "openPub", "writePub", "openPriv", "writePriv"}
Steps      == Waiting \cup {"checkPub", "checkPriv", "ready"} \cup Loading \cup Generating

Stage == [w \in Workers |-> IF pc[w] \in Waiting THEN pc[w] ELSE "serving"]

Service == INSTANCE XmlEncryption WITH stage <- Stage

NoPair == [pub |-> NoHalf, priv |-> NoHalf]
Pair(k) == [pub |-> k, priv |-> k]

TypeOK ==
    /\ pubFile \in FileContent /\ privFile \in FileContent
    /\ made \subseteq KeyPairs
    /\ pc \in [Workers -> Steps]
    /\ held \in [Workers -> [pub : KeyPairs \cup {NoHalf}, priv : KeyPairs \cup {NoHalf}]]
    /\ req \in [Workers -> Service!Requests \cup {Service!NoRequest}]
    /\ reply \in [Workers -> Service!Answers]
    /\ issued \subseteq Service!Ciphertext
    /\ crashes \in 0..MaxCrashes
    /\ ioErrors \in 0..MaxIoErrors
-----------------------------------------------------------------------------
Init ==
    /\ \E f \in InitialFiles :
          /\ pubFile = f.pub
          /\ privFile = f.priv
          /\ made = {f.pub, f.priv} \cap KeyPairs
    /\ pc = [w \in Workers |-> "idle"]
    /\ held = [w \in Workers |-> NoPair]
    /\ req = [w \in Workers |-> Service!NoRequest]
    /\ reply = [w \in Workers |-> Service!NoAnswer]
    /\ issued = {}
    /\ crashes = 0
    /\ ioErrors = 0

Goto(w, from, to) == pc[w] = from /\ pc' = [pc EXCEPT ![w] = to]

Respond(w, answer) ==
    /\ pc' = [pc EXCEPT ![w] = "replied"]
    /\ reply' = [reply EXCEPT ![w] = answer]

\* A request arrives and the injector starts constructing its resource.
Arrive(w) ==
    /\ pc[w] \in Waiting
    /\ \E r \in Service!EncryptRequests \cup Service!DecryptRequests(issued) :
          req' = [req EXCEPT ![w] = r]
    /\ pc' = [pc EXCEPT ![w] = "checkPub"]
    /\ held' = [held EXCEPT ![w] = NoPair]
    /\ reply' = [reply EXCEPT ![w] = Service!NoAnswer]
    /\ UNCHANGED <<pubFile, privFile, made, issued, crashes, ioErrors>>

\* The two exists() calls of the constructor; && skips the second.
CheckPub(w) ==
    /\ Goto(w, "checkPub", IF pubFile = Absent THEN "generate" ELSE "checkPriv")
    /\ UNCHANGED <<pubFile, privFile, made, held, req, reply, issued, crashes, ioErrors>>

\* Mutant: the second test looks for a file the constructor never writes.
CheckPrivMisnamed(w) ==
    /\ Goto(w, "checkPriv", "generate")
    /\ UNCHANGED <<pubFile, privFile, made, held, req, reply, issued, crashes, ioErrors>>

CheckPriv(w) ==
    /\ Goto(w, "checkPriv", IF privFile = Absent THEN "generate" ELSE "readPub")
    /\ UNCHANGED <<pubFile, privFile, made, held, req, reply, issued, crashes, ioErrors>>

\* A file that does not parse makes the constructor, and so the request, fail.
ReadPub(w) ==
    /\ pc[w] = "readPub"
    /\ \/ /\ pubFile \in KeyPairs
          /\ held' = [held EXCEPT ![w].pub = pubFile]
          /\ pc' = [pc EXCEPT ![w] = "readPriv"]
          /\ UNCHANGED reply
       \/ /\ pubFile \notin KeyPairs
          /\ Respond(w, Service!Unavailable)
          /\ UNCHANGED held
    /\ UNCHANGED <<pubFile, privFile, made, req, issued, crashes, ioErrors>>

\* Mutant: whatever the file holds passes for a key.
ReadPrivLenient(w) ==
    /\ Goto(w, "readPriv", "ready")
    /\ held' = [held EXCEPT ![w].priv = privFile]
    /\ UNCHANGED <<pubFile, privFile, made, req, reply, issued, crashes, ioErrors>>

ReadPriv(w) ==
    /\ pc[w] = "readPriv"
    /\ \/ /\ privFile \in KeyPairs
          /\ held' = [held EXCEPT ![w].priv = privFile]
          /\ pc' = [pc EXCEPT ![w] = "ready"]
          /\ UNCHANGED reply
       \/ /\ privFile \notin KeyPairs
          /\ Respond(w, Service!Unavailable)
          /\ UNCHANGED held
    /\ UNCHANGED <<pubFile, privFile, made, req, issued, crashes, ioErrors>>

Generate(w) ==
    /\ Goto(w, "generate", "openPub")
    /\ \E k \in KeyPairs \ made :
          /\ held' = [held EXCEPT ![w] = Pair(k)]
          /\ made' = made \cup {k}
    /\ UNCHANGED <<pubFile, privFile, req, reply, issued, crashes, ioErrors>>

\* writeRSAKey.  Opening a FileOutputStream truncates the file; the PEM text
\* stays in the writer's buffer until close() writes it with one call.
OpenPub(w) ==
    /\ Goto(w, "openPub", "writePub")
    /\ pubFile' = Empty
    /\ UNCHANGED <<privFile, made, held, req, reply, issued, crashes, ioErrors>>

\* 2048-bit public keys have encodings of one length: the later text covers
\* the earlier one.
WritePub(w) ==
    /\ Goto(w, "writePub", "openPriv")
    /\ pubFile' = held[w].pub
    /\ UNCHANGED <<privFile, made, held, req, reply, issued, crashes, ioErrors>>

OpenPriv(w) ==
    /\ Goto(w, "openPriv", "writePriv")
    /\ privFile' = Empty
    /\ UNCHANGED <<pubFile, made, held, req, reply, issued, crashes, ioErrors>>

\* PKCS#8 private keys differ in length by a few bytes: over the text another
\* constructor has put there, the end of the longer text may survive.
WritePriv(w) ==
    /\ Goto(w, "writePriv", "ready")
    /\ privFile' \in {held[w].priv} \cup (IF privFile = Empty THEN {} ELSE {Garbled})
    /\ UNCHANGED <<pubFile, made, held, req, reply, issued, crashes, ioErrors>>

\* Mutant: the constructor catches the exception, logs it and returns.
IoErrorIgnored(w) ==
    /\ pc[w] \in Loading \cup {"openPub", "writePub", "openPriv", "writePriv"}
    /\ ioErrors < MaxIoErrors
    /\ ioErrors' = ioErrors + 1
    /\ pc' = [pc EXCEPT ![w] = "ready"]
    /\ UNCHANGED <<pubFile, privFile, made, held, req, reply, issued, crashes>>

\* The disk may refuse any of these operations; a failed write may leave part
\* of the text behind.  The exception leaves the constructor.
IoError(w) ==
    /\ pc[w] \in Loading \cup {"openPub", "writePub", "openPriv", "writePriv"}
    /\ ioErrors < MaxIoErrors
    /\ ioErrors' = ioErrors + 1
    /\ pubFile' \in {pubFile} \cup (IF pc[w] = "writePub" THEN {Garbled} ELSE {})
    /\ privFile' \in {privFile} \cup (IF pc[w] = "writePriv" THEN {Garbled} ELSE {})
    /\ Respond(w, Service!Unavailable)
    /\ UNCHANGED <<made, held, req, issued, crashes>>

\* XMLEncryptionResource.encrypt, once its Cryptor is there.
Encrypt(w) ==
    /\ pc[w] = "ready"
    /\ req[w].op = "encrypt"
    /\ LET ct == [key |-> held[w].pub, doc |-> req[w].body.doc] IN
          /\ issued' = issued \cup {ct}
          /\ Respond(w, Service!Answer(200, ct))
    /\ UNCHANGED <<pubFile, privFile, made, held, req, crashes, ioErrors>>

\* What decrypt answers with private half k: a text it does not recognise is
\* answered with a message and status 200, a wrong key with an exception.
Decrypted(k, body) ==
    IF body = Service!NotXmlEnc THEN Service!InvalidFormat
    ELSE IF body.key = k THEN Service!Answer(200, Service!Text(body.doc)) ELSE Service!BadPadding

Decrypt(w) ==
    /\ pc[w] = "ready"
    /\ req[w].op = "decrypt"
    /\ Respond(w, Decrypted(held[w].priv, req[w].body))
    /\ UNCHANGED <<pubFile, privFile, made, held, req, issued, crashes, ioErrors>>

\* The process dies and is started again: the files and the callers'
\* ciphertexts are all that is left.
Crash ==
    /\ crashes < MaxCrashes
    /\ crashes' = crashes + 1
    /\ pc' = [w \in Workers |-> "idle"]
    /\ held' = [w \in Workers |-> NoPair]
    /\ req' = [w \in Workers |-> Service!NoRequest]
    /\ reply' = [w \in Workers |-> Service!NoAnswer]
    /\ UNCHANGED <<pubFile, privFile, made, issued, ioErrors>>

Load(w)  == CheckPub(w) \/ CheckPriv(w) \/ ReadPub(w) \/ ReadPriv(w)
Store(w) == OpenPub(w) \/ WritePub(w) \/ OpenPriv(w) \/ WritePriv(w)
Serve(w) == Encrypt(w) \/ Decrypt(w)

Next == \/ \E w \in Workers : \/ Arrive(w) \/ Load(w) \/ Generate(w) \/ Store(w)
                              \/ IoError(w) \/ Serve(w)
        \/ Crash

Spec == Init /\ [][Next]_vars
-----------------------------------------------------------------------------
(***************************************************************************)
(* Properties                                                              *)
(***************************************************************************)

\* Every ciphertext /xml/encrypt has handed out decrypts to its document
\* whenever a Cryptor can be constructed at all, across requests, restarts
\* and failed writes (the round trip of XMLEncryptionResourceTest).
RoundTrip ==
    \A w \in Workers :
        (pc[w] = "replied" /\ req[w].op = "decrypt" /\ req[w].body \in issued)
            => reply[w] \in {Service!Answer(200, Service!Text(req[w].body.doc)), Service!Unavailable}

\* Whenever nobody is writing the files, the private key on disk belongs to
\* the public key on disk: encrypting and decrypting requests that load them
\* independently agree.
DiskPairMatches ==
    (privFile \in KeyPairs /\ \A w \in Workers : pc[w] \notin Generating)
        => pubFile = privFile

\* Requests whose constructor has found a file missing and is making a pair.
Generators == {w \in Workers : pc[w] \in Generating}

BothExist == pubFile # Absent /\ privFile # Absent

\* First requests that come together may each generate a pair, and the pairs may
\* replace and spoil each other; but only those that had begun by the time the
\* second file appeared.  From then on, whatever crashes or fails, both files
\* stay, no further constructor generates, and once the last of those requests is
\* through nothing ever writes the files again.
OnlyFirstGenerate ==
    [][BothExist => /\ BothExist'
                    /\ Generators' \subseteq Generators
                    /\ Generators = {} => UNCHANGED files]_vars

\* The service XmlEncryption promises.
ImplementsService == Service!Spec

-----------------------------------------------------------------------------
(***************************************************************************)
(* Why the round trip holds where it does: the inductive invariant         *)
(***************************************************************************)

OneWorker == \A v, w \in Workers : v = w

\* No deployment starts with a private key that is not the public key's.
Coherent == \A f \in InitialFiles : f.priv \in KeyPairs => f.pub = f.priv

\* The deployments for which RoundTrip is claimed: requests come one at a time,
\* or the key files are there from the start.
SoundDeployment ==
    /\ Coherent
    /\ OneWorker \/ \A f \in InitialFiles : f.priv \in KeyPairs

\* A private key on disk is the public key's, also while a constructor writes.
DiskDiscipline ==
    /\ privFile \in KeyPairs => pubFile = privFile
    /\ OneWorker \/ privFile \in KeyPairs

\* What a request that has got so far may rely on.
WorkerDiscipline(w) ==
    /\ pc[w] = "readPriv" => held[w].pub = pubFile
    /\ pc[w] = "ready" => held[w] = Pair(pubFile) /\ privFile = pubFile /\ pubFile \in KeyPairs
    /\ pc[w] \in Generating => privFile \notin KeyPairs
    /\ pc[w] \in Generating \ {"generate"} =>
          held[w].pub \in KeyPairs /\ held[w] = Pair(held[w].pub)
    /\ pc[w] \in {"openPriv", "writePriv"} => pubFile = held[w].pub
    /\ pc[w] = "writePriv" => privFile = Empty
    /\ req[w].op = "encrypt" => req[w] \in Service!EncryptRequests
    /\ req[w].op = "decrypt" => req[w] \in Service!DecryptRequests(issued)

\* Ciphertexts in circulation pin the key pair on disk.
IssuedDiscipline == \A ct \in issued : ct.key = pubFile /\ ct.key = privFile

KeyDiscipline ==
    /\ DiskDiscipline
    /\ \A w \in Workers : WorkerDiscipline(w)
    /\ IssuedDiscipline
=============================================================================
