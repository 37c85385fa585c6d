---------------------------- MODULE CryptorProofs ----------------------------
(***************************************************************************)
(* Theorems about Cryptor, for any number of workers, key pairs, documents,*)
(* crashes and failing file operations.                                    *)
(***************************************************************************)
EXTENDS Cryptor, TLAPS

\* The values a request may have, told in the terms the handlers use.
LEMMA RequestShape ==
    /\ \A r \in Service!EncryptRequests :
          /\ r \in Service!Requests
          /\ r.op = "encrypt"
          /\ r.body.doc \in Docs
    /\ \A cts \in SUBSET Service!Ciphertext : \A r \in Service!DecryptRequests(cts) :
          /\ r \in Service!Requests
          /\ r.op = "decrypt"
          /\ r.body \in cts \cup {Service!NotXmlEnc}
    /\ \A r \in Service!Requests \cup {Service!NoRequest} :
          r.op = "encrypt" => r.body.doc \in Docs
    /\ \A r \in Service!Requests \cup {Service!NoRequest} :
          r.op = "decrypt" => r.body \in Service!Ciphertext \cup {Service!NotXmlEnc}
  <1>1. \A r \in Service!EncryptRequests :
           r \in Service!Requests /\ r.op = "encrypt" /\ r.body.doc \in Docs
    BY DEF Service!EncryptRequests, Service!Requests, Service!Request, Service!Text
  <1>2. ASSUME NEW cts \in SUBSET Service!Ciphertext, NEW r \in Service!DecryptRequests(cts)
        PROVE  /\ r \in Service!Requests
               /\ r.op = "decrypt"
               /\ r.body \in cts \cup {Service!NotXmlEnc}
    BY DEF Service!DecryptRequests, Service!Requests, Service!Request
  <1>3. Service!NoRequest.op = "none"
    BY DEF Service!NoRequest, Service!Request
  <1>4. \A r \in Service!Requests :
           r \in Service!EncryptRequests \/ r \in Service!DecryptRequests(Service!Ciphertext)
    BY DEF Service!Requests
  <1> QED
    BY <1>1, <1>2, <1>3, <1>4

LEMMA AnswerShape ==
    /\ {Service!NoAnswer, Service!InvalidFormat, Service!Unavailable, Service!BadPadding}
          \subseteq Service!Answers
    /\ \A ct \in Service!Ciphertext : Service!Answer(200, ct) \in Service!Answers
    /\ \A d \in Docs : Service!Answer(200, Service!Text(d)) \in Service!Answers
  BY DEF Service!Answers

LEMMA CiphertextShape ==
    \A k \in KeyPairs, d \in Docs :
        LET ct == [key |-> k, doc |-> d] IN ct \in Service!Ciphertext /\ ct.key = k /\ ct.doc = d
  BY DEF Service!Ciphertext

LEMMA DecryptedType ==
    ASSUME NEW k, NEW b \in Service!Ciphertext \cup {Service!NotXmlEnc}
    PROVE  Decrypted(k, b) \in Service!Answers
  BY AnswerShape DEF Decrypted, Service!Ciphertext
-----------------------------------------------------------------------------
\* TypeOK is not inductive: that only keys are written to the files and put
\* in ciphertexts depends on which step a request has reached.
HeldOK ==
    \A w \in Workers :
        /\ pc[w] \in {"ready"} \cup (Generating \ {"generate"}) =>
              held[w].pub \in KeyPairs /\ held[w].priv \in KeyPairs
        /\ pc[w] = "readPriv" => held[w].pub \in KeyPairs

LEMMA TypeInit == Init => TypeOK /\ HeldOK
  <1> SUFFICES ASSUME Init PROVE TypeOK /\ HeldOK
    OBVIOUS
  <1>1. pubFile \in FileContent /\ privFile \in FileContent /\ made \subseteq KeyPairs
    BY InitialFilesAssumption DEF Init
  <1>2. reply \in [Workers -> Service!Answers]
    BY AnswerShape DEF Init
  <1> QED
    BY <1>1, <1>2, BoundsAssumption DEF Init, TypeOK, HeldOK, Generating, NoPair, Steps, Waiting

LEMMA TypeStep == TypeOK /\ HeldOK /\ [Next]_vars => TypeOK' /\ HeldOK'
  <1> SUFFICES ASSUME TypeOK, HeldOK, [Next]_vars PROVE TypeOK' /\ HeldOK'
    OBVIOUS
  <1> USE DEF TypeOK, HeldOK, Steps, Waiting, Loading, Generating
  <1>1. ASSUME NEW w \in Workers, Arrive(w) PROVE TypeOK' /\ HeldOK'
    <2>1. PICK r \in Service!EncryptRequests \cup Service!DecryptRequests(issued) :
              req' = [req EXCEPT ![w] = r]
      BY <1>1 DEF Arrive
    <2>2. r \in Service!Requests
      BY <2>1, RequestShape
    <2> QED
      BY <1>1, <2>1, <2>2, AnswerShape DEF Arrive, NoPair
  <1>2. ASSUME NEW w \in Workers, Load(w) PROVE TypeOK' /\ HeldOK'
    <2>1. CASE CheckPub(w) \/ CheckPriv(w)
      BY <2>1 DEF CheckPub, CheckPriv, Goto
    <2>2. ASSUME Respond(w, Service!Unavailable), UNCHANGED held,
                 UNCHANGED <<pubFile, privFile, made, req, issued, crashes, ioErrors>>
          PROVE  TypeOK' /\ HeldOK'
      BY <2>2, AnswerShape DEF Respond
    <2>3. CASE ReadPub(w)
      <3>1. CASE pubFile \in KeyPairs
        <4>1. held' = [held EXCEPT ![w] = [@ EXCEPT !.pub = pubFile]]
          BY <2>3, <3>1 DEF ReadPub
        <4>2. [held[w] EXCEPT !.pub = pubFile] \in [pub : KeyPairs \cup {NoHalf}, priv : KeyPairs \cup {NoHalf}]
          BY <3>1
        <4> QED
          BY <2>3, <3>1, <4>1, <4>2 DEF ReadPub
      <3> QED
        BY <2>2, <2>3, <3>1 DEF ReadPub
    <2>4. CASE ReadPriv(w)
      <3>1. CASE privFile \in KeyPairs
        <4>1. held' = [held EXCEPT ![w] = [@ EXCEPT !.priv = privFile]]
          BY <2>4, <3>1 DEF ReadPriv
        <4>2. [held[w] EXCEPT !.priv = privFile] \in [pub : KeyPairs \cup {NoHalf}, priv : KeyPairs \cup {NoHalf}]
          BY <3>1
        <4> QED
          BY <2>4, <3>1, <4>1, <4>2 DEF ReadPriv
      <3> QED
        BY <2>2, <2>4, <3>1 DEF ReadPriv
    <2> QED
      BY <1>2, <2>1, <2>3, <2>4 DEF Load
  <1>3. ASSUME NEW w \in Workers, Generate(w) PROVE TypeOK' /\ HeldOK'
    BY <1>3 DEF Generate, Goto, Pair
  <1>4. ASSUME NEW w \in Workers, Store(w) PROVE TypeOK' /\ HeldOK'
    <2>1. CASE OpenPub(w)
      BY <2>1 DEF OpenPub, Goto, FileContent, Unusable
    <2>2. CASE WritePub(w)
      BY <2>2 DEF WritePub, Goto, FileContent, Unusable
    <2>3. CASE OpenPriv(w)
      BY <2>3 DEF OpenPriv, Goto, FileContent, Unusable
    <2>4. CASE WritePriv(w)
      BY <2>4 DEF WritePriv, Goto, FileContent, Unusable
    <2> QED
      BY <1>4, <2>1, <2>2, <2>3, <2>4 DEF Store
  <1>5. ASSUME NEW w \in Workers, IoError(w) PROVE TypeOK' /\ HeldOK'
    BY <1>5, AnswerShape, BoundsAssumption DEF IoError, Respond, FileContent, Unusable
  <1>6. ASSUME NEW w \in Workers, Serve(w) PROVE TypeOK' /\ HeldOK'
    <2>1. CASE Encrypt(w)
      <3>1. [key |-> held[w].pub, doc |-> req[w].body.doc] \in Service!Ciphertext
        BY <2>1, RequestShape, CiphertextShape DEF Encrypt
      <3> QED
        BY <2>1, <3>1, AnswerShape DEF Encrypt, Respond
    <2>2. CASE Decrypt(w)
      <3>1. req[w].body \in Service!Ciphertext \cup {Service!NotXmlEnc}
        BY <2>2, RequestShape DEF Decrypt
      <3>2. Decrypted(held[w].priv, req[w].body) \in Service!Answers
        BY <3>1, DecryptedType
      <3> QED
        BY <2>2, <3>2 DEF Decrypt, Respond
    <2> QED
      BY <1>6, <2>1, <2>2 DEF Serve
  <1>7. ASSUME Crash PROVE TypeOK' /\ HeldOK'
    BY <1>7, AnswerShape, BoundsAssumption DEF Crash, NoPair
  <1>8. CASE UNCHANGED vars
    BY <1>8 DEF vars
  <1> QED
    BY <1>1, <1>2, <1>3, <1>4, <1>5, <1>6, <1>7, <1>8 DEF Next

\* The variables of the key store and of every request keep their types.
THEOREM TypeCorrect == Spec => []TypeOK
  BY TypeInit, TypeStep, PTL DEF Spec
-----------------------------------------------------------------------------
\* Only the request that takes a step can begin to generate.
LEMMA OneMoves ==
    ASSUME TypeOK, NEW w \in Workers, NEW s, pc' = [pc EXCEPT ![w] = s],
           s \in Generating => w \in Generators
    PROVE  Generators' \subseteq Generators
  BY DEF TypeOK, Generators

SettledStep ==
    BothExist => /\ BothExist'
                 /\ Generators' \subseteq Generators
                 /\ Generators = {} => UNCHANGED files

LEMMA SettledNext == TypeOK /\ [Next]_vars => [SettledStep]_vars
  <1> SUFFICES ASSUME TypeOK, Next, BothExist
               PROVE  /\ BothExist'
                      /\ Generators' \subseteq Generators
                      /\ Generators = {} => UNCHANGED files
    BY DEF SettledStep
  <1> USE DEF Generating
  <1>1. ASSUME NEW w \in Workers, Arrive(w) \/ Serve(w)
        PROVE  UNCHANGED files /\ Generators' \subseteq Generators
    <2>1. UNCHANGED files /\ \E s \in {"checkPub", "replied"} : pc' = [pc EXCEPT ![w] = s]
      BY <1>1 DEF Arrive, Serve, Encrypt, Decrypt, Respond, files
    <2> QED
      BY <2>1, OneMoves
  <1>2. ASSUME NEW w \in Workers, Load(w)
        PROVE  UNCHANGED files /\ Generators' \subseteq Generators
    <2>1. UNCHANGED files /\ \E s \in {"checkPriv", "readPub", "readPriv", "ready", "replied"} :
             pc' = [pc EXCEPT ![w] = s]
      BY <1>2 DEF Load, CheckPub, CheckPriv, ReadPub, ReadPriv, Goto, Respond, files, BothExist
    <2> QED
      BY <2>1, OneMoves
  <1>3. ASSUME NEW w \in Workers, Generate(w) \/ Store(w)
        PROVE  BothExist' /\ Generators # {} /\ Generators' \subseteq Generators
    <2>1. pc[w] \in Generating /\ \E s : pc' = [pc EXCEPT ![w] = s]
      BY <1>3 DEF Generate, Store, OpenPub, WritePub, OpenPriv, WritePriv, Goto
    <2>2. w \in Generators
      BY <2>1 DEF Generators
    <2>3. ASSUME Generate(w) \/ OpenPub(w) \/ OpenPriv(w) PROVE BothExist'
      BY <2>3 DEF Generate, OpenPub, OpenPriv, BothExist, Absent, Empty
    <2>4. ASSUME WritePub(w) \/ WritePriv(w) PROVE BothExist'
      <3>1. held[w].pub # Absent /\ held[w].priv # Absent
        BY KeyPairsAssumption DEF TypeOK, Unusable, NoHalf, Absent
      <3> QED
        BY <2>4, <3>1 DEF WritePub, WritePriv, BothExist, Absent, Garbled
    <2> QED
      BY <1>3, <2>1, <2>2, <2>3, <2>4, OneMoves DEF Store
  <1>4. ASSUME NEW w \in Workers, IoError(w)
        PROVE  BothExist' /\ Generators' \subseteq Generators /\ (Generators = {} => UNCHANGED files)
    <2>1. pc' = [pc EXCEPT ![w] = "replied"]
      BY <1>4 DEF IoError, Respond
    <2>2. BothExist'
      BY <1>4 DEF IoError, BothExist, Absent, Garbled
    <2>3. Generators = {} => UNCHANGED files
      BY <1>4 DEF IoError, Loading, Generators, files
    <2> QED
      BY <2>1, <2>2, <2>3, OneMoves
  <1>5. ASSUME Crash PROVE UNCHANGED files /\ Generators' \subseteq Generators
    BY <1>5 DEF Crash, Generators, files
  <1>6. UNCHANGED files => BothExist'
    BY DEF files, BothExist
  <1> QED
    BY <1>1, <1>2, <1>3, <1>4, <1>5, <1>6 DEF Next

\* However many requests race, and whatever crashes or fails: only requests that
\* had begun when the second file appeared generate, and after them nothing
\* replaces what is on disk.
THEOREM LatecomersLoad == Spec => OnlyFirstGenerate
  BY TypeInit, TypeStep, SettledNext, PTL DEF Spec, OnlyFirstGenerate, SettledStep
-----------------------------------------------------------------------------
LEMMA DisciplineInit == ASSUME SoundDeployment PROVE Init => KeyDiscipline
  <1> SUFFICES ASSUME Init PROVE KeyDiscipline
    OBVIOUS
  <1>1. DiskDiscipline
    BY SoundDeployment DEF SoundDeployment, Coherent, Init, DiskDiscipline
  <1>2. ASSUME NEW w \in Workers PROVE WorkerDiscipline(w)
    <2>1. req[w].op = "none"
      BY DEF Init, Service!NoRequest, Service!Request
    <2> QED
      BY <2>1 DEF Init, WorkerDiscipline, Generating
  <1> QED
    BY <1>1, <1>2 DEF Init, KeyDiscipline, IssuedDiscipline

\* A step of one request that leaves the files and the ciphertexts alone.
LEMMA OtherWorkers ==
    ASSUME TypeOK, KeyDiscipline, UNCHANGED <<pubFile, privFile>>, issued \subseteq issued',
           NEW w \in Workers,
           \A v \in Workers \ {w} : pc'[v] = pc[v] /\ held'[v] = held[v] /\ req'[v] = req[v]
    PROVE  \A v \in Workers \ {w} : WorkerDiscipline(v)'
  <1> SUFFICES ASSUME NEW v \in Workers \ {w} PROVE WorkerDiscipline(v)'
    OBVIOUS
  <1>1. WorkerDiscipline(v)
    BY DEF KeyDiscipline
  <1>2. req[v] \in Service!DecryptRequests(issued) => req[v] \in Service!DecryptRequests(issued')
    BY DEF Service!DecryptRequests
  <1> QED
    BY <1>1, <1>2 DEF WorkerDiscipline, Generating, Pair

LEMMA DisciplineStep == TypeOK /\ HeldOK /\ KeyDiscipline /\ [Next]_vars => KeyDiscipline'
  <1> SUFFICES ASSUME TypeOK, HeldOK, KeyDiscipline, [Next]_vars PROVE KeyDiscipline'
    OBVIOUS
  <1> USE DEF TypeOK, Generating
  <1>a. ASSUME NEW w \in Workers PROVE WorkerDiscipline(w)
    BY DEF KeyDiscipline
  <1>b. DiskDiscipline /\ IssuedDiscipline
    BY DEF KeyDiscipline
  <1>1. ASSUME NEW w \in Workers, Arrive(w) PROVE KeyDiscipline'
    <2>1. PICK r \in Service!EncryptRequests \cup Service!DecryptRequests(issued) :
              req' = [req EXCEPT ![w] = r]
      BY <1>1 DEF Arrive
    <2>2. req'[w] = r /\ pc'[w] = "checkPub"
      BY <1>1, <2>1 DEF Arrive
    <2>3. WorkerDiscipline(w)'
      BY <1>1, <2>1, <2>2, RequestShape DEF WorkerDiscipline, Arrive
    <2>4. \A v \in Workers \ {w} : WorkerDiscipline(v)'
      BY <1>1, <2>1, OtherWorkers DEF Arrive
    <2> QED
      BY <1>1, <1>b, <2>3, <2>4 DEF Arrive, KeyDiscipline, DiskDiscipline, IssuedDiscipline
  <1>2. ASSUME NEW w \in Workers, Load(w) PROVE KeyDiscipline'
    <2>1. UNCHANGED <<pubFile, privFile, made, req, issued, crashes, ioErrors>>
      BY <1>2 DEF Load, CheckPub, CheckPriv, ReadPub, ReadPriv
    <2>2. \A v \in Workers \ {w} : pc'[v] = pc[v] /\ held'[v] = held[v]
      BY <1>2 DEF Load, CheckPub, CheckPriv, ReadPub, ReadPriv, Goto, Respond
    <2>3. WorkerDiscipline(w)'
      <3>1. CASE CheckPub(w)
        BY <3>1, <1>a, <1>b, <2>1, KeyPairsAssumption
           DEF CheckPub, Goto, WorkerDiscipline, DiskDiscipline, Unusable
      <3>2. CASE CheckPriv(w)
        BY <3>2, <1>a, <1>b, <2>1, KeyPairsAssumption
           DEF CheckPriv, Goto, WorkerDiscipline, DiskDiscipline, Unusable
      <3>3. CASE ReadPub(w)
        BY <3>3, <1>a, <2>1 DEF ReadPub, Respond, WorkerDiscipline
      <3>4. CASE ReadPriv(w)
        <4>1. CASE privFile \in KeyPairs
          <5>1. held'[w].pub = pubFile /\ held'[w].priv = pubFile /\ pc'[w] = "ready"
            BY <3>4, <4>1, <1>a, <1>b DEF ReadPriv, WorkerDiscipline, DiskDiscipline
          <5>2. held' \in [Workers -> [pub : KeyPairs \cup {NoHalf}, priv : KeyPairs \cup {NoHalf}]]
            BY TypeStep
          <5>3. held'[w] = Pair(pubFile)
            BY <5>1, <5>2 DEF Pair
          <5> QED
            BY <4>1, <5>1, <5>3, <1>a, <1>b, <2>1 DEF WorkerDiscipline, DiskDiscipline
        <4>2. CASE privFile \notin KeyPairs
          BY <3>4, <4>2, <1>a, <2>1 DEF ReadPriv, Respond, WorkerDiscipline
        <4> QED
          BY <4>1, <4>2
      <3> QED
        BY <1>2, <3>1, <3>2, <3>3, <3>4 DEF Load
    <2>4. \A v \in Workers \ {w} : WorkerDiscipline(v)'
      BY <2>1, <2>2, OtherWorkers
    <2> QED
      BY <1>b, <2>1, <2>3, <2>4 DEF KeyDiscipline, DiskDiscipline, IssuedDiscipline
  <1>3. ASSUME NEW w \in Workers, Generate(w) PROVE KeyDiscipline'
    <2>1. PICK k \in KeyPairs : held' = [held EXCEPT ![w] = Pair(k)]
      BY <1>3 DEF Generate
    <2>2. WorkerDiscipline(w)'
      BY <1>3, <2>1, <1>a DEF Generate, Goto, WorkerDiscipline, Pair
    <2>3. \A v \in Workers \ {w} : WorkerDiscipline(v)'
      BY <1>3, <2>1, OtherWorkers DEF Generate, Goto
    <2> QED
      BY <1>3, <1>b, <2>2, <2>3 DEF Generate, KeyDiscipline, DiskDiscipline, IssuedDiscipline
  <1>4. ASSUME NEW w \in Workers, Store(w) PROVE KeyDiscipline'
    <2>1. pc[w] \in Generating \ {"generate"} /\ privFile \notin KeyPairs
      BY <1>4, <1>a DEF Store, OpenPub, WritePub, OpenPriv, WritePriv, Goto, WorkerDiscipline
    <2>2. \A v \in Workers : v = w
      BY <2>1, <1>b DEF DiskDiscipline, OneWorker
    <2>3. issued = {}
      BY <2>1, <1>b DEF IssuedDiscipline, Service!Ciphertext
    <2>4. UNCHANGED <<made, held, req, reply, issued>>
      BY <1>4 DEF Store, OpenPub, WritePub, OpenPriv, WritePriv
    <2>5. held[w].pub \in KeyPairs /\ held[w] = Pair(held[w].pub) /\ held[w].priv = held[w].pub
      BY <2>1, <1>a DEF WorkerDiscipline, Pair
    <2>6. OneWorker
      BY <2>2 DEF OneWorker
    <2>7. DiskDiscipline' /\ WorkerDiscipline(w)'
      <3>1. CASE OpenPub(w)
        BY <3>1, <1>a, <2>1, <2>4, <2>5, <2>6 DEF OpenPub, Goto, DiskDiscipline, WorkerDiscipline
      <3>2. CASE WritePub(w)
        BY <3>2, <1>a, <2>1, <2>4, <2>5, <2>6 DEF WritePub, Goto, DiskDiscipline, WorkerDiscipline
      <3>3. CASE OpenPriv(w)
        BY <3>3, <1>a, <2>1, <2>4, <2>5, <2>6, KeyPairsAssumption
           DEF OpenPriv, Goto, DiskDiscipline, WorkerDiscipline, Unusable
      <3>4. CASE WritePriv(w)
        <4>1. privFile' = held[w].priv /\ pubFile' = held[w].pub
          BY <3>4, <1>a DEF WritePriv, Goto, WorkerDiscipline
        <4> QED
          BY <3>4, <4>1, <1>a, <2>4, <2>5, <2>6 DEF WritePriv, Goto, DiskDiscipline, WorkerDiscipline
      <3> QED
        BY <1>4, <3>1, <3>2, <3>3, <3>4 DEF Store
    <2> QED
      BY <2>2, <2>3, <2>4, <2>7 DEF KeyDiscipline, IssuedDiscipline
  <1>5. ASSUME NEW w \in Workers, IoError(w) PROVE KeyDiscipline'
    <2>1. UNCHANGED <<held, req, issued>> /\ pc' = [pc EXCEPT ![w] = "replied"]
      BY <1>5 DEF IoError, Respond
    <2>2. CASE UNCHANGED <<pubFile, privFile>>
      <3>1. WorkerDiscipline(w)'
        BY <2>1, <2>2, <1>a DEF WorkerDiscipline
      <3>2. \A v \in Workers \ {w} : WorkerDiscipline(v)'
        BY <2>1, <2>2, OtherWorkers
      <3> QED
        BY <2>1, <2>2, <1>b, <3>1, <3>2 DEF KeyDiscipline, DiskDiscipline, IssuedDiscipline
    <2>3. CASE pc[w] \in {"writePub", "writePriv"}
      <3>1. privFile \notin KeyPairs
        BY <2>3, <1>a DEF WorkerDiscipline
      <3>2. OneWorker
        BY <3>1, <1>b DEF DiskDiscipline
      <3>3. issued = {}
        BY <3>1, <1>b DEF IssuedDiscipline, Service!Ciphertext
      <3>4. privFile' \notin KeyPairs
        BY <1>5, <3>1, KeyPairsAssumption DEF IoError, Unusable
      <3>5. WorkerDiscipline(w)'
        BY <2>1, <3>3, <1>a DEF WorkerDiscipline
      <3> QED
        BY <2>1, <3>2, <3>3, <3>4, <3>5
           DEF KeyDiscipline, DiskDiscipline, IssuedDiscipline, OneWorker
    <2> QED
      BY <1>5, <2>2, <2>3 DEF IoError
  <1>6. ASSUME NEW w \in Workers, Encrypt(w) PROVE KeyDiscipline'
    <2>1. issued' = issued \cup {[key |-> held[w].pub, doc |-> req[w].body.doc]}
      BY <1>6 DEF Encrypt
    <2>2. held[w].pub = pubFile /\ privFile = pubFile
      BY <1>6, <1>a DEF Encrypt, WorkerDiscipline, Pair
    <2>3. UNCHANGED <<pubFile, privFile, held, req>> /\ pc' = [pc EXCEPT ![w] = "replied"]
      BY <1>6 DEF Encrypt, Respond
    <2>4. IssuedDiscipline'
      BY <1>b, <2>1, <2>2, <2>3 DEF IssuedDiscipline
    <2>5. WorkerDiscipline(w)'
      BY <1>6, <1>a, <2>3 DEF WorkerDiscipline, Encrypt
    <2>6. \A v \in Workers \ {w} : WorkerDiscipline(v)'
      BY <2>1, <2>3, OtherWorkers
    <2> QED
      BY <1>b, <2>3, <2>4, <2>5, <2>6 DEF KeyDiscipline, DiskDiscipline
  <1>7. ASSUME NEW w \in Workers, Decrypt(w) PROVE KeyDiscipline'
    <2>1. UNCHANGED <<pubFile, privFile, held, req, issued>> /\ pc' = [pc EXCEPT ![w] = "replied"]
      BY <1>7 DEF Decrypt, Respond
    <2>2. WorkerDiscipline(w)'
      BY <1>7, <1>a, <2>1 DEF WorkerDiscipline, Decrypt
    <2>3. \A v \in Workers \ {w} : WorkerDiscipline(v)'
      BY <2>1, OtherWorkers
    <2> QED
      BY <1>b, <2>1, <2>2, <2>3 DEF KeyDiscipline, DiskDiscipline, IssuedDiscipline
  <1>8. ASSUME Crash PROVE KeyDiscipline'
    <2>1. Service!NoRequest.op = "none"
      BY DEF Service!NoRequest, Service!Request
    <2> QED
      BY <1>8, <1>b, <2>1 DEF Crash, KeyDiscipline, DiskDiscipline, IssuedDiscipline, WorkerDiscipline
  <1>9. CASE UNCHANGED vars
    BY <1>9, <1>a, <1>b DEF vars, KeyDiscipline, DiskDiscipline, IssuedDiscipline, WorkerDiscipline
  <1> QED
    BY <1>1, <1>2, <1>3, <1>4, <1>5, <1>6, <1>7, <1>8, <1>9 DEF Next, Serve

\* The keys on disk, those a request has read and the ciphertexts it has made
\* go together at every step, not only between requests.
THEOREM KeysSafe == ASSUME SoundDeployment PROVE Spec => []KeyDiscipline
  <1>1. Init => KeyDiscipline
    BY DisciplineInit
  <1> QED
    BY <1>1, TypeInit, TypeStep, DisciplineStep, PTL DEF Spec

\* A deployment that serves one request at a time or starts with its key files
\* never separates a private key on disk from its public key.
THEOREM DiskPairSafe == ASSUME SoundDeployment PROVE Spec => []DiskPairMatches
  <1>1. Init => KeyDiscipline
    BY DisciplineInit
  <1>2. KeyDiscipline => DiskPairMatches
    BY DEF KeyDiscipline, DiskDiscipline, DiskPairMatches
  <1> QED
    BY <1>1, <1>2, TypeInit, TypeStep, DisciplineStep, PTL DEF Spec
-----------------------------------------------------------------------------
\* A message is never taken for a ciphertext.
LEMMA NotIssued == Service!NotXmlEnc \notin Service!Ciphertext
  BY KeyPairsAssumption DEF Service!NotXmlEnc, Service!Text, Service!Ciphertext, NoHalf

\* Decryption with the private key on disk opens every issued ciphertext.
LEMMA OpensIssued ==
    ASSUME TypeOK, KeyDiscipline, NEW w \in Workers, Decrypt(w), req[w].body \in issued
    PROVE  reply'[w] = Service!Answer(200, Service!Text(req[w].body.doc))
  <1>1. held[w].priv = pubFile
    <2>1. WorkerDiscipline(w) /\ pc[w] = "ready"
      BY DEF Decrypt, KeyDiscipline
    <2> QED
      BY <2>1 DEF WorkerDiscipline, Pair
  <1>2. req[w].body.key = held[w].priv
    BY <1>1 DEF KeyDiscipline, IssuedDiscipline
  <1>3. req[w].body # Service!NotXmlEnc
    BY NotIssued DEF TypeOK
  <1> QED
    BY <1>2, <1>3 DEF TypeOK, Decrypt, Decrypted, Respond

LEMMA RoundTripStep ==
    TypeOK /\ HeldOK /\ KeyDiscipline /\ RoundTrip /\ [Next]_vars => RoundTrip'
  <1> SUFFICES ASSUME TypeOK, HeldOK, KeyDiscipline, RoundTrip, [Next]_vars,
                      NEW v \in Workers,
                      pc'[v] = "replied", req'[v].op = "decrypt", req'[v].body \in issued'
               PROVE  reply'[v] \in {Service!Answer(200, Service!Text(req'[v].body.doc)),
                                     Service!Unavailable}
    BY DEF RoundTrip
  <1> USE DEF TypeOK
  <1>1. CASE UNCHANGED <<pc, req, reply, issued>>
    BY <1>1 DEF RoundTrip
  <1>2. ASSUME NEW w \in Workers, Arrive(w) PROVE v # w
    BY <1>2 DEF Arrive
  <1> DEFINE Good == reply'[v] \in {Service!Answer(200, Service!Text(req'[v].body.doc)),
                                    Service!Unavailable}
  <1>3. ASSUME NEW w \in Workers \ {v}, pc'[v] = pc[v], req'[v] = req[v], reply'[v] = reply[v],
               issued' = issued
        PROVE  Good
    BY <1>3 DEF RoundTrip
  <1>4. ASSUME NEW w \in Workers, Arrive(w) PROVE Good
    BY <1>2, <1>3, <1>4 DEF Arrive
  <1>5. ASSUME NEW w \in Workers, Load(w) \/ Generate(w) \/ Store(w) \/ IoError(w) PROVE Good
    <2>1. CASE v = w
      BY <1>5, <2>1 DEF Load, CheckPub, CheckPriv, ReadPub, ReadPriv, Generate, Store, OpenPub,
         WritePub, OpenPriv, WritePriv, IoError, Goto, Respond
    <2>2. CASE v # w
      BY <1>3, <1>5, <2>2 DEF Load, CheckPub, CheckPriv, ReadPub, ReadPriv, Generate, Store,
         OpenPub, WritePub, OpenPriv, WritePriv, IoError, Goto, Respond
    <2> QED
      BY <2>1, <2>2
  <1>6. ASSUME NEW w \in Workers, Encrypt(w) PROVE Good
    <2>1. v # w
      BY <1>6 DEF Encrypt
    <2>2. pc[v] = "replied" /\ req'[v] = req[v] /\ reply'[v] = reply[v]
      BY <1>6, <2>1 DEF Encrypt, Respond
    <2>3. req[v] \in Service!DecryptRequests(issued)
      BY <2>2 DEF KeyDiscipline, WorkerDiscipline
    <2>4. req[v].body \in issued
      <3>1. issued \subseteq Service!Ciphertext
        OBVIOUS
      <3>2. req[v].body \in issued \cup {Service!NotXmlEnc}
        BY <2>3, <3>1, RequestShape
      <3>3. TypeOK'
        BY TypeStep
      <3> QED
        BY <2>2, <3>2, <3>3, NotIssued
    <2> QED
      BY <2>2, <2>4 DEF RoundTrip
  <1>7. ASSUME NEW w \in Workers, Decrypt(w) PROVE Good
    <2>1. CASE v = w
      <3>1. req' = req /\ issued' = issued
        BY <1>7 DEF Decrypt
      <3> QED
        BY <1>7, <2>1, <3>1, OpensIssued
    <2>2. CASE v # w
      BY <1>3, <1>7, <2>2 DEF Decrypt, Respond
    <2> QED
      BY <2>1, <2>2
  <1>8. CASE Crash
    BY <1>8 DEF Crash
  <1> QED
    BY <1>1, <1>4, <1>5, <1>6, <1>7, <1>8 DEF Next, Serve, vars

\* Every ciphertext /xml/encrypt hands out opens again, across requests, crashes
\* and failed writes, in every sound deployment.
THEOREM RoundTripSafe == ASSUME SoundDeployment PROVE Spec => []RoundTrip
  <1>1. Init => KeyDiscipline
    BY DisciplineInit
  <1>2. Init => RoundTrip
    BY DEF Init, RoundTrip
  <1> QED
    BY <1>1, <1>2, TypeInit, TypeStep, DisciplineStep, RoundTripStep, PTL DEF Spec
-----------------------------------------------------------------------------
(***************************************************************************)
(* Cryptor implements XmlEncryption                                        *)
(***************************************************************************)
LEMMA StageOf ==
    ASSUME TypeOK, NEW w \in Workers, NEW s, pc' = [pc EXCEPT ![w] = s]
    PROVE  /\ s \in Waiting => Stage' = [Stage EXCEPT ![w] = s]
           /\ s \notin Waiting => Stage' = [Stage EXCEPT ![w] = "serving"]
  BY DEF TypeOK, Stage

\* A step inside the constructor is invisible to the caller.
LEMMA InnerStep ==
    ASSUME TypeOK, NEW w \in Workers, NEW s \in Steps \ Waiting, pc[w] \notin Waiting,
           pc' = [pc EXCEPT ![w] = s], UNCHANGED <<req, reply, issued>>
    PROVE  UNCHANGED Service!vars
  <1>1. Stage' = Stage
    BY StageOf DEF Stage
  <1> QED
    BY <1>1 DEF Service!vars

\* An answer given in the code is an answer given by the service.
LEMMA OuterStep ==
    ASSUME TypeOK, NEW w \in Workers, NEW a, pc[w] \notin Waiting, Respond(w, a), UNCHANGED req
    PROVE  Service!Respond(w, a)
  <1>1. Stage' = [Stage EXCEPT ![w] = "replied"]
    BY StageOf DEF Respond, Waiting
  <1>2. Stage[w] = "serving"
    BY DEF Stage
  <1> QED
    BY <1>1, <1>2 DEF Service!Respond, Respond

LEMMA ServiceStep ==
    TypeOK /\ HeldOK /\ KeyDiscipline /\ [Next]_vars => [Service!Next]_(Service!vars)
  <1> SUFFICES ASSUME TypeOK, HeldOK, KeyDiscipline, [Next]_vars
               PROVE  Service!Next \/ UNCHANGED Service!vars
    OBVIOUS
  <1> USE DEF Waiting, Steps, Loading, Generating
  <1>1. ASSUME NEW w \in Workers, Arrive(w) PROVE Service!Next
    <2>1. Stage' = [Stage EXCEPT ![w] = "serving"]
      BY <1>1, StageOf DEF Arrive
    <2>2. Stage[w] # "serving"
      BY <1>1 DEF Arrive, Stage
    <2> QED
      BY <1>1, <2>1, <2>2 DEF Arrive, Service!Accept, Service!Next
  <1>2. ASSUME NEW w \in Workers, pc[w] \notin Waiting, Respond(w, Service!Unavailable),
               UNCHANGED <<req, issued>>
        PROVE  Service!Next
    BY <1>2, OuterStep DEF Service!Refuse, Service!Next
  <1>3. ASSUME NEW w \in Workers, Load(w) PROVE Service!Next \/ UNCHANGED Service!vars
    <2>1. CASE CheckPub(w) \/ CheckPriv(w)
      <3>1. pc[w] \in {"checkPub", "checkPriv"} /\ UNCHANGED <<req, reply, issued>>
        BY <2>1 DEF CheckPub, CheckPriv, Goto
      <3>2. \E s \in {"generate", "checkPriv", "readPub"} : pc' = [pc EXCEPT ![w] = s]
        BY <2>1 DEF CheckPub, CheckPriv, Goto
      <3> QED
        BY <3>1, <3>2, InnerStep
    <2>2. CASE ReadPub(w)
      BY <2>2, <1>2, InnerStep DEF ReadPub
    <2>3. CASE ReadPriv(w)
      BY <2>3, <1>2, InnerStep DEF ReadPriv
    <2> QED
      BY <1>3, <2>1, <2>2, <2>3 DEF Load
  <1>4. ASSUME NEW w \in Workers, Generate(w) \/ Store(w) PROVE UNCHANGED Service!vars
    BY <1>4, InnerStep DEF Generate, Store, OpenPub, WritePub, OpenPriv, WritePriv, Goto
  <1>5. ASSUME NEW w \in Workers, IoError(w) PROVE Service!Next
    BY <1>2, <1>5 DEF IoError
  <1>6. ASSUME NEW w \in Workers, Encrypt(w) PROVE Service!Next
    <2>1. WorkerDiscipline(w) /\ held[w].pub \in KeyPairs
      BY <1>6 DEF KeyDiscipline, HeldOK, Encrypt
    <2>2. held[w].pub = pubFile
      BY <1>6, <2>1 DEF WorkerDiscipline, Pair, Encrypt
    <2>3. \A ct \in issued : ct.key = held[w].pub
      BY <2>2 DEF KeyDiscipline, IssuedDiscipline
    <2>4. Service!Respond(w, Service!Answer(200, [key |-> held[w].pub, doc |-> req[w].body.doc]))
      BY <1>6, OuterStep DEF Encrypt
    <2>5. Service!Encrypt(w)
      BY <1>6, <2>1, <2>3, <2>4 DEF Encrypt, Service!Encrypt
    <2> QED
      BY <2>5 DEF Service!Next
  <1>7. ASSUME NEW w \in Workers, Decrypt(w) PROVE Service!Next
    <2>1. req[w].body \in issued \cup {Service!NotXmlEnc}
      <3>1. req[w] \in Service!DecryptRequests(issued)
        BY <1>7 DEF KeyDiscipline, WorkerDiscipline, Decrypt
      <3> QED
        BY <3>1, RequestShape DEF TypeOK
    <2>2. Service!Respond(w, Decrypted(held[w].priv, req[w].body))
      BY <1>7, OuterStep DEF Decrypt
    <2>3. CASE req[w].body = Service!NotXmlEnc
      BY <1>7, <2>2, <2>3 DEF Decrypt, Decrypted, Service!Decrypt, Service!Next
    <2>4. CASE req[w].body \in issued
      <3>1. req[w].body # Service!NotXmlEnc
        BY <2>4, NotIssued DEF TypeOK
      <3>2. WorkerDiscipline(w) /\ pc[w] = "ready"
        BY <1>7 DEF KeyDiscipline, Decrypt
      <3>3. req[w].body.key = held[w].priv
        BY <2>4, <3>2 DEF WorkerDiscipline, KeyDiscipline, IssuedDiscipline, Pair
      <3>4. Decrypted(held[w].priv, req[w].body)
               = Service!Answer(200, Service!Text(req[w].body.doc))
        BY <3>1, <3>3 DEF Decrypted
      <3> QED
        BY <1>7, <2>2, <2>4, <3>4 DEF Decrypt, Service!Decrypt, Service!Next
    <2> QED
      BY <2>1, <2>3, <2>4
  <1>8. ASSUME Crash PROVE Service!Next
    <2>1. Stage' = [w \in Workers |-> "idle"]
      BY <1>8 DEF Crash, Stage
    <2> QED
      BY <1>8, <2>1 DEF Crash, Service!Restart, Service!Next
  <1>9. CASE UNCHANGED vars
    BY <1>9 DEF vars, Service!vars, Stage
  <1> QED
    BY <1>1, <1>3, <1>4, <1>5, <1>6, <1>7, <1>8, <1>9 DEF Next, Serve

\* In every sound deployment the key store implements the service its callers
\* see: a service with one key pair and no files that may refuse a request but
\* never loses a document.
THEOREM Implementation == ASSUME SoundDeployment PROVE Spec => ImplementsService
  <1>1. Init => KeyDiscipline
    BY DisciplineInit
  <1>2. Init => Service!Init
    BY DEF Init, Service!Init, Stage, Waiting
  <1> QED
    BY <1>1, <1>2, TypeInit, TypeStep, DisciplineStep, ServiceStep, PTL
       DEF Spec, ImplementsService, Service!Spec
=============================================================================
