# TLA+ models of Mockbank

Mockbank is a JAX-RS service (RESTEasy and Guice on Jetty) that plays a bank for
testers of two Amazon payment protocols: GIL FR, instalment loans, and UK CBCC,
co-branded credit cards. It also encrypts and decrypts XML documents, and serves
a Swagger UI, whose scripts run in the tester's browser. This directory holds TLA+
models of its parts, TLC configurations that check them on small instances, and
TLAPS proofs. Paths below are relative to the repository; `Cryptor.java` and the
like are under `src/main/java`, `swagger-ui.js` and the like under
`src/main/resources/swagger-ui`.

## The system

| Part | State | Operations | What is hard |
| --- | --- | --- | --- |
| XML encryption (`XMLEncryptionResource`, `Cryptor`) | the files `rsa.x509`, `rsa.pk8`; a `KeyPair` per request | construct (test, read, or generate and write), encrypt, decrypt | one `Cryptor` per request and no lock on the files: races, crashes, half-done writes |
| Notification relay (`GILFranceResource`, `UKCBCCResource`, `ClientResource`) | the container's threads; a JAX-RS `Client` per call | `notify` of both banks, the UK redirect `GET`, the bundled client | a thread waits for another server, maybe itself; losses; no timeouts |
| Loan bank (`GILFranceResource.handle(Request)`) | none | application, confirmation, close and refund (adjustments), charge | correct decisions for merchants over a network that loses and repeats |
| Logging interceptors (`app/interceptor/`) | buffers of one message | log and pass on what is written, log and replay what is read | a writer or a connection that fails midway; short reads |
| XML encryption as text (`Cryptor.encrypt(String)`, `decrypt(String)`) | none | encrypt, decrypt | a greedy regular expression over texts that hold several ciphertexts; default charsets |
| Swagger UI client (`SwaggerClient`, `SwaggerSpecConverter`, `Resolver` in `swagger-ui.js`) | counters, tables, the specification being rewritten | fetch, convert, resolve in rounds, build | answers in any order, some never good; counters that decide when all is in; rounds that must end |
| Swagger UI page (`SwaggerUi`, `index.html`) | the client loaded last, what is rendered, credentials | load, render, fail, enter a key | loads that overlap; callbacks that belong to the page |
| OAuth logins (`swagger-oauth.js`, `o2c.html`) | global variables | dialog, authorize, window or token request, complete, log out | logins that overlap share the variables |
| Trying out an operation (`OperationView`, `Operation`) | form, `map` of the last submit, what is shown | fill in, submit, show an answer | requests that overlap, a page that is drawn anew, credentials that change |
| Logging filters (`app/filter/`) | none | log headers; one rewrites the client's content type | none |
| Key store helpers (`keystore/`) | `~/.keystore`, `truststore` | load, store, provide | truncation before the write; failures logged and ignored |
| SSL demonstrations (`ssl/`) | a socket per thread | one line each way | none beyond a peer that never writes |
| XOP, ping, the resource behind the Swagger UI | none | echo or log | none |
| Injection and startup (`guice/`, `web.xml`) | bindings | scan, bind | unscoped bindings: an object per request |

How they interact: the container gives each request a thread; Guice builds the
resource (for `/xml` that runs the constructor of `Cryptor`, file accesses and
all). The notify resources call out over HTTP, to a client a header names; when
that is `ClientResource`, the call comes back to the same thread pool. A status
notification is how a pending loan ends, which links the relay to the loan bank.
In the browser everything runs in one thread, turn by turn: the page makes a client
per load, the client calls the page back, logins and the key field put credentials
into the page's client, and the view of an operation sends them.

What makes the parts correct:

- XML encryption: what was encrypted can be decrypted, always, whichever request
  or incarnation of the server did it; no request that comes after the first ones
  generates keys. (With concurrent first requests the first does not hold.)
- Relay: a notification reaches the named client once, the tester hears what the
  client said, resources are given back, and callers are answered.
- Interceptors: a body arrives as it was to be written, or not at all.
- Swagger UI client: it calls back once, when the last answer is in, with every
  reference resolved to what it meant.
- Page, logins, operations: what is shown and what is sent belongs to the client
  loaded last; a token stays with its scheme and is not lost; an answer is shown
  with the request it answers; nothing waits for ever.
- Loan bank: a request gets one decision however often it arrives; no loan is
  financed against its decision; every request of a loan's life gets an answer.

`PROJECT.json` lists every part, including those not modelled and why, and the
hazards of the code at their lines.

## Modules

| Module | Models |
| --- | --- |
| `XmlEncryption` | abstract: requests to a service that never loses a document |
| `Cryptor` | detailed: constructors at the grain of file operations, per worker |
| `MCCryptor`, `CryptorProofs` | instances; proofs |
| `NotificationService` | abstract: an answer "ok" means handled, once |
| `NotificationRelay` | detailed: threads, queue, relays, `Client`s, HTTP exchanges |
| `MCNotificationRelay`, `NotificationRelayProofs` | instances; proofs |
| `LoanService` | abstract: one decision per request, a loan's stages |
| `LoanBank` | the bank's decision functions, with merchant and network |
| `MCLoanBank`, `LoanBankProofs` | instances; proofs |
| `LoggingInterceptors` | a body through both interceptors |
| `MCLoggingInterceptors`, `LoggingInterceptorsProofs` | instances; proofs |
| `XmlEncText` | texts encrypted, enclosed and opened, over tokens |
| `MCXmlEncText`, `XmlEncTextProofs` | instances; proofs |
| `SpecResolver` | the rounds of `Resolver.resolve` |
| `SpecConverter` | `SwaggerSpecConverter.convert` of a file or a listing |
| `SpecClient` | composes the two: one `SwaggerClient` from constructor to callback |
| `MCSpecClient`, `SpecClientProofs` | instances; proofs |
| `SwaggerPage` | loads, callbacks, rendering, the key field, credentials |
| `SwaggerLogin` | extends the page by OAuth logins |
| `MCSwaggerLogin`, `SwaggerLoginProofs` | instances; proofs |
| `TryOut` | extends the page by an operation that is tried out |
| `MCTryOut`, `TryOutProofs` | instances; proofs |

The abstract modules are instantiated in the detailed ones with a refinement
mapping (`Service`, `Contract`), and refinement is a property of runs and a theorem.

### Cryptor

`pubFile` and `privFile` say what the files hold: a half of a pair (named by the
pair), nothing (`Absent`), an `Empty` file, or a `Garbled` one. Each worker is a
container thread with one request; `pc` is the point its constructor has reached.
`Arrive` is the injection of the resource, `CheckPub`/`CheckPriv` the two
`exists()` calls of line 37 (`&&` skips the second), `ReadPub`/`ReadPriv` the
reads of line 38 in their order, `Generate` line 41, `OpenPub`, `WritePub`,
`OpenPriv`, `WritePriv` the four file operations of `writeRSAKey`: opening a
`FileOutputStream` truncates, and the text (shorter than the writer's buffer)
goes out when it is closed. Two writers of one file may leave a mixture;
encodings of 2048-bit public keys have one length, so only the private file can
be garbled that way. `IoError` is any of these operations failing, `Crash` a
restart. `Encrypt` and `Decrypt` are the resource's methods. AES and RSA are
idealised: a ciphertext opens with the private half of its pair and no other. A
text without the two `CipherValue` elements is answered with status 200 and a
message (line 83).

### NotificationRelay

A call has a bank, an endpoint header and the async flag; `Endpoints` are the
cases the code tells apart: no header, a URI that does not parse, the bundled
client, a local or a remote client. `Dispatch` and `Release` are Jetty's pool,
`Prepare` everything up to the `try`: the `Client` is created, then
`client.target(..)` may throw outside the `try`. Whether a malformed URI throws
there or only when the call is made depends on the URI, so the model allows
both. `Invoke` is `invoke(..)`, or `submit(..)` and `get()`; `ExecutorSend` is the
executor of the client making the submitted call; `Finish` is the return or the
exception, with `finally`. `Target` is the UK resource's fallback. An HTTP error
of the client passes to the tester as it is from `invoke`, and as a 500 from
`get()` (`StatusOf`). `handled` records which client has handled the call.

### LoanBank

The four `determine...Result` operators, `handle` (the dispatch on the class) and
`Handle` (a request served) are the code; `Response` is `fillCommonResponse`.
Names matter by their ending only. Everything else is the environment: a merchant
that follows `4CB_Examples` or `Reuse_Creditline_Examples` and repeats a request
as long as it knows no outcome, testers, and a network that keeps up to
`MaxCopies` of a request and delivers, loses and delays. Testers also
send the requests in `Stray` whenever they like. Requests of classes the dispatch does not name
(`healthCheckRequest`) get no response. A loan does not affect another (the bank
keeps nothing, a response repeats its request's ids), so runs have one loan; the
proofs are for any set of loans.

Of the loan ids, `ResponsesFitSchema` has what `gil_fr.xsd:246` says of loans that open a
credit line of their own: no id is required, and one that is set is the request's. What
line 244 says of loans that reuse a credit line, and the example
`Reuse_Creditline_Step1_loanConfirmationResponse.xml` shows, is a property of its own,
`ReuseNamesLoan`, which the code does not have (`bank_reuse`). The documentation of
`ExternalLoanIdType` (`gil_fr.xsd:395`) wants an id in every response, for which the
other responses have no element; no property is made of it.
`FinancedOnlyIfAccepted` is about the bank and a merchant that keeps to the sequence:
the bank alone accepts whatever confirmation or charge it gets.

### LoggingInterceptors

The interceptors have no fields, so the module follows one body. `Divert` to
`Flush` are `aroundWriteTo`: the entity writer writes in parts and may throw after
any of them, and the `finally` block sends what is buffered all the same.
`FlushFails` is `writeTo` failing, which skips the rest of that block. What the
container makes of an exception is an assumption: the message does not end like a
complete one. `Read` to `Unmarshal` are `aroundReadFrom`: reads of any length into
a buffer that keeps its old bytes, the copy that is logged and replayed.

### XmlEncText

`Cryptor` treats a ciphertext as a value; this module treats it as text. A text is a
sequence of tokens: classes of characters, the two tags the expression of
`Cryptor.java:79` looks for, and the Base64 of the key and the data of the n-th
encryption. `Ciphertext` is what `encrypt` prints, `Match` the greedy expression,
defined over all its possible matches, `Opened` what follows (a group that is
anything but the key or the data of one encryption makes `decode` or `doFinal`
throw: status 500, `DecryptThrows`). `Recoded` is `getBytes()` in one charset and
`new String` in another, `Printed` is `println`, whose bytes callers read as UTF-8.
The caller encloses what it holds in other texts, ciphertexts and stray values, and
may spoil it (white space at the end of a value, a value behind it); then nothing
is promised. What holds: the last ciphertext of a text opens, however deep it is
enclosed; every character of ASCII comes back in its place, with a new line added
each time; the rest survives if every host involved uses UTF-8 (ISO-8859-1 at both
ends does not do).

### SpecResolver, SpecConverter, SpecClient

`SpecResolver` keeps the specification as two lists, definitions with the
references of their properties, and references of operations. `StartRound`,
`Examine` (one iteration of the loop over `resolutionTable`), `Dispatch`, an answer
(`Respond`, `FetchFails`) and `Finish` are the steps of a round; between the first
two and `Finish` there is no other step, as it is one turn of the event loop. Kept
with all consequences: the loop variable that an inner loop overwrites
(`swagger-ui.js:2240`, `ExamineFile`), the key of an absolute reference that drops
its document (`Key`), definitions written over each time a reference is resolved
(`Rewritten`), references of remote parts made absolute or unreadable (`Retain`),
and the limit of seven rounds. A field `of` says, for the properties only, which
document a reference was written for (`WrittenIn`). References to schemas that are
whole documents are left out. `SpecConverter` follows a resource listing: every
declaration is asked for at once, merged as it arrives and counted; a declaration
without `basePath` throws between the count and the test. `SpecClient` is
`SwaggerClient.build`: its `stage` ends as `built`, `failed` or `thrown` (an
exception in a callback, after which nobody is called). `LeftNothing` speaks of the
specifications in `Resolvable`; each conjunct there is a case in which the code
leaves references over: relative references inside remote documents, local inline
references next to remote ones, missing parts, and remote parts in a circle, which
undo each other until the last round.

### SwaggerPage and SwaggerLogin

`SwaggerPage` abstracts a client to the stages that `SpecClient` shows it can
reach. `Load` clears the page and makes a client that takes over the credentials;
`Succeeds(c)` is the success callback of any client, which renders the client loaded
*last*, or throws while that is not built; `Fails`, `Throws`, `ChangeKey`.
`SwaggerLogin` adds the dialog, `Authorize` (the loop over the checked schemes that
leaves `tokenName` and `tokenUrl` behind), windows that come back (`WindowReturns`,
reading those variables as they are then), token servers and `Logout`. Both icons of
an operation log out, and a logout removes the api key too. `enabledScopes` is null
(all) after a logout. The schemes are the same for every load. That a token server
takes only codes of its own scheme is an assumption about it (`Takes`). The
buttons for api keys and basic authentication are not modelled: their container,
`.auth_main_container`, does not exist in the page.

### TryOut

One operation, whose view belongs to the client that was rendered. `Submit` checks
the form (nothing required may be empty, `Empty`), reads it (`InputMap`: a choice
whose value is empty, `Blank`, is left out), and runs `Operation.execute`, which
either sends (`Send`) or reports a missing argument at once with a string in place
of a response (`SubmitMissing`). `Answered` is the response or the failure: both end in
`ShowStatus`, which hides the throbber and puts a curl command together from
`view.map` and the credentials of that moment (`AsCurl`; without a required
argument it shows `undefined` or throws, and the old command stays). `Redrawn` is
the page being cleared by a load or drawn again, also by the late success of an
earlier client; then the form starts anew and answers under way go to a view that is no
longer there. Of logins only what they do to credentials is kept. Every token is a header
`Authorization`, and `ApiKeyAuthorization.apply` does not set a header twice, while the
api key is a query parameter: of an operation's tokens only the one that entered `authz`
first is sent. Which one that is does not follow from the set of credentials; `bearer`
remembers it for each client. A later token, also of the same scheme, takes no place in
front of it, a load copies the credentials in their order (`OrderKept`), and a logout
removes them all. What a request carried is remembered only as long as a property asks
for it (`Disturbed`, `Replaced`, `NewView`). Media types are left
out: the curl command asks for the type that was answered and sends the
first type of the operation, whatever was chosen in the view.

## Runs

| Run | Bounds | Shows |
| --- | --- | --- |
| `cryptor_sequential` | 1 worker, 4 pairs, 2 documents, 2 crashes, 2 I/O errors; with and without files | type, `RoundTrip`, `KeyDiscipline`, refinement |
| `cryptor_concurrent` | 2 workers, 4 pairs, 1 crash, 1 I/O error; with and without files | `OnlyFirstGenerate` |
| `cryptor_first_use` | 2 workers, no files | **violated**: `RoundTrip` |
| `relay_pool` | 2 calls, 3 threads, a call of each behaviour, 1 loss | type, `SomeThreadCanServe`, `ClientReleased`, `JobDiscipline`, `HandledDiscipline`, refinement, `InsideCallsAnswered` |
| `relay_starved` | 2 calls, 2 threads, asynchronous calls to the bundled client | **violated**: `InsideCallsAnswered` |
| `bank_finance` | 1 loan, every name, 1 copy of a request, confirmations and charges out of turn | type, `FinancedOnlyIfAccepted`, `ResponsesFitSchema`, refinement, `AcceptedIsCharged`, `ApplicationIsDecided` |
| `bank_reuse` | 1 loan on an existing credit line | **violated**: `ReuseNamesLoan` |
| `interceptors_bodies` | bodies of 0 to 5 bytes, a buffer of 2 | type, `DeliveredWhole`, `StreamPutBack`, `TransferEnds` |
| `xml_text` | 2 encryptions, 6 calls, hosts with UTF-8 or ISO-8859-1 | `OpensWhatWasSealed`, `TextSurvives` |
| `client_build` | 2 remote documents, 6 names, every pair of 10 references and longer lists, 2 declarations of each quality, 1 failure | type, `CallsCounted`, `MeansItsTarget`, `LeftNothing`, `ListingComplete`, `ClientSettles` |
| `login_session` | 2 loads, 2 logins, a scheme of each flow, 2 operations | type, `ShownIsCurrent`, `TokenOfItsScheme`, `LostOnlyIfOverlapped`, `CredentialsKept`, `LoadIsAnswered` |
| `tryout_session` | 2 loads, 2 requests, 1 parameter with a value, 2 tokens and an api key | type, `CurlRepeatsRequest`, `Authorized`, `WaitingEnds` |

Why the bounds are enough. Races on the key files need two constructors. Two crashes let a
crash hit the recovery from a crash; four pairs cover one pair deployed or two
generated and lost, and a spare. `RoundTrip` needs an encryption, then a
decryption by another constructor. In the relay, two calls and three threads are the
smallest pool with a thread to spare where both relays can wait at once; one more
call adds no new relation, and the proofs cover every size. `relay_pool` has
a call of each way through the code: the UK resource treats a header that does not
parse or names localhost as it treats none. In the bank, the merchant may ask again
after a request has been decided and before its response has come, so that one copy
in transit already gives repeated decisions; the proofs cover any number of copies,
and loans on an existing credit line beside others. A stray confirmation and a stray
charge are the requests that could finance a loan; the other three only repeat the
merchant's. A buffer of two bytes and
bodies of up to five give full, short and repeated reads. In `xml_text` two encryptions
can be nested or side by side, and six calls allow both to be enclosed and opened.
In `client_build` the two documents refer to each other, in a circle as well, and
share the name of a part; pairs of references give every combination of keys, and
the longer lists put a relative file first and last, where the overwritten loop
variable passes over and repeats references. Seven rounds are the code's own
limit. Two loads and two logins (or requests) are what overlapping takes, and two tokens
what it takes for one to be dropped. In `tryout_session` the parameter has one value:
what is sent has that value, but the form and the last submit may also hold none, which
tells a request's arguments from later ones; `CurlSafe` is for any values. The
proofs cover any number.

The Cryptor runs allow the model to stop when the bounded supply of key pairs is
used up, `relay_starved` really deadlocks, the message of `interceptors_bodies`
and the client of `client_build` end, and the calls of `xml_text` are bounded; the
other runs check deadlock.

The violated properties are disagreements of the code with its README, schemas or
tests; `PROJECT.json` quotes the lines under "findings": concurrent
first requests lose documents (`Cryptor.java:37`); the asynchronous header
does not free the thread (`GILFranceResource.java:71`); the confirmation of a loan on
an existing credit line names no loan (`GILFranceResource.java:144`).

More were met while reading and modelling. They need no search, or nothing in the
repository promises otherwise:

- the key recipe of the README writes `rsa1.pk8`, which nothing reads (`README.md:51`);
- a crash between opening a key file and closing it leaves an unreadable one, and
  the service answers 500 until someone deletes it (`Cryptor.java:159`);
- the UK resource sends what is meant for a localhost endpoint elsewhere
  (`UKCBCCResource.java:46`, against `README.md:15` and `:21`);
- all redirect notifications share their ids (`UKCBCCUtil.java:40`);
- the bank manages no loan state (`GILFranceResource.java:143`, against `README.md:82`);
- of the tokens of two schemes only the one that came first is sent, until a logout,
  because all are headers of one name and a header that is set stays
  (`swagger-ui.js:1070`, `swagger-oauth.js:334`);
- "Finished Loading Resource Information" stays for ever when the client loaded last
  fails and an earlier one succeeds afterwards (`swagger-ui.js:24755`);
- two parts of one name in two documents become one (`swagger-ui.js:2577`), and which
  depends on the order of the answers;
- a listing whose last declaration has no `basePath` is never finished, and what is no
  description at all ends neither in success nor in failure (`swagger-ui.js:3755`, `:1320`);
- the curl command may be that of a later submit than the answer it stands beside
  (`swagger-ui.js:25927`);
- a parameter or response written as a relative file that is the specification
  itself, behind more references than its URL has parts, sets the loop variable back
  to before it and is examined for ever (`swagger-ui.js:2240`).

## Fairness

`NotificationRelay!Fairness`: threads run (weak fairness of `Work`), and the
container's queue is first come, first served, so that no job waits for ever
while threads come free: strong fairness of dispatching each job, because a free
thread may be taken by another job again and again. The executor of a `Client`
is a thread of its own (weak fairness). Nothing is assumed of testers or of
clients elsewhere, hence `InsideCallsAnswered` speaks only of calls that stay inside
the server; in `relay_pool` a client elsewhere may block its relay for ever.

`LoanBank!Fairness`: the merchant repeats an unanswered request (weak fairness of
`Ask`); a request, and the response to it, that is sent again and again arrives in
the end (strong fairness, since a loss disables the action). The server handles
what arrives. No tester need ever notify: a pending loan may stay pending.

`LoggingInterceptors!FairSpec`: each side is one thread that runs to its end, and
the connection delivers or fails (weak fairness of either side's steps).

`SpecClient!FairSpec`: the event loop runs every turn to its end and the browser ends
every request, with an answer or an error (weak fairness of `Next`, whose steps are
only those). `SwaggerLogin!FairSpec` and `TryOut!FairSpec` use the same: every client
settles (weak fairness of each `Settle(c)`), every request of a view is answered or
fails (weak fairness of each `Answered(r)`). Nobody need grant a login, close a
window, submit a form or load anything. `LoadIsAnswered` excepts clients that throw,
since those call nobody back.

## Proofs

All theorems hold for every value of the constants that satisfies the modules'
named assumptions, which TLC evaluates in the runs.

**Cryptor** (`CryptorProofs`). `TypeCorrect` strengthens `TypeOK` by `HeldOK`: a
constructor past `Generate` or `ReadPub` holds keys, not what broken files contain.
`LatecomersLoad` (`OnlyFirstGenerate`) needs only the types: files are truncated and
written but never deleted, so that once both exist no existence test fails, and all
writes are of requests that were at it before. `DiskPairSafe`, `RoundTripSafe` and `Implementation` assume
`SoundDeployment`: no deployment starts with a private key that is not the public
key's, and either there is one worker or the files are there from the start.
`cryptor_first_use` shows that the second half is needed; files deployed that do not
match break everything by definition.
The inductive invariant is `TypeOK` with `KeyDiscipline`: a private key on disk is
the public key's also in the middle of a write (`KeysSafe`; the public file is written
first, and the private file holds no key until the end), what a constructor has
read so far is still what is on disk, and every ciphertext issued belongs to
the pair on disk. The last part makes refinement go through: `XmlEncryption`
allows an encryption only under the key of all earlier ones.

**NotificationRelay** (`NotificationRelayProofs`). `JobsSafe`: a job is in the queue
or with one thread, where its call's phase says. `NoStarvation` follows by a
pigeonhole argument: blocked threads serve relays of different calls, so there are
no more of them than calls. `HandledSafe` adds that a request under way has been
handled by nobody, and `Implementation` uses it: "ok" is answered only when
the client has handled the call. `ReleasedSafe` follows the `Client` of a call
through its phases: open exactly from `Prepare` to `finally`, unless building the
target has thrown. `CallsRunOut` and `NoDeadlock` are what can be proved of
`InsideCallsAnswered`. `Left(c)` counts the steps that a call can still take; every
step but a new call of a tester lowers it for one call and leaves the others'
unchanged, so that calls never take each other's steps away. `NothingForgotten` is
the converse of `JobDiscipline`: what a call waits for is in the queue or with a
thread. With `NoStarvation`, something can then be done for every call to the server
itself until it is answered (`NeverStuck`).

**LoanBank** (`LoanBankProofs`). The key is that the bank keeps no state: every
response given equals what the request determines (`GivenOK`). So a repeated
request adds nothing (a stutter of `LoanService`), and a response accepting an
application means an accepted name (`FinanceSafe`). `SchemaKept` and
`Implementation` use the same invariant. `LoansOnward` is what can be proved of
`AcceptedIsCharged` and `ApplicationIsDecided`: a loan only ever moves to a later stage
(`Rank`), one on its way to the charge stays on it, the bank has a response for
every request of a loan, and the response the loan is waiting for moves it.

**LoggingInterceptors** (`LoggingInterceptorsProofs`), for bodies and buffers of any
length. The invariant says, for each step of the writer, that what was written is a
prefix of the body, that the buffer or the wire holds exactly that, and for the
reader that what was read so far is what arrived. The lemmas on sequences (`Piece`,
`Extend`) are about subsequences and concatenation. `RunsOut` (four numbers: writer,
bytes to write, reader, bytes to read; each step lowers them in lexicographic order) and
`NeverWaiting` (until the reader has ended, one side has a step to take) are what can
be proved of `TransferEnds`.

**XmlEncText** (`XmlEncTextProofs`), for any texts, any number of encryptions and any
hosts. `GreedyMatch` finds what the expression of `decrypt` matches in a text that
has the values of a ciphertext near its end and no tags behind them: those values,
whatever comes before. The inductive invariant (`Nested`) says that the caller's text
ends like that with the ciphertext of the text due next, and that so did each text
encrypted, at the time it was: what was due then is kept in a function `below`,
quantified existentially, since opening a ciphertext uncovers the next one.
`SealedOpens` and `Survives` then compare the text printed with the one encrypted,
character by character.

**SpecClient** (`SpecClientProofs`), for any documents, names and specifications.
- `CallsSafe`, `ListingSafe`. `RoundInv`: what was processed and what is under way
  add up to what is to be resolved, and a round that waits has something under way.
  `ListingInv`: the same for declarations, together with where each one is (awaited,
  merged, refused, thrown or unreadable).
- `TypeCorrect`. `TypeInv` adds to the types that every entry of `resolvedRefs` is what
  some entry of the table names in its document (`Known`). Most of it is about what one
  `Finish` makes of a whole specification; `Flattened` (the elements of a flattened
  sequence) carries it. The library states induction with an operator as a parameter;
  `Induction` takes the set of numbers for which a formula holds in its place, and
  follows from well-foundedness.
- `MeaningSafe`. `MeansItsTarget` is about names that one document has; `MeaningInv` is
  about all of them: a definition is the part of its name of the document it came from,
  and a reference of another document that is local now leads to some definition. It
  holds because a reference is made local only in the turn that adds a definition of
  its name, because definitions are written over but never taken away, and because a
  reference taken over from another document is not local any more (`ContentsFrom`).
  With one document to choose from, the definition found is the one that was meant.
- `NothingLeft`. `LeftNothing` compares the end of the last round with the specification
  as it was given; `LayersInv` says of every round in between what is true of each
  reference: it is local and resolved, or it leads to a part that the rounds left can
  still reach (`InPlay`). `SevenDeep` gives the parts levels, such that a part leads only
  to lower ones; what a round replaces gives way to references one level down
  (`FinishInPlay`), and after the seventh round there is no level left. For that a
  round must list every reference, ask for each of another document and find what it
  names (`ListsAll`), two remote parts must not have one key or write one definition
  (`SameHome`), and a local reference must not lose what it leads to
  (`StillResolved`). So `SevenDeep` excludes, beyond `Resolvable`, relative files
  (which make the loop pass references over), two parts of one name, remote
  references in the shared parameters and responses, and definitions that refer to
  these along with other documents. Many specifications of `client_build` without
  files are of this kind: `N1` of A leads to `N6` of A and `N3` of B, both to `N2` of A.
- `RunsOut` and `NeverForgotten` are what can be proved of `ClientSettles`. `Left` is
  seven numbers (stages, declarations, rounds, phases, relative files not yet looked
  at, table, requests); every step lowers them in lexicographic order, so that no run
  is infinite. And until it is built, has failed or was stopped by an exception, a
  client has a turn of the event loop or a request under way, so that it cannot stop
  earlier; with every turn and request ended, `ClientSettles` follows. `RunsOut`
  needs `NoFileIsRoot`: the loop over the table, set back by a relative file,
  terminates because that file is then an entry of another document. With a file
  that is the specification itself it need not (see above).

**SwaggerLogin** (`SwaggerLoginProofs`), for any number of loads, logins, schemes and
flows. Four results come from the types with `ShownIsCurrent` and
`TokenOfItsScheme`. `LostSafe` needs `LoginDiscipline`: the global variables are
those of any login that nothing has overlapped. `CredentialsSafe` is an action
property: every step only adds credentials, or takes all of them away. `LoadAwaited` is
what can be proved of `LoadIsAnswered`: the client loaded last stays about to settle
until the tester sees it, a failure or a newer load, or it throws, and settling leads to one
of these, whichever client calls the page back in between.

**TryOut** (`TryOutProofs`), for any parameters, credentials and number of requests.
`SentIsLast`: a request that nothing has disturbed is the one `view.map` and the
credentials of now would make. `AuthorizedSafe` needs `ShownIsLast`: the page shows
the client loaded last or none, so that a view never sends another client's
credentials; and `BearerOK`: a client with tokens has a first one, and that is one of
those it has now, so that a request never goes without a token while the page has one. `NeverInVain` (a view that shows waiting has a request under way) and
`AnswersEndWaiting` (such a request stays under way until waiting ends, and its answer
ends it) are what can be proved of `WaitingEnds`.

Not proved, only model-checked:

- `LeftNothing` for specifications that are not `SevenDeep`: with relative files, or with
  parts of one name in two documents. There it depends on the order of the references
  and on which documents follow the file; it holds in `client_build`, where no chain is
  long, and is not true of every library, since of parts eight deep the last are left.
- Liveness (`InsideCallsAnswered`, `AcceptedIsCharged`, `ApplicationIsDecided`,
  `TransferEnds`, `ClientSettles`, `LoadIsAnswered`, `WaitingEnds`), which the prover
  does not handle under fairness, nor what is enabled. The theorems that stand in
  for them state what holds without fairness: measures that every step lowers, and
  that until the end something is under way, in guards written out (`Underway`,
  `NeverStuck`). That fair steps are then taken is TLC's part. Nothing is proved of the
  steps of `InsideCallsAnswered` that a fair queue adds, or of losses that end
  (the strong fairness of `LoanBank`).

## Not modelled

On the server: contents of messages beyond ids, results and codes; cryptography below
the level of keys; TLS; XML parsing and schema validation (a body that does not parse
never reaches a resource); container limits other than threads;
`fillCommonResponse`'s timestamps.

In the browser: most lines of `swagger-ui.js` and all of `lib/marked.js` are
third-party code bundled with the page (lodash, js-yaml, esprima, Q, superagent,
compiled Handlebars templates), not logic of this program, and the language files are data; of
the rest, what only lays out or formats: the views, sample JSON and XML, signatures,
how parameters are encoded. Also left out: `allOf` and models written inline in the
resolver, how the converter turns operations and parameters into those of 2.0 (their
models and references are there), the groups `buildFromSpec` makes of operations, file
uploads and downloads, and redirects that leave the page. `grantTypes` in
`swagger-oauth.js` is a branch of descriptions of 1.x that the converter never produces.

The parts listed as not modelled in `PROJECT.json` are command-line helpers,
demonstrations and code that only logs.

## Plan

Done, in this order: the three core components with their abstract specifications and
proofs; the interceptors and their proofs; the text of XML encryption; the Swagger UI's
client, page and logins; trying out an operation; proofs about the text and the client; what
holds of every liveness property without fairness.
What is left, and what it would add:

1. An abstract specification of `SpecClient`, "one callback, after the last answer",
   and the refinement, in place of `CallsCounted` and `ClientSettles` taken apart.
2. `KeyStoreHandler`: load and store with crashes (`KeyStoreHandler.java:49` truncates
   before it writes).
3. A composition of `LoanBank` and `NotificationRelay` in which `Notify` is the relay's
   handled notification, so that a lost answer makes a tester repeat it.
4. `TryOut` over the logins of `SwaggerLogin` in place of their effect on credentials;
   the two share `SwaggerPage`, and the joint instance is beyond five minutes of TLC.
5. The SSL demonstration (a thread per connection); `ClientResponseLoggingFilter`'s
   rewriting of the content type.
