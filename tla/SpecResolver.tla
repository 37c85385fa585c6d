---------------------------- MODULE SpecResolver ----------------------------
(***************************************************************************)
(* Resolver of swagger-ui.js: the references of a specification to other   *)
(* documents are fetched and replaced, round after round, until none is    *)
(* left or seven rounds are over; then the callback gets the specification.*)
(*                                                                         *)
(* A round lists the references in document order, decides for each        *)
(* whether it is to be resolved, resolves those of this document at once,  *)
(* asks the servers for the others, and, when the last answer is in,       *)
(* rewrites the specification.  The answers come in any order.  Everything *)
(* else is one turn of the browser's event loop: its steps are actions of  *)
(* their own, and nothing happens between them.                            *)
(*                                                                         *)
(* A specification is two lists: its definitions, each with the references *)
(* of its properties, and the references of its operations.  A reference   *)
(* to a schema ("ref") becomes a reference to a definition added to the    *)
(* specification; a reference to a parameter, response or path ("inline")  *)
(* gives way to what it names.                                             *)
(***************************************************************************)
EXTENDS Integers, SequencesExt

CONSTANTS Docs,        \* the documents other than the specification itself
          Names,       \* names of definitions, parameters and responses
          Library,     \* Library[d]: the references inside each named part of d
          Depth,       \* parts of the specification's URL between slashes
          MaxFailures  \* bound on documents that cannot be fetched

Root  == "root"        \* the specification itself
Whole == "whole"       \* the part that is the whole document

\* How a reference is written: '#/definitions/A', 'http://d#/definitions/A',
\* 'd#/definitions/A', 'd', and 'http://e#d#/definitions/A', which names nothing.
Forms == {"local", "http", "relative", "file", "lost"}

\* "of", for the properties only, is the document a reference was first written for.
\* A schema is a part of a document: one that is a whole document is left out.
Refs == {r \in [as : {"ref", "inline"}, form : Forms, doc : Docs \cup {Root},
                name : Names \cup {Whole}, of : Docs \cup {Root}] :
           /\ r.as = "ref" => r.name # Whole /\ r.form # "file"
           /\ r.form = "local" => r.doc = Root}

\* As r is written in document d.
WrittenIn(r, d) == r.of = IF r.form = "local" THEN d ELSE r.doc

Definitions == [name : Names, from : Docs \cup {Root}, refs : Seq(Refs)]
Sources     == [defs : Seq(Definitions), ops : Seq(Refs)]

\* Nothing to resolve: what the variables hold between two specifications.
Nothing == [defs |-> <<>>, ops |-> <<>>]

\* 'http://host' has three parts.
ASSUME DepthAssumption == Depth \in Nat /\ Depth >= 3 /\ MaxFailures \in Nat
ASSUME LibraryAssumption ==
    /\ Root \notin Docs /\ Whole \notin Names
    /\ DOMAIN Library = Docs \cup {Root}
    /\ \A d \in DOMAIN Library : \A n \in DOMAIN Library[d] :
          /\ n \in Names \cup {Whole} /\ Library[d][n] \in Seq(Refs)
          /\ \A r \in ToSet(Library[d][n]) : WrittenIn(r, d)

MaxIteration == 6      \* the first iteration above 5

VARIABLES source,      \* for the properties: the specification as it was given
          defs, ops,   \* spec.definitions, and the references under spec.paths
          table,       \* resolutionTable
          i,           \* the loop variable over it
          toResolve,   \* positions in table; a position may occur twice
          resolvedRefs,
          inflight,    \* positions in toResolve whose document was asked for
          processed,   \* processedCalls
          iteration,
          phase,
          callbacks,   \* times the callback was called for this specification
          failures     \* documents that could not be fetched

spec  == <<defs, ops>>
round == <<table, i, toResolve, resolvedRefs>>
calls == <<inflight, processed>>
resolverVars == <<source, spec, round, calls, iteration, phase, callbacks, failures>>

Phases == {"idle", "resolve", "scan", "wait", "finish", "done"}
-----------------------------------------------------------------------------
(***************************************************************************)
(* References                                                              *)
(***************************************************************************)

DefinedIn(ds, n) == \E k \in DOMAIN ds : ds[k].name = n

\* resolveInline and resolveTo: the document an entry of the table belongs to.
\* A relative file keeps the root of the specification for the time being.
RootOf(r) == IF r.form = "file" THEN Root ELSE r.doc

\* Mutant: one entry of resolvedRefs per document.
KeyOfDocument(r) == <<r.as, "fragment", r.doc>>

\* The key of an entry.  For an absolute schema reference it is only what
\* follows the '#'.
Key(r) == IF r.as = "ref" /\ r.form = "http" THEN <<r.as, "fragment", r.name>>
          ELSE <<r.as, r.form, r.doc, r.name>>

\* resolveItem: what an entry names in the document that was read for it.
\* A schema of the specification itself is looked up only when it is missing.
Found(e) ==
    /\ e.ref.form # "lost"
    /\ e.root = Root => e.ref.as = "inline"
    /\ e.ref.name \in DOMAIN Library[e.root]

Resolution(e) == [from |-> e.root, refs |-> Library[e.root][e.ref.name]]

\* resolveItem on an entry: a key that is there already is written over.
Resolve(known, e) ==
    IF Found(e) THEN [k \in DOMAIN known \cup {Key(e.ref)} |->
                        IF k = Key(e.ref) THEN Resolution(e) ELSE known[k]]
    ELSE known

\* Mutant: what comes from elsewhere keeps its references as they are.
RetainNothing(r, d) == r

\* retainRoot: references taken over from document d are made absolute.
Retain(r, d) ==
    CASE r.form = "local" -> [r EXCEPT !.form = "http", !.doc = d]
      [] r.form \in {"relative", "file"} -> [r EXCEPT !.form = "lost", !.doc = d]
      [] OTHER -> r

\* countUnresolvedRefs on one reference.
Unresolved(r, ds) ==
    \/ r.form # "local"
    \/ r.as = "ref" /\ ~DefinedIn(ds, r.name)
    \/ r.as = "inline" /\ r.name \notin DOMAIN Library[Root]
-----------------------------------------------------------------------------
(***************************************************************************)
(* A round                                                                 *)
(***************************************************************************)

Entries(refs) == [k \in 1..Len(refs) |-> [ref |-> refs[k], root |-> RootOf(refs[k])]]

\* Definitions first, then the operations.
ResolutionTable ==
    FlattenSeq([k \in 1..Len(defs) |-> Entries(defs[k].refs)]) \o Entries(ops)

ResolverInit ==
    /\ source = Nothing /\ defs = <<>> /\ ops = <<>>
    /\ table = <<>> /\ i = 1 /\ toResolve = <<>> /\ resolvedRefs = <<>>
    /\ inflight = {} /\ processed = 0
    /\ iteration = 0 /\ phase = "idle" /\ callbacks = 0 /\ failures = 0

\* resolve is called for specification s.
Begin(s) ==
    /\ phase = "idle"
    /\ source' = s /\ defs' = s.defs /\ ops' = s.ops
    /\ phase' = "resolve"
    /\ UNCHANGED <<round, calls, iteration, callbacks, failures>>

StartRound ==
    /\ phase = "resolve"
    /\ table' = ResolutionTable
    /\ i' = 1 /\ toResolve' = <<>> /\ resolvedRefs' = <<>>
    /\ processed' = 0
    /\ phase' = "scan"
    /\ UNCHANGED <<source, spec, inflight, iteration, callbacks, failures>>

Queue == toResolve' = Append(toResolve, i)

\* An entry of another document.
ExamineRemote ==
    /\ table[i].root # Root
    /\ Queue /\ i' = i + 1
    /\ UNCHANGED table

\* A schema of the specification itself, named by a fragment or by the file the
\* specification is in, is resolved only if it is missing; of one written with the
\* specification's own URL the key has lost the '#', and it is never looked up.
ExamineSchema ==
    /\ table[i].root = Root /\ table[i].ref.as = "ref"
    /\ IF table[i].ref.form \in {"local", "relative"} /\ ~DefinedIn(defs, table[i].ref.name)
       THEN Queue ELSE UNCHANGED toResolve
    /\ i' = i + 1
    /\ UNCHANGED table

\* A relative file: its URL is put together in a loop that uses the same
\* variable i, which is left at the number of parts of the URL.
ExamineFile ==
    /\ table[i].root = Root /\ table[i].ref.form = "file"
    /\ table' = [table EXCEPT ![i].root = table[i].ref.doc]
    /\ Queue /\ i' = Depth + 1

ExamineInline ==
    /\ table[i].root = Root /\ table[i].ref.as = "inline" /\ table[i].ref.form # "file"
    /\ Queue /\ i' = i + 1
    /\ UNCHANGED table

Examine ==
    /\ phase = "scan" /\ i <= Len(table)
    /\ ExamineRemote \/ ExamineSchema \/ ExamineFile \/ ExamineInline
    /\ UNCHANGED <<source, spec, resolvedRefs, calls, iteration, phase, callbacks, failures>>

Item(p)  == table[toResolve[p]]
Local(p) == Item(p).root = Root

\* Every local entry is resolved on the spot, the documents of the others are
\* asked for.  With nothing to wait for the round is finished at once.
Dispatch ==
    /\ phase = "scan" /\ i > Len(table)
    /\ LET locals == {p \in 1..Len(toResolve) : Local(p)}
           found  == {e \in {Item(p) : p \in locals} : Found(e)}
       IN  /\ resolvedRefs' = [k \in {Key(e.ref) : e \in found} |->
                                  Resolution(CHOOSE e \in found : Key(e.ref) = k)]
           /\ processed' = Cardinality(locals)
    /\ inflight' = {p \in 1..Len(toResolve) : ~Local(p)}
    /\ phase' = IF inflight' = {} THEN "finish" ELSE "wait"
    /\ UNCHANGED <<source, spec, table, i, toResolve, iteration, callbacks, failures>>

\* Mutant: expectedCalls counts the references listed, not those to be resolved.
ProcessedOfTable(p) ==
    /\ inflight' = inflight \ {p}
    /\ processed' = processed + 1
    /\ phase' = IF processed + 1 = Len(table) THEN "finish" ELSE "wait"

\* processedCalls += 1, and finish once it reaches expectedCalls.
Processed(p) ==
    /\ inflight' = inflight \ {p}
    /\ processed' = processed + 1
    /\ phase' = IF processed + 1 = Len(toResolve) THEN "finish" ELSE "wait"

Respond(p) ==
    /\ phase = "wait" /\ p \in inflight
    /\ resolvedRefs' = Resolve(resolvedRefs, Item(p))
    /\ Processed(p)
    /\ UNCHANGED <<source, spec, table, i, toResolve, iteration, callbacks, failures>>

\* The document cannot be fetched, or is no document.
FetchFails(p) ==
    /\ phase = "wait" /\ p \in inflight
    /\ failures < MaxFailures
    /\ failures' = failures + 1
    /\ Processed(p)
    /\ UNCHANGED <<source, spec, round, iteration, callbacks>>
-----------------------------------------------------------------------------
(***************************************************************************)
(* The end of a round                                                      *)
(***************************************************************************)

Resolved(r) == Key(r) \in DOMAIN resolvedRefs

\* finish(..., localResolve = true): the last item processed was a local one.
LocalResolve == \A p \in 1..Len(toResolve) : Local(p)

\* The references inside what r stands for, made absolute with the root of the
\* first entry of r's key, unless everything was local.
Contents(r) ==
    LET known == resolvedRefs[Key(r)]
        first == table[SelectInSeq(table, LAMBDA e : Key(e.ref) = Key(r))]
    IN  IF LocalResolve THEN known.refs
        ELSE [k \in 1..Len(known.refs) |-> Retain(known.refs[k], first.root)]

Rewritten(r) ==
    IF ~Resolved(r) THEN <<r>>
    ELSE IF r.as = "ref" THEN <<[r EXCEPT !.form = "local", !.doc = Root]>>
    ELSE Contents(r)

RewriteAll(refs) == FlattenSeq([k \in 1..Len(refs) |-> Rewritten(refs[k])])

\* The entries that write definition n: spec.definitions[name] = obj, one entry
\* after the other, so that the last one of a name stays.
Adding(n) == {k \in DOMAIN table : LET r == table[k].ref
                                   IN  r.as = "ref" /\ r.name = n /\ Resolved(r)}

Definition(n) ==
    LET r == table[Max(Adding(n))].ref
    IN  [name |-> n, from |-> resolvedRefs[Key(r)].from, refs |-> Contents(r)]

\* A definition that is there keeps its place, another is added at the end, in
\* the place of the first entry that writes it.
RewrittenDefs ==
    LET kept(d) == IF Adding(d.name) # {} THEN Definition(d.name)
                   ELSE [d EXCEPT !.refs = RewriteAll(@)]
        fresh(k, n) == IF k \in Adding(n) /\ k = Min(Adding(n)) /\ ~DefinedIn(defs, n)
                       THEN <<Definition(n)>> ELSE <<>>
    IN  [k \in 1..Len(defs) |-> kept(defs[k])]
          \o FlattenSeq([k \in 1..Len(table) |-> fresh(k, table[k].ref.name)])

\* Every reference in sight of getRefs: definitions, operations, shared parts.
AllRefs(ds, os) ==
    (UNION {ToSet(ds[k].refs) : k \in DOMAIN ds}) \cup ToSet(os)
      \cup (UNION {ToSet(Library[Root][n]) : n \in DOMAIN Library[Root]})

\* finish without what it decides next.
Rewrite ==
    /\ defs' = RewrittenDefs
    /\ ops' = RewriteAll(ops)

\* Mutant: a next round for as long as something is left.
FinishForever ==
    /\ phase = "finish"
    /\ Rewrite
    /\ IF \A r \in AllRefs(defs', ops') : ~Unresolved(r, defs')
       THEN phase' = "done" /\ callbacks' = callbacks + 1
       ELSE phase' = "resolve" /\ UNCHANGED callbacks
    /\ UNCHANGED <<source, round, calls, iteration, failures>>

\* Mutant: one round more than the limit.
FinishUncapped ==
    /\ phase = "finish"
    /\ Rewrite
    /\ IF (\A r \in AllRefs(defs', ops') : ~Unresolved(r, defs')) \/ iteration > 6
       THEN phase' = "done" /\ callbacks' = callbacks + 1 /\ UNCHANGED iteration
       ELSE phase' = "resolve" /\ iteration' = iteration + 1 /\ UNCHANGED callbacks
    /\ UNCHANGED <<source, round, calls, failures>>

Finish ==
    /\ phase = "finish"
    /\ Rewrite
    /\ IF (\A r \in AllRefs(defs', ops') : ~Unresolved(r, defs')) \/ iteration > 5
       THEN phase' = "done" /\ callbacks' = callbacks + 1 /\ UNCHANGED iteration
       ELSE phase' = "resolve" /\ iteration' = iteration + 1 /\ UNCHANGED callbacks
    /\ UNCHANGED <<source, round, calls, failures>>

Answer == \E p \in inflight : Respond(p) \/ FetchFails(p)

ResolverNext == StartRound \/ Examine \/ Dispatch \/ Answer \/ Finish

\* The event loop runs a turn to its end; the browser ends every request.
ResolverFairness == WF_resolverVars(ResolverNext)
=============================================================================
