----------------------------- MODULE SpecClient -----------------------------
(***************************************************************************)
(* One SwaggerClient of swagger-ui.js, from its constructor to the success *)
(* or failure callback: it fetches a description, has one of Swagger 1.x   *)
(* converted (SpecConverter), has the references of the result resolved    *)
(* (SpecResolver) and builds its api from what comes back.                 *)
(***************************************************************************)
EXTENDS SpecResolver, SpecConverter

CONSTANTS Specifications, \* descriptions of Swagger 2.0 the server may have
          OldDescriptions, \* and those of Swagger 1.x, each a description to convert
          Model           \* Model[a]: the model declared and used by declaration a

ASSUME SpecificationsAssumption ==
    /\ Specifications \subseteq Sources
    /\ \A s \in Specifications : /\ \A k \in DOMAIN s.defs : s.defs[k].from = Root
                                 /\ \A r \in AllRefs(s.defs, s.ops) : WrittenIn(r, Root)
ASSUME OldDescriptionsAssumption ==
    /\ OldDescriptions \subseteq Descriptions
    /\ DOMAIN Model = Apis /\ \A a \in Apis : Model[a] \in Names

VARIABLE stage          \* of the client

clientVars == <<stage, resolverVars, converterVars>>

Stages == {"fetching", "converting", "resolving", "built", "failed", "thrown"}
Settled == stage \in {"built", "failed"}

TypeOK ==
    /\ stage \in Stages
    /\ phase \in Phases
    /\ iteration \in 0..MaxIteration
    /\ callbacks \in {0, 1}
    /\ failures \in 0..MaxFailures
    /\ i \in Nat /\ processed \in 0..Len(toResolve)
    /\ \A p \in 1..Len(toResolve) : toResolve[p] \in 1..Len(table)
    /\ defs \in Seq(Definitions) /\ ops \in Seq(Refs)
    /\ inflight \subseteq 1..Len(toResolve)
    /\ ConverterTypeOK

Init == stage = "fetching" /\ ResolverInit /\ ConverterInit

\* The request fails, whatever its status, or its answer is no object.
DescriptionFails ==
    /\ stage = "fetching"
    /\ stage' = "failed"
    /\ UNCHANGED <<resolverVars, converterVars>>

DescriptionArrives ==
    /\ stage = "fetching"
    /\ \E s \in Specifications : Begin(s)
    /\ stage' = "resolving"
    /\ UNCHANGED converterVars

OldDescriptionArrives ==
    /\ stage = "fetching"
    /\ \E d \in OldDescriptions : Convert(d)
    /\ stage' = "converting"
    /\ UNCHANGED resolverVars

LocalModel(as, n) == [as |-> as, form |-> "local", doc |-> Root, name |-> n, of |-> Root]

\* What the converter makes of the merged declarations: their models, and
\* operations that refer to them.
Converted ==
    LET used == IF description.kind = "single" THEN SetToSeq(Apis) ELSE SetToSeq(merged)
    IN  [defs |-> [k \in 1..Len(used) |-> [name |-> Model[used[k]], from |-> Root, refs |-> <<>>]],
         ops  |-> [k \in 1..Len(used) |-> LocalModel("ref", Model[used[k]])]]

\* The callback of convert: resolving null throws, and nothing comes after it.
ConverterCallsBack ==
    /\ stage = "converting" /\ conversion \in Callback
    /\ IF conversion = "null" THEN stage' = "thrown" /\ UNCHANGED resolverVars
       ELSE stage' = "resolving" /\ Begin(Converted)
    /\ UNCHANGED converterVars

\* buildFromSpec, the resolver's callback, and in it the success callback.
ResolverCallsBack ==
    /\ stage = "resolving" /\ phase = "done"
    /\ stage' = "built"
    /\ UNCHANGED <<resolverVars, converterVars>>

ClientStep == \/ DescriptionFails \/ DescriptionArrives \/ OldDescriptionArrives
              \/ ConverterCallsBack \/ ResolverCallsBack

Next == \/ ClientStep
        \/ ConverterNext /\ UNCHANGED <<stage, resolverVars>>
        \/ ResolverNext /\ UNCHANGED <<stage, converterVars>>

Spec == Init /\ [][Next]_clientVars

\* The browser ends every request and runs every turn of its event loop.
FairSpec == Spec /\ WF_clientVars(Next)
-----------------------------------------------------------------------------
(***************************************************************************)
(* Properties                                                              *)
(***************************************************************************)

\* Every answer is counted once, and the round ends with the last of them:
\* neither earlier, with documents under way, nor never.  (processedCalls and
\* expectedCalls of resolve.)
CallsCounted ==
    /\ phase = "wait" => /\ inflight # {}
                         /\ Len(toResolve) = processed + Cardinality(inflight)
    /\ phase \in {"resolve", "finish", "done"} => inflight = {}

\* The same of processedCount and expectedCount of resourceListing: only an
\* exception leaves a listing unfinished with nothing under way.
DeclarationsCounted ==
    Listing => /\ Cardinality(Named) = processedCount + Cardinality(awaited)
               /\ awaited = {} => threw # {}

\* Documents in which the reader of r's document finds a part of that name.
Homes(n) ==
    {d \in Docs : n \in DOMAIN Library[d]}
      \cup (IF DefinedIn(source.defs, n) THEN {Root} ELSE {})

\* A reference that was rewritten means what it meant where it was written,
\* whichever document arrived first: if its name is that of one part only, the
\* definition it leads to now is that part.  (finish and resolveItem)
MeansItsTarget ==
    \A r \in AllRefs(defs, ops) :
        (r.as = "ref" /\ r.form = "local" /\ r.of # Root /\ Homes(r.name) = {r.of})
          => \E k \in DOMAIN defs : defs[k].name = r.name /\ defs[k].from = r.of

\* The parts that references lead to, and those in them, as far as the rounds go.
Targets(refs) == {<<IF r.form = "local" THEN r.of ELSE r.doc, r.name>> : r \in refs}
Inside(parts) ==
    UNION {ToSet(Library[p[1]][p[2]]) : p \in {q \in parts : q[2] \in DOMAIN Library[q[1]]}}
Reached(refs) ==
    LET within[k \in 0..MaxIteration] ==
            IF k = 0 THEN refs ELSE within[k - 1] \cup Inside(Targets(within[k - 1]))
    IN  within[MaxIteration]

\* Specifications the resolver can be expected to resolve: no relative file or
\* reference inside another document; no parameter or response of its own is
\* referred to along with other documents; all that is referred to exists; and no
\* part of another document leads back to itself, for each time round it would
\* replace the definition whose references had just been resolved.
Remote(r) == r.form \in {"http", "relative", "file"}
Resolvable ==
    LET given  == AllRefs(source.defs, source.ops)
        away   == {r \in given : Remote(r)}
        parts  == Targets(Reached(away))
        inner  == Inside(parts)
    IN  /\ \A r \in given \cup inner : r.form # "lost" /\ (Remote(r) => r.doc # Root)
        /\ \A r \in inner : r.form \in {"local", "http"}
        /\ away # {} => \A k \in DOMAIN source.ops :
                           source.ops[k].as = "inline" => source.ops[k].form # "local"
        /\ \A r \in given : r.form = "local" => ~Unresolved(r, source.defs)
        /\ \A p \in parts : /\ p[2] \in DOMAIN Library[p[1]]
                            /\ p \notin Targets(Reached(Inside({p})))

\* When every document was served, nothing is left to resolve of such a
\* specification once the callback runs, although a round may have skipped
\* references (the loop variable of resolve) and rounds are limited.
LeftNothing ==
    (phase = "done" /\ failures = 0 /\ Resolvable) =>
        \A r \in AllRefs(defs, ops) : ~Unresolved(r, defs)

\* A listing is handed on with every declaration that arrived and could be read.
ListingComplete ==
    (conversion = "spec" /\ description.kind = "listing") =>
        \A a \in Named : description.apis[a] = "complete" => a \in merged \cup refused

\* Whatever arrives, in whatever order, the client is built or has failed in the
\* end, unless what it was given made it throw (build, convert and resolve).
ClientSettles ==
    <>(Settled \/ stage = "thrown" \/ conversion = "thrown" \/ threw # {})
=============================================================================
