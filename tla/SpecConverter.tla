---------------------------- MODULE SpecConverter ----------------------------
(***************************************************************************)
(* SwaggerSpecConverter of swagger-ui.js: a description of Swagger 1.x is  *)
(* turned into one of 2.0.  A description in one file is converted in one  *)
(* go; a resource listing names api declarations, which are all asked for  *)
(* at once, merged into the result as they arrive, and counted: the        *)
(* callback runs when the last one is in, however it ended.                *)
(***************************************************************************)
EXTENDS Integers, FiniteSets

CONSTANTS Apis           \* the api declarations a listing may name

ASSUME ApisAssumption == IsFiniteSet(Apis)

\* A declaration without basePath throws in the middle of being merged; one
\* that is no object is left out.
Qualities == {"complete", "unreadable", "noBasePath"}

\* What the converter is given: no list of apis at all, one file, a listing.
Descriptions ==
    {[kind |-> "notASpec"]} \cup [kind : {"single"}, quality : {"complete", "noBasePath"}]
      \cup UNION {[kind : {"listing"}, apis : [S -> Qualities]] : S \in SUBSET Apis}

VARIABLES description,   \* what convert was called with
          awaited,       \* declarations asked for and not answered
          processedCount,
          merged,        \* declarations merged into the result
          threw,         \* declarations whose merging threw an exception
          refused,       \* for the properties: declarations that could not be fetched
          conversion     \* "idle", "listing", "thrown", or what the callback got

converterVars == <<description, awaited, processedCount, merged, threw, refused, conversion>>

NoDescription == [kind |-> "none"]
Callback == {"null", "spec"}

ConverterTypeOK ==
    /\ description \in Descriptions \cup {NoDescription}
    /\ awaited \subseteq Apis /\ merged \subseteq Apis /\ threw \subseteq Apis /\ refused \subseteq Apis
    /\ processedCount \in 0..Cardinality(Apis)
    /\ conversion \in {"idle", "listing", "thrown"} \cup Callback

ConverterInit ==
    /\ description = NoDescription
    /\ awaited = {} /\ processedCount = 0 /\ merged = {} /\ threw = {} /\ refused = {}
    /\ conversion = "idle"

Named == DOMAIN description.apis
Listing == conversion = "listing"

\* convert: a listing of nothing is finished before anything is asked for.
Convert(d) ==
    /\ conversion = "idle"
    /\ description' = d
    /\ awaited' = IF d.kind = "listing" THEN DOMAIN d.apis ELSE {}
    /\ conversion' =
         CASE d.kind = "notASpec" -> "null"
           [] d.kind = "single" -> IF d.quality = "complete" THEN "spec" ELSE "thrown"
           [] d.kind = "listing" -> IF DOMAIN d.apis = {} THEN "spec" ELSE "listing"
    /\ UNCHANGED <<processedCount, merged, threw, refused>>

\* Mutant: finishes with one declaration under way.
CountedOutEarly == IF processedCount + 2 >= Cardinality(Named) THEN "spec" ELSE "listing"

\* if(processedCount === expectedCount) finish
CountedOut == IF processedCount + 1 = Cardinality(Named) THEN "spec" ELSE "listing"

\* http.on.response.  The exception comes after the count and before the test.
ApiAnswers(a) ==
    /\ Listing /\ a \in awaited
    /\ awaited' = awaited \ {a}
    /\ processedCount' = processedCount + 1
    /\ CASE description.apis[a] = "complete" ->
              merged' = merged \cup {a} /\ conversion' = CountedOut /\ UNCHANGED threw
         [] description.apis[a] = "unreadable" ->
              conversion' = CountedOut /\ UNCHANGED <<merged, threw>>
         [] description.apis[a] = "noBasePath" ->
              threw' = threw \cup {a} /\ UNCHANGED <<merged, conversion>>
    /\ UNCHANGED <<description, refused>>

\* Mutant: http.on.error only logs.
ApiFailsUncounted(a) ==
    /\ Listing /\ a \in awaited
    /\ awaited' = awaited \ {a}
    /\ UNCHANGED <<description, processedCount, merged, threw, refused, conversion>>

\* http.on.error.
ApiFails(a) ==
    /\ Listing /\ a \in awaited
    /\ awaited' = awaited \ {a}
    /\ processedCount' = processedCount + 1
    /\ refused' = refused \cup {a}
    /\ conversion' = CountedOut
    /\ UNCHANGED <<description, merged, threw>>

ConverterNext == \E a \in Apis : ApiAnswers(a) \/ ApiFails(a)
=============================================================================
