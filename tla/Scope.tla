--------------------------------- MODULE Scope ---------------------------------
(***************************************************************************)
(* The scope of an assessment (packages/shared/src/scope.ts): how it       *)
(* travels in a WANT, what the schema admits and what the policy permits.  *)
(* A short code is its category here; paths are left out.                  *)
(***************************************************************************)
EXTENDS Naturals, Sequences, SequencesExt, Filter

CONSTANT Categories   \* ALL_TEST_CATEGORIES, in their order

AllCategories == Range(Categories)

ScopeAssumption == Categories \in Seq(AllCategories)

\* The short code "hdr" stands for security-headers, the second category.
Headers == Categories[2]

\* In the order of the enumeration, whatever order was asked for.
encodeScopeArg(asked) ==
  LET ordered == filter(Categories, Range(asked))
  IN  IF ordered = <<>> THEN <<Headers>> ELSE ordered

\* In the order of the text; an unknown code is dropped.
decodeScopeArg(arg) == filter(arg, AllCategories)

\* The schema: a failure is an exception.
ScopeParses(s) ==
  s.categories # <<>> /\ s.maxDepth \in 1 .. 5 /\ s.maxDurationSeconds \in 30 .. 3600

DEFAULT_SCOPE_POLICY ==
  [allowedCategories |-> AllCategories, maxDepth |-> 5, maxDurationSeconds |-> 1200,
   requireNonDestructive |-> TRUE]

checkScopeWithinPolicy(s, policy) ==
  {v \in {"categories", "maxDepth", "maxDurationSeconds", "nonDestructive"} :
     CASE v = "categories"         -> ~ Range(s.categories) \subseteq policy.allowedCategories
       [] v = "maxDepth"           -> s.maxDepth > policy.maxDepth
       [] v = "maxDurationSeconds" -> s.maxDurationSeconds > policy.maxDurationSeconds
       [] v = "nonDestructive"     -> policy.requireNonDestructive /\ ~ s.nonDestructive}
================================================================================
