----------------------------- MODULE Generator -----------------------------
(***************************************************************************)
(* Plan generation with the shadow model (src/simulator/generation/plan.rs:*)
(* InteractionPlan::arbitrary_from, Interactions::arbitrary_from, the      *)
(* random_* producers, Interactions::shadow, InteractionPlan::stats).      *)
(*                                                                         *)
(* Each step draws one top-level item with `frequency` from the producers  *)
(* whose weight is positive, applies its shadow to env.tables and appends  *)
(* it.  The RNG is a nondeterministic choice.  The property library        *)
(* (Property::arbitrary_from and Property::interactions, not in src/) is   *)
(* written from spec 4.3.                                                  *)
(***************************************************************************)
EXTENDS Naturals, Sequences, SequencesExt, FiniteSetsExt

CONSTANTS
    Tables, Values, NoTable,
    MaxInteractions,        \* env.opts.max_interactions
    Target,                 \* per-kind targets remaining() measures slack against
    PropertyNames,          \* the properties Property::arbitrary_from may draw
    Preds,                  \* the predicates Predicate::arbitrary_from may build
    DisableReopenDatabase   \* env.opts.disable_reopen_database

Q == INSTANCE Query

StatKinds == {"read", "write", "delete", "update", "create", "create_index", "drop"}

ASSUME MaxInteractions \in Nat \ {0}
ASSUME Target \in [StatKinds -> Nat]
ASSUME PropertyNames \subseteq {"InsertValuesSelect", "DoubleCreateFailure", "SelectLimit",
                                "DeleteSelect", "DropSelect", "SelectSelectOptimizer"}

Do(q) == [type |-> "query", q |-> q]
Check(type) == [type |-> type]
FaultIx(f) == [type |-> "fault", fault |-> f]

\* A top-level item: Interactions::{Query, Fault, Property}.  ix is what
\* Interactions::interactions() expands it to; a property also keeps the
\* fields its shadow reads (create, fillers).
QueryItem(q) == [tag |-> "query", name |-> "", ix |-> <<Do(q)>>, create |-> q, fillers |-> <<>>]
FaultItem(f) == [tag |-> "fault", name |-> "", ix |-> <<FaultIx(f)>>, create |-> Q!Q("create", CHOOSE t \in Tables : TRUE, {}, CHOOSE v \in Values : TRUE), fillers |-> <<>>]

Queries(item) ==
    LET qs == SelectSeq(item.ix, LAMBDA x : x.type = "query") IN [n \in DOMAIN qs |-> qs[n].q]

(***************************************************************************)
(* Property::interactions, spec 4.3: setup queries, filler queries, the    *)
(* queries that observe, then the assumption / assertion.                  *)
(***************************************************************************)
PropertyItem(name, t, v, p, fillers) ==
    LET Fill == [n \in DOMAIN fillers |-> Do(fillers[n])]
        create == Q!Q("create", t, {}, v)
        ix == CASE name = "InsertValuesSelect" ->
                      <<Do(Q!Q("insert", t, {}, v))>> \o Fill
                        \o <<Do(Q!Q("select", t, {v}, v)), Check("assert")>>
                [] name = "DoubleCreateFailure" ->
                      <<Do(create)>> \o Fill \o <<Do(create), Check("assume"), Check("assert")>>
                [] name = "SelectLimit" ->
                      <<Do(Q!Q("select", t, p, v)), Check("assert")>>
                [] name = "DeleteSelect" ->
                      <<Do(Q!Q("delete", t, p, v))>> \o Fill
                        \o <<Do(Q!Q("select", t, p, v)), Check("assert")>>
                [] name = "DropSelect" ->
                      <<Do(Q!Q("drop", t, {}, v))>> \o Fill
                        \o <<Do(Q!Q("select", t, p, v)), Check("assert")>>
                [] name = "SelectSelectOptimizer" ->
                      <<Do(Q!Q("select", t, Values, v)), Do(Q!Q("select", t, p, v)), Check("assert")>>
    IN  [tag |-> "property", name |-> name, ix |-> ix, create |-> create, fillers |-> fillers]

ShadowStep(cat, q) == Q!Shadow(cat, q)
ApplyAll(cat, qs) == FoldLeft(ShadowStep, cat, qs)

\* Interactions::shadow.  A property first runs the shadow of its own
\* fields, then the loop over property.interactions() shadows every query
\* again.  DoubleCreateFailure returns early, before either, when its table
\* already exists.
ShadowItem(cat, item) ==
    CASE item.tag = "query"    -> Q!Shadow(cat, Queries(item)[1])
      [] item.tag = "fault"    -> cat
      [] item.tag = "property" /\ item.name = "DoubleCreateFailure" ->
            IF Q!Exists(cat, item.create.table) THEN cat
            ELSE ApplyAll(ApplyAll(cat, <<item.create>> \o item.fillers), Queries(item))
      [] OTHER -> ApplyAll(ApplyAll(cat, Queries(item)), Queries(item))

AllQueries(pl) == FlattenSeq([n \in DOMAIN pl |-> Queries(pl[n])])

StatOf(kind) ==
    CASE kind = "select" -> "read"  [] kind = "insert" -> "write"
      [] OTHER -> kind

\* InteractionPlan::stats: every query, top-level or inside a property.
Stats(pl) ==
    LET qs == AllQueries(pl)
    IN  [s \in StatKinds |-> Len(SelectSeq(qs, LAMBDA q : StatOf(q.kind) = s))]

\* remaining(env, stats): slack to each target, clamped at zero (spec 4.2).
Remaining(stats) ==
    [s \in StatKinds |-> IF Target[s] > stats[s] THEN Target[s] - stats[s] ELSE 0]

Producers == {"property", "read", "write", "create", "create_index", "delete",
              "update", "drop", "fault"}

\* The weights Interactions::arbitrary_from hands to `frequency`.
Weights(r) ==
    [property     |-> Min({r.read, r.write}) + r.create,
     read         |-> r.read,
     write        |-> r.write,
     create       |-> r.create,
     create_index |-> r.create_index,
     delete       |-> r.delete,
     update       |-> r.update,
     drop         |-> 0,
     fault        |-> Max({Min({r.read, r.write, r.create}), 1})]

VARIABLES
    tables,   \* env.tables, the shadow catalog
    plan,     \* plan.plan
    status    \* "generating" or "done"

vars == <<tables, plan, status>>

Existing == {t \in Tables : Q!Exists(tables, t)}

\* The items producer pr can return in the current state: random_read,
\* random_write, random_create, random_create_index (Create when the
\* catalog is empty), random_delete, random_update, random_drop,
\* random_fault, and Property::arbitrary_from.
Draws(pr) ==
    CASE pr = "read" -> {QueryItem(Q!Q("select", t, p, v)) : t \in Existing, p \in Preds, v \in Values}
      [] pr = "write" -> {QueryItem(Q!Q("insert", t, {}, v)) : t \in Existing, v \in Values}
      [] pr = "create" \/ (pr = "create_index" /\ Existing = {}) ->
            {QueryItem(Q!Q("create", t, {}, v)) : t \in Tables, v \in Values}
      [] pr = "create_index" -> {QueryItem(Q!Q("create_index", t, {}, v)) : t \in Existing, v \in Values}
      [] pr = "delete" -> {QueryItem(Q!Q("delete", t, p, v)) : t \in Existing, p \in Preds, v \in Values}
      [] pr = "update" -> {QueryItem(Q!Q("update", t, p, v)) : t \in Existing, p \in Preds, v \in Values}
      [] pr = "drop" -> {QueryItem(Q!Q("drop", t, {}, v)) : t \in Existing, v \in Values}
      [] pr = "fault" ->
            {FaultItem(f) : f \in IF DisableReopenDatabase THEN {"Disconnect"}
                                   ELSE {"Disconnect", "ReopenDatabase"}}
      [] pr = "property" ->
            LET Fillers == {<<>>} \cup {<<Q!Q("insert", u, {}, v)>> : u \in Existing, v \in Values}
                TableFor(n) == IF n = "DoubleCreateFailure" THEN Tables ELSE Existing
            IN  UNION {{PropertyItem(n, t, v, p, f) :
                          t \in TableFor(n), v \in Values, p \in Preds, f \in Fillers} :
                       n \in PropertyNames}

\* First create at least one table: the CREATE is pushed into env.tables
\* directly and is the first item of the plan.
Init ==
    \E t \in Tables, v \in Values :
        /\ tables = [Q!EmptyCatalog EXCEPT ![t] = <<>>]
        /\ plan = <<QueryItem(Q!Q("create", t, {}, v))>>
        /\ status = "generating"

\* One iteration of `while plan.plan.len() < limit`: draw, shadow, push.
GenerateBelow(limit) ==
    /\ status = "generating"
    /\ Len(plan) < limit
    /\ \E pr \in Producers :
          /\ Weights(Remaining(Stats(plan)))[pr] > 0
          /\ \E item \in Draws(pr) :
                /\ tables' = ShadowItem(tables, item)
                /\ plan' = Append(plan, item)
    /\ UNCHANGED status

\* Mutant: `while plan.plan.len() <= num_interactions`.
GenerateInteractionPastEnd == GenerateBelow(MaxInteractions + 1)

GenerateInteraction == GenerateBelow(MaxInteractions)

Finish ==
    /\ status = "generating"
    /\ Len(plan) >= MaxInteractions
    /\ status' = "done"
    /\ UNCHANGED <<tables, plan>>

Next == GenerateInteraction \/ Finish

Spec == Init /\ [][Next]_vars

-----------------------------------------------------------------------------
TypeOK ==
    /\ tables \in Q!Catalog
    /\ Len(plan) \in 1..MaxInteractions
    /\ status \in {"generating", "done"}

\* The shadow catalog is the result of applying every query of the plan
\* exactly once, in plan order (spec 9, "Shadow re-entrancy").
ShadowAppliesEachQueryOnce == tables = ApplyAll(Q!EmptyCatalog, AllQueries(plan))

\* While generation goes on the catalog holds a table for the producers
\* that pick one (spec 8, invariant 1).
CatalogNonEmpty == status = "generating" => Existing # {}

=============================================================================
