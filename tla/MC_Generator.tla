---------------------------- MODULE MC_Generator ----------------------------
(***************************************************************************)
(* Two table names (so a random CREATE can collide with an existing table), *)
(* one row value and one predicate, plans of five items, and targets small  *)
(* enough that every kind's slack runs out within the plan.                *)
(***************************************************************************)
EXTENDS Generator

CONSTANTS T1, T2, V1

MCTarget ==
    [read |-> 1, write |-> 1, delete |-> 1, update |-> 1, create |-> 1,
     create_index |-> 1, drop |-> 0]

\* Property::arbitrary_from without DropSelect, so no step of generation
\* removes a table.
MCPropertiesNoDrop ==
    {"InsertValuesSelect", "DoubleCreateFailure", "SelectLimit",
     "DeleteSelect", "SelectSelectOptimizer"}

MCPropertiesAll == MCPropertiesNoDrop \cup {"DropSelect"}
=============================================================================
