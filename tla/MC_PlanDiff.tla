---------------------------- MODULE MC_PlanDiff ----------------------------
(***************************************************************************)
(* A baseline plan shaped like the generator's output: the initial CREATE, *)
(* two properties of three interactions (query, select, assertion), a      *)
(* top-level query and a top-level fault.  Interactions are model values.  *)
(***************************************************************************)
EXTENDS PlanDiff

CONSTANTS Create1, Insert1, Select1, Assert1, Fault1, Delete2, Select2, Assert2, Query3

\* Items of the passing run: all interaction strings distinct, none a
\* substring of another line.
MCBaseline ==
    << [prop |-> FALSE, ix |-> <<Create1>>],
       [prop |-> TRUE,  ix |-> <<Insert1, Select1, Assert1>>],
       [prop |-> FALSE, ix |-> <<Query3>>],
       [prop |-> TRUE,  ix |-> <<Delete2, Select2, Assert2>>],
       [prop |-> FALSE, ix |-> <<Fault1>>] >>

\* The top-level "SELECT * FROM t" is a substring of the later property's
\* "SELECT * FROM t WHERE ..." line.
MCOverlap == {<<Query3, Select2>>}

\* A shorter plan for the blank-line run.
MCBlankBaseline ==
    << [prop |-> FALSE, ix |-> <<Create1>>],
       [prop |-> TRUE,  ix |-> <<Insert1, Select1, Assert1>>],
       [prop |-> FALSE, ix |-> <<Query3>>] >>
=============================================================================
