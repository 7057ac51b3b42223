--------------------------- MODULE MC_Interpreter ---------------------------
(***************************************************************************)
(* A plan of the generator's shape over one table T1 (and T2 for the       *)
(* double create): the initial CREATE, then the properties of spec 4.3     *)
(* (InsertValuesSelect with one filler insert, so its select has two rows) *)
(* expanded to their interactions, with two Disconnect faults (the second *)
(* may hit the slot the first closed) and a ReopenDatabase after them.    *)
(***************************************************************************)
EXTENDS Interpreter

CONSTANTS T1, T2, V1, V2

Do(kind, t, pred, val) == [type |-> "query", q |-> Q!Q(kind, t, pred, val)]
Check(type, check) == [type |-> type, check |-> check, val |-> V1]
Fault(f) == [type |-> "fault", fault |-> f]

MCPlan ==
    << << Do("create", T1, {}, V1) >>,
       \* InsertValuesSelect
       << Do("insert", T1, {}, V1), Do("insert", T1, {}, V2), Do("select", T1, {V1, V2}, V1),
          Check("assert", "row_present") >>,
       << Fault("Disconnect") >>,
       << Fault("Disconnect") >>,
       \* DoubleCreateFailure
       << Do("create", T2, {}, V1), Do("create", T2, {}, V1), Check("assume", "err") >>,
       \* DeleteSelect
       << Do("delete", T1, {V1}, V1), Do("select", T1, {V1}, V1), Check("assert", "empty") >>,
       << Fault("ReopenDatabase") >>,
       \* DropSelect
       << Do("drop", T1, {}, V1), Do("select", T1, {V1, V2}, V1), Check("assert", "err") >> >>
=============================================================================
