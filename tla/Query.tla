------------------------------- MODULE Query -------------------------------
(***************************************************************************)
(* The Query AST and its shadow semantics (spec 4.1; the query types live  *)
(* in the simulator's model::query module, which is not part of src/).     *)
(*                                                                         *)
(* A catalog maps every table name either to NoTable or to its rows.  A    *)
(* row is one value of a small set; a predicate is the set of row values   *)
(* it holds for (three-valued logic collapses to "holds / does not hold"   *)
(* for filtering).  The same semantics serves as the shadow model of the   *)
(* generator and as the behaviour of a correct engine in the interpreter.  *)
(***************************************************************************)
EXTENDS Naturals, Sequences, SequencesExt

CONSTANTS Tables, Values, NoTable

ASSUME NoTable \notin Tables \cup Values

Kinds == {"create", "create_index", "insert", "delete", "update", "drop", "select"}

\* One record shape for every variant; a variant ignores the fields it
\* does not carry.
Query == [kind : Kinds, table : Tables, pred : SUBSET Values, val : Values]

Q(kind, t, pred, val) == [kind |-> kind, table |-> t, pred |-> pred, val |-> val]

Catalog == [Tables -> Seq(Values) \cup {NoTable}]

EmptyCatalog == [t \in Tables |-> NoTable]

Exists(cat, t) == cat[t] # NoTable

\* Query::shadow for each variant: Create is a no-op on an existing table,
\* Drop removes without error, Insert appends, Delete keeps the rows the
\* predicate does not hold for, Update rewrites the rows it holds for,
\* Select and CreateIndex leave the rows alone.  A write to a table that
\* does not exist changes nothing.
Shadow(cat, q) ==
    LET t == q.table IN
    CASE q.kind = "create" ->
            IF Exists(cat, t) THEN cat ELSE [cat EXCEPT ![t] = <<>>]
      [] q.kind = "drop" -> [cat EXCEPT ![t] = NoTable]
      [] ~Exists(cat, t) \/ q.kind \in {"select", "create_index"} -> cat
      [] q.kind = "insert" -> [cat EXCEPT ![t] = Append(@, q.val)]
      [] q.kind = "delete" -> [cat EXCEPT ![t] = SelectSeq(@, LAMBDA r : r \notin q.pred)]
      [] q.kind = "update" ->
            [cat EXCEPT ![t] = [n \in DOMAIN @ |-> IF @[n] \in q.pred THEN q.val ELSE @[n]]]

\* The rows a query returns: Select filters by its predicate, in table order.
Rows(cat, q) ==
    IF q.kind = "select" /\ Exists(cat, q.table) THEN SelectSeq(cat[q.table], LAMBDA r : r \in q.pred)
    ELSE <<>>

\* What a correct engine rejects when the statement is prepared: creating a
\* table that exists, or touching one that does not.
Rejects(cat, q) ==
    IF q.kind = "create" THEN Exists(cat, q.table) ELSE ~Exists(cat, q.table)

=============================================================================
