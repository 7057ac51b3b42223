------------------------- MODULE InterpreterAbstract -------------------------
(***************************************************************************)
(* What the interpreter promises (spec 4.4, 7), with every statement       *)
(* atomic.  A query is one step: it either runs to completion against the  *)
(* committed data, pushing all of its rows and committing its effect, or   *)
(* it fails as a whole, pushing an Err and changing nothing.  The walk of  *)
(* the plan, the checks and the faults are those of the interpreter; the   *)
(* engine's own progress (rows, IO, Busy, Interrupt) is invisible here.    *)
(* Interpreter refines this module with the cursor hidden.                 *)
(***************************************************************************)
EXTENDS Naturals, Sequences, SequencesExt

CONSTANTS Tables, Values, NoTable, Plan, NumConns, EngineFaults, Disconnected

Q == INSTANCE Query

VARIABLES stack, interaction_pointer, secondary_pointer, connections, db_gen, db, status

vars == <<stack, interaction_pointer, secondary_pointer, connections, db_gen, db, status>>

Ok(rows) == [ok |-> TRUE, rows |-> rows]
Err == [ok |-> FALSE, rows |-> <<>>]

Current == Plan[interaction_pointer][secondary_pointer]

Running(type) ==
    /\ status = "running"
    /\ interaction_pointer <= Len(Plan)
    /\ secondary_pointer <= Len(Plan[interaction_pointer])
    /\ Current.type = type

\* A check holds for the newest result on the stack.
Holds(chk) ==
    /\ stack # <<>>
    /\ CASE chk.check = "row_present" -> Last(stack).ok /\ chk.val \in Range(Last(stack).rows)
         [] chk.check = "empty"       -> Last(stack).ok /\ Last(stack).rows = <<>>
         [] chk.check = "err"         -> ~Last(stack).ok

Next1(r) ==
    /\ stack' = Append(stack, r)
    /\ secondary_pointer' = secondary_pointer + 1

Init ==
    /\ stack = <<>>
    /\ interaction_pointer = 1 /\ secondary_pointer = 1
    /\ connections = [c \in 1..NumConns |-> 0]
    /\ db_gen = 0 /\ db = Q!EmptyCatalog
    /\ status = "running"

\* The whole statement commits and its complete result is pushed.
QueryCommits(c) ==
    /\ Running("query")
    /\ connections[c] # Disconnected
    /\ ~Q!Rejects(db, Current.q)
    /\ Next1(Ok(Q!Rows(db, Current.q)))
    /\ db' = Q!Shadow(db, Current.q)
    /\ UNCHANGED <<interaction_pointer, connections, db_gen, status>>

\* The statement fails as a whole: an Err is pushed, nothing is committed.
QueryFails(c) ==
    /\ Running("query")
    /\ \/ connections[c] = Disconnected
       \/ Q!Rejects(db, Current.q)
       \/ "step" \in EngineFaults
    /\ Next1(Err)
    /\ UNCHANGED <<interaction_pointer, connections, db_gen, db, status>>

\* An engine I/O failure while a statement runs stops the simulation.
Panics ==
    /\ Running("query")
    /\ "io" \in EngineFaults
    /\ status' = "panic"
    /\ UNCHANGED <<stack, interaction_pointer, secondary_pointer, connections, db_gen, db>>

Assumption ==
    /\ Running("assume")
    /\ IF Holds(Current)
       THEN /\ secondary_pointer' = secondary_pointer + 1
            /\ UNCHANGED <<stack, interaction_pointer>>
       ELSE /\ stack' = <<>>
            /\ interaction_pointer' = interaction_pointer + 1
            /\ secondary_pointer' = 1
    /\ UNCHANGED <<connections, db_gen, db, status>>

Assertion ==
    /\ Running("assert")
    /\ IF Holds(Current)
       THEN secondary_pointer' = secondary_pointer + 1 /\ UNCHANGED status
       ELSE status' = "failed" /\ UNCHANGED secondary_pointer
    /\ UNCHANGED <<stack, interaction_pointer, connections, db_gen, db>>

Disconnect(c) ==
    /\ Running("fault") /\ Current.fault = "Disconnect"
    /\ IF connections[c] # Disconnected
       THEN connections' = [connections EXCEPT ![c] = Disconnected] /\ Next1(Ok(<<>>))
       ELSE Next1(Err) /\ UNCHANGED connections
    /\ UNCHANGED <<interaction_pointer, db_gen, db, status>>

\* Every slot is reconnected to a newly opened handle; committed data stays.
Reopen ==
    /\ Running("fault") /\ Current.fault = "ReopenDatabase"
    /\ connections' = [c \in 1..NumConns |-> db_gen + 1]
    /\ db_gen' = db_gen + 1
    /\ Next1(Ok(<<>>))
    /\ UNCHANGED <<interaction_pointer, db, status>>

\* Reopening or reconnecting fails: the simulation stops part-way through
\* the reopen, with fewer connections than it had.
ReopenPanics ==
    /\ Running("fault") /\ Current.fault = "ReopenDatabase"
    /\ \/ "open" \in EngineFaults /\ connections' = <<>> /\ UNCHANGED db_gen
       \/ "connect" \in EngineFaults /\ db_gen' = db_gen + 1
          /\ \E k \in 0..(NumConns - 1) : connections' = [c \in 1..k |-> db_gen + 1]
    /\ status' = "panic"
    /\ UNCHANGED <<stack, interaction_pointer, secondary_pointer, db>>

ItemDone ==
    /\ status = "running"
    /\ interaction_pointer <= Len(Plan)
    /\ secondary_pointer > Len(Plan[interaction_pointer])
    /\ stack' = <<>>
    /\ interaction_pointer' = interaction_pointer + 1
    /\ secondary_pointer' = 1
    /\ UNCHANGED <<connections, db_gen, db, status>>

PlanDone ==
    /\ status = "running"
    /\ interaction_pointer > Len(Plan)
    /\ status' = "done"
    /\ UNCHANGED <<stack, interaction_pointer, secondary_pointer, connections, db_gen, db>>

Next ==
    \/ \E c \in 1..NumConns : QueryCommits(c) \/ QueryFails(c) \/ Disconnect(c)
    \/ Panics \/ Assumption \/ Assertion \/ Reopen \/ ReopenPanics \/ ItemDone \/ PlanDone

Spec == Init /\ [][Next]_vars

=============================================================================
