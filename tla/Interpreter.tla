---------------------------- MODULE Interpreter ----------------------------
(***************************************************************************)
(* The interpreter stepping an InteractionPlan against the engine          *)
(* (src/simulator/generation/plan.rs: InteractionPlanState,               *)
(* Interaction::execute_query / execute_assertion / execute_assumption /   *)
(* execute_fault; the step loop itself is spec 4.4).                      *)
(*                                                                         *)
(* The plan is a constant: a sequence of items, each the sequence of       *)
(* interactions Interactions::interactions() expands it to.  The engine    *)
(* is a correct SQL engine (Query!Shadow) whose statement stream may       *)
(* still answer IO / Busy / Interrupt, fail a step, or fail an I/O or a    *)
(* reopen, as the set EngineFaults allows.  Each query or fault runs on a  *)
(* connection slot the runner chooses, modelled as any slot.               *)
(***************************************************************************)
EXTENDS Naturals, Sequences, FiniteSets, SequencesExt

CONSTANTS
    Tables, Values, NoTable,
    Plan,          \* Seq(Seq(Interaction))
    NumConns,      \* env.connections.len() at start
    MaxSpins,      \* bound on IO/Busy/Interrupt answers within one statement
    EngineFaults,  \* subset of {"step", "io", "open", "connect"}: which engine calls may fail
    Disconnected   \* SimConnection::Disconnected

Q == INSTANCE Query

ASSUME NumConns \in Nat \ {0} /\ MaxSpins \in Nat
ASSUME EngineFaults \subseteq {"step", "io", "open", "connect"}

\* An assertion or assumption is a check of the newest result on the stack:
\* "row_present" (val is among its rows), "empty" (no rows), "err" (the
\* statement failed).
Interaction ==
         [type : {"query"}, q : Q!Query]
    \cup [type : {"assume", "assert"}, check : {"row_present", "empty", "err"}, val : Values]
    \cup [type : {"fault"}, fault : {"Disconnect", "ReopenDatabase"}]

Ok(rows) == [ok |-> TRUE, rows |-> rows]
Err == [ok |-> FALSE, rows |-> <<>>]

VARIABLES
    stack,                \* InteractionPlanState.stack
    interaction_pointer,  \* 1-based index into Plan
    secondary_pointer,    \* 1-based index into Plan[interaction_pointer]
    connections,          \* env.connections: slot -> handle generation or Disconnected
    db_gen,               \* generation of env.db; a reopen makes a new one
    db,                   \* the engine's committed tables
    cursor,               \* the statement execute_query is stepping, if any
    status                \* "running", "querying", "done", "failed", "panic"

vars == <<stack, interaction_pointer, secondary_pointer, connections, db_gen, db, cursor, status>>

NoCursor == [conn |-> 0, q |-> Q!Q("select", CHOOSE t \in Tables : TRUE, {}, CHOOSE v \in Values : TRUE),
             pending |-> <<>>, out |-> <<>>, spins |-> 0]

Current == Plan[interaction_pointer][secondary_pointer]

InItem ==
    /\ interaction_pointer <= Len(Plan)
    /\ secondary_pointer <= Len(Plan[interaction_pointer])

Init ==
    /\ stack = <<>>
    /\ interaction_pointer = 1
    /\ secondary_pointer = 1
    /\ connections = [c \in 1..NumConns |-> 0]
    /\ db_gen = 0
    /\ db = Q!EmptyCatalog
    /\ cursor = NoCursor
    /\ status = "running"

Push(r) ==
    /\ stack' = Append(stack, r)
    /\ secondary_pointer' = secondary_pointer + 1

(***************************************************************************)
(* Spec 4.4 steps 1 and 3: the plan is finished, or the current item is.   *)
(***************************************************************************)
Finish ==
    /\ status = "running"
    /\ interaction_pointer > Len(Plan)
    /\ status' = "done"
    /\ UNCHANGED <<stack, interaction_pointer, secondary_pointer, connections, db_gen, db, cursor>>

\* Clear the stack, advance interaction_pointer and reset secondary_pointer
\* to the first interaction of the next item.
NextItem ==
    /\ status = "running"
    /\ interaction_pointer <= Len(Plan)
    /\ secondary_pointer > Len(Plan[interaction_pointer])
    /\ stack' = <<>>
    /\ interaction_pointer' = interaction_pointer + 1
    /\ secondary_pointer' = 1
    /\ UNCHANGED <<connections, db_gen, db, cursor, status>>

(***************************************************************************)
(* execute_query.  conn.query(sql) either fails (the error is returned and *)
(* pushed) or yields a statement whose step() loop is entered.  A slot     *)
(* that has been disconnected answers every query with an error.           *)
(***************************************************************************)
StartQuery(c) ==
    /\ status = "running"
    /\ InItem
    /\ Current.type = "query"
    /\ c \in DOMAIN connections
    /\ IF connections[c] = Disconnected \/ Q!Rejects(db, Current.q)
       THEN /\ Push(Err)
            /\ UNCHANGED <<cursor, status>>
       ELSE /\ cursor' = [conn |-> c, q |-> Current.q, pending |-> Q!Rows(db, Current.q),
                          out |-> <<>>, spins |-> 0]
            /\ status' = "querying"
            /\ UNCHANGED <<stack, secondary_pointer>>
    /\ UNCHANGED <<interaction_pointer, connections, db_gen, db>>

\* Mutant: out = vec![r] instead of out.push(r).
StepRowOverwrites ==
    /\ status = "querying"
    /\ cursor.pending # <<>>
    /\ cursor' = [cursor EXCEPT !.out = <<Head(cursor.pending)>>, !.pending = Tail(@)]
    /\ UNCHANGED <<stack, interaction_pointer, secondary_pointer, connections, db_gen, db, status>>

\* StepResult::Row: the row's values are collected into out.
StepRow ==
    /\ status = "querying"
    /\ cursor.pending # <<>>
    /\ cursor' = [cursor EXCEPT !.out = Append(@, Head(cursor.pending)),
                                !.pending = Tail(@)]
    /\ UNCHANGED <<stack, interaction_pointer, secondary_pointer, connections, db_gen, db, status>>

\* StepResult::IO runs io.run_once().unwrap(); Busy and Interrupt step again.
StepRetry(r) ==
    /\ status = "querying"
    /\ cursor.spins < MaxSpins
    /\ cursor' = [cursor EXCEPT !.spins = @ + 1]
    /\ UNCHANGED <<stack, interaction_pointer, secondary_pointer, connections, db_gen, db, status>>

\* io.run_once() returns an error: the unwrap panics.
StepIOFails ==
    /\ status = "querying"
    /\ "io" \in EngineFaults
    /\ status' = "panic"
    /\ UNCHANGED <<stack, interaction_pointer, secondary_pointer, connections, db_gen, db, cursor>>

\* Mutant: StepResult::Done without the `break`: the loop steps again and
\* the finished statement answers Done forever.
StepDoneNoBreak ==
    /\ status = "querying"
    /\ cursor.pending = <<>>
    /\ UNCHANGED vars

\* StepResult::Done: the statement's effect is committed, Ok(out) is pushed.
StepDone ==
    /\ status = "querying"
    /\ cursor.pending = <<>>
    /\ db' = Q!Shadow(db, cursor.q)
    /\ Push(Ok(cursor.out))
    /\ cursor' = NoCursor
    /\ status' = "running"
    /\ UNCHANGED <<interaction_pointer, connections, db_gen>>

\* step() returns Err: `while let Ok(row) = rows.step()` stops and the rows
\* collected so far are returned as Ok; the statement is rolled back.
StepFails ==
    /\ status = "querying"
    /\ "step" \in EngineFaults
    /\ Push(Ok(cursor.out))
    /\ cursor' = NoCursor
    /\ status' = "running"
    /\ UNCHANGED <<interaction_pointer, connections, db_gen, db>>

(***************************************************************************)
(* execute_assumption / execute_assertion run the check on the stack.  A   *)
(* check of an empty stack is an Err of the closure, which both treat as   *)
(* a failed check.                                                         *)
(***************************************************************************)
Holds(chk, stk) ==
    /\ stk # <<>>
    /\ LET last == Last(stk) IN
       CASE chk.check = "row_present" -> last.ok /\ chk.val \in Range(last.rows)
         [] chk.check = "empty"       -> last.ok /\ last.rows = <<>>
         [] chk.check = "err"         -> ~last.ok

\* Mutant: an aborted item leaves its results on the stack.
ExecuteAssumptionKeepsStack ==
    /\ status = "running"
    /\ InItem
    /\ Current.type = "assume"
    /\ IF Holds(Current, stack)
       THEN /\ secondary_pointer' = secondary_pointer + 1
            /\ UNCHANGED interaction_pointer
       ELSE /\ interaction_pointer' = interaction_pointer + 1
            /\ secondary_pointer' = 1
    /\ UNCHANGED <<stack, connections, db_gen, db, cursor, status>>

\* Ok(true) continues; Ok(false) or Err aborts the item and clears the stack.
ExecuteAssumption ==
    /\ status = "running"
    /\ InItem
    /\ Current.type = "assume"
    /\ IF Holds(Current, stack)
       THEN /\ secondary_pointer' = secondary_pointer + 1
            /\ UNCHANGED <<stack, interaction_pointer>>
       ELSE /\ stack' = <<>>
            /\ interaction_pointer' = interaction_pointer + 1
            /\ secondary_pointer' = 1
    /\ UNCHANGED <<connections, db_gen, db, cursor, status>>

\* Ok(true) continues; Ok(false) or Err fails the run with the message.
ExecuteAssertion ==
    /\ status = "running"
    /\ InItem
    /\ Current.type = "assert"
    /\ IF Holds(Current, stack)
       THEN /\ secondary_pointer' = secondary_pointer + 1
            /\ UNCHANGED status
       ELSE /\ status' = "failed"
            /\ UNCHANGED secondary_pointer
    /\ UNCHANGED <<stack, interaction_pointer, connections, db_gen, db, cursor>>

(***************************************************************************)
(* execute_fault.  The Result it returns is pushed like a query's.          *)
(***************************************************************************)
IsFault(f) ==
    /\ status = "running"
    /\ InItem
    /\ Current.type = "fault"
    /\ Current.fault = f

\* Disconnect a live slot; a slot already disconnected is an error.
Disconnect(c) ==
    /\ IsFault("Disconnect")
    /\ c \in DOMAIN connections
    /\ IF connections[c] # Disconnected
       THEN /\ connections' = [connections EXCEPT ![c] = Disconnected]
            /\ Push(Ok(<<>>))
       ELSE /\ Push(Err)
            /\ UNCHANGED connections
    /\ UNCHANGED <<interaction_pointer, db_gen, db, cursor, status>>

\* Drop every connection, reopen the database file and connect num_conns
\* fresh connections.  Committed rows survive the reopen.
ReopenWith(num_conns) ==
    /\ IsFault("ReopenDatabase")
    /\ connections' = [c \in 1..num_conns |-> db_gen + 1]
    /\ db_gen' = db_gen + 1
    /\ Push(Ok(<<>>))
    /\ UNCHANGED <<interaction_pointer, db, cursor, status>>

\* Mutant: num_conns read after env.connections.clear().
ReopenDatabaseCountsAfterClear == ReopenWith(0)

\* num_conns is read before env.connections.clear().
ReopenDatabase == ReopenWith(Len(connections))

\* Database::open_file fails: the simulator panics.
ReopenFails ==
    /\ IsFault("ReopenDatabase")
    /\ "open" \in EngineFaults
    /\ connections' = <<>>
    /\ status' = "panic"
    /\ UNCHANGED <<stack, interaction_pointer, secondary_pointer, db_gen, db, cursor>>

\* The database reopened, but env.db.connect().unwrap() panics on the
\* (k+1)-th fresh connection: the simulator stops with only k of them.
ReconnectFails ==
    /\ IsFault("ReopenDatabase")
    /\ "connect" \in EngineFaults
    /\ \E k \in 0..(Len(connections) - 1) :
          connections' = [c \in 1..k |-> db_gen + 1]
    /\ db_gen' = db_gen + 1
    /\ status' = "panic"
    /\ UNCHANGED <<stack, interaction_pointer, secondary_pointer, db, cursor>>

\* The steps the simulator loop takes on its own, and the answers of an
\* engine that works.
Progress ==
    \/ Finish
    \/ NextItem
    \/ \E c \in 1..NumConns : StartQuery(c) \/ Disconnect(c)
    \/ StepRow
    \/ \E r \in {"IO", "Busy", "Interrupt"} : StepRetry(r)
    \/ StepDone
    \/ ExecuteAssumption
    \/ ExecuteAssertion
    \/ ReopenDatabase

\* Engine failures: they may happen, nothing makes them happen.
EngineFailure == StepIOFails \/ StepFails \/ ReopenFails \/ ReconnectFails

Next == Progress \/ EngineFailure

\* The simulator is one loop that keeps stepping while it has a step to
\* take; the engine's failures get no fairness.
Spec == Init /\ [][Next]_vars /\ WF_vars(Progress)

-----------------------------------------------------------------------------
Terminated == status \in {"done", "failed", "panic"}

\* The results stack belongs to the current item: while an item runs it
\* holds exactly one result for each query and fault of that item already
\* executed, none left over from an earlier item, whether that item ran to
\* its end or was cut short by a failed assumption (spec 4.4, 7).
StackScoped ==
    (status \in {"running", "querying"} /\ interaction_pointer <= Len(Plan)) =>
        Len(stack) = Cardinality({m \in 1..(secondary_pointer - 1) :
                                    Plan[interaction_pointer][m].type \in {"query", "fault"}})

\* Across disconnects and reopens the run keeps its number of connection
\* slots, and every live slot is a connection to the database handle now
\* open, never to one a reopen closed (spec 3 lifecycle, 5 resources).
ConnectionsLive ==
    status # "panic" =>
        /\ Len(connections) = NumConns
        /\ \A c \in DOMAIN connections : connections[c] \in {Disconnected, db_gen}

\* The simulation ends: the plan completes, an assertion fails or the
\* engine makes it panic; no statement is stepped forever.
Termination == <>Terminated

\* A query result pushed as Ok means the statement ran to Done: every row
\* the engine produced is in it and its effect is committed (spec 4.4:
\* "Collect rows ... and return Ok"; spec 7: engine errors are captured
\* into the ResultSet).
OkMeansCompleted ==
    [][ (status = "querying" /\ status' = "running" /\ Last(stack').ok) =>
           /\ cursor.pending = <<>>
           /\ db' = Q!Shadow(db, cursor.q) ]_vars

\* An engine error while a query runs becomes data on the stack, and the
\* simulator panics only when a ReopenDatabase fault fails to
\* reopen or reconnect (spec 7: engine errors during execute_query are
\* captured into the ResultSet; "Reopen failures -- panic").  The code
\* also panics in execute_query, on io.run_once().unwrap().
PanicsOnlyOnReopen ==
    [][status' = "panic" => Current.type = "fault" /\ Current.fault = "ReopenDatabase"]_vars

-----------------------------------------------------------------------------
(***************************************************************************)
(* Refinement.  Hiding the cursor, and reading a statement that is being    *)
(* stepped as the interpreter still running it, every behaviour of this    *)
(* module is one of InterpreterAbstract: each statement appears to run     *)
(* atomically, with all of its rows or none of its effect.                 *)
(***************************************************************************)
Abs == INSTANCE InterpreterAbstract
           WITH status <- IF status = "querying" THEN "running" ELSE status

\* execute_query, for all its IO / Busy / Interrupt answers and row-by-row
\* collection, behaves as one atomic statement: an Ok result carries every
\* row the statement selects from the data committed before it, and the
\* statement's effect is committed exactly when its Ok is pushed.
StatementsAtomic == Abs!Spec

=============================================================================
