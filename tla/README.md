# TLA+ models of the limbo simulator core

This directory holds TLA+ models of the simulator core of this repository:
plan generation with the shadow model, the interpreter that runs a plan
against the engine, and the plan diff used to shrink a failing plan by
hand. It also holds the TLC configurations that check the models.
`spec.md` describes the system. The code under `src/` is
`src/simulator/generation/plan.rs` (the core), `src/cli/main.rs` (the
REPL entry point) and `src/tests/integration/tcl_port/orderby.rs`
(fixed-result SQL tests).

Run a check from this directory with
`tlc -workers 2 -config <cfg> <MC module>`. The module for each run is
listed below and in `PROJECT.json`.

## 1. Inventory

### Components

| Component | Code | State | Operations |
|---|---|---|---|
| Query AST & shadow | `model::query` (not in `src/`; spec 4.1) | a catalog of tables and their rows | `Query::shadow` for Create, CreateIndex, Insert, Delete, Update, Drop, Select |
| Plan generator | `plan.rs` 472-500, 672-777 | `env.tables`, `plan.plan` | `InteractionPlan::arbitrary_from`, `Interactions::arbitrary_from` (weights for `frequency`), `random_*` producers |
| Interactions shadow & stats | `plan.rs` 288-414, 421-469 | `env.tables` | `Interactions::shadow`, `InteractionPlan::stats` |
| Property library | `generation::property` (not in `src/`; spec 4.3) | none (values) | `Property::arbitrary_from`, `Property::interactions`, assertion closures, `remaining` |
| Interpreter | step loop (not in `src/`; spec 4.4); `plan.rs` 101-105, 509-614 | `InteractionPlanState { stack, interaction_pointer, secondary_pointer }` | one step; `execute_query` (the `step()` loop over Row/IO/Busy/Interrupt/Done); `execute_assertion`; `execute_assumption` |
| Fault executor | `plan.rs` 616-669 | `env.connections`, `env.db` | `Disconnect`, `ReopenDatabase` |
| Plan text & diff | `plan.rs` 44-98, 172-206, 243-252 | none (pure function of the two files) | `Display for InteractionPlan`, `compute_via_diff` |
| Dependency helpers | `plan.rs` 132-170 | none | `dependencies`, `uses` (used by shrinking outside `src/`) |
| CLI REPL | `src/cli/main.rs` | `interrupt_count`, history file | read a line, Ctrl-C, EOF, save history |
| Integration tests | `src/tests/.../orderby.rs` | none | fixed SELECT … ORDER BY results |

### How the components interact

- The generator calls the property library and the `random_*` producers.
  After each draw it calls `Interactions::shadow`, which mutates
  `env.tables`. Later draws read `env.tables` to pick a table.
- The generator reads `plan.stats()` back through `remaining`. The
  weights handed to `frequency` are computed from that slack.
- The interpreter walks the plan with two pointers. Each query result
  goes on a results stack. Assumptions and assertions are closures over
  that stack and `env`.
- Faults change the connection vector (`env.connections`) and the
  database handle that every query uses.
- `execute_query` is a cooperative loop over the engine's `step()`. The
  engine can answer IO (the loop calls `io.run_once()`), Busy or
  Interrupt (the loop steps again), Row, or Done. `step()` can also
  return an error.
- The plan diff reads the JSON plan and the text plan written by
  `Display`. It rebuilds the plan from the text lines the user kept.

### What is hard here

Everything runs on one thread (spec 5), so there is no data race. The
hard parts are these:

- **Ordering and protocol:** the two-pointer walk of the interpreter and
  the three-index walk of the diff. A long sequence of legal edits or
  steps can reach a wrong plan or a stale stack.
- **Partial failure inside `execute_query`:** a failed `step()`, a failed
  `io.run_once()`, or a failed reopen.
- **Restart:** `ReopenDatabase` drops every connection and reopens the
  file. The connections that existed must all be replaced.
- **Liveness:** the `step()` loop retries Busy and Interrupt with no
  bound of its own.
- **Resource bounds:** the generator's per-kind budgets run out, and its
  `frequency` must still have something to draw.

### Properties each component needs

- **Plan diff:** the rebuilt plan is exactly what the user kept (spec
  invariants 6 and 7, scenario S5).
- **Generator and shadow:** each query is shadowed exactly once (spec 9).
  The catalog is non-empty whenever a producer picks a table (spec
  invariant 1). `frequency` never faces a zero total weight; the fault
  weight's `.max(1.0)` guarantees this by itself, so no run checks it.
- **Interpreter:** the stack holds the current item's results only. An Ok
  result means the statement completed. Only a failed reopen panics the
  simulator (spec 7). The run terminates.
- **Fault executor:** the run keeps its number of connection slots, and
  no live slot points at a closed database.

The hazards, each at its line, are listed in `PROJECT.json`.

## 2. Modules

| Module | Models | State ↔ code |
|---|---|---|
| `Query` | the shadow semantics (spec 4.1) | A catalog `[Tables -> Seq(Values) ∪ {NoTable}]` is `env.tables`. A row is one value. A predicate is the set of values it holds for. `Shadow`, `Rows` and `Rejects` give the shadow effect, the rows a Select returns, and what a correct engine refuses at prepare time. |
| `PlanDiff` | `compute_via_diff` and the `Display` text | `Outer`, `Inner` and `AfterItem` are the two loops (i = text line, j = item, k = interaction), written as recursive operators. The state machine around them is a watch-mode session: `edit` records what the user did to each rendered line, and `plan` is the recomputed result. |
| `Generator` (instances `Query`) | `arbitrary_from`, weights, producers, `Interactions::shadow`, `stats` | `tables` is `env.tables` and `plan` is `plan.plan`. `GenerateInteraction` is one iteration of the generation loop: draw among the producers of positive weight, shadow, push. |
| `InterpreterAbstract` (instances `Query`) | what the interpreter promises (spec 4.4, 7) | It has the same variables as `Interpreter` minus the cursor. `QueryCommits` and `QueryFails` are whole statements. The checks, the faults and the walk of the plan are as in the code. |
| `Interpreter` (instances `Query`, `InterpreterAbstract`) | the step loop, `execute_query`, `execute_assumption`, `execute_assertion`, `execute_fault` | `stack`, `interaction_pointer` and `secondary_pointer` are `InteractionPlanState`. `connections` maps each slot to a database-handle generation or `Disconnected`. `db` is the engine's committed data. `cursor` is the statement being stepped. Each `StepResult` arm is its own action. |

The `MC_*` modules fix the constants: model values for tables, values and
interactions, and the plans and targets.

### Abstractions

- SQL text, `SimValue` affinity and predicate ASTs are not modelled. Only
  what the shadow model and the checks distinguish is kept: one or two
  tables, one or two row values, and predicates as value sets.
- A text line is its kind (begin, end, empty, or interaction) plus the
  interaction it was rendered from. The substring test `contains` is the
  constant relation `Overlap`. It lists which interaction strings are
  substrings of which other lines.
- An assertion or assumption closure is a check of the newest result:
  row present, empty, or error.
- The engine behind `Connection` is correct. It applies `Query!Shadow` at
  Done and returns the rows of `Query!Rows`. Failures are opt-in through
  `EngineFaults`:
  - a failed `step()`;
  - a failed `io.run_once()`;
  - a failed `Database::open_file`;
  - a failed `env.db.connect()` while a reopen reconnects its slots.

  `conn.query` answering `Ok(None)` (the `assert!` at 523) is not among
  them. The engine gives no row stream only for an empty statement, and a
  generated statement is never empty.
- The runner picks `conn_index` (outside `src/`). The model lets it be any
  slot.
- A query on a slot already disconnected returns an error. That error is
  data on the stack (spec 7).
- The shadow that the runner applies during interpretation
  (`Interaction::shadow`, 502-507) is not modelled. The runner that calls
  it, and every assertion that reads it, are outside `src/`.
- The `Result` of `execute_fault` is pushed on the stack like a query
  result (spec 7: "returned as engine-style errors so properties can
  assert over them").

## 3. Runs

| Run | Module / cfg | Expect | What it shows |
|---|---|---|---|
| `plan_diff` | `MC_PlanDiff` / `PlanDiff.cfg` | pass | Over every set of deleted lines of a 13-line plan (8192 edits), the rebuilt plan is exactly the kept interactions, grouped by item, with emptied items dropped. |
| `plan_diff_blank_sound` | `MC_PlanDiff` / `PlanDiffBlankSound.cfg` | pass | The user may delete or clear each line of a 7-line plan (3^7 edits). The rebuilt plan never keeps an interaction whose line is gone, even where it drops more than the user removed. |
| `plan_diff_overlap` | `MC_PlanDiff` / `PlanDiffOverlap.cfg` | violation | A top-level `SELECT` whose text is a substring of a later property's line. Deleting it and the first line of that property brings the deleted query back and drops the kept select. |
| `plan_diff_blank` | `MC_PlanDiff` / `PlanDiffBlank.cfg` | violation | Clearing a line inside a property, instead of deleting it, removes the rest of that property and the items after it. |
| `interpreter` | `MC_Interpreter` / `Interpreter.cfg` | pass | The plan has eight items (properties, faults, the initial create) and two connections. With every engine failure enabled, the stack stays scoped to its item, the connection slots stay fixed and live, and the run terminates. |
| `interpreter_refinement` | `MC_Interpreter` / `InterpreterRefinement.cfg` | pass | `Interpreter` implements `InterpreterAbstract` under a mapping that hides the cursor and reads `querying` as `running`. Every statement is atomic: an `Ok` carries all of the statement's rows and its commit, and an `Err` changes nothing. It runs with every engine failure except `step()`, which is the known bug. |
| `interpreter_panic` | `MC_Interpreter` / `InterpreterPanic.cfg` | violation | `PanicsOnlyOnReopen`, spec 7's policy: an engine error during `execute_query` becomes a result, and only reopen failures panic. The plan's first CREATE gets IO, `io.run_once()` fails, and its `unwrap()` (plan.rs:538) panics the simulator. |
| `interpreter_step_error` | `MC_Interpreter` / `InterpreterStepError.cfg` | violation | A `step()` error ends `execute_query`'s loop. The loop returns `Ok` with the rows collected so far, for a statement that never committed. |
| `generator` | `MC_Generator` / `Generator.cfg` | pass | With budgets that run out within the plan, the generation loop (`while plan.plan.len() < num_interactions`) draws with the code's weights and never grows the plan past `max_interactions`. The mutant `<=` breaks it. |
| `generator_shadow` | `MC_Generator` / `GeneratorShadow.cfg` | violation | `Interactions::shadow` applies a property's queries twice: an InsertValuesSelect leaves its row in the shadow table twice. |
| `generator_drop_select` | `MC_Generator` / `GeneratorDropSelect.cfg` | violation | A DropSelect property can drop the only table. The next `random_read`, `random_write`, `random_delete` or `random_update` then has no table to pick. |

### Bounds and why they are enough

- **`plan_diff`:** five items (create, property, query, property, fault)
  give 13 lines. That covers every position a deletion can hit: a marker
  line, the first, middle or last line of a property, a one-line item,
  and the end of the text. All 2^13 deletion sets are checked. The
  blank-line runs use the first three items (7 lines, a property among
  them), so all 3^7 delete/clear combinations stay cheap.
- **`interpreter`:** two connection slots are the fewest that let a
  Disconnect hit a live slot and later a dead one. `MaxSpins = 2` lets a
  statement see IO, Busy and Interrupt before it finishes.
- **`interpreter` plan:** it has four of the six property shapes:
  InsertValuesSelect, DoubleCreateFailure, DeleteSelect and DropSelect.
  SelectLimit and SelectSelectOptimizer are only selects and an
  assertion, which those four already exercise. The plan also has two
  Disconnects and a reopen. InsertValuesSelect's filler insert makes its
  select return two rows, so the refinement compares a multi-row result
  collected row by row.
- **`generator`:**
  - Two table names let a random CREATE collide with an existing table,
    which takes DoubleCreateFailure's early return.
  - Five items with targets of 1 exhaust every budget before the plan is
    full, so the loop keeps drawing with only the fault weight's
    `max(1.0)` floor left.

### Fairness

The interpreter is one loop that always takes its next step. Only the
interpreter's own steps and the normal answers of a working engine are
weakly fair (`WF_vars(Progress)`). The engine's failures get no fairness,
so a run is never forced to fail.

`MaxSpins` bounds how often one statement answers IO, Busy or Interrupt.
This encodes an assumption about the engine: it eventually makes
progress. `execute_query` itself has no such bound, so an engine stuck in
Busy would spin it forever (a hazard in `PROJECT.json`).

The generator and the diff need no fairness. Their runs check safety
only.

Deadlock checking is off in every run. Each system stops by design:
- the generator when the plan is full;
- the interpreter when the plan is done, an assertion fails or it panics;
- the editing session when the user stops.

## 4. Plan

Order of work, most important behaviour first:

1. **Done:**
   - `PlanDiff`, the only component entirely under `src/`, against its
     reference.
   - `Interpreter` with both faults, the `step()` loop and every engine
     failure: `step()`, `io.run_once()`, `open_file`, and `connect()`
     during a reopen.
   - `Generator` with `Interactions::shadow` and the weights.
   - `InterpreterAbstract`, with `Interpreter` checked to refine it
     (`interpreter_refinement`).
   - The panic policy of spec 7 (`PanicsOnlyOnReopen`, run
     `interpreter_panic`). The `io.run_once()` unwrap violates it.
2. **`System`.** It would compose `Generator` and `Interpreter` on the
   generated plan. Its value depends on the property library's filler
   constraints, for example that a DeleteSelect filler never re-inserts a
   row the predicate matches. The spec does not state these constraints.
   Without them, a composed run fails on plans that the real generator
   never produces.
3. **Edit-by-edit monotonicity of the diff.** This is an action property:
   each further deletion yields a plan contained in the previous one.
   Spec invariant 7 compares only with the unedited plan, and that holds
   by construction. The stronger edit-by-edit form fails under the same
   inputs as `plan_diff_overlap` and `plan_diff_blank`: a further
   deletion can bring back an interaction an earlier one removed. A run
   would add a third symptom of those two findings, not a new cause.
4. **`remaining` with fractional targets** (percent of
   `max_interactions`). This would check whether a property drawn when
   only the create slack is left can push read and write counts past
   their targets.

## 5. Not modelled, and why

- **SQL text, parsing, and `SimValue` ordering and affinity.** These are
  data, not control. The properties do not tell them apart.
- **JSON serialization and file I/O of plan files.** These are pure I/O.
  The diff is modelled on the parsed baseline and the text lines.
- **The engine's WAL and durability across `ReopenDatabase`** (spec
  invariant 9). The engine is an external collaborator (spec 1). The
  model assumes committed rows survive.
- **`dependencies` and `uses`.** They are only used by shrinking code
  outside `src/`.
- **Integration tests (`orderby.rs`).** They assert fixed result sets and
  have no state machine.
- **The CLI REPL** (`src/cli/main.rs`). It is out of the core's scope
  (spec 1). The file only sequences calls into the `app` module:
  - `handle_input_line`;
  - `reset_input`;
  - `handle_remaining_input`;
  - `close_conn`.

  `app` is not in the repository. The one protocol here is the double
  Ctrl-C exit on `interrupt_count`, an atomic shared with `app`'s
  query-time Ctrl-C handling. That protocol depends on where `app`
  increments and resets the counter, which cannot be read from the
  code. A model of `main.rs` alone would only restate that each of its
  three loop exits calls `close_conn`.
