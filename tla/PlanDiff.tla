------------------------------ MODULE PlanDiff ------------------------------
(***************************************************************************)
(* InteractionPlan::compute_via_diff (src/simulator/generation/plan.rs).   *)
(*                                                                         *)
(* The simulator writes every plan twice: as JSON (the baseline) and as    *)
(* the human-readable text of `impl Display for InteractionPlan`.  In      *)
(* watch mode the user deletes lines of the text and the plan is rebuilt   *)
(* from the baseline by walking the text lines in lockstep with the        *)
(* baseline's interactions, keeping an interaction when the current line   *)
(* contains its `to_string()`.                                             *)
(*                                                                         *)
(* The diff itself is a pure function, written here as the recursive       *)
(* operators Outer / Inner / AfterItem that follow the two nested loops of *)
(* the code step for step.  The state machine around it is the user's      *)
(* editing session: each step deletes (or blanks) one more line of the     *)
(* text and the plan is recomputed, as watch mode does on every save.      *)
(***************************************************************************)
EXTENDS Naturals, Sequences, SequencesExt

CONSTANTS
    Baseline,    \* the JSON plan: a sequence of items [prop |-> BOOLEAN, ix |-> Seq(Interaction)]
    Overlap,     \* pairs <<x, y>>: x.to_string() is a substring of the line rendered for y, x # y
    AllowBlank   \* whether the user may clear a line instead of deleting it

Interaction == UNION {Range(Baseline[n].ix) : n \in DOMAIN Baseline}

ASSUME \A n \in DOMAIN Baseline : Baseline[n].ix # <<>>
ASSUME Overlap \subseteq Interaction \X Interaction
ASSUME AllowBlank \in BOOLEAN

(***************************************************************************)
(* Text lines.  The rendering of a line only matters through which         *)
(* interaction strings it contains, so a line is its kind plus, for an     *)
(* interaction line, the interaction it was rendered from.                 *)
(***************************************************************************)
BeginLine == [kind |-> "begin", of |-> "none"]
EndLine   == [kind |-> "end",   of |-> "none"]
EmptyLine == [kind |-> "empty", of |-> "none"]
IxLine(x) == [kind |-> "ix", of |-> x]

\* impl Display for InteractionPlan: a property is framed by
\* "-- begin testing" / "-- end testing" with one line per interaction;
\* a top-level query or fault is one line.
Render(plan) ==
    FlattenSeq([n \in DOMAIN plan |->
        LET body == [m \in DOMAIN plan[n].ix |-> IxLine(plan[n].ix[m])]
        IN  IF plan[n].prop THEN <<BeginLine>> \o body \o <<EndLine>> ELSE body])

\* interactions[i].starts_with("-- begin") || starts_with("-- end") || is_empty()
IsMarker(line) == line.kind \in {"begin", "end", "empty"}

\* interactions[i].contains(plan[j][k].to_string()): marker lines contain no
\* interaction string; an interaction line contains its own string and the
\* strings that are substrings of it.
LineContains(line, x) ==
    /\ line.kind = "ix"
    /\ (line.of = x \/ <<x, line.of>> \in Overlap)

(***************************************************************************)
(* The two loops of compute_via_diff, 1-based: i indexes text lines, j     *)
(* items of the plan being pruned, k interactions of item j.               *)
(***************************************************************************)
RECURSIVE Outer(_, _, _, _), Inner(_, _, _, _, _), AfterItem(_, _, _, _),
          InnerKeepsUnmatched(_, _, _, _, _)

\* while i < interactions.len() && j < plan.len() { skip markers; inner loop }
\* and the final plan.split_off(j)
Outer(text, i, j, p) ==
    IF i > Len(text) \/ j > Len(p) THEN SubSeq(p, 1, j - 1)
    ELSE IF IsMarker(text[i]) THEN Outer(text, i + 1, j, p)
    ELSE Inner(text, i, j, 1, p)

\* Mutant: an unmatched interaction is stepped over (k += 1) instead of
\* removed.
InnerKeepsUnmatched(text, i, j, k, p) ==
    IF k > Len(p[j]) THEN AfterItem(text, i, j, p)
    ELSE IF i > Len(text)
         THEN AfterItem(text, i, j,
                        [SubSeq(p, 1, j) EXCEPT ![j] = SubSeq(p[j], 1, k - 1)])
    ELSE IF LineContains(text[i], p[j][k]) THEN Inner(text, i + 1, j, k + 1, p)
    ELSE Inner(text, i, j, k + 1, p)

\* while k < plan[j].len(): truncate when the text is exhausted, advance both
\* indices on a match, otherwise remove plan[j][k] without advancing the text
Inner(text, i, j, k, p) ==
    IF k > Len(p[j]) THEN AfterItem(text, i, j, p)
    ELSE IF i > Len(text)
         THEN AfterItem(text, i, j,
                        [SubSeq(p, 1, j) EXCEPT ![j] = SubSeq(p[j], 1, k - 1)])
    ELSE IF LineContains(text[i], p[j][k]) THEN Inner(text, i + 1, j, k + 1, p)
    ELSE Inner(text, i, j, k, [p EXCEPT ![j] = RemoveAt(p[j], k)])

\* Mutant: the emptied item is kept (no plan.remove(j)).
AfterItemKeepsEmpty(text, i, j, p) == Outer(text, i, j + 1, p)

\* if plan[j].is_empty() { plan.remove(j) } else { j += 1 }
AfterItem(text, i, j, p) ==
    IF p[j] = <<>> THEN Outer(text, i, j, RemoveAt(p, j))
    ELSE Outer(text, i, j + 1, p)

\* plan.into_iter().map(|i| i.interactions()), then the loops
ComputeViaDiff(text, baseline) ==
    Outer(text, 1, 1, [n \in DOMAIN baseline |-> baseline[n].ix])

(***************************************************************************)
(* The editing session.  edit[n] says what the user did to line n of the   *)
(* rendered baseline; the text is what is left of it.                      *)
(***************************************************************************)
Lines == Render(Baseline)

VARIABLES edit, plan

vars == <<edit, plan>>

TextOf(e) ==
    LET shown == SelectSeq([n \in DOMAIN Lines |-> <<n, e[n]>>],
                           LAMBDA pr : pr[2] # "delete")
    IN  [m \in DOMAIN shown |->
            IF shown[m][2] = "blank" THEN EmptyLine ELSE Lines[shown[m][1]]]

Init ==
    /\ edit = [n \in DOMAIN Lines |-> "keep"]
    /\ plan = ComputeViaDiff(TextOf(edit), Baseline)

\* The user deletes line n and saves; watch mode recomputes the plan.
DeleteLine(n) ==
    /\ edit[n] = "keep"
    /\ edit' = [edit EXCEPT ![n] = "delete"]
    /\ plan' = ComputeViaDiff(TextOf(edit'), Baseline)

\* The user clears line n but leaves it in the file.
BlankLine(n) ==
    /\ AllowBlank
    /\ edit[n] = "keep"
    /\ edit' = [edit EXCEPT ![n] = "blank"]
    /\ plan' = ComputeViaDiff(TextOf(edit'), Baseline)

Next == \E n \in DOMAIN Lines : DeleteLine(n) \/ BlankLine(n)

Spec == Init /\ [][Next]_vars

-----------------------------------------------------------------------------
(***************************************************************************)
(* Reference: what the user meant.  An interaction survives when the line  *)
(* rendered for it is still in the text; items keep their order, and an    *)
(* item with no surviving interaction disappears.                          *)
(***************************************************************************)
LineOf ==   \* LineOf[n][m]: index in Lines of interaction m of baseline item n
    [n \in DOMAIN Baseline |->
        [m \in DOMAIN Baseline[n].ix |->
            Len(Render(SubSeq(Baseline, 1, n - 1)))
              + (IF Baseline[n].prop THEN 1 ELSE 0) + m]]

Intended(e) ==
    LET pruned == [n \in DOMAIN Baseline |->
                     LET kept == SelectSeq([m \in DOMAIN Baseline[n].ix |-> m],
                                           LAMBDA m : e[LineOf[n][m]] = "keep")
                     IN  [x \in DOMAIN kept |-> Baseline[n].ix[kept[x]]]]
    IN  SelectSeq(pruned, LAMBDA s : s # <<>>)

\* Whatever set of lines the user has deleted (the unmodified text included),
\* compute_via_diff rebuilds exactly the interactions whose lines are still
\* there, grouped into the baseline's items, with emptied items dropped
\* (spec 4.5, invariants 6 and 7, scenario S5).
DiffMatchesEdit == plan = Intended(edit)

\* Whatever the user did to the text, deleting lines or clearing them,
\* compute_via_diff never keeps an interaction whose line is no longer in
\* the text: a shrunk plan runs nothing the user removed, even where the
\* inner loop drops more than it should.
KeepsOnlyKeptLines ==
    \A n \in DOMAIN plan : \A m \in DOMAIN plan[n] :
        \E l \in DOMAIN Lines : Lines[l] = IxLine(plan[n][m]) /\ edit[l] = "keep"

=============================================================================
