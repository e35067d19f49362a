--------------------------- MODULE ComputedMeaning ---------------------------
(***************************************************************************)
(* The meaning of a rule, computed from its equation (RuleMeaning.tla): a  *)
(* model gives Meant the value Meaning and Run the value RunOf.  It ends   *)
(* for grammars without left recursion and without a REP of a child that   *)
(* matches the empty text.                                                 *)
(***************************************************************************)
EXTENDS RuleMeaning

Folding == INSTANCE FiniteSetsExt

RECURSIVE Meaning(_, _, _, _, _)
RECURSIVE RunOf(_, _, _, _, _)
RECURSIVE Grown(_, _, _, _, _)

Meaning(l, t, p, r, i) == Equation(Meaning, RunOf, l, t, p, r, i)

RunOf(l, t, p, r, i) == Grown(l, t, p, l.rules[r], <<ReachedAt(i)>>)

Grown(l, t, p, R, run) ==
  LET last == run[Len(run)]
      next == Meaning(l, t, p, ChildOf(R, Len(run)), last.idx)
  IN  IF Succeeds(last) /\ Another(R, Len(run))
      THEN Grown(l, t, p, R, Append(run, joinOutputs(last, next)))
      ELSE run

(* How deep the rules are that r depends on at index i.                    *)
RECURSIVE DepthOf(_, _, _, _, _)
DepthOf(l, t, p, r, i) ==
  LET below == {DepthOf(l, t, p, c, i) : c \in Tries(l, t, p, r, i)}
  IN  1 + Folding!FoldSet(Greater, 0, below)

=============================================================================
