---------------------------- MODULE PlainGrammars ----------------------------
(***************************************************************************)
(* The grammars of which the evaluator is said to return what they mean,   *)
(* as assumptions on the libraries and the texts (RuleMeaning.tla).        *)
(***************************************************************************)
EXTENDS RuleMeaning

CONSTANT Rank(_, _, _, _, _)   \* l, t, p, r, i: what left recursion would exhaust

ASSUME MeaningAssumption == \A l \in Libraries, t \in Texts : Solves(l, t)

ASSUME ShapeAssumption == \A l \in Libraries : WellShaped(l)

ASSUME LeftAssumption == \A l \in Libraries, t \in Texts :
                           NotLeftRecursive(Rank, l, t)

=============================================================================
