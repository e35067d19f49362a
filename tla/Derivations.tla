---------------------------- MODULE Derivations ----------------------------
(***************************************************************************)
(* What a rule can match in a text, for every grammar, left-recursive ones *)
(* included: the constructors of LogicRules.h taken as a context-free      *)
(* grammar.  The choices the evaluator makes among the matches (an OR      *)
(* takes the first, a REP is greedy) and what a NOT, BUT or XOR rules out  *)
(* are left open, and so is the maximum of a REP, but for one below its    *)
(* minimum.                                                                *)
(*                                                                         *)
(* Derivation(l, t) has, of every rule r and position i,                   *)
(*                                                                         *)
(*   ends[r, i]       where a match of r that starts at i may end          *)
(*   after[r, i, n]   for a SEQ or REP, where n of its children may have   *)
(*                    ended (for a REP: n of them or more, if n is its     *)
(*                    minimum)                                             *)
(*                                                                         *)
(* All that is said of it is that it is closed under the constructors: the *)
(* least such sets are what the grammar derives, and what is shown of any  *)
(* closed ones is shown of these.                                          *)
(***************************************************************************)
EXTENDS SourceEvaluation

CONSTANT Derivation(_, _)

Ends(d, r, i)     == d.ends[r, i]
After(d, r, i, n) == d.after[r, i, n]

Occurs(t, i, v) == /\ v # <<>>
                   /\ i + Len(v) <= Len(t)
                   /\ \A n \in 1 .. Len(v) : t[i + n] = v[n]

(* The ends a rule has at once if its children have those in d.            *)
Constructed(d, l, t, r, i) ==
  LET R    == l.rules[r]
      kids == {R.kids[n] : n \in DOMAIN R.kids}
      any  == UNION {Ends(d, k, i) : k \in kids}
      next == {i + 1} \cap 0 .. Len(t)
      name == Resolve(l, R.name)
  IN
    CASE R.kind = "Any" -> next
      [] R.kind = "End" -> {i} \cap {Len(t)}
      [] R.kind \in {"EqualChar", "EqualString"} ->
           {i + Len(R.values[n]) :
              n \in {m \in DOMAIN R.values : Occurs(t, i, R.values[m])}}
      [] R.kind = "CharRange" ->
           {j \in next : t[j] \in R.values[1][1] .. R.values[2][1]}
      [] R.kind = "Alias" -> IF name = NoRule THEN {} ELSE Ends(d, name, i)
      [] R.kind \in {"Or", "XOr"} -> any
      [] R.kind = "And" -> IF \A k \in kids : Ends(d, k, i) # {}
                           THEN Ends(d, R.kids[1], i) ELSE {}
      [] R.kind = "Optional" -> any \cup {i}
      [] R.kind = "Not"      -> {i}
      [] R.kind = "AnyBut"   -> next
      [] OTHER               -> {}

(* How many children a SEQ or REP needs, and the nth of them; a REP that   *)
(* has as many as it needs takes more.                                     *)
Whole(R)  == IF R.kind = "Repeat" THEN R.min ELSE Len(R.kids)
Nth(R, n) == IF R.kind = "Repeat" THEN R.kids[1] ELSE R.kids[n]

(* The constructor of a REP does not see to it that any number is in range *)
(* (LogicRules.h:55); one for which none is has no match.                  *)
Possible(R) == R.kind = "Repeat" /\ R.max > 0 => R.min <= R.max

Takes(d, R, r, i, n, m) ==
  \A j \in After(d, r, i, n) : Ends(d, Nth(R, n + 1), j) \subseteq After(d, r, i, m)

Closed(d, l, t) ==
  \A r \in RuleIds : \A i \in 0 .. Len(t) :
    LET R == l.rules[r] IN
      /\ Constructed(d, l, t, r, i) \subseteq Ends(d, r, i)
      /\ R.kind \in {"Sequence", "Repeat"} =>
           /\ i \in After(d, r, i, 0)
           /\ \A n \in 0 .. Whole(R) - 1 : Takes(d, R, r, i, n, n + 1)
           /\ R.kind = "Repeat" => Takes(d, R, r, i, Whole(R), Whole(R))
           /\ Possible(R) => After(d, r, i, Whole(R)) \subseteq Ends(d, r, i)

ASSUME DerivationAssumption ==
  \A l \in Libraries, t \in Texts : Closed(Derivation(l, t), l, t)

-----------------------------------------------------------------------------
(* All that has no character is one key, so what the memo has of it is     *)
(* said of the end of input.                                               *)
PositionOf(key) == IF key >= 0 THEN key ELSE Len(text)

(* What the memo holds of matches when begin returns is derived from the   *)
(* text: that a rule fails where it is already being evaluated, and the    *)
(* child of a sequence is visited behind a failed one, may lose a match    *)
(* but never makes one up; and a REP with bounds no number is between      *)
(* matches nothing, however its visits are counted.                        *)
MatchDerivable ==
  Done =>
    LET d == Derivation(lib, text) IN
      \A k \in DOMAIN history :
        Succeeds(history[k].out) =>
          history[k].out.idx \in Ends(d, k[1], PositionOf(k[2]))

=============================================================================
