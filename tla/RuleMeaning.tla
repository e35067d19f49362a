----------------------------- MODULE RuleMeaning -----------------------------
(***************************************************************************)
(* What a grammar means, written down without a stack, a memo or a key:    *)
(* the output of rule r at index i of what is left of a text t when p of   *)
(* its characters have been popped.  It is the reference the evaluator is  *)
(* checked against, so it follows what the rules promise (the names and    *)
(* comments of LogicRules.h, and what EBNFPrinter.h prints for them) and   *)
(* none of the strategies' loops:                                          *)
(*                                                                         *)
(*   SEQ   each child where the one before has ended                       *)
(*   OR    the first child that matches                                    *)
(*   AND   the first child, if all match                                   *)
(*   XOR   the child that matches, if it is the only one                   *)
(*   REP   as many matches as there are, if that is min .. max of them     *)
(*   OPT, NOT, BUT, ANY, END, EQ, RANGE, RULE                              *)
(*                                                                         *)
(* The meaning of a rule is an equation over the meanings of its children: *)
(* Meant is whatever solves it.  A grammar without left recursion and      *)
(* without a REP of a child that matches the empty text has one solution,  *)
(* which ComputedMeaning.tla computes; what is proved of Meant needs only  *)
(* the equation (PlainGrammars.tla).                                       *)
(***************************************************************************)
EXTENDS SourceEvaluation

CONSTANTS
  Meant(_, _, _, _, _),        \* l, t, p, r, i: the output of r at index i
                               \* behind the first p characters of t
  Run(_, _, _, _, _)           \* the outputs of a SEQ or REP after 0, 1, 2 ...
                               \* children, the first failure its last

(* Positions in t: where v starts, ...                                     *)
Starts(t, i, v) == /\ v # <<>>
                   /\ i + Len(v) <= Len(t)
                   /\ \A n \in 1 .. Len(v) : t[i + n] = v[n]

(* ... where a match from i up to j is; none starts behind the text.       *)
Covered(t, i, j) == IF i < Len(t) THEN [first |-> i, last |-> Greater(i, j - 1)]
                                  ELSE NoRange

(* The first of a set of positions.                                        *)
First(S) == CHOOSE n \in S : \A m \in S : n <= m

When(b, o) == IF b THEN o ELSE FAILURE

-----------------------------------------------------------------------------
(* The children of a sequence one after another, or that of a repeat; one  *)
(* more than its maximum is enough.                                        *)
ChildOf(R, n) == IF R.kind = "Repeat" THEN R.kids[1] ELSE R.kids[n]

Another(R, n) == IF R.kind = "Repeat" THEN R.max > 0 => n <= R.max + 1
                                      ELSE n <= Len(R.kids)

Extended(l, t, p, R, o, n) ==
  joinOutputs(o, Meant(l, t, p, ChildOf(R, n), o.idx))

(* A run goes on as long as there is another child and it matches.         *)
IsRun(l, t, p, r, i, run) ==
  LET R == l.rules[r] IN
    /\ Len(run) \in Nat \ {0} /\ DOMAIN run = 1 .. Len(run)
    /\ run[1] = ReachedAt(i)
    /\ \A n \in 1 .. Len(run) - 1 :
         /\ Succeeds(run[n])
         /\ Another(R, n)
         /\ run[n + 1] = Extended(l, t, p, R, run[n], n)
    /\ Succeeds(run[Len(run)]) => ~Another(R, Len(run))

(* How many children of a run have matched.                                *)
MatchesOf(run) == IF Succeeds(run[Len(run)]) THEN Len(run) - 1 ELSE Len(run) - 2

(* What rule r says of index i, if its children mean what M says of them   *)
(* and a sequence or repeat of them runs as U says.                        *)
Equation(M(_, _, _, _, _), U(_, _, _, _, _), l, t, p, r, i) ==
  LET R        == l.rules[r]
      Of(n)    == M(l, t, p, R.kids[n], i)
      matching == {n \in DOMAIN R.kids : Succeeds(Of(n))}
      hits     == {n \in DOMAIN R.values : Starts(t, p + i, R.values[n])}
      run      == U(l, t, p, r, i)
      target   == Resolve(l, R.name)
  IN
    CASE R.kind = "Any"       -> When(p + i < Len(t), ReachedAt(i + 1))
      [] R.kind = "End"       -> When(p + i = Len(t), ReachedAt(i))
      [] R.kind \in {"EqualChar", "EqualString"} ->
           When(hits # {}, ReachedAt(i + Len(R.values[First(hits)])))
      [] R.kind = "CharRange" ->
           When(/\ p + i < Len(t)
                /\ t[p + i + 1] \in R.values[1][1] .. R.values[2][1],
                ReachedAt(i + 1))
      [] R.kind = "Sequence"  -> When(Succeeds(run[Len(run)]), run[Len(run)])
      [] R.kind = "Or"        -> When(matching # {}, Of(First(matching)))
      [] R.kind = "And"       -> When(matching = DOMAIN R.kids, Of(1))
      [] R.kind = "XOr"       -> When(\E n \in matching : matching = {n},
                                      Of(First(matching)))
      [] R.kind = "Optional"  -> IF Succeeds(Of(1)) THEN Of(1)
                                                    ELSE ReachedAt(i)
      [] R.kind = "Not"       -> When(~Succeeds(Of(1)), ReachedAt(i))
      [] R.kind = "AnyBut"    -> When(~Succeeds(Of(1)) /\ p + i < Len(t),
                                      ReachedAt(i + 1))
      [] R.kind = "Repeat"    ->
           When(/\ MatchesOf(run) >= R.min
                /\ R.max > 0 => MatchesOf(run) <= R.max,
                run[MatchesOf(run) + 1])
      [] R.kind = "Alias"     ->
           IF target = NoRule THEN FAILURE
           ELSE LET o == M(l, t, p, target, i)
                IN  IF Succeeds(o) /\ l.symbol[R.name] # NoRule
                    THEN Under(R.name, Covered(t, p + i, p + o.idx), o)
                    ELSE o

Says(l, t, p, r, i) == Equation(Meant, Run, l, t, p, r, i)

-----------------------------------------------------------------------------
(* A grammar is plain on a text if Meant and Run solve its equations, ...  *)
Solves(l, t) ==
  \A r \in RuleIds : \A p \in 0 .. Len(t) : \A i \in 0 .. Len(t) - p :
    /\ Meant(l, t, p, r, i) = Says(l, t, p, r, i)
    /\ l.rules[r].kind \in {"Sequence", "Repeat"} =>
         IsRun(l, t, p, r, i, Run(l, t, p, r, i))

(* ... no XOR has more than two children and no REP a maximum without a    *)
(* minimum (the strategies do not do what these say, see MCClaims.tla), ...*)
WellShaped(l) ==
  \A r \in RuleIds :
    LET R == l.rules[r] IN
      /\ R.kind = "XOr" => Len(R.kids) <= 2
      /\ R.kind = "Repeat" /\ R.max > 0 => R.min \in 1 .. R.max

(* The rules whose output at i a rule depends on at i itself.              *)
Tries(l, t, p, r, i) ==
  LET R        == l.rules[r]
      Match(n) == Succeeds(Meant(l, t, p, R.kids[n], i))
      run      == Run(l, t, p, r, i)
  IN
    CASE R.kind = "Alias"    -> {Resolve(l, R.name)} \ {NoRule}
      [] R.kind \in Unary    -> {R.kids[1]}
      [] R.kind = "Or"       -> {R.kids[n] : n \in {m \in DOMAIN R.kids :
                                    \A k \in 1 .. m - 1 : ~Match(k)}}
      [] R.kind = "And"      -> {R.kids[n] : n \in {m \in DOMAIN R.kids :
                                    \A k \in 1 .. m - 1 : Match(k)}}
      [] R.kind = "XOr"      -> {R.kids[n] : n \in DOMAIN R.kids}
      [] R.kind = "Sequence" -> {R.kids[n] : n \in {m \in DOMAIN R.kids :
                                    m <= Len(run) /\ run[m].idx = i}}
      [] OTHER               -> {}

(* ... and no rule depends on itself at the same character: what one tries *)
(* there has a smaller rank.                                               *)
NotLeftRecursive(Depth(_, _, _, _, _), l, t) ==
  \A r \in RuleIds : \A p \in 0 .. Len(t) : \A i \in 0 .. Len(t) - p - 1 :
    /\ Depth(l, t, p, r, i) \in Nat
    /\ \A c \in Tries(l, t, p, r, i) :
         Depth(l, t, p, c, i) < Depth(l, t, p, r, i)

-----------------------------------------------------------------------------
(* What each symbol of the library matches at the front of what is left,   *)
(* and which of them match the longest.                                    *)
Candidates(l, t, p) == [n \in DOMAIN l.symbols |->
                          Meant(l, t, p, l.symbol[l.symbols[n]], 0)]

LongestOf(outputs) == {n \in DOMAIN outputs :
                         /\ Succeeds(outputs[n])
                         /\ \A m \in DOMAIN outputs :
                              Succeeds(outputs[m]) =>
                                outputs[m].idx <= outputs[n].idx}

-----------------------------------------------------------------------------
SameAs(o, meant) == IF Succeeds(meant) THEN o = meant ELSE ~Succeeds(o)

Completed == {k \in DOMAIN history : history[k].state = "Completed"}

(* What had been popped when begin was called.                             *)
Base == IF pc = "found" THEN popped - best.idx ELSE popped

(* What the memo holds of k is what rule k[1] means at index i.  The memo  *)
(* keeps the output of RULE without the node of the symbol.                *)
RecordMeans(k, i) == SameAs(Wrapped(k[1], i, history[k].out),
                            Meant(lib, text, Base, k[1], i))

(* Key -1 stands for the end of input, but index -1 has it too.  A rule    *)
(* visited at index -1 leaves the answer it gives there as its answer for  *)
(* the end of input: a failure where it would match the empty text, or,    *)
(* over a NOT of such a failure, a match it does not have.                 *)
Poisoned ==
  \E k \in Completed : k[2] = -1 /\ ~RecordMeans(k, Len(text) - Base)

(* As long as the key of the end of input has not been poisoned, whatever  *)
(* the memo remembers of a rule is what the rule means at that position:   *)
(* reuse across symbols and parents, in any order, changes no answer.      *)
MemoFaithful ==
  pc = "symbols" /\ ~Poisoned =>
    \A k \in Completed :
      RecordMeans(k, (IF k[2] = -1 THEN Len(text) ELSE k[2]) - popped)

(* A rule that is at a character, or the library loop, has been given an   *)
(* answer of a rule at the end of input that the rule does not mean.       *)
Misled ==
  LET r == CalledRule(Len(stack))
      i == CalledAt(Len(stack))
  IN
    /\ pc = "return" /\ (stack # <<>> => Top.key # -1)
    /\ i # -1 /\ ~Present(i)
    /\ ~SameAs(out, Meant(lib, text, popped, r, Len(text) - popped))

(* What begin has returned is the longest match of any symbol behind the p *)
(* characters that had been popped, the first symbol of the library        *)
(* winning a tie, and just that has been popped; it has failed only if no  *)
(* symbol matches.                                                         *)
ReturnsLongest(p) ==
  LET meant   == Candidates(lib, text, p)
      longest == LongestOf(meant)
  IN
    IF longest = {} THEN pc = "failed"
    ELSE /\ pc = "found"
         /\ best = meant[First(longest)]
         /\ winner = lib.symbols[First(longest)]
         /\ popped = p + best.idx

LongestBehind(p) == Done /\ ~Poisoned => ReturnsLongest(p)

(* ... at the front of the text, where a first call of begin starts.       *)
LongestFirst == LongestBehind(0)

=============================================================================
