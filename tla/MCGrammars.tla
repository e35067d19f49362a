----------------------------- MODULE MCGrammars -----------------------------
(***************************************************************************)
(* Every grammar of a small shape over some sets of leaves: a symbol       *)
(* `word' whose rule has leaves below it (and RULE("line") where something *)
(* was consumed), and a symbol `line' whose rule has leaves and            *)
(* RULE("word") below it.  A word is thus reached at several positions,    *)
(* from several parents, before and after it is tried as a symbol of its   *)
(* own, and a leaf may be a reference to a name that is nowhere.  No       *)
(* grammar is left-recursive and no REP repeats a match of the empty text: *)
(* the grammars of PlainGrammars.tla.                                      *)
(***************************************************************************)
EXTENDS PlainGrammars, ComputedMeaning

CONSTANT MaxLength               \* bound on the length of most texts

A == 97
B == 98

MCRuleIds == 1 .. 7
MCNames   == {"line", "word", "none"}

(* 1 2 3 are leaves, 4 and 5 the references to `word' and `line', 6 and 7  *)
(* their rules.                                                            *)
Leaves == {1, 2, 3}

RulesOver(S) ==
  {Over(k, <<r>>) : k \in Collections \cup {"Not", "AnyBut", "Optional"},
                    r \in S}
    \cup {REP(1, 1, r) : r \in S}
    \cup {REP(1, 2, r) : r \in S}
    \cup {REP(2, 2, r) : r \in S}
    \cup {Over(k, <<r, s>>) : k \in Collections, r \in S, s \in S}

WordRules ==
  RulesOver(Leaves)
    \cup {REP(lo, 0, r) : lo \in 0 .. 2, r \in {1, 2}}
    \cup {SEQ(<<r, 5>>) : r \in {1, 2}}
    \cup {SEQ(<<r, s, 5>>) : r \in Leaves, s \in {1, 2}}

LineRules ==
  {R \in RulesOver(Leaves \cup {4}) : \E n \in DOMAIN R.kids : R.kids[n] = 4}
    \cup {SEQ(<<4, r, 4>>) : r \in Leaves}
    \cup {Over(k, <<r, s, 4>>) : k \in {"And", "Or"}, r \in Leaves, s \in Leaves}

LeafRules == {<<EQCHAR(<<A>>), EQCHAR(<<B>>), END>>,
              <<EQCHAR(<<A>>), RULE("none"), ANY>>,
              <<RANGE(B, B), ANY, EQ(<<<<A, B, A>>, <<A>>, <<A, B>>>>)>>}

Grammar(leaves, word, line) ==
  [rules   |-> leaves \o <<RULE("word"), RULE("line"), word, line>>,
   symbols |-> <<"line", "word">>,
   parts   |-> <<>>,
   symbol  |-> [n \in MCNames |-> CASE n = "line" -> 7
                                      [] n = "word" -> 6
                                      [] n = "none" -> NoRule],
   part    |-> [n \in MCNames |-> NoRule]]

MCLibraries == {Grammar(f, w, l) : f \in LeafRules, w \in WordRules,
                                   l \in LineRules}
MCTexts     == UNION {[1 .. n -> {A, B}] : n \in 0 .. MaxLength}
                 \cup {<<A, A, A>>, <<A, A, B>>, <<A, B, A>>}

(* `line' may begin with a word, and no word with a line.                  *)
MCRank(l, t, p, r, i) == CASE r \in Leaves -> 0 [] r = 6 -> 1 [] r = 4 -> 2
                           [] r = 7 -> 3 [] r = 5 -> 4

=============================================================================
