---------------------------- MODULE MCRecursion ----------------------------
(***************************************************************************)
(* Every grammar of two symbols whose rules have the character a and       *)
(* references to both symbols below them: left recursion, direct, mutual   *)
(* and hidden behind what matches nothing.  Together with one library for  *)
(* each construct these lack, and with grammars in which a match of a      *)
(* symbol is in several outputs.                                           *)
(***************************************************************************)
EXTENDS Derivations, SyntaxTree

SeqOps == INSTANCE SequencesExt

CONSTANT MaxLength               \* bound on the length of a text

A == 97
B == 98
C == 99

MCRuleIds == 1 .. 7
MCNames   == {"s", "t", "u"}

Kids == {1, 2, 3}

RulesOf ==
  {Over(k, <<r>>) : k \in Unary \ {"Repeat"}, r \in Kids}
    \cup {REP(0, 1, r) : r \in Kids}
    \cup {REP(2, 3, r) : r \in Kids}
    \cup {Over(k, <<r, s>>) : k \in Collections, r \in Kids, s \in Kids}
    \cup {Over(k, <<2, r, s>>) : k \in {"Sequence", "XOr"}, r \in Kids, s \in Kids}

Named(f) == [n \in MCNames |-> IF n \in DOMAIN f THEN f[n] ELSE NoRule]

LibraryOf(rules, symbols, symbol, part) ==
  [rules   |-> [r \in MCRuleIds |-> IF r <= Len(rules) THEN rules[r] ELSE ANY],
   symbols |-> symbols,
   parts   |-> SeqOps!SetToSeq(DOMAIN part),
   symbol  |-> Named(symbol),
   part    |-> Named(part)]

Recursive ==
  {LibraryOf(<<EQCHAR(<<A>>), RULE("s"), RULE("t"), s, t>>, <<"s", "t">>,
             [s |-> 4, t |-> 5], <<>>) : s \in RulesOf, t \in RulesOf}

Samples == {
  (* strings that are prefixes of one another, tried in order              *)
  LibraryOf(<<EQ(<<<<>>, <<A, B, A>>, <<A>>, <<A, B>>>>), ANY,
              RANGE(B, C), SEQ(<<1, 3>>), REP(1, 0, 2)>>,
            <<"s", "t">>, [s |-> 4, t |-> 5], <<>>),
  (* a part, a name that is nowhere, a symbol added twice                  *)
  LibraryOf(<<RULE("t"), EQCHAR(<<B, A>>), SEQ(<<1, 2>>)>>,
            <<"s", "s">>, [s |-> 3], [t |-> 2]),
  LibraryOf(<<RULE("t"), EQCHAR(<<A>>), OR(<<1, 2>>)>>,
            <<"s">>, [s |-> 3], <<>>),
  (* a symbol shadows the part of its name                                 *)
  LibraryOf(<<RULE("t"), EQCHAR(<<A>>), EQCHAR(<<B>>), REP(0, 0, 1)>>,
            <<"s", "t">>, [s |-> 4, t |-> 2], [t |-> 3]),
  (* repeats the constructor admits although no number is in range         *)
  LibraryOf(<<EQCHAR(<<A>>), REP(3, 1, 1), REP(1, 0, 1), AND(<<3, 1, 1>>)>>,
            <<"t", "s">>, [s |-> 4, t |-> 2], <<>>)
}

(* A match of `t' in several outputs.  1 is a letter, 2 the rule of `t',   *)
(* 3 the reference to it, 4 a rule over the reference, 5 the rule of `s',  *)
(* 6 that of the symbol `u', 7 [t].                                        *)
OverLetter == {OPT(1), REP(1, 0, 1), SEQ(<<1, 7>>), SEQ(<<1>>)}

OverReference ==
  {Over(k, <<3>>) : k \in {"Optional", "Not", "AnyBut", "And", "XOr", "Or"}}
    \cup {REP(0, 1, 3), REP(1, 2, 3), SEQ(<<3, 1>>), RULE("u")}

OverBoth ==
  {Over(k, kids) : k \in Collections,
                   kids \in {<<4, 4>>, <<3, 4>>, <<4, 1, 4>>, <<4, 3, 4>>}}
    \cup {REP(1, 2, 4), REP(2, 2, 4), OPT(4)}

Shared ==
  {LibraryOf(<<EQCHAR(<<A>>), t, RULE("t"), mid, s, XOR(<<3, 3>>), OPT(3)>>,
             symbols,
             [n \in SeqOps!ToSet(symbols) |->
                CASE n = "s" -> 5 [] n = "t" -> 2 [] n = "u" -> 6],
             [u |-> 3]) :
      t \in OverLetter, mid \in OverReference, s \in OverBoth,
      symbols \in {<<"s", "t">>, <<"t", "s", "u">>}}

MCLibraries == Recursive \cup Samples \cup Shared
MCTexts     == UNION {[1 .. n -> {A, B}] : n \in 0 .. MaxLength}
                 \cup {<<A, A, A>>, <<A, B, A>>}

-----------------------------------------------------------------------------
(* The least derivation: the constructors are applied until nothing more   *)
(* is derived.                                                             *)
Positions(t) == 0 .. Len(t)
Stages       == 0 .. 3                 \* no rule here needs more children

(* What is derived in one step from d.                                     *)
Derived(d, l, t) ==
  LET Behind(R, r, i, n) == UNION {Ends(d, Nth(R, n + 1), j) : j \in After(d, r, i, n)}
      Reached(R, r, i, n) ==
        CASE n > Whole(R) -> {}
          [] OTHER -> UNION {IF n = 0 THEN {i} ELSE Behind(R, r, i, n - 1),
                             IF R.kind = "Repeat" /\ n = Whole(R)
                             THEN Behind(R, r, i, n) ELSE {}}
      Chained(R) == R.kind \in {"Sequence", "Repeat"}
  IN
    [ends  |-> [p \in RuleIds \X Positions(t) |->
                  CASE ~Chained(l.rules[p[1]]) ->
                         Constructed(d, l, t, p[1], p[2])
                    [] ~Possible(l.rules[p[1]]) -> {}
                    [] OTHER -> After(d, p[1], p[2], Whole(l.rules[p[1]]))],
     after |-> [p \in RuleIds \X Positions(t) \X Stages |->
                  IF Chained(l.rules[p[1]])
                  THEN Reached(l.rules[p[1]], p[1], p[2], p[3])
                  ELSE {}]]

RECURSIVE LeastAbove(_, _, _)
LeastAbove(d, l, t) ==
  LET e == Derived(d, l, t) IN IF e = d THEN d ELSE LeastAbove(e, l, t)

MCDerivation(l, t) ==
  LeastAbove([ends  |-> [p \in RuleIds \X Positions(t) |-> {}],
              after |-> [p \in RuleIds \X Positions(t) \X Stages |-> {}]],
             l, t)

=============================================================================
