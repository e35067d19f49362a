------------------------------ MODULE MCClaims ------------------------------
(***************************************************************************)
(* What comments of the source say of the rules and the syntax nodes, and  *)
(* the code does not do.  A small grammar or two for each.                 *)
(***************************************************************************)
EXTENDS ComputedMeaning, FiniteSets

A == 97
B == 98
C == 99

MCRuleIds == 1 .. 8
MCNames   == {"s", "t"}

Named(f) == [n \in MCNames |-> IF n \in DOMAIN f THEN f[n] ELSE NoRule]

LibraryOf(rules, symbol) ==
  [rules   |-> [r \in MCRuleIds |-> IF r <= Len(rules) THEN rules[r] ELSE ANY],
   symbols |-> IF "t" \in DOMAIN symbol THEN <<"s", "t">> ELSE <<"s">>,
   parts   |-> <<>>,
   symbol  |-> Named(symbol),
   part    |-> Named(<<>>)]

Letters == <<EQCHAR(<<A>>), EQCHAR(<<B>>), EQCHAR(<<C>>)>>

MCLibraries == {
  (* s ::= a, b, [c]      t ::= a, [c]                                     *)
  LibraryOf(Letters \o <<OPT(3), SEQ(<<1, 2, 4>>), SEQ(<<1, 4>>)>>,
            [s |-> 5, t |-> 6]),
  (* s ::= exactly one of a, ANY, a                                        *)
  LibraryOf(<<EQCHAR(<<A>>), ANY, XOR(<<1, 2, 1>>)>>, [s |-> 3]),
  LibraryOf(<<EQCHAR(<<A>>), ANY, XOR(<<4, 1, 2>>), EQCHAR(<<B>>)>>,
            [s |-> 3]),
  (* s ::= at most one a                                                   *)
  LibraryOf(<<EQCHAR(<<A>>), REP(0, 1, 1)>>, [s |-> 2]),
  (* s ::= t, a      t ::= [b]                                             *)
  LibraryOf(<<EQCHAR(<<A>>), EQCHAR(<<B>>), OPT(2), RULE("t"), SEQ(<<4, 1>>)>>,
            [s |-> 5, t |-> 3]) }

MCTexts == UNION {[1 .. n -> {A, B}] : n \in 0 .. 3}

-----------------------------------------------------------------------------
(* LogicRules.h:242: when the child of OPT fails the strategy returns an   *)
(* empty success, "is a success".  So visiting an OPT at any index of the  *)
(* input succeeds.                                                         *)
OptionalSucceeds ==
  [][pc = "visit" /\ at >= 0 /\ lib.rules[rule].kind = "Optional"
       /\ pc' = "return" => Succeeds(out')]_vars

(* LogicRules.h:195: "only one success allowed." among the children of an  *)
(* XOR.                                                                    *)
OnlyOneSuccess ==
  \A k \in Completed :
    lib.rules[k[1]].kind = "XOr" /\ k[2] # -1 /\ Succeeds(history[k].out) =>
      Cardinality({n \in DOMAIN lib.rules[k[1]].kids :
        Succeeds(Meant(lib, text, Base, lib.rules[k[1]].kids[n], k[2]))}) = 1

(* LogicRules.h:308: a repeat fails once "we have gone past the maximum":  *)
(* what a REP of one character accepts is no longer than its maximum.      *)
NotPastMaximum ==
  \A k \in Completed :
    LET R == lib.rules[k[1]] IN
      (R.kind = "Repeat" /\ R.max > 0 /\ k[2] # -1
         /\ lib.rules[R.kids[1]].kind = "EqualChar") =>
        history[k].out.idx <= k[2] + R.max

(* Source.h:23: the locations of a syntax node point "to location within   *)
(* source code.  Used for specifying debugging and breakpoints".  So the   *)
(* node of the symbol found spans the text that was matched.               *)
RootSpansMatch ==
  pc = "found" /\ out.idx > 0 =>
    out.nodes[1].range = [first |-> 0, last |-> out.idx - 1]

=============================================================================
