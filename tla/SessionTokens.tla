---------------------------- MODULE SessionTokens ----------------------------
(***************************************************************************)
(* The main loop against the tokens that its library means (Session.tla,   *)
(* RuleMeaning.tla, Tokenizer.tla).                                        *)
(***************************************************************************)
EXTENDS Session, RuleMeaning

(* The token the rules of l mean at position p of t.                       *)
NoToken == [symbol |-> NoName]

LongestToken(l, t, p) ==
  LET meant   == Candidates(l, t, p)
      longest == LongestOf(meant)
      winning == First(longest)
  IN
    IF longest = {} THEN NoToken
    ELSE [symbol |-> l.symbols[winning],
          from   |-> p,
          to     |-> p + meant[winning].idx,
          nodes  |-> [n \in DOMAIN meant[winning].nodes |->
                        [meant[winning].nodes[n] EXCEPT !.depth = @ + 1]]]

Abstract == INSTANCE Tokenizer WITH tokens <- printed,
                                    Longest <- LongestToken

(* The rounds cut every text into the tokens the grammar means, however    *)
(* far the suppliers have read and whatever a round before has remembered. *)
ImplementsTokenizer == Abstract!TokenSpec

=============================================================================
