------------------------------ MODULE MCPrinter ------------------------------
(***************************************************************************)
(* The printer on the library of FlockGrammar.h, and on every library of a *)
(* small shape: a part that is a rule over a leaf, and a symbol that is a  *)
(* rule over that rule.  A part may have the name of the symbol, and a     *)
(* name may be listed twice.                                               *)
(***************************************************************************)
EXTENDS EBNFPrinter, FlockGrammar

A == 97

MCRuleIds == 1 .. 151             \* as many as createFlockLibrary makes

MCNames == FlockNames \cup {"p", "s"}

(* 1 is the leaf, 2 another, 3 a rule over them and 4 a rule over 3.       *)
Leaves == {EQCHAR(<<A, 10>>), EQ(<<<<A, 10, 10, A, A>>>>),
           EQ(<<<<10, A>>, <<A>>>>), RANGE(A, A + 1), RANGE(31, 33),
           RULE("s"), ANY}

RulesOver(r, other) ==
  {Over(k, kids) : k \in Collections,
                   kids \in {<<r>>, <<r, other>>, <<other, r, other>>}}
    \cup {Over(k, <<r>>) : k \in {"Optional", "Not", "AnyBut"}}
    \cup {REP(bounds[1], bounds[2], r) :
            bounds \in {<<0, 0>>, <<0, 1>>, <<0, 3>>, <<1, 0>>, <<1, 1>>,
                        <<1, 2>>, <<2, 2>>}}

Named(f) == [n \in MCNames |-> IF n \in DOMAIN f THEN f[n] ELSE NoRule]

Small ==
  {[rules   |-> Padded(<<leaf, EQCHAR(<<A>>), mid, top>>),
    symbols |-> symbols,
    parts   |-> <<part>>,
    symbol  |-> Named([s |-> 4]),
    part    |-> Named([n \in {part} |-> 3])] :
      leaf \in Leaves, mid \in RulesOver(1, 2), top \in RulesOver(3, 2),
      symbols \in {<<"s">>, <<"s", "s">>}, part \in {"p", "s"}}

MCLibraries == {FlockLibrary} \cup Small

=============================================================================
