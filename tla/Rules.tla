------------------------------- MODULE Rules -------------------------------
(***************************************************************************)
(* Grammar rules and the library that names them (Rules.h, LogicRules.h,   *)
(* StringRules.h).  A rule is anaemic data: a type, and whatever its       *)
(* strategy needs.  Rules are known by their unique id, as the evaluation  *)
(* history knows them.                                                     *)
(***************************************************************************)
EXTENDS Integers, Sequences

CONSTANTS RuleIds,             \* ids handed out by IDCounter
          NoRule,              \* nullptr: the library has no such name
          Names,               \* names of symbols and parts
          Libraries            \* the libraries under consideration

Terminals   == {"Any", "End", "EqualChar", "EqualString", "CharRange"}
Unary       == {"Not", "AnyBut", "Optional", "Repeat"}
Collections == {"Sequence", "Or", "And", "XOr"}
Kinds       == Terminals \cup Unary \cup Collections \cup {"Alias"}

NoName  == ""
AnyName == Names \cup {NoName}

(* `values' are those of EQ (strings; a character is a string of one) and  *)
(* the two ends of RANGE; `min' and `max' those of REP; `name' that of     *)
(* RULE.  A field a kind does not use is left at its default.              *)
Rule == [kind : Kinds, kids : Seq(RuleIds), values : Seq(Seq(Nat)),
         min : Nat, max : Nat, name : AnyName]

Library == [rules   : [RuleIds -> Rule],
            symbols : Seq(Names),
            parts   : Seq(Names),
            symbol  : [Names -> RuleIds \cup {NoRule}],
            part    : [Names -> RuleIds \cup {NoRule}]]

(* The constructor functions.  A child is the id of a rule that exists; EQ *)
(* is overloaded in the code, and a character is a string of one here.     *)
PlainRule(kind) == [kind |-> kind, kids |-> <<>>, values |-> <<>>,
                    min |-> 0, max |-> 0, name |-> NoName]

Over(kind, kids)     == [PlainRule(kind) EXCEPT !.kids = kids]
Having(kind, values) == [PlainRule(kind) EXCEPT !.values = values]

ANY             == PlainRule("Any")
END             == PlainRule("End")
SEQ(kids)       == Over("Sequence", kids)
AND(kids)       == Over("And", kids)
OR(kids)        == Over("Or", kids)
XOR(kids)       == Over("XOr", kids)
OPT(r)          == Over("Optional", <<r>>)
NOT(r)          == Over("Not", <<r>>)
BUT(r)          == Over("AnyBut", <<r>>)
REP(lo, hi, r)  == [Over("Repeat", <<r>>) EXCEPT !.min = lo, !.max = hi]
RULE(alias)     == [PlainRule("Alias") EXCEPT !.name = alias]
EQ(strings)     == Having("EqualString", strings)
EQCHAR(chars)   == Having("EqualChar", [n \in DOMAIN chars |-> <<chars[n]>>])
RANGE(from, to) == Having("CharRange", <<<<from>>, <<to>>>>)

(* What the constructors of UnaryRule, CollectionRule and RANGE and the    *)
(* addNode of the library guarantee.                                       *)
WellBuilt(l) ==
  /\ \A r \in RuleIds :
       LET R == l.rules[r] IN
         /\ R.kind \in Unary => Len(R.kids) = 1
         /\ R.kind \in Collections => Len(R.kids) >= 1
         /\ R.kind = "CharRange" =>
              /\ Len(R.values) = 2
              /\ Len(R.values[1]) = 1
              /\ Len(R.values[2]) = 1
         /\ R.kind = "Alias" => R.name \in Names
  /\ \A n \in 1 .. Len(l.symbols) : l.symbol[l.symbols[n]] # NoRule
  /\ \A n \in 1 .. Len(l.parts) : l.part[l.parts[n]] # NoRule

ASSUME LibrariesAssumption ==
  /\ NoRule \notin RuleIds
  /\ NoName \notin Names
  /\ \A l \in Libraries : l \in Library /\ WellBuilt(l)

(* RuleVisitor::visitByName: a symbol shadows a part of the same name.     *)
Resolve(l, name) == IF l.symbol[name] # NoRule THEN l.symbol[name]
                                               ELSE l.part[name]

=============================================================================
