----------------------------- MODULE RuleLibrary -----------------------------
(***************************************************************************)
(* How a library comes to be (Rules.h, LogicRules.h): rules are            *)
(* constructed over rules there are already, and added under names, as     *)
(* symbols or as parts.  The id of a rule is its place in `rules', the     *)
(* order in which IDCounter is asked.  What comes of it is a library of    *)
(* the kind the evaluator and the printer are modelled for.                *)
(***************************************************************************)
EXTENDS Declarations

CONSTANTS Bases,               \* names that can be declared with marks
          Terms,               \* the terminals the expressions are made of
          MaxRules,            \* bound on the number of rules
          MaxMade,             \* bound on the rules when one is constructed
          MaxKids,             \* bound on the children of a collection
          MaxNames             \* bound on the names when one is added

ASSUME NamesAssumption ==
  /\ Bases \subseteq Names
  /\ \A base \in Bases, mark \in Marks : base \o mark \in Names

ASSUME BuilderAssumption ==
  /\ {MaxRules, MaxMade, MaxKids, MaxNames} \subseteq Nat
  /\ RuleIds = 1 .. MaxRules
  /\ \A R \in Terms : /\ R \in Rule
                      /\ R.kind \in Terminals
                      /\ R.kids = <<>>
                      /\ R.kind = "CharRange" =>
                           /\ Len(R.values) = 2
                           /\ Len(R.values[1]) = 1
                           /\ Len(R.values[2]) = 1

VARIABLES rules, symbols, parts

builderVars == <<rules, symbols, parts>>

-----------------------------------------------------------------------------
Existing == 1 .. Len(rules)

(* Mutant: the children of a collection are not looked at.                 *)
Mutant_ChildrenOf == UNION {[1 .. k -> Existing] : k \in 0 .. MaxKids}

(* The children a collection may be constructed over: at least one.        *)
ChildrenOf == UNION {[1 .. k -> Existing] : k \in 1 .. MaxKids}

Make(R) == rules' = Append(rules, R)

(* The constructor functions: a rule over rules that exist.                *)
Construct ==
  /\ Len(rules) < MaxMade /\ Len(rules) < MaxRules
  /\ \/ \E R \in Terms : Make(R)
     \/ \E name \in Names : Make(RULE(name))
     \/ \E kind \in Unary \ {"Repeat"}, r \in Existing : Make(Over(kind, <<r>>))
     \/ \E lo \in 0 .. 1, hi \in 0 .. 1, r \in Existing : Make(REP(lo, hi, r))
     \/ \E kind \in Collections, kids \in ChildrenOf : Make(Over(kind, kids))
  /\ UNCHANGED <<symbols, parts>>

-----------------------------------------------------------------------------
(* addSymbol and addPart, with the strategy that takes a name as it is ... *)
Add ==
  /\ Len(symbols.names) + Len(parts.names) < MaxNames
  /\ \E name \in Names, r \in Existing :
       \/ symbols' = addNode(symbols, name, r) /\ UNCHANGED parts
       \/ parts' = addNode(parts, name, r) /\ UNCHANGED symbols
  /\ UNCHANGED rules

(* ... and with the one that derives rules from its marks.                 *)
AddUnwrapped ==
  /\ Len(symbols.names) + Len(parts.names) < MaxNames
  /\ \E base \in Bases, marks \in SUBSET Marks, r \in Existing :
       LET n == Len(rules) IN
         /\ rules' = rules \o MadeFor(base, marks, n)
         /\ n + Len(MadeFor(base, marks, n)) <= MaxRules
         /\ \/ /\ symbols' = Unwrapped(symbols, base, marks, r, n)
               /\ UNCHANGED parts
            \/ /\ parts' = Unwrapped(parts, base, marks, r, n)
               /\ UNCHANGED symbols

-----------------------------------------------------------------------------
Init == /\ rules = <<>>
        /\ symbols = NoNodes
        /\ parts = NoNodes

Next == Construct \/ Add \/ AddUnwrapped

Spec == Init /\ [][Next]_builderVars

-----------------------------------------------------------------------------
(* Properties.                                                             *)

(* A table gives rules to names, and lists exactly the names it has.       *)
TableOK(table) ==
  /\ table = [names |-> table.names, nodes |-> table.nodes]
  /\ table.names \in Seq(Names)
  /\ table.nodes \in [DOMAIN table.nodes -> Existing]
  /\ DOMAIN table.nodes = {table.names[n] : n \in DOMAIN table.names}

TypeOK == /\ rules \in Seq(Rule) /\ Len(rules) <= MaxRules
          /\ TableOK(symbols)
          /\ TableOK(parts)

(* The children of a rule have been made before it.  So the rules under a  *)
(* rule are finitely many and never the rule itself: a walk over them ends,*)
(* and what recursion a grammar has goes through RULE and a name.          *)
OlderKids ==
  \A r \in Existing : \A n \in DOMAIN rules[r].kids :
    rules[r].kids[n] \in 1 .. r - 1

(* getSymbol and getPart, for all names.                                   *)
Lookup(table) == [name \in Names |-> IF name \in DOMAIN table.nodes
                                     THEN table.nodes[name] ELSE NoRule]

(* Rules that are not there are filled in; nothing refers to them.         *)
AsLibrary == [rules   |-> [r \in RuleIds |-> IF r \in Existing THEN rules[r]
                                                               ELSE ANY],
              symbols |-> symbols.names,
              parts   |-> parts.names,
              symbol  |-> Lookup(symbols),
              part    |-> Lookup(parts)]

(* Whatever is constructed and added, in any order, is a library the       *)
(* evaluator can be begun on (LibrariesAssumption).                        *)
BuildsLibrary == AsLibrary \in Library /\ WellBuilt(AsLibrary)

(* A name that has a rule keeps it, whatever is added later under it or    *)
(* derived for it.                                                         *)
NamesKeepTheirRule ==
  [][\A table \in {<<symbols, symbols'>>, <<parts, parts'>>} :
       \A name \in DOMAIN table[1].nodes :
         /\ name \in DOMAIN table[2].nodes
         /\ table[2].nodes[name] = table[1].nodes[name]]_builderVars

(* The references an AddUnwrapped makes can be resolved: no name it        *)
(* derives is a rule about a name that is nowhere.                         *)
DerivedResolve ==
  [][<<symbols, parts>>' # <<symbols, parts>> =>
       \A r \in DOMAIN rules' \ DOMAIN rules :
         rules'[r].kind = "Alias" =>
           Resolve(AsLibrary', rules'[r].name) # NoRule]_builderVars

=============================================================================
