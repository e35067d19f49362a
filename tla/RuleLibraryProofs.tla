-------------------------- MODULE RuleLibraryProofs --------------------------
(***************************************************************************)
(* Whatever is constructed and declared, in any order and number, is a     *)
(* library the evaluator is modelled for; names keep their rules.          *)
(***************************************************************************)
EXTENDS RuleLibrary, TLAPS

(* What a rule guarantees by its constructor, apart from its children.     *)
Shaped(R) ==
  /\ R.kind \in Unary => Len(R.kids) = 1
  /\ R.kind \in Collections => Len(R.kids) >= 1
  /\ R.kind = "CharRange" => /\ Len(R.values) = 2
                             /\ Len(R.values[1]) = 1
                             /\ Len(R.values[2]) = 1
  /\ R.kind = "Alias" => R.name \in Names

(* R can be the rule with id r.                                            *)
GoodAt(R, r) == /\ R \in Rule
                /\ Shaped(R)
                /\ \A n \in DOMAIN R.kids : R.kids[n] \in 1 .. r - 1

(* A table whose rules are among the first k.                              *)
TableGood(table, k) ==
  /\ table = [names |-> table.names, nodes |-> table.nodes]
  /\ table.names \in Seq(Names)
  /\ table.nodes \in [DOMAIN table.nodes -> 1 .. k]
  /\ DOMAIN table.nodes = {table.names[n] : n \in DOMAIN table.names}

Keeps(table, later) ==
  \A name \in DOMAIN table.nodes :
    name \in DOMAIN later.nodes /\ later.nodes[name] = table.nodes[name]

RulesGood == /\ rules \in Seq(Rule)
             /\ Len(rules) <= MaxRules
             /\ \A r \in 1 .. Len(rules) : GoodAt(rules[r], r)

IInv == /\ RulesGood
        /\ TableGood(symbols, Len(rules))
        /\ TableGood(parts, Len(rules))

-----------------------------------------------------------------------------
(* The constructors.                                                       *)

LEMMA KindsDisjoint ==
  /\ Terminals \cap (Unary \cup Collections \cup {"Alias"}) = {}
  /\ Unary \cap Collections = {}
  /\ "Alias" \notin Unary \cup Collections
  /\ "CharRange" \notin Unary \cup Collections \cup {"Alias"}
  /\ Terminals \cup Unary \cup Collections \cup {"Alias"} = Kinds
  BY DEF Terminals, Unary, Collections, Kinds

LEMMA RefersGood ==
  ASSUME NEW name \in Names, NEW r \in Nat
  PROVE  GoodAt(RULE(name), r)
  <1>1. RULE(name) = [kind |-> "Alias", kids |-> <<>>, values |-> <<>>,
                      min |-> 0, max |-> 0, name |-> name]
    BY DEF RULE, PlainRule
  <1>2. RULE(name) \in Rule
    BY <1>1 DEF Rule, Kinds, AnyName
  <1> QED BY <1>1, <1>2 DEF GoodAt, Shaped, Unary, Collections

LEMMA OverGood ==
  ASSUME NEW kind \in Unary \cup Collections, NEW r \in RuleIds,
         NEW kids \in Seq(1 .. r - 1), Len(kids) >= 1,
         kind \in Unary => Len(kids) = 1
  PROVE  GoodAt(Over(kind, kids), r)
  <1>1. Over(kind, kids) = [kind |-> kind, kids |-> kids, values |-> <<>>,
                            min |-> 0, max |-> 0, name |-> NoName]
    BY DEF Over, PlainRule
  <1>2. \A n \in DOMAIN kids : kids[n] \in 1 .. r - 1
    <2>1. r \in Nat
      BY BuilderAssumption
    <2> QED BY <2>1
  <1>3. kids \in Seq(RuleIds)
    <2>1. \A n \in 1 .. Len(kids) : kids[n] \in RuleIds
      BY <1>2, BuilderAssumption
    <2>2. Len(kids) \in Nat /\ kids = [n \in 1 .. Len(kids) |-> kids[n]]
      OBVIOUS
    <2>3. [n \in 1 .. Len(kids) |-> kids[n]] \in Seq(RuleIds)
      BY <2>1, <2>2
    <2> QED BY <2>2, <2>3
  <1>4. Over(kind, kids) \in Rule
    BY <1>1, <1>3, KindsDisjoint DEF Rule, AnyName
  <1>5. Shaped(Over(kind, kids))
    BY <1>1, KindsDisjoint DEF Shaped
  <1>6. Over(kind, kids).kids = kids
    BY <1>1
  <1> QED BY <1>2, <1>4, <1>5, <1>6 DEF GoodAt

LEMMA OverOneGood ==
  ASSUME NEW kind \in Unary, NEW r \in RuleIds, NEW kid \in 1 .. r - 1
  PROVE  GoodAt(Over(kind, <<kid>>), r)
  <1> DEFINE kids == <<kid>>
  <1>1. kids \in Seq(1 .. r - 1) /\ Len(kids) = 1
    OBVIOUS
  <1>2. kind \in Unary \cup Collections
    OBVIOUS
  <1> HIDE DEF kids
  <1>3. GoodAt(Over(kind, kids), r)
    BY <1>1, <1>2, OverGood
  <1> QED BY <1>3 DEF kids

LEMMA RepeatGood ==
  ASSUME NEW r \in RuleIds, NEW kid \in 1 .. r - 1,
         NEW lo \in Nat, NEW hi \in Nat
  PROVE  GoodAt(REP(lo, hi, kid), r)
  <1>1. REP(lo, hi, kid) = [kind |-> "Repeat", kids |-> <<kid>>,
                            values |-> <<>>, min |-> lo, max |-> hi,
                            name |-> NoName]
    <2> DEFINE R0 == Over("Repeat", <<kid>>)
               R1 == [R0 EXCEPT !.min = lo]
    <2>1. R0 = [kind |-> "Repeat", kids |-> <<kid>>, values |-> <<>>,
                min |-> 0, max |-> 0, name |-> NoName]
      BY DEF Over, PlainRule
    <2> HIDE DEF R0
    <2>2. R1 = [kind |-> "Repeat", kids |-> <<kid>>, values |-> <<>>,
                min |-> lo, max |-> 0, name |-> NoName]
      BY <2>1
    <2>3. REP(lo, hi, kid) = [R1 EXCEPT !.max = hi]
      BY DEF REP, R0
    <2> HIDE DEF R1
    <2> QED BY <2>2, <2>3
  <1>2. kid \in RuleIds
    BY BuilderAssumption
  <1>3. REP(lo, hi, kid) \in Rule
    BY <1>1, <1>2 DEF Rule, Kinds, Unary, AnyName
  <1> QED BY <1>1, <1>3 DEF GoodAt, Shaped, Unary, Collections

(* What is constructed next can have the next id.                          *)
LEMMA ConstructGood ==
  ASSUME RulesGood, Construct
  PROVE  \E R : GoodAt(R, Len(rules) + 1) /\ rules' = Append(rules, R)
  <1> DEFINE n == Len(rules)
             OK(R) == GoodAt(R, n + 1) /\ rules' = Append(rules, R)
  <1>1. n \in Nat /\ n + 1 \in RuleIds /\ Existing = 1 .. n
    BY BuilderAssumption DEF RulesGood, Existing, Construct
  <1>2. CASE \E R \in Terms : Make(R)
    <2>1. PICK R \in Terms : Make(R)
      BY <1>2
    <2>2. R \in Rule /\ R.kind \in Terminals /\ R.kids = <<>>
      BY BuilderAssumption
    <2>3. Shaped(R)
      BY <2>2, BuilderAssumption, KindsDisjoint DEF Shaped
    <2> QED BY <2>1, <2>2, <2>3 DEF GoodAt, Make
  <1>3. CASE \E name \in Names : Make(RULE(name))
    BY <1>1, <1>3, RefersGood DEF Make
  <1>4. CASE \E kind \in Unary \ {"Repeat"}, r \in Existing :
               Make(Over(kind, <<r>>))
    <2>1. PICK kind \in Unary \ {"Repeat"}, r \in Existing :
            Make(Over(kind, <<r>>))
      BY <1>4
    <2>2. r \in 1 .. (n + 1) - 1 /\ kind \in Unary
      BY <1>1
    <2>3. GoodAt(Over(kind, <<r>>), n + 1)
      BY <1>1, <2>2, OverOneGood
    <2> QED BY <2>1, <2>3 DEF Make
  <1>5. CASE \E lo \in 0 .. 1, hi \in 0 .. 1, r \in Existing :
               Make(REP(lo, hi, r))
    <2>1. PICK lo \in 0 .. 1, hi \in 0 .. 1, r \in Existing :
            Make(REP(lo, hi, r))
      BY <1>5
    <2>2. r \in 1 .. (n + 1) - 1
      BY <1>1
    <2>3. GoodAt(REP(lo, hi, r), n + 1)
      BY <1>1, <2>2, RepeatGood
    <2> QED BY <2>1, <2>3 DEF Make
  <1>6. CASE \E kind \in Collections, kids \in ChildrenOf :
               Make(Over(kind, kids))
    <2>1. PICK kind \in Collections, kids \in ChildrenOf :
            Make(Over(kind, kids))
      BY <1>6
    <2>2. PICK k \in 1 .. MaxKids : kids \in [1 .. k -> 1 .. n]
      BY <1>1 DEF ChildrenOf
    <2>3. kids \in Seq(1 .. (n + 1) - 1) /\ Len(kids) >= 1
      BY <1>1, <2>2, BuilderAssumption
    <2>4. kind \notin Unary /\ kind \in Unary \cup Collections
      BY KindsDisjoint
    <2>5. GoodAt(Over(kind, kids), n + 1)
      BY <1>1, <2>3, <2>4, OverGood
    <2> QED BY <2>1, <2>5 DEF Make
  <1> QED BY <1>2, <1>3, <1>4, <1>5, <1>6 DEF Construct

-----------------------------------------------------------------------------
(* Tables.                                                                 *)

LEMMA AddNodeGood ==
  ASSUME NEW table, NEW k \in Nat, TableGood(table, k),
         NEW name \in Names, NEW r \in 1 .. k
  PROVE  /\ TableGood(addNode(table, name, r), k)
         /\ Keeps(table, addNode(table, name, r))
         /\ name \in DOMAIN addNode(table, name, r).nodes
  <1> DEFINE names == Append(table.names, name)
             nodes == [n \in DOMAIN table.nodes \cup {name} |->
                         IF n \in DOMAIN table.nodes THEN table.nodes[n]
                                                     ELSE r]
  <1>1. addNode(table, name, r) = [names |-> names, nodes |-> nodes]
    BY DEF addNode
  <1>2. names \in Seq(Names)
    BY DEF TableGood
  <1>3. nodes \in [DOMAIN nodes -> 1 .. k]
    BY DEF TableGood
  <1>4. DOMAIN nodes = {names[n] : n \in DOMAIN names}
    <2>1. {names[n] : n \in DOMAIN names}
            = {table.names[n] : n \in DOMAIN table.names} \cup {name}
      <3>1. /\ DOMAIN names = 1 .. Len(table.names) + 1
            /\ DOMAIN table.names = 1 .. Len(table.names)
            /\ Len(table.names) \in Nat
        BY DEF TableGood
      <3>2. \A n \in 1 .. Len(table.names) : names[n] = table.names[n]
        BY DEF TableGood
      <3>3. names[Len(table.names) + 1] = name
        BY DEF TableGood
      <3> QED BY <3>1, <3>2, <3>3
    <2> QED BY <2>1 DEF TableGood
  <1> HIDE DEF names, nodes
  <1>5. TableGood(addNode(table, name, r), k)
    BY <1>1, <1>2, <1>3, <1>4 DEF TableGood
  <1>6. \A n \in DOMAIN table.nodes : n \in DOMAIN nodes
                                      /\ nodes[n] = table.nodes[n]
    BY DEF nodes
  <1> QED BY <1>1, <1>5, <1>6 DEF Keeps, nodes

LEMMA KeepsTransitive ==
  ASSUME NEW a, NEW b, NEW c, Keeps(a, b), Keeps(b, c)
  PROVE  Keeps(a, c)
  BY DEF Keeps

LEMMA TableGrows ==
  ASSUME NEW table, NEW k \in Nat, NEW m \in Nat, k <= m, TableGood(table, k)
  PROVE  TableGood(table, m)
  <1>1. 1 .. k \subseteq 1 .. m
    OBVIOUS
  <1> QED BY <1>1 DEF TableGood

-----------------------------------------------------------------------------
(* Rules that are made one after the other.                                *)

LEMMA AppendIsConcat ==
  ASSUME NEW S, NEW s \in Seq(S), NEW e \in S
  PROVE  Append(s, e) = s \o <<e>>
  OBVIOUS

(* The rules of s can have the ids behind n.                               *)
Follows(s, n) == /\ s \in Seq(Rule)
                 /\ \A i \in 1 .. Len(s) : GoodAt(s[i], n + i)

LEMMA FollowsNothing ==
  ASSUME NEW n \in Nat
  PROVE  Follows(<<>>, n) /\ Len(<<>>) = 0
  BY DEF Follows

LEMMA FollowsOne ==
  ASSUME NEW n \in Nat, NEW R, GoodAt(R, n + 1)
  PROVE  Follows(<<R>>, n) /\ Len(<<R>>) = 1
  <1>1. R \in Rule
    BY DEF GoodAt
  <1>2. <<R>> \in Seq(Rule) /\ Len(<<R>>) = 1 /\ <<R>>[1] = R
    BY <1>1
  <1> QED BY <1>2 DEF Follows

LEMMA FollowsConcat ==
  ASSUME NEW n \in Nat, NEW s, NEW t, Follows(s, n), Follows(t, n + Len(s))
  PROVE  Follows(s \o t, n) /\ Len(s \o t) = Len(s) + Len(t)
  <1>1. /\ s \in Seq(Rule) /\ t \in Seq(Rule)
        /\ Len(s) \in Nat /\ Len(t) \in Nat
    BY DEF Follows
  <1>2. s \o t \in Seq(Rule) /\ Len(s \o t) = Len(s) + Len(t)
    BY <1>1
  <1>3. ASSUME NEW i \in 1 .. Len(s \o t)
        PROVE  GoodAt((s \o t)[i], n + i)
    <2>1. CASE i <= Len(s)
      <3>1. (s \o t)[i] = s[i] /\ i \in 1 .. Len(s)
        BY <1>1, <1>2, <1>3, <2>1
      <3> QED BY <3>1 DEF Follows
    <2>2. CASE i > Len(s)
      <3>1. /\ (s \o t)[i] = t[i - Len(s)]
            /\ i - Len(s) \in 1 .. Len(t)
            /\ n + Len(s) + (i - Len(s)) = n + i
        BY <1>1, <1>2, <1>3, <2>2
      <3>2. GoodAt(t[i - Len(s)], n + Len(s) + (i - Len(s)))
        BY <3>1 DEF Follows
      <3> QED BY <3>1, <3>2
    <2> QED BY <1>1, <2>1, <2>2
  <1> QED BY <1>2, <1>3 DEF Follows

-----------------------------------------------------------------------------
(* UnwrapAddStrategy.                                                      *)

(* The four rules a + derives, over the reference a.                       *)
LEMMA PlusFollows ==
  ASSUME NEW n \in Nat, NEW a \in 1 .. n, n + 4 <= MaxRules
  PROVE  Follows(<<REP(0, 0, a), SEQ(<<a, n + 1>>), OPT(a), BUT(a)>>, n)
  <1>1. /\ n + 1 \in RuleIds /\ n + 2 \in RuleIds
        /\ n + 3 \in RuleIds /\ n + 4 \in RuleIds
    BY BuilderAssumption
  <1>2. GoodAt(REP(0, 0, a), n + 1)
    <2>1. a \in 1 .. (n + 1) - 1
      OBVIOUS
    <2> QED BY <1>1, <2>1, RepeatGood
  <1>3. GoodAt(SEQ(<<a, n + 1>>), n + 2)
    <2>1. <<a, n + 1>> \in Seq(1 .. (n + 2) - 1) /\ Len(<<a, n + 1>>) = 2
      OBVIOUS
    <2>2. "Sequence" \in Collections /\ "Sequence" \notin Unary
      BY DEF Collections, Unary
    <2> DEFINE kids == <<a, n + 1>>
    <2> HIDE DEF kids
    <2>3. GoodAt(Over("Sequence", kids), n + 2)
      <3>1. kids \in Seq(1 .. (n + 2) - 1) /\ Len(kids) = 2
        BY <2>1 DEF kids
      <3>2. "Sequence" \in Unary \cup Collections /\ Len(kids) >= 1
        BY <2>2, <3>1
      <3> QED BY <1>1, <2>2, <3>1, <3>2, OverGood
    <2> QED BY <2>3 DEF SEQ, kids
  <1>4. ASSUME NEW kind \in Unary, NEW r \in {n + 3, n + 4}
        PROVE  GoodAt(Over(kind, <<a>>), r)
    <2>1. a \in 1 .. r - 1 /\ r \in RuleIds
      BY <1>1
    <2> QED BY <2>1, OverOneGood
  <1>5. GoodAt(OPT(a), n + 3) /\ GoodAt(BUT(a), n + 4)
    BY <1>4 DEF OPT, BUT, Unary
  <1> DEFINE P == REP(0, 0, a)
             S == SEQ(<<a, n + 1>>)
             O == OPT(a)
             B == BUT(a)
  <1>6. {P, S, O, B} \subseteq Rule
    BY <1>2, <1>3, <1>5 DEF GoodAt
  <1>7. GoodAt(P, n + 1) /\ GoodAt(S, n + 2) /\ GoodAt(O, n + 3) /\ GoodAt(B, n + 4)
    BY <1>2, <1>3, <1>5
  <1> HIDE DEF P, S, O, B
  <1>8. Follows(<<P, S, O, B>>, n)
    BY <1>6, <1>7 DEF Follows
  <1> QED BY <1>8 DEF P, S, O, B

(* What a declaration makes can have the ids that follow, and the ids it   *)
(* names are among these.                                                  *)
LEMMA MadeForGood ==
  ASSUME NEW base \in Bases, NEW marks, NEW n \in Nat,
         n + Len(MadeFor(base, marks, n)) <= MaxRules
  PROVE  LET last == n + Len(MadeFor(base, marks, n)) IN
           /\ Follows(MadeFor(base, marks, n), n)
           /\ last \in Nat /\ n <= last
           /\ "*" \in marks => n + 2 <= last
           /\ "+" \in marks => PlusFrom(marks, n) + 3 <= last
           /\ PlusFrom(marks, n) \in Nat
  <1> DEFINE a == n + 1
             m == PlusFrom(marks, n)
             N == RULE(base)
             P == REP(0, 0, a)
             S == SEQ(<<a, m>>)
             O == OPT(a)
             B == BUT(a)
             star == IF "*" \in marks THEN <<P>> ELSE <<>>
             plus == IF "+" \in marks THEN <<P, S, O, B>> ELSE <<>>
             made == <<N>> \o star \o plus
  <1>1. MadeFor(base, marks, n) = made
    BY DEF MadeFor
  <1>2. /\ Len(star) = IF "*" \in marks THEN 1 ELSE 0
        /\ Len(plus) = IF "+" \in marks THEN 4 ELSE 0
        /\ Len(made) = 1 + Len(star) + Len(plus)
    <2> HIDE DEF N, P, S, O, B
    <2>1. star \in Seq({P}) /\ Len(star) = IF "*" \in marks THEN 1 ELSE 0
      <3>1. CASE "*" \in marks
        BY <3>1
      <3>2. CASE "*" \notin marks
        BY <3>2
      <3> QED BY <3>1, <3>2
    <2>2. plus \in Seq({P, S, O, B}) /\ Len(plus) = IF "+" \in marks THEN 4 ELSE 0
      <3>1. CASE "+" \in marks
        BY <3>1
      <3>2. CASE "+" \notin marks
        BY <3>2
      <3> QED BY <3>1, <3>2
    <2>3. <<N>> \in Seq({N}) /\ Len(<<N>>) = 1
      OBVIOUS
    <2> HIDE DEF star, plus
    <2>4. \A T : T = {N, P, S, O, B} =>
            /\ star \in Seq(T) /\ plus \in Seq(T) /\ <<N>> \in Seq(T)
      <3> TAKE T
      <3> HAVE T = {N, P, S, O, B}
      <3>1. {P} \subseteq T /\ {P, S, O, B} \subseteq T /\ {N} \subseteq T
        OBVIOUS
      <3> QED BY <2>1, <2>2, <2>3, <3>1
    <2>5. Len(made) = Len(<<N>>) + Len(star) + Len(plus)
      BY <2>4
    <2> QED BY <2>1, <2>2, <2>3, <2>5
  <1>3. /\ MaxRules \in Nat
        /\ n + 1 + Len(star) + Len(plus) <= MaxRules
    BY <1>1, <1>2, BuilderAssumption
  <1>4. m = n + 2 + Len(star)
    BY <1>2 DEF PlusFrom
  <1>5. Follows(<<N>>, n) /\ Len(<<N>>) = 1
    BY NamesAssumption, RefersGood, FollowsOne
  <1>6. Follows(star, n + 1)
    <2>1. CASE "*" \in marks
      <3>1. n + 2 \in RuleIds /\ a \in 1 .. (n + 2) - 1
        BY <1>2, <1>3, <2>1, BuilderAssumption
      <3>2. GoodAt(P, (n + 1) + 1)
        BY <3>1, RepeatGood
      <3>3. Follows(<<P>>, n + 1)
        BY <3>2, FollowsOne
      <3> QED BY <2>1, <3>3
    <2>2. CASE "*" \notin marks
      BY <2>2, FollowsNothing
    <2> QED BY <2>1, <2>2
  <1>7. Follows(plus, n + 1 + Len(star))
    <2> DEFINE k == n + 1 + Len(star)
    <2>1. k \in Nat /\ a \in 1 .. k /\ m = k + 1
      BY <1>2, <1>4
    <2>2. CASE "+" \in marks
      <3>1. k + 4 <= MaxRules
        BY <1>2, <1>3, <2>2
      <3> HIDE DEF k, a, m
      <3>2. Follows(<<REP(0, 0, a), SEQ(<<a, k + 1>>), OPT(a), BUT(a)>>, k)
        BY <2>1, <3>1, PlusFollows
      <3>3. Follows(plus, k)
        BY <2>1, <2>2, <3>2
      <3> QED BY <3>3 DEF k
    <2>3. CASE "+" \notin marks
      BY <2>1, <2>3, FollowsNothing
    <2> QED BY <2>2, <2>3
  <1> HIDE DEF N, P, S, O, B, star, plus
  <1>8. Follows(<<N>> \o star, n) /\ Len(<<N>> \o star) = 1 + Len(star)
    BY <1>5, <1>6, FollowsConcat
  <1>9. Follows(made, n)
    <2>1. n + Len(<<N>> \o star) = n + 1 + Len(star)
      BY <1>2, <1>8
    <2>2. Follows(plus, n + Len(<<N>> \o star))
      BY <1>7, <2>1
    <2> QED BY <1>8, <2>2, FollowsConcat
  <1> QED BY <1>1, <1>2, <1>4, <1>9

-----------------------------------------------------------------------------
(* A declaration into a table.                                             *)
LEMMA UnwrappedGood ==
  ASSUME NEW table, NEW base \in Bases, NEW marks, NEW n \in Nat,
         NEW r \in 1 .. n, TableGood(table, n),
         n + Len(MadeFor(base, marks, n)) <= MaxRules
  PROVE  LET last == n + Len(MadeFor(base, marks, n)) IN
           /\ TableGood(Unwrapped(table, base, marks, r, n), last)
           /\ Keeps(table, Unwrapped(table, base, marks, r, n))
           /\ base \in DOMAIN Unwrapped(table, base, marks, r, n).nodes
  <1> DEFINE last == n + Len(MadeFor(base, marks, n))
             m == PlusFrom(marks, n)
             star == Star(table, base, marks, n)
             some == addNode(star, base \o "+", m + 1)
             opt == addNode(some, base \o "?", m + 2)
             but == addNode(opt, base \o "-", m + 3)
             plus == Plus(star, base, marks, n)
  <1>1. /\ last \in Nat /\ n <= last
        /\ "*" \in marks => n + 2 <= last
        /\ "+" \in marks => m + 3 <= last
        /\ m \in Nat
    BY MadeForGood
  <1>2. /\ base \o "*" \in Names /\ base \o "+" \in Names
        /\ base \o "?" \in Names /\ base \o "-" \in Names
        /\ base \in Names
    BY NamesAssumption DEF Marks
  <1> HIDE DEF last, m
  <1>3. TableGood(table, last)
    BY <1>1, TableGrows
  <1>4. Keeps(table, table)
    BY DEF Keeps
  <1>5. TableGood(star, last) /\ Keeps(table, star)
    <2>1. CASE "*" \in marks
      <3>1. n + 2 \in 1 .. last
        BY <1>1, <2>1
      <3>2. star = addNode(table, base \o "*", n + 2)
        BY <2>1 DEF Star
      <3> QED BY <1>1, <1>2, <1>3, <3>1, <3>2, AddNodeGood
    <2>2. CASE "*" \notin marks
      BY <1>3, <1>4, <2>2 DEF Star
    <2> QED BY <2>1, <2>2
  <1> HIDE DEF star
  <1>6. TableGood(plus, last) /\ Keeps(star, plus)
    <2>1. CASE "+" \in marks
      <3>1. {m + 1, m + 2, m + 3} \subseteq 1 .. last
        BY <1>1, <2>1
      <3>2. TableGood(some, last) /\ Keeps(star, some)
        BY <1>1, <1>2, <1>5, <3>1, AddNodeGood
      <3> HIDE DEF some
      <3>3. TableGood(opt, last) /\ Keeps(some, opt)
        BY <1>1, <1>2, <3>1, <3>2, AddNodeGood
      <3> HIDE DEF opt
      <3>4. TableGood(but, last) /\ Keeps(opt, but)
        BY <1>1, <1>2, <3>1, <3>3, AddNodeGood
      <3> HIDE DEF but
      <3>5. Keeps(star, but)
        BY <3>2, <3>3, <3>4, KeepsTransitive
      <3>6. plus = but
        BY <2>1 DEF Plus, but, opt, some, m
      <3> QED BY <3>4, <3>5, <3>6
    <2>2. CASE "+" \notin marks
      <3>1. plus = star
        BY <2>2 DEF Plus
      <3> QED BY <1>5, <3>1 DEF Keeps
    <2> QED BY <2>1, <2>2
  <1> HIDE DEF plus
  <1>7. r \in 1 .. last
    BY <1>1
  <1>8. /\ TableGood(addNode(plus, base, r), last)
        /\ Keeps(plus, addNode(plus, base, r))
        /\ base \in DOMAIN addNode(plus, base, r).nodes
    BY <1>1, <1>2, <1>6, <1>7, AddNodeGood
  <1>9. Unwrapped(table, base, marks, r, n) = addNode(plus, base, r)
    BY DEF Unwrapped, plus, star
  <1>10. Keeps(table, addNode(plus, base, r))
    BY <1>5, <1>6, <1>8, KeepsTransitive
  <1> QED BY <1>8, <1>9, <1>10 DEF last
-----------------------------------------------------------------------------
(* The invariant.                                                          *)

(* Rules that are appended leave those before them where they are.         *)
LEMMA RulesAppended ==
  ASSUME RulesGood, NEW made, Follows(made, Len(rules)),
         Len(rules) + Len(made) <= MaxRules, rules' = rules \o made
  PROVE  RulesGood' /\ Len(rules') = Len(rules) + Len(made)
  <1>1. Len(rules) \in Nat
    BY DEF RulesGood
  <1>2. Follows(rules, 0)
    BY <1>1 DEF Follows, RulesGood
  <1>3. 0 + Len(rules) = Len(rules)
    BY <1>1
  <1>4. /\ Follows(rules \o made, 0)
        /\ Len(rules \o made) = Len(rules) + Len(made)
    BY <1>2, <1>3, FollowsConcat
  <1>5. \A i \in 1 .. Len(rules') : GoodAt(rules'[i], i)
    <2> TAKE i \in 1 .. Len(rules')
    <2>1. GoodAt(rules'[i], 0 + i) /\ 0 + i = i
      BY <1>4 DEF Follows
    <2> QED BY <2>1
  <1> QED BY <1>4, <1>5 DEF RulesGood, Follows

LEMMA IInvInit == Init => IInv
  <1> SUFFICES ASSUME Init PROVE IInv
    OBVIOUS
  <1>1. RulesGood
    BY BuilderAssumption DEF Init, RulesGood
  <1>2. TableGood(NoNodes, 0)
    BY DEF TableGood, NoNodes
  <1> QED BY <1>1, <1>2 DEF Init, IInv

LEMMA IInvConstruct == IInv /\ Construct => IInv'
  <1> SUFFICES ASSUME IInv, Construct PROVE IInv'
    OBVIOUS
  <1>1. PICK R : GoodAt(R, Len(rules) + 1) /\ rules' = Append(rules, R)
    BY ConstructGood DEF IInv
  <1>2. Len(rules) \in Nat /\ rules \in Seq(Rule) /\ MaxRules \in Nat
    BY BuilderAssumption DEF IInv, RulesGood
  <1>3. Len(rules) < MaxRules
    BY DEF Construct
  <1>4. GoodAt(R, Len(rules) + 1)
    BY <1>1
  <1>5. RulesGood' /\ Len(rules') = Len(rules) + 1
    <2>1. R \in Rule
      BY <1>4 DEF GoodAt
    <2>2. Follows(<<R>>, Len(rules)) /\ Len(<<R>>) = 1
      BY <1>2, <1>4, FollowsOne
    <2>3. rules' = rules \o <<R>>
      <3>1. Append(rules, R) = rules \o <<R>>
        BY <1>2, <2>1, AppendIsConcat
      <3> QED BY <1>1, <3>1
    <2> DEFINE made == <<R>>
    <2> HIDE DEF made
    <2>4. RulesGood' /\ Len(rules') = Len(rules) + Len(made)
      <3>1. Follows(made, Len(rules)) /\ Len(made) = 1 /\ rules' = rules \o made
        BY <2>2, <2>3 DEF made
      <3>2. Len(rules) + Len(made) <= MaxRules
        BY <1>2, <1>3, <3>1
      <3> QED BY <3>1, <3>2, RulesAppended DEF IInv
    <2> QED BY <2>2, <2>4 DEF made
  <1>6. TableGood(symbols, Len(rules')) /\ TableGood(parts, Len(rules'))
    BY <1>2, <1>5, TableGrows DEF IInv
  <1>7. symbols' = symbols /\ parts' = parts
    BY DEF Construct
  <1> QED BY <1>5, <1>6, <1>7 DEF IInv

LEMMA IInvAdd ==
  IInv /\ Add => IInv' /\ Keeps(symbols, symbols') /\ Keeps(parts, parts')
  <1> SUFFICES ASSUME IInv, Add
               PROVE  IInv' /\ Keeps(symbols, symbols') /\ Keeps(parts, parts')
    OBVIOUS
  <1>1. PICK name \in Names, r \in Existing :
          \/ symbols' = addNode(symbols, name, r) /\ UNCHANGED parts
          \/ parts' = addNode(parts, name, r) /\ UNCHANGED symbols
    BY DEF Add
  <1>2. rules' = rules /\ RulesGood'
    BY DEF Add, IInv, RulesGood
  <1>3. r \in 1 .. Len(rules) /\ Len(rules) \in Nat
    BY DEF Existing, IInv, RulesGood
  <1>4. ASSUME NEW table, TableGood(table, Len(rules))
        PROVE  /\ TableGood(addNode(table, name, r), Len(rules))
               /\ Keeps(table, addNode(table, name, r))
               /\ Keeps(table, table)
    BY <1>3, <1>4, AddNodeGood DEF Keeps
  <1> QED BY <1>1, <1>2, <1>4 DEF IInv

LEMMA IInvAddUnwrapped ==
  IInv /\ AddUnwrapped =>
    IInv' /\ Keeps(symbols, symbols') /\ Keeps(parts, parts')
  <1> SUFFICES ASSUME IInv, AddUnwrapped
               PROVE  IInv' /\ Keeps(symbols, symbols') /\ Keeps(parts, parts')
    OBVIOUS
  <1> DEFINE n == Len(rules)
  <1>1. PICK base \in Bases, marks \in SUBSET Marks, r \in Existing :
          /\ rules' = rules \o MadeFor(base, marks, n)
          /\ n + Len(MadeFor(base, marks, n)) <= MaxRules
          /\ \/ /\ symbols' = Unwrapped(symbols, base, marks, r, n)
                /\ UNCHANGED parts
             \/ /\ parts' = Unwrapped(parts, base, marks, r, n)
                /\ UNCHANGED symbols
    BY DEF AddUnwrapped
  <1> DEFINE made == MadeFor(base, marks, n)
             last == n + Len(made)
  <1>2. r \in 1 .. n /\ n \in Nat
    BY DEF Existing, IInv, RulesGood
  <1>3. Follows(made, n) /\ last \in Nat /\ n <= last /\ last <= MaxRules
    BY <1>1, <1>2, MadeForGood
  <1>4. ASSUME NEW table, TableGood(table, n)
        PROVE  /\ TableGood(Unwrapped(table, base, marks, r, n), last)
               /\ Keeps(table, Unwrapped(table, base, marks, r, n))
               /\ TableGood(table, last)
               /\ Keeps(table, table)
    <2>1. TableGood(table, last) /\ Keeps(table, table)
      BY <1>2, <1>3, <1>4, TableGrows DEF Keeps
    <2>2. n + Len(MadeFor(base, marks, n)) <= MaxRules
      BY <1>1
    <2> QED BY <1>2, <1>4, <2>1, <2>2, UnwrappedGood
  <1> HIDE DEF made
  <1>5. RulesGood' /\ Len(rules') = last
    BY <1>1, <1>3, RulesAppended DEF IInv, made
  <1>6. TableGood(symbols, n) /\ TableGood(parts, n)
    BY DEF IInv
  <1> HIDE DEF last, n
  <1>7. /\ TableGood(symbols', last) /\ Keeps(symbols, symbols')
        /\ TableGood(parts', last) /\ Keeps(parts, parts')
    BY <1>1, <1>4, <1>6 DEF n
  <1> QED BY <1>5, <1>7 DEF IInv

-----------------------------------------------------------------------------
(* What the invariant says of the library.                                 *)

LEMMA IInvTypeOK == IInv => TypeOK
  BY DEF IInv, RulesGood, TypeOK, TableOK, TableGood, Existing

LEMMA IInvOlderKids == IInv => OlderKids
  BY DEF IInv, RulesGood, GoodAt, OlderKids, Existing

LEMMA IInvBuildsLibrary == IInv => BuildsLibrary
  <1> SUFFICES ASSUME IInv PROVE BuildsLibrary
    OBVIOUS
  <1> DEFINE At(r) == IF r \in Existing THEN rules[r] ELSE ANY
  <1>1. Existing \subseteq RuleIds
    BY BuilderAssumption DEF Existing, IInv, RulesGood
  <1>2. ANY \in Rule /\ Shaped(ANY)
    BY DEF ANY, PlainRule, Rule, Kinds, Terminals, Unary, Collections,
           AnyName, Shaped
  <1>3. ASSUME NEW r \in RuleIds
        PROVE  At(r) \in Rule /\ Shaped(At(r))
    <2>1. CASE r \in Existing
      BY <2>1 DEF Existing, IInv, RulesGood, GoodAt
    <2>2. CASE r \notin Existing
      BY <1>2, <2>2
    <2> QED BY <2>1, <2>2
  <1>4. ASSUME NEW table, TableGood(table, Len(rules))
        PROVE  /\ table.names \in Seq(Names)
               /\ Lookup(table) \in [Names -> RuleIds \cup {NoRule}]
               /\ \A n \in 1 .. Len(table.names) :
                    Lookup(table)[table.names[n]] # NoRule
    <2>1. \A name \in DOMAIN table.nodes : table.nodes[name] \in RuleIds
      BY <1>1, <1>4 DEF TableGood, Existing
    <2>2. \A n \in 1 .. Len(table.names) :
            table.names[n] \in Names /\ table.names[n] \in DOMAIN table.nodes
      BY <1>4 DEF TableGood
    <2> QED BY <1>4, <2>1, <2>2, LibrariesAssumption DEF Lookup, TableGood
  <1> HIDE DEF At
  <1>5. AsLibrary = [rules   |-> [r \in RuleIds |-> At(r)],
                     symbols |-> symbols.names,
                     parts   |-> parts.names,
                     symbol  |-> Lookup(symbols),
                     part    |-> Lookup(parts)]
    BY DEF AsLibrary, At
  <1>6. AsLibrary \in Library
    BY <1>3, <1>4, <1>5 DEF Library, IInv
  <1>7. \A r \in RuleIds : Shaped(AsLibrary.rules[r])
    BY <1>3, <1>5
  <1>8. \A n \in 1 .. Len(AsLibrary.symbols) :
          AsLibrary.symbol[AsLibrary.symbols[n]] # NoRule
    BY <1>4, <1>5 DEF IInv
  <1>9. \A n \in 1 .. Len(AsLibrary.parts) :
          AsLibrary.part[AsLibrary.parts[n]] # NoRule
    BY <1>4, <1>5 DEF IInv
  <1> QED BY <1>6, <1>7, <1>8, <1>9 DEF BuildsLibrary, WellBuilt, Shaped

-----------------------------------------------------------------------------
(* The theorems.                                                           *)

LEMMA IInvNext == IInv /\ [Next]_builderVars => IInv'
  <1> SUFFICES ASSUME IInv, [Next]_builderVars PROVE IInv'
    OBVIOUS
  <1>1. CASE Construct
    BY <1>1, IInvConstruct
  <1>2. CASE Add
    BY <1>2, IInvAdd
  <1>3. CASE AddUnwrapped
    BY <1>3, IInvAddUnwrapped
  <1>4. CASE UNCHANGED builderVars
    BY <1>4 DEF builderVars, IInv, RulesGood
  <1> QED BY <1>1, <1>2, <1>3, <1>4 DEF Next

LEMMA Invariance == Spec => []IInv
  BY IInvInit, IInvNext, PTL DEF Spec

(* The tables list the names they have, and give them rules that exist.    *)
THEOREM BuilderTypeCorrect == Spec => []TypeOK
  BY Invariance, IInvTypeOK, PTL

(* The children of a rule are older than the rule, whatever is built: the  *)
(* recursion of a grammar goes through names, and a walk over the children *)
(* of a rule, as the printer makes it, ends.                               *)
THEOREM KidsAreOlder == Spec => []OlderKids
  BY Invariance, IInvOlderKids, PTL

(* Every library that can be built, from any terminals, with any marks and *)
(* in any order, is one that LibrariesAssumption admits: what is proved of *)
(* the evaluator for all libraries holds of every grammar a program makes. *)
THEOREM EveryLibraryEvaluable == Spec => []BuildsLibrary
  BY Invariance, IInvBuildsLibrary, PTL

(* No later declaration, derived ones included, changes what a name means. *)
THEOREM NamesAreKept == Spec => NamesKeepTheirRule
  <1> DEFINE Kept == \A table \in {<<symbols, symbols'>>, <<parts, parts'>>} :
                       \A name \in DOMAIN table[1].nodes :
                         /\ name \in DOMAIN table[2].nodes
                         /\ table[2].nodes[name] = table[1].nodes[name]
  <1>1. Keeps(symbols, symbols') /\ Keeps(parts, parts') => Kept
    BY DEF Keeps
  <1>2. IInv /\ [Next]_builderVars =>
          Keeps(symbols, symbols') /\ Keeps(parts, parts')
    <2> SUFFICES ASSUME IInv, [Next]_builderVars
                 PROVE  Keeps(symbols, symbols') /\ Keeps(parts, parts')
      OBVIOUS
    <2>1. CASE Construct \/ UNCHANGED builderVars
      BY <2>1 DEF Construct, builderVars, Keeps
    <2>2. CASE Add
      BY <2>2, IInvAdd
    <2>3. CASE AddUnwrapped
      BY <2>3, IInvAddUnwrapped
    <2> QED BY <2>1, <2>2, <2>3 DEF Next
  <1>3. IInv /\ [Next]_builderVars => [Kept]_builderVars
    BY <1>1, <1>2
  <1> QED BY <1>3, Invariance, PTL DEF Spec, NamesKeepTheirRule

-----------------------------------------------------------------------------
(* Of the rules a declaration makes, only one refers to a name: its base.  *)
LEMMA MadeRefers ==
  ASSUME NEW base, NEW marks, NEW n \in Nat,
         NEW i \in 1 .. Len(MadeFor(base, marks, n)),
         MadeFor(base, marks, n)[i].kind = "Alias"
  PROVE  MadeFor(base, marks, n)[i].name = base
  <1> DEFINE a == n + 1
             N == RULE(base)
             P == REP(0, 0, a)
             S == SEQ(<<a, PlusFrom(marks, n)>>)
             O == OPT(a)
             B == BUT(a)
             T == {N, P, S, O, B}
             star == IF "*" \in marks THEN <<P>> ELSE <<>>
             plus == IF "+" \in marks THEN <<P, S, O, B>> ELSE <<>>
             made == <<N>> \o star \o plus
  <1>1. MadeFor(base, marks, n) = made
    BY DEF MadeFor
  <1>2. N.name = base
    BY DEF RULE, PlainRule
  <1>3. P.kind = "Repeat"
    BY DEF REP, Over, PlainRule
  <1>4. S.kind = "Sequence" /\ O.kind = "Optional" /\ B.kind = "AnyBut"
    BY DEF SEQ, OPT, BUT, Over, PlainRule
  <1> HIDE DEF N, P, S, O, B
  <1>5. \A R \in T : R.kind = "Alias" => R.name = base
    BY <1>2, <1>3, <1>4
  <1>6. <<N>> \in Seq(T)
    OBVIOUS
  <1>7. star \in Seq(T)
    <2>1. CASE "*" \in marks
      BY <2>1
    <2>2. CASE "*" \notin marks
      BY <2>2
    <2> QED BY <2>1, <2>2
  <1>8. plus \in Seq(T)
    <2>1. CASE "+" \in marks
      BY <2>1
    <2>2. CASE "+" \notin marks
      BY <2>2
    <2> QED BY <2>1, <2>2
  <1> HIDE DEF T, star, plus
  <1>9. made \in Seq(T)
    BY <1>6, <1>7, <1>8
  <1> HIDE DEF made
  <1>10. \A j \in 1 .. Len(made) : made[j] \in T
    BY <1>9
  <1> QED BY <1>1, <1>5, <1>10, Zenon

(* A name that a table has is resolved.                                    *)
LEMMA TableResolves ==
  ASSUME IInv, NEW name \in Names,
         name \in DOMAIN symbols.nodes \cup DOMAIN parts.nodes
  PROVE  Resolve(AsLibrary, name) # NoRule
  <1>1. ASSUME NEW table, TableGood(table, Len(rules)),
               name \in DOMAIN table.nodes
        PROVE  Lookup(table)[name] # NoRule
    <2>1. table.nodes[name] \in 1 .. Len(rules)
      BY <1>1 DEF TableGood
    <2>2. table.nodes[name] \in RuleIds
      BY <2>1, BuilderAssumption DEF IInv, RulesGood
    <2> QED BY <1>1, <2>2, LibrariesAssumption DEF Lookup
  <1>2. \/ Lookup(symbols)[name] # NoRule
        \/ Lookup(parts)[name] # NoRule
    BY <1>1 DEF IInv
  <1>3. AsLibrary.symbol = Lookup(symbols) /\ AsLibrary.part = Lookup(parts)
    BY DEF AsLibrary
  <1> QED BY <1>2, <1>3 DEF Resolve

Resolvable == \A name \in DOMAIN symbols.nodes \cup DOMAIN parts.nodes :
                name \in Names => Resolve(AsLibrary, name) # NoRule

LEMMA IInvResolvable == IInv => Resolvable
  BY TableResolves DEF Resolvable

(* What a declaration refers to is a name it has just been given a rule    *)
(* for.                                                                    *)
LEMMA UnwrappedResolves ==
  ASSUME IInv, AddUnwrapped, NEW r \in DOMAIN rules' \ DOMAIN rules,
         rules'[r].kind = "Alias"
  PROVE  Resolve(AsLibrary', rules'[r].name) # NoRule
  <1> DEFINE n == Len(rules)
  <1>1. PICK base \in Bases, marks \in SUBSET Marks, q \in Existing :
          /\ rules' = rules \o MadeFor(base, marks, n)
          /\ n + Len(MadeFor(base, marks, n)) <= MaxRules
          /\ \/ /\ symbols' = Unwrapped(symbols, base, marks, q, n)
                /\ UNCHANGED parts
             \/ /\ parts' = Unwrapped(parts, base, marks, q, n)
                /\ UNCHANGED symbols
    BY DEF AddUnwrapped
  <1> DEFINE made == MadeFor(base, marks, n)
  <1>2. n \in Nat /\ q \in 1 .. n /\ rules \in Seq(Rule)
    BY DEF Existing, IInv, RulesGood
  <1>3. made \in Seq(Rule)
    BY <1>1, <1>2, MadeForGood DEF Follows
  <1>4. rules'[r].name = base
    <2> DEFINE i == r - n
    <2>1. i \in 1 .. Len(made) /\ rules'[r] = made[i]
      <3> HIDE DEF made
      <3>1. rules' = rules \o made
        BY <1>1 DEF made
      <3>2. DOMAIN rules = 1 .. n /\ DOMAIN rules' = 1 .. n + Len(made)
        BY <1>2, <1>3, <3>1
      <3>3. r \in 1 .. n + Len(made) /\ r \notin 1 .. n /\ Len(made) \in Nat
        BY <1>3, <3>2
      <3>4. i \in 1 .. Len(made)
        BY <1>2, <3>3
      <3> QED BY <1>2, <1>3, <3>1, <3>3, <3>4
    <2> HIDE DEF i
    <2> QED BY <1>2, <2>1, MadeRefers
  <1>5. base \in DOMAIN symbols'.nodes \cup DOMAIN parts'.nodes
    <2>1. ASSUME NEW table, TableGood(table, n)
          PROVE  base \in DOMAIN Unwrapped(table, base, marks, q, n).nodes
      BY <1>1, <1>2, <2>1, UnwrappedGood
    <2>2. TableGood(symbols, n) /\ TableGood(parts, n)
      BY DEF IInv
    <2> HIDE DEF n, made
    <2> QED BY <1>1, <2>1, <2>2
  <1>6. base \in Names
    BY NamesAssumption
  <1>7. IInv'
    BY IInvAddUnwrapped
  <1>8. IInv' => Resolvable'
    BY IInvResolvable, PTL
  <1> QED BY <1>4, <1>5, <1>6, <1>7, <1>8 DEF Resolvable

(* The rules a declaration derives refer to a name that has a rule, for    *)
(* any marks and whatever was declared before: no later visit of theirs    *)
(* finds nullptr (visitByName).                                            *)
THEOREM DerivedRulesResolve == Spec => DerivedResolve
  <1> DEFINE Resolved == <<symbols, parts>>' # <<symbols, parts>> =>
                           \A r \in DOMAIN rules' \ DOMAIN rules :
                             rules'[r].kind = "Alias" =>
                               Resolve(AsLibrary', rules'[r].name) # NoRule
  <1>1. IInv /\ [Next]_builderVars => [Resolved]_builderVars
    <2> SUFFICES ASSUME IInv, Next PROVE Resolved
      OBVIOUS
    <2>1. CASE Construct
      BY <2>1 DEF Construct
    <2>2. CASE Add
      BY <2>2 DEF Add
    <2>3. CASE AddUnwrapped
      BY <2>3, UnwrappedResolves
    <2> QED BY <2>1, <2>2, <2>3 DEF Next
  <1> QED BY <1>1, Invariance, PTL DEF Spec, DerivedResolve

=============================================================================
