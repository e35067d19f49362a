---------------------------- MODULE Declarations ----------------------------
(***************************************************************************)
(* Adding an expression to a library under a name (Visitor.h, Rules.h,     *)
(* LogicRules.h).  A table is one of the two visitor::Library objects: the *)
(* symbols or the parts.  A name may carry marks (`digit*+?-') from which  *)
(* UnwrapAddStrategy derives further rules and names.                      *)
(***************************************************************************)
EXTENDS Rules

Marks == {"*", "+", "?", "-"}

NoNodes == [names |-> <<>>, nodes |-> <<>>]

(* Mutant: the rule added last has the name.                               *)
Mutant_addNode(table, name, r) ==
  [names |-> Append(table.names, name),
   nodes |-> [n \in DOMAIN table.nodes \cup {name} |->
                IF n = name THEN r ELSE table.nodes[n]]]

(* Mutant: the name is not listed.                                         *)
Mutant_unlisted(table, name, r) ==
  [names |-> table.names,
   nodes |-> [n \in DOMAIN table.nodes \cup {name} |->
                IF n \in DOMAIN table.nodes THEN table.nodes[n] ELSE r]]

(* A name keeps the rule it was first given, and is listed once more.      *)
addNode(table, name, r) ==
  [names |-> Append(table.names, name),
   nodes |-> [n \in DOMAIN table.nodes \cup {name} |->
                IF n \in DOMAIN table.nodes THEN table.nodes[n] ELSE r]]

-----------------------------------------------------------------------------
(* UnwrapAddStrategy, when there are n rules: the reference to the base,   *)
(* rule n + 1, and what * and + derive from it.  The marks ? and - are     *)
(* read and then forgotten: the optional and the all-but come with a +.    *)

(* Mutant: one-or-more is a sequence of a reference and of itself.         *)
Mutant_PlusFrom(marks, n) == n + (IF "*" \in marks THEN 4 ELSE 3)

PlusFrom(marks, n) == n + (IF "*" \in marks THEN 3 ELSE 2)

MadeFor(base, marks, n) ==
  LET a == n + 1 IN
    <<RULE(base)>>
      \o (IF "*" \in marks THEN <<REP(0, 0, a)>> ELSE <<>>)
      \o (IF "+" \in marks
          THEN <<REP(0, 0, a), SEQ(<<a, PlusFrom(marks, n)>>), OPT(a), BUT(a)>>
          ELSE <<>>)

(* Mutant: a name with a star derives nothing.                             *)
Mutant_Star(table, base, marks, n) == table

Star(table, base, marks, n) ==
  IF "*" \in marks THEN addNode(table, base \o "*", n + 2) ELSE table

Plus(table, base, marks, n) ==
  LET m    == PlusFrom(marks, n)
      some == addNode(table, base \o "+", m + 1)
      opt  == addNode(some, base \o "?", m + 2)
  IN  IF "+" \in marks THEN addNode(opt, base \o "-", m + 3) ELSE table

(* Mutant: the base itself is only declared when there is nothing derived. *)
Mutant_Unwrapped(table, base, marks, r, n) ==
  IF marks = {} THEN addNode(table, base, r)
                ELSE Plus(Star(table, base, marks, n), base, marks, n)

(* What it derives comes first, the expression under the base last.        *)
Unwrapped(table, base, marks, r, n) ==
  addNode(Plus(Star(table, base, marks, n), base, marks, n), base, r)

=============================================================================
