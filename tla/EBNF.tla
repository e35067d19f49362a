-------------------------------- MODULE EBNF --------------------------------
(***************************************************************************)
(* The notation the printer writes, as a reader takes it: the tokens of a  *)
(* definition, what they say, and what a rule says in the same terms.      *)
(* Commas bind closer than &, & closer than ^, ^ closer than |; a count n* *)
(* is of the one thing behind it.                                          *)
(***************************************************************************)
EXTENDS Rules, SequencesExt

Sign(s)        == <<"sign", s>>             \* brackets, separators
Special(s)     == <<"special", s>>          \* ? End ?
Literal(chars) == <<"literal", chars>>      \* "chars"
Ascii(c)       == <<"ascii", c>>            \* ? ASCII character c ?
Reference(n)   == <<"reference", n>>        \* a name
Times(n)       == <<"times", n>>            \* n*
Flock(s, v)    == <<"flock", s, v>>         \* ? FLOCK s v ... ?

Separator == [Sequence |-> ",", And |-> "&", XOr |-> "^", Or |-> "|"]
Loosest   == <<"Or", "XOr", "And", "Sequence">>

-----------------------------------------------------------------------------
(* What is said: an operation, its numbers or characters, its name, and    *)
(* what it is about.                                                       *)
Says(op, kids) == [op |-> op, values |-> <<>>, name |-> NoName, kids |-> kids]
Char(c)        == [Says("Char", <<>>) EXCEPT !.values = <<c>>]
Called(n)      == [Says("Alias", <<>>) EXCEPT !.name = n]
With(op, v, s) == [Says(op, <<s>>) EXCEPT !.values = v]

(* Grouping alone says nothing; but an exclusive or of an exclusive or is  *)
(* not one of all their children.                                          *)
Join(op, parts) ==
  LET Flat(s) == IF s.op = op /\ op # "XOr" THEN s.kids ELSE <<s>>
  IN  IF Len(parts) = 1 THEN parts[1]
      ELSE Says(op, FlattenSeq([n \in DOMAIN parts |-> Flat(parts[n])]))

Chars(s) == Join("Sequence", [n \in DOMAIN s |-> Char(s[n])])

RECURSIVE Meaning(_, _)
Meaning(l, r) ==
  LET R    == l.rules[r]
      M(n) == Meaning(l, R.kids[n])
  IN
    CASE R.kind \in {"EqualChar", "EqualString"} ->
           Join("Or", [n \in DOMAIN R.values |-> Chars(R.values[n])])
      [] R.kind = "CharRange" ->
           LET from == R.values[1][1] IN
             Join("Or", [n \in 1 .. R.values[2][1] - from + 1 |-> Char(from + n - 1)])
      [] R.kind = "Alias" -> Called(R.name)
      [] R.kind \in Collections ->
           Join(R.kind, [n \in DOMAIN R.kids |-> M(n)])
      [] R.kind = "Repeat" ->
           CASE R.min = 1 /\ R.max = 1     -> M(1)
             [] R.min = R.max /\ R.min > 1 -> With("Times", <<R.min>>, M(1))
             [] R.min = 0 /\ R.max = 0     -> Says("Many", <<M(1)>>)
             [] R.min = 0 /\ R.max = 1     -> Says("Optional", <<M(1)>>)
             [] R.min = 0 /\ R.max > 1     ->
                  With("Times", <<R.max>>, Says("Optional", <<M(1)>>))
             [] OTHER                      -> With("repeat", <<R.min, R.max>>, M(1))
      [] OTHER -> Says(R.kind, [n \in DOMAIN R.kids |-> M(n)])

-----------------------------------------------------------------------------
(* A reader of tokens.                                                     *)
Opens(t)  == t[1] = "flock" \/ t \in {Sign("("), Sign("["), Sign("{")}
Closes(t) == t \in {Sign(")"), Sign("]"), Sign("}"), Sign("?")}

Outermost(ts, n) ==
  LET before(P(_)) == Cardinality({m \in 1 .. n : P(ts[m])})
  IN  before(Opens) = before(Closes)

Cuts(ts, op) == {n \in DOMAIN ts : /\ ts[n] = Sign(Separator[op])
                                   /\ Outermost(ts, n)}

(* The numbers up to n that are in S, in order.                            *)
Ordered(S, n) == SelectSeq([m \in 1 .. n |-> m], LAMBDA m : m \in S)

RECURSIVE Read(_)
Read(ts) ==
  LET inner  == SubSeq(ts, 2, Len(ts) - 1)
      splits == {n \in DOMAIN Loosest : Cuts(ts, Loosest[n]) # {}}
      op     == Loosest[Min(splits)]
      ends   == <<0>> \o Ordered(Cuts(ts, op), Len(ts)) \o <<Len(ts) + 1>>
      head   == ts[1]
  IN
    CASE splits # {} ->
           Join(op, [n \in 1 .. Len(ends) - 1 |->
                       Read(SubSeq(ts, ends[n] + 1, ends[n + 1] - 1))])
      [] splits = {} /\ head = Sign("(")       -> Read(inner)
      [] splits = {} /\ head = Sign("[")       -> Says("Optional", <<Read(inner)>>)
      [] splits = {} /\ head = Sign("{")       -> Says("Many", <<Read(inner)>>)
      [] splits = {} /\ head[1] = "flock"      -> With(head[2], head[3], Read(inner))
      [] splits = {} /\ head[1] = "times"      ->
           With("Times", <<head[2]>>, Read(Tail(ts)))
      [] splits = {} /\ head[1] = "special"    -> Says(head[2], <<>>)
      [] splits = {} /\ head[1] = "literal"    -> Chars(head[2])
      [] splits = {} /\ head[1] = "ascii"      -> Char(head[2])
      [] splits = {} /\ head[1] = "reference"  -> Called(head[2])

=============================================================================
