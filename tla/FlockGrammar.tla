---------------------------- MODULE FlockGrammar ----------------------------
(***************************************************************************)
(* The library createFlockLibrary builds (FlockGrammar.h), declaration by  *)
(* declaration: its rule objects with their ids, its names with what their *)
(* marks derive, its symbols in the order the evaluator tries them.        *)
(*                                                                         *)
(* An expression is what a nest of constructor calls makes: a rule without *)
(* children and the expressions under it, or an object made before.        *)
(***************************************************************************)
EXTENDS Declarations

LOCAL INSTANCE SequencesExt

Nest(R, under) == [plain |-> R, under |-> under]
Object(r)      == [id |-> r]

Just(R)     == Nest(R, <<>>)
Ref(name)   == Just(RULE(name))
All(under)  == Nest(PlainRule("Sequence"), under)
Alt(under)  == Nest(PlainRule("Or"), under)
Opt(e)      == Nest(PlainRule("Optional"), <<e>>)
Not(under)  == Nest(PlainRule("Not"), <<All(under)>>)
Many(e)     == Nest(PlainRule("Repeat"), <<e>>)
UNTIL(e)    == Many(Nest(PlainRule("AnyBut"), <<e>>))

(* Characters by their ASCII codes.                                        *)
Is(char)    == Just(EQCHAR(<<char>>))
Code        == [quote |-> 34, dollar |-> 36, open |-> 40, close |-> 41,
                star |-> 42, comma |-> 44, dot |-> 46, slash |-> 47,
                semicolon |-> 59, equals |-> 61, escape |-> 92,
                underscore |-> 95]

NEW_LINE    == Just(EQCHAR(<<10, 13>>))
BLANK       == Just(EQCHAR(<<32, 9, 11, 12>>))
LOWER_ALPHA == Just(RANGE(97, 122))
UPPER_ALPHA == Just(RANGE(65, 90))
ALPHA       == Alt(<<LOWER_ALPHA, UPPER_ALPHA>>)
DIGIT       == Just(RANGE(48, 57))

-----------------------------------------------------------------------------
(* The rule objects of an expression, its children before itself.          *)
RECURSIVE Made(_, _)
Made(rules, e) ==
  IF "id" \in DOMAIN e THEN [rules |-> rules, id |-> e.id]
  ELSE LET Then(done, under) ==
             LET m == Made(done.rules, under)
             IN  [rules |-> m.rules, kids |-> Append(done.kids, m.id)]
           below == FoldLeft(Then, [rules |-> rules, kids |-> <<>>], e.under)
           R     == IF e.under = <<>> THEN e.plain
                    ELSE [e.plain EXCEPT !.kids = below.kids]
       IN  [rules |-> Append(below.rules, R), id |-> Len(below.rules) + 1]

(* addPart and addSymbol of a library made with unwrap().                  *)
Declare(built, d) ==
  LET m == Made(built.rules, d.as)
      n == Len(m.rules)
  IN  [built EXCEPT !.rules = m.rules \o MadeFor(d.base, d.marks, n),
                    ![d.in] = Unwrapped(@, d.base, d.marks, m.id, n)]

Part(base, marks, e) == [in |-> "parts", base |-> base, marks |-> marks, as |-> e]
Symbol(base, e) == [in |-> "symbols", base |-> base, marks |-> {}, as |-> e]

(* Mutant: white space is blanks only.                                     *)
Mutant_wsp == Alt(<<Ref("blank")>>)

wsp == Alt(<<Ref("blank"), Ref("newline")>>)

(* Mutant: a line ends with the end of input, not with a semicolon.        *)
Mutant_lineEnd == All(<<Ref("blank*"), Alt(<<Ref("newline"), Ref("eof")>>)>>)

lineEnd == All(<<Ref("blank*"), Alt(<<Ref("newline"), Is(Code.semicolon)>>)>>)

decimal == All(<<Ref("digit+"), Is(Code.dot), Ref("digit+"),
                 Not(<<Is(Code.dot), Ref("digit+")>>)>>)

Spaced(name) == All(<<Ref("wsp*"), Ref(name), Ref("wsp*")>>)

BasicParts ==
  LET all == Marks IN
  << Part("eof", {}, Just(END)),
     Part("newline", all, NEW_LINE),
     Part("blank", all, BLANK),
     Part("wsp", all, wsp),
     Part("digit", all, DIGIT),
     Part("alpha", all, ALPHA),
     Part("lineEnd", all, lineEnd),
     Part("alphanum", all, Alt(<<Ref("alpha"), Ref("digit")>>)),
     Part("integer", {}, Ref("digit+")),
     Part("decimal", {}, decimal),
     Part("_identifier", {}, Spaced("identifier")),
     Part("_aliasList", {}, Spaced("aliasList")) >>

-----------------------------------------------------------------------------
(* An identifier goes on with the very object it can begin with.           *)
identifierEnd ==
  Alt(<<Ref("alphanum"), Just(EQCHAR(<<Code.underscore, Code.dollar>>))>>)

identifierBegin(end) == Alt(<<Ref("alpha"), All(<<Is(Code.underscore), end>>)>>)

string ==
  All(<<Is(Code.quote),
        Many(Alt(<<All(<<Is(Code.escape), Just(ANY)>>),
                   Nest(PlainRule("AnyBut"), <<Is(Code.quote)>>)>>)),
        Is(Code.quote)>>)

comment ==
  LET ending == Just(EQ(<<<<Code.star, Code.slash>>>>)) IN
    All(<<Is(Code.slash),
          Alt(<<All(<<Is(Code.slash), UNTIL(NEW_LINE)>>),
                All(<<Is(Code.star), UNTIL(ending), ending>>)>>)>>)

alias == All(<<Ref("_identifier"), Is(Code.equals), Ref("_identifier")>>)

aliasList ==
  All(<<Is(Code.open), Ref("aliasListOrIdentifier"),
        Many(All(<<Is(Code.comma), Ref("aliasListOrIdentifier")>>)),
        Is(Code.close)>>)

use == All(<<Just(EQ(<<<<117, 115, 101>>>>)), Ref("wsp*"),
             Opt(Ref("aliasListOrIdentifier")), Ref("lineEnd+")>>)

LaterDeclarations(end) ==
  << Symbol("identifier", All(<<identifierBegin(end), Many(end)>>)),
     Symbol("number", Alt(<<Ref("decimal"), Ref("integer")>>)),
     Symbol("string", string),
     Symbol("comment", comment),
     Symbol("alias", alias),
     Symbol("aliasList", aliasList),
     Part("aliasOrIdentifier", {}, Alt(<<Ref("alias"), Ref("_identifier")>>)),
     Part("aliasListOrIdentifier", {},
          Alt(<<Ref("aliasOrIdentifier"), Ref("_aliasList")>>)),
     Symbol("use", use) >>

-----------------------------------------------------------------------------
createFlockLibrary ==
  LET empty == [rules |-> <<>>, symbols |-> NoNodes, parts |-> NoNodes]
      basic == FoldLeft(Declare, empty, BasicParts)
      end   == Made(basic.rules, identifierEnd)
  IN  FoldLeft(Declare, [basic EXCEPT !.rules = end.rules],
               LaterDeclarations(Object(end.id)))

(* The names that are declared, those that marks derive from them, and     *)
(* those that are referred to.                                             *)
RECURSIVE Referred(_)
Referred(e) ==
  IF "id" \in DOMAIN e THEN {}
  ELSE (IF e.plain.kind = "Alias" THEN {e.plain.name} ELSE {})
         \cup UNION {Referred(under) : under \in ToSet(e.under)}

FlockNames ==
  LET all == ToSet(BasicParts \o LaterDeclarations(identifierEnd))
  IN  UNION {{d.base} \cup {d.base \o mark : mark \in d.marks}
                \cup Referred(d.as) : d \in all}

(* As the visitors are given it.  An id that no object has is that of an   *)
(* END nothing refers to.                                                  *)
Padded(rules) == rules @@ [r \in RuleIds |-> END]

FlockLibrary ==
  LET built   == createFlockLibrary
      nowhere == [name \in Names |-> NoRule]
  IN  [rules   |-> Padded(built.rules),
       symbols |-> built.symbols.names,
       parts   |-> built.parts.names,
       symbol  |-> built.symbols.nodes @@ nowhere,
       part    |-> built.parts.nodes @@ nowhere]

=============================================================================
