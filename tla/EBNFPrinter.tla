----------------------------- MODULE EBNFPrinter -----------------------------
(***************************************************************************)
(* The library printed as EBNF (EBNFPrinter.h): every part and then every  *)
(* symbol, each by a walk over its rule.  What is printed is kept as the   *)
(* tokens a reader of it sees (EBNF.tla); colours and blanks are left out. *)
(*                                                                         *)
(* The bracket hints that go down the walk are whether the parent has      *)
(* printed brackets, and the kind of collection it is.                     *)
(***************************************************************************)
EXTENDS EBNF

VARIABLES
  lib,
  section,                     \* "parts", "symbols", "done"
  listed,                      \* names of the section that are printed
  printed                      \* the definitions, in order

printerVars == <<lib, section, listed, printed>>

-----------------------------------------------------------------------------
IsGraph(c) == c \in 32 .. 126

Between(sep, parts) ==
  FlattenSeq([n \in DOMAIN parts |-> IF n = 1 THEN parts[n]
                                              ELSE <<Sign(sep)>> \o parts[n]])

In(open, tokens, close) == <<Sign(open)>> \o tokens \o <<Sign(close)>>

Bracket(needed, tokens) == IF needed THEN In("(", tokens, ")") ELSE tokens

-----------------------------------------------------------------------------
(* PrintEquals, PrintEqualsChar, PrintEqualsString, PrintRange.            *)

PrintChar(c) == IF IsGraph(c) THEN <<Literal(<<c>>)>> ELSE <<Ascii(c)>>

(* A string is printed as what can be seen of it, in one piece as far as   *)
(* possible, and the codes of the rest.                                    *)
PieceFrom(s, n) ==
  LET ends == {m \in n .. Len(s) : m = Len(s) \/ ~IsGraph(s[m + 1])}
      end  == CHOOSE m \in ends : \A k \in ends : m <= k
  IN  IF IsGraph(s[n]) THEN <<Literal(SubSeq(s, n, end))>> ELSE <<Ascii(s[n])>>

PrintString(s) ==
  LET starts == {n \in DOMAIN s : n > 1 => ~(IsGraph(s[n]) /\ IsGraph(s[n - 1]))}
      pieces == Ordered(starts, Len(s))
  IN  Between(",", [n \in DOMAIN pieces |-> PieceFrom(s, pieces[n])])

PrintValue(R, v) == IF R.kind = "EqualChar" THEN PrintChar(v[1])
                                            ELSE PrintString(v)

PrintEquals(R, bracketed, parent) ==
  Bracket(Len(R.values) > 1 /\ parent # "Or" /\ ~bracketed,
          Between("|", [n \in DOMAIN R.values |-> PrintValue(R, R.values[n])]))

PrintRange(R, bracketed, parent) ==
  LET from == R.values[1][1]
      to   == R.values[2][1]
  IN  Bracket(to > from + 1 /\ parent # "Or" /\ ~bracketed,
              Between("|", [n \in 1 .. to - from + 1 |-> PrintChar(from + n - 1)]))

-----------------------------------------------------------------------------
(* The strategies that visit children.  The child of a repeat is printed   *)
(* between a prefix and a suffix that are brackets, or are not.            *)

Around(R, bracketed) ==
  CASE R.min = R.max /\ R.min = 0 -> [pre |-> <<Sign("{")>>,
                                      post |-> <<Sign("}")>>, brackets |-> TRUE]
    [] R.min = R.max /\ R.min = 1 -> [pre |-> <<>>, post |-> <<>>,
                                      brackets |-> bracketed]
    [] R.min = R.max /\ R.min > 1 -> [pre |-> <<Times(R.max)>>, post |-> <<>>,
                                      brackets |-> FALSE]
    [] R.min = 0 /\ R.max = 1     -> [pre |-> <<Sign("[")>>,
                                      post |-> <<Sign("]")>>, brackets |-> TRUE]
    [] R.min = 0 /\ R.max > 1     -> [pre |-> <<Times(R.max), Sign("[")>>,
                                      post |-> <<Sign("]")>>, brackets |-> TRUE]
    [] OTHER -> [pre |-> <<Flock("repeat", <<R.min, R.max>>)>>,
                 post |-> <<Sign("?")>>, brackets |-> FALSE]

Lone(R) == Len(R.kids) = 1

(* Mutant: a collection drops its brackets within any other.               *)
Mutant_Grouped(R, bracketed, parent) ==
  ~Lone(R) /\ ~bracketed /\ parent \notin Collections

(* A collection needs brackets of its own.                                 *)
Grouped(R, bracketed, parent) == ~Lone(R) /\ ~bracketed /\ parent # R.kind

RECURSIVE Shown(_, _, _, _)
Shown(l, r, bracketed, parent) ==
  LET R == l.rules[r]
      Under(n, b, k) == Shown(l, R.kids[n], b, k)
      around == Around(R, bracketed)
  IN
    CASE R.kind \in {"Any", "End"} -> <<Special(R.kind)>>
      [] R.kind \in {"EqualChar", "EqualString"} ->
           PrintEquals(R, bracketed, parent)
      [] R.kind = "CharRange" -> PrintRange(R, bracketed, parent)
      [] R.kind = "Alias"     -> <<Reference(R.name)>>
      [] R.kind = "Optional"  -> In("[", Under(1, TRUE, "none"), "]")
      [] R.kind \in {"Not", "AnyBut"} ->
           <<Flock(R.kind, <<>>)>> \o Under(1, FALSE, "none") \o <<Sign("?")>>
      [] R.kind = "Repeat"    ->
           around.pre \o Under(1, around.brackets, "none") \o around.post
      [] R.kind \in Collections ->
           Bracket(Grouped(R, bracketed, parent),
                   Between(Separator[R.kind],
                           [n \in DOMAIN R.kids |-> Under(n, Lone(R), R.kind)]))

-----------------------------------------------------------------------------
(* PrintLibraryStrategy: the names of a section are resolved as any name   *)
(* is, and printed under what they resolve to.                             *)

Definition(name) == [name |-> name,
                     tokens |-> Shown(lib, Resolve(lib, name), FALSE, "none")]

PrintNext(names) == /\ listed < Len(names)
                    /\ printed' = Append(printed, Definition(names[listed + 1]))
                    /\ listed' = listed + 1
                    /\ UNCHANGED <<lib, section>>

PrintPart == section = "parts" /\ PrintNext(lib.parts)

(* Mutant: the symbols are counted on from the parts.                      *)
Mutant_PartsDone == /\ section = "parts"
                    /\ listed = Len(lib.parts)
                    /\ section' = "symbols"
                    /\ UNCHANGED <<lib, listed, printed>>

PartsDone == /\ section = "parts"
             /\ listed = Len(lib.parts)
             /\ section' = "symbols"
             /\ listed' = 0
             /\ UNCHANGED <<lib, printed>>

PrintSymbol == section = "symbols" /\ PrintNext(lib.symbols)

SymbolsDone == /\ section = "symbols"
               /\ listed = Len(lib.symbols)
               /\ section' = "done"
               /\ UNCHANGED <<lib, listed, printed>>

Init == /\ lib \in Libraries
        /\ section = "parts"
        /\ listed = 0
        /\ printed = <<>>

Next == PrintPart \/ PartsDone \/ PrintSymbol \/ SymbolsDone

Spec == Init /\ [][Next]_printerVars

-----------------------------------------------------------------------------
(* Properties.                                                             *)

RECURSIVE Beneath(_, _)
Beneath(l, r) == {r} \cup UNION {Beneath(l, l.rules[r].kids[n]) :
                                   n \in DOMAIN l.rules[r].kids}

(* The shapes the printer prints as something else.                        *)
LoneGroup(l, R) == R.kind \in Collections /\ Lone(R)

RangeOfTwo(l, R) ==
  R.kind = "CharRange" /\ R.values[2][1] = R.values[1][1] + 1

XOrInXOr(l, R) ==
  R.kind = "XOr" /\ \E n \in DOMAIN R.kids : l.rules[R.kids[n]].kind = "XOr"

Counted(l, R) == R.kind = "Repeat" /\ R.min = R.max /\ R.min > 1

InPieces(l, R) ==
  R.kind = "EqualString" /\ \E v \in ToSet(R.values) :
                              Len(v) > 1 /\ \E n \in DOMAIN v : ~IsGraph(v[n])

Free(l, r, P(_, _)) == \A s \in Beneath(l, r) : ~P(l, l.rules[s])

NoPieceCounted(l, r) == Free(l, r, Counted) \/ Free(l, r, InPieces)

ReadsBackIf(P(_, _)) ==
  \A d \in ToSet(printed) :
    LET r == Resolve(lib, d.name) IN
      P(lib, r) => Read(d.tokens) = Meaning(lib, r)

(* What is printed under a name, read as EBNF, is the rule the name        *)
(* resolves to: no bracket is missing, whatever the rule is in and         *)
(* whichever hints have come down to it.  (Not so of the four shapes.)     *)
Plain(l, r) == /\ Free(l, r, LoneGroup)
               /\ Free(l, r, RangeOfTwo)
               /\ Free(l, r, XOrInXOr)
               /\ NoPieceCounted(l, r)

ReadsBack == ReadsBackIf(Plain)

(* When all is printed, the names of the parts and then those of the       *)
(* symbols have been defined, each as often as it is listed; and every     *)
(* rule that was given a name is the definition of that name somewhere.    *)
(* (Not so of a part with the name of a symbol: its rule is nowhere.)      *)
Prints(name, r) ==
  \E d \in ToSet(printed) :
    d.name = name /\ d.tokens = Shown(lib, r, FALSE, "none")

WholeLibrary ==
  section = "done" =>
    /\ [n \in DOMAIN printed |-> printed[n].name] = lib.parts \o lib.symbols
    /\ \A name \in Names :
         LET symbol == lib.symbol[name]
             part   == lib.part[name]
         IN  /\ symbol # NoRule => Prints(name, symbol)
             /\ part # NoRule /\ symbol = NoRule => Prints(name, part)

-----------------------------------------------------------------------------
(* A claim of the source, checked in a run of its own.                     *)

(* A collection of one child groups nothing (EBNFPrinter.h:319), so what   *)
(* is printed reads back whether there is one or not.                      *)
PlainButLone(l, r) == /\ Free(l, r, RangeOfTwo)
                      /\ Free(l, r, XOrInXOr)
                      /\ NoPieceCounted(l, r)

LoneGroupsNothing == ReadsBackIf(PlainButLone)

=============================================================================
