------------------------------ MODULE MCSession ------------------------------
(***************************************************************************)
(* The main loop with the library of FlockGrammar.h and with small ones of *)
(* its kind (words and keywords, what is made of words, quoted text, an    *)
(* operator with an optional end).  No symbol matches the empty text.  The *)
(* texts are every one of up to MaxLength letters, and what the symbols of *)
(* FlockGrammar.h are about: uses of every shape, with and without their   *)
(* end, and the others whole, cut short and next to one another.           *)
(***************************************************************************)
EXTENDS SessionTokens, ComputedMeaning, FlockGrammar

SeqOps == INSTANCE SequencesExt

CONSTANT MaxLength               \* bound on the length of a text of letters

(* The letters of the small libraries; nothing in FlockGrammar.h has them. *)
A == 37
B == 38
C == 39

MCRuleIds == 1 .. 151             \* as many as createFlockLibrary makes

MCNames == FlockNames \cup {"key", "letter", "word"}

LibraryOf(rules, symbols, symbol, part) ==
  LET Named(f) == [n \in MCNames |-> IF n \in DOMAIN f THEN f[n] ELSE NoRule]
  IN  [rules   |-> Padded(rules),
       symbols |-> symbols,
       parts   |-> SeqOps!SetToSeq(DOMAIN part),
       symbol  |-> Named(symbol),
       part    |-> Named(part)]

Small == {
  (* a keyword and a word that is as long                                  *)
  LibraryOf(<<EQ(<<<<A, B>>>>), REP(1, 0, 3), RULE("letter"), RANGE(A, B)>>,
            <<"key", "word">>, [key |-> 1, word |-> 2], [letter |-> 4]),
  (* a pair of words: without its end, it is its parts one by one          *)
  LibraryOf(<<RULE("word"), EQCHAR(<<C>>), RANGE(A, B), REP(1, 0, 3),
              SEQ(<<1, 2, 1, 2>>)>>,
            <<"key", "word", "letter">>,
            [key |-> 5, word |-> 4, letter |-> 2], <<>>),
  (* quoted text                                                           *)
  LibraryOf(<<EQCHAR(<<C>>), BUT(1), REP(0, 0, 2), SEQ(<<1, 3, 1>>),
              EQCHAR(<<A, B>>)>>,
            <<"word", "key">>, [word |-> 4, key |-> 5], <<>>),
  (* an optional end; whatever is left over                                *)
  LibraryOf(<<EQCHAR(<<A>>), EQ(<<<<B, C>>, <<B>>>>), OPT(2), SEQ(<<1, 3>>),
              ANY>>,
            <<"key", "word">>, [key |-> 4, word |-> 5], <<>>)
}

MCLibraries == Small \cup {FlockLibrary}

Letters == UNION {[1 .. n -> {A, B, C}] : n \in 0 .. MaxLength}

Using == <<117, 115, 101>>
Gaps  == {<<>>, <<32>>, <<10>>}

Targets ==
  {
   <<>>,                                 \* nothing
   <<97>>,                               \* a
   <<97, 61, 98>>,                       \* a=b
   <<40, 97, 41>>,                       \* (a)
   <<40, 97, 44, 98, 61, 99, 41>>        \* (a,b=c)
  }

Ends ==
  {
   <<>>,                                 \* nothing
   <<59>>,                               \* ;
   <<10>>,                               \* \n
   <<32, 59>>,                           \*  ;
   <<10, 59>>                            \* \n;
  }

Others ==
  {
   <<49, 46, 50>>,                       \* 1.2
   <<49, 46>>,                           \* 1.
   <<49, 46, 50, 46, 51>>,               \* 1.2.3
   <<95, 97>>,                           \* _a
   <<95>>,                               \* _
   <<97, 95, 36, 49, 32, 98>>,           \* a_$1 b
   <<34, 97, 34>>,                       \* "a"
   <<34, 92, 34, 34>>,                   \* "\""
   <<34>>,                               \* "
   <<47, 47, 97, 10>>,                   \* //a\n
   <<47, 47>>,                           \* //
   <<47, 42, 47>>,                       \* /*/
   <<47, 42, 42, 47, 97>>,               \* /**/a
   <<97, 61, 10, 98>>,                   \* a=\nb
   <<97, 44, 98>>,                       \* a,b
   <<40, 97>>,                           \* (a
   <<40, 41>>                            \* ()
  }

MCTexts == Letters
             \cup {Using \o g \o t \o e : g \in Gaps, t \in Targets, e \in Ends}
             \cup {t \o e : t \in Targets, e \in Ends}
             \cup Others

(* The rules that can match without a character, if those in S can: as     *)
(* many as there are when nothing is added any more.  (An EQ of an empty   *)
(* string matches nothing, and an AND is as long as its first child.)      *)
EmptyAbove(l, S) ==
  LET Empty(R) ==
        LET kids == {R.kids[n] : n \in DOMAIN R.kids} IN
          \/ R.kind \in {"End", "Not", "Optional"}
          \/ R.kind = "Repeat"       /\ (R.min = 0 \/ kids \subseteq S)
          \/ R.kind = "Sequence"     /\ kids \subseteq S
          \/ R.kind = "And"          /\ R.kids[1] \in S
          \/ R.kind \in {"Or", "XOr"} /\ kids \cap S # {}
          \/ R.kind = "Alias"        /\ Resolve(l, R.name) \in S
  IN  {r \in RuleIds : Empty(l.rules[r])}

RECURSIVE EmptyFrom(_, _)
EmptyFrom(l, S) ==
  LET T == EmptyAbove(l, S) IN IF T = S THEN S ELSE EmptyFrom(l, T)

EmptyRules == [l \in MCLibraries |-> EmptyFrom(l, {})]

Repeated(l) == {l.rules[r].kids[1] :
                  r \in {s \in RuleIds : l.rules[s].kind = "Repeat"
                                        /\ l.rules[s].max = 0}}

(* The small libraries are plain grammars on every text of letters, that   *)
(* of FlockGrammar.h is one at least on a text or two of every symbol: the *)
(* proofs about plain grammars are about them.  No rule matches without a  *)
(* character that is not among the EmptyRules.                             *)
Samples == Others \cup {Using \o <<32, 97>> \o e : e \in Ends}

OnlyThoseEmpty(l, t) ==
  \A r \in RuleIds \ EmptyRules[l] : \A i \in 0 .. Len(t) :
    Meaning(l, t, 0, r, i).idx # i

Plain(l, t) ==
  Repeated(l) \cap EmptyRules[l] = {} =>
    /\ Solves(l, t)
    /\ NotLeftRecursive(DepthOf, l, t)
    /\ OnlyThoseEmpty(l, t)

ASSUME LibrariesArePlain ==
  /\ \A l \in MCLibraries : WellShaped(l)
  /\ \A l \in Small, t \in Letters : Plain(l, t)
  /\ \A t \in Samples : Plain(FlockLibrary, t)

-----------------------------------------------------------------------------
(* Every name a rule of the library refers to is there: no RULE fails for  *)
(* a name that is misspelt, or that no mark has derived.                   *)
EveryNameResolves ==
  \A r \in DOMAIN lib.rules :
    lib.rules[r].kind = "Alias" => Resolve(lib, lib.rules[r].name) # NoRule

(* Nothing is done for ever.  A symbol does not match the empty text, or   *)
(* the main loop would find it again and again (FlockCompilerCpp.cpp:68);  *)
(* neither does what a REP without a maximum repeats, or the REP would     *)
(* never leave its loop (LogicRules.h:312).                                *)
NothingForEver ==
  /\ \A n \in DOMAIN lib.symbols :
       Resolve(lib, lib.symbols[n]) \notin EmptyRules[lib]
  /\ Repeated(lib) \cap EmptyRules[lib] = {}

(* What is found as a `use' has a semicolon in it.  The white space around *)
(* what is used may hold ends of line, so none is left for lineEnd to end  *)
(* the use with: a line `use a' is not a use.                              *)
UseHasSemicolon ==
  \A n \in DOMAIN printed :
    printed[n].symbol = "use" =>
      \E p \in printed[n].from + 1 .. printed[n].to : text[p] = 59

=============================================================================
