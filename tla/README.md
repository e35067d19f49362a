# Flock: a verification project for the grammar evaluator

Flock is a console program. It builds a library of grammar rules, prints the
library as EBNF, then reads characters from the console and, round after round,
finds the symbol of the library that matches the longest piece of the input.
Everything runs in one thread; what is hard is the protocol between a
backtracking evaluator, a memo it shares between all rules, and a token window
that is filled on demand and emptied from the front.

## Inventory

| part | state | operations | talks to | what makes it correct |
|---|---|---|---|---|
| `ConsoleCharSupplier` | `line`, `pos`, `size`, `inputComplete` | `supply`, `clear` | called by `LocationSupplier` | an empty line ends the input and stays the end until `clear` |
| `CachedSupplier` + `LocationSupplier` + `Source.h` | `store` (a deque of locations), `previous` | `poll`, `isEnd`, `pollRange(Between)`, `popRange`, `supply`, `clear` | called by the evaluator's mixins and terminal strategies | index i is the i-th character not yet popped; positions are contiguous; polling never loses a character |
| `RuleHistories` / `CachingRuleStrategy` | `rule id -> key -> record` (`New`, `Processing`, `Cyclic`, `Completed`) | `accept`, `clear` | wraps every rule strategy | an answer that is remembered is the answer; recursion at the same place ends |
| rule strategies (`LogicRules.h`, `SourceEvaluation.h`) | the C++ call stack | one `accept` per kind of rule | call `visit` on children, poll tokens | each rule accepts what it is documented to accept |
| `EvaluationLibraryStrategy` | best output and name so far | `accept` | visits every symbol by name, pops the match | longest match, first symbol on a tie |
| `RuleLibrary`, `Rules.h` | symbols, parts, names in order | `addSymbol`, `addPart`, `getNode`, `visitByName` | read by the evaluator and the printer | a name resolves to one rule; symbols shadow parts |
| `SyntaxNode` | type, range, parent, children | `append`, `clone` | built by the evaluator | the tree has the shape of the match |
| `MainLoop` | none of its own | round: clear, `begin`, report or reset | evaluator, both suppliers | consecutive matches partition the text |
| `EBNFPrinter` | none | one `accept` per kind of rule | reads the library | brackets exactly where EBNF needs them |
| `FlockGrammar` | the one library that is used | `createFlockLibrary` | `UnwrapAddStrategy` | |

Left aside: `RuleTypes.h` and `RuleFunctions.h` (commented out), `Parser.h`,
`AST.h` and `FileCharSupplier.h` (included by nothing), `ConsoleFormat.h`
(colours), the project files.

### How the parts interact

```
 main ── builds ──> RuleLibrary ── printed by ──> EBNFPrinter
   │
 MainLoop ── history->clear(), begin() each round; both clear()s at the end ──┐
   │                                                                         │
 EvaluationVisitor::begin                                                     │
   │ visits the library                                                      │
 EvaluationLibraryStrategy ── popRange(match), pollRangeBetween ────────┐     │
   │ visitByName, every symbol, index 0                                 │     │
 visit ──> SyntaxAlias(CachingRuleStrategy(strategy)) ── poll ──────> LocationSupplier
   ^             │ RuleHistories, keyed by rule id and position          │ supply()
   └── children ─┘                                                 ConsoleCharSupplier
                                                                         │ getline
                                                                    standard input
```

All calls are synchronous, there are no callbacks and no threads: a `poll` that
finds nothing in the store calls `supply`, which may block in `getline`. What
the parts share are indices. A character has an index relative to the front of
the store (it changes with every `popRange`), and a position in the text (it
does not, until `clear`). The evaluator works with the first, the memo is keyed
by the second, and -1 stands for both "no such index" and "the end of input".

### What is hard

* *Backtracking over a shared memo.* A record made under one parent is used
  under every other, in any order and by symbols tried later. It must not
  depend on who asked first. Key -1, the one two different places share, is
  where it does (see Findings).
* *Left recursion.* A rule met again at its own position is answered `FAILURE`
  and its record becomes `Cyclic`, until the outer call completes it.
* *Read-ahead.* The store holds more than a match needs. What is left over
  belongs to the next round, or, when nothing matches, must be dropped with the
  rest of the line, in both suppliers.
* *Indices at their limits.* `popRange` adds a length to an iterator; a range
  starts with a character even if it is empty; a repeat counts its two loops
  from different numbers; a console line is left one step after its last
  character.
* *Termination.* Of a recursion, of a call that waits for characters, of a text
  that is cut into tokens.
* *Sharing.* The same syntax node is in the outputs of many records; it gets a
  parent only as a clone.
* *Names.* A library refers to its rules by strings, half of which are derived
  from marks (`digit*+?-`), some before they are declared.
* *Brackets.* The printer decides from two hints, handed down the rules, whether
  what it prints needs any.

PROJECT.json lists these hazards one by one, at the line where each bites.

## The modules

```
 ConsoleCharSupplier ~~> CharSource                  ~~>  implements
                             ^                        ^   is extended by
                      LocationSupplier ~~> TokenWindow      Rules <──── EBNF
                                                ^          ^     ^        ^
                                                └────┬─────┘     │        │
                                             SourceEvaluation  Declarations
                                               ^  ^   ^  ^       ^    ^   │
                     ┌─────────────────────────┘  │   │  │       │    │   │
               RuleMeaning    Session ────────────┘   │  │       │    │   │
                     ^           ^     Derivations ───┘  │       │    │   │
                     └─────┬─────┘     SyntaxTree ───────┘       │    │   │
                     SessionTokens ~~> Tokenizer                 │    │   │
                                               RuleLibrary ──────┘    │   │
                                               FlockGrammar ──────────┘   │
                                               EBNFPrinter ───────────────┘
```

(`EBNFPrinter` extends `EBNF`; `PlainGrammars` and `ComputedMeaning` each extend
`RuleMeaning`.) The MC modules put them together: `MCSession` runs the loop, and
`MCPrinter` the printer, on what `FlockGrammar` builds; `MCRecursion` runs the
evaluator with the node heap of `SyntaxTree` beside it, and `MCGrammars` with the
meaning that `ComputedMeaning` computes.

| module | models | how state and actions correspond to the code |
|---|---|---|
| `CharSource` | what a `Supplier<int>` promises | abstract: a text, how much of it was read, `Take`, `Restart` |
| `ConsoleCharSupplier` | `ConsoleCharSupplier.h` | the four fields under their names; `Supply` is `supply()` with its call of `getline`, `SupplyEOF` its early return, `clear` is `clear()`. `stdin`, `torn` and `good` are the standard input and its stream state, external. `given` is a history variable |
| `TokenWindow` | what the token supplier promises | abstract: the text, `popped`, `fetched`; what a poll or range answers and how far it makes the supplier read |
| `LocationSupplier` | `CachedSupplier.h`, `LocationSupplier.h`, `Source.h` | `store` and `previous` are the fields. A call is `Request` and then one `Poll...` step per index polled and per character supplied; `pop` is one step; `Clear` is `clear()` after the console's |
| `Rules` | `Rules.h`, `LogicRules.h`, `StringRules.h` | a rule is a record, known by its id; the constructor functions; `Resolve` is `visitByName` |
| `Declarations` | `Library::addNode` (`Visitor.h`), `UnwrapAddStrategy` (`LogicRules.h`) | a table is one of the two `visitor::Library` objects; `Unwrapped` is what a name with marks adds, `MadeFor` the rules that are constructed for it |
| `RuleLibrary` | `RuleLibrary` (`Rules.h`) | `rules` in the order of their ids, `symbols` and `parts`. `Construct` is a constructor function, `Add` is `addSymbol`/`addPart` with the plain add strategy, `AddUnwrapped` with the other |
| `FlockGrammar` | `FlockGrammar.h` | `createFlockLibrary`, declaration by declaration; objects that the code uses twice are one rule here too |
| `SourceEvaluation` | `SourceEvaluation.h`, `RuleHistory.h`, `Visitor.h` and the strategies of `LogicRules.h` | `stack` and `pc` are the C++ call stack: a frame per `accept()` that waits for a child. `history` is `RuleHistories`. One action per kind of rule for each point where control comes back to it; the memo's test is the guard of the first action of a visit, its `setCompleted` is part of the last |
| `SyntaxTree` | `Syntax.h` | `heap` holds the nodes with parent and children; beside each variable of `SourceEvaluation` that holds an output, one that holds its node references. Every action is one of the evaluator's with what it does to the heap; `clone` and the preorder of the printed tree are recursive functions over the nodes |
| `RuleMeaning` | what the rules promise | the meaning of a rule as an equation over the meanings of its children, without stack, memo or key; it is written from the names of the rules, their comments and what the printer prints for them, never from the loops. `Meant` and `Run` are any solution |
| `PlainGrammars` | | the assumptions under which the evaluator is said to compute the meaning: the equations have a solution, no shape the strategies get wrong, no left recursion |
| `ComputedMeaning` | | the solution, computed recursively, for the runs |
| `Derivations` | what a rule can match at all | the constructors as a context-free grammar: `Derivation` is any sets of matches closed under them. It has a meaning for left-recursive grammars too, where `RuleMeaning` need have none. `MCRecursion` computes the least such sets |
| `Session` | `MainLoop` | `printed` is what was FOUND since the last prompt; `NextRound` and `NewText` are the two ends of a round |
| `Tokenizer` | what a user of the prompt is promised | abstract: cut the longest token off the front, or drop the text |
| `SessionTokens` | | instantiates `Tokenizer` with the tokens `RuleMeaning` gives to the library of the session |
| `EBNFPrinter` | `EBNFPrinter.h` | a definition per step, parts before symbols. `Shown` is the walk, an operator per print strategy; its arguments are the `BracketHints` |
| `EBNF` | the notation itself | the tokens that are printed, a reader of them by precedence, and what a rule says in the same terms |

Things about these a reader of the code should know.

* The syntax tree of `SourceEvaluation` is flat, nodes in preorder with their
  depth: `joinOutputs` appends, `Under` adds a node above. `SyntaxTree` has the
  objects; that the flat form represents them is checked and proved.
* The alias wrapper sits outside the memo, as in the code, so a node of a symbol
  is made again each time a remembered output is used (`Wrapped`).
* `popRange` followed by the poll of the root's range is the one action `Found`,
  since nothing can come between them.
* `LocationSupplier` is finer than `TokenWindow`: the characters of a poll arrive
  one by one, since each may wait for the console, and the refinement says that
  the window the evaluator relies on does not show it. The evaluator's own
  actions can therefore poll in one step.
* An expression of `FlockGrammar` is the nest of constructor calls the source
  has; `Made` gives its objects their ids, children first. The whole library has
  151 rules.
* A token of `EBNFPrinter` is what a reader of the printed text sees: blanks,
  colours and line breaks are left out, and so is what a quote within a literal
  does to it.

## What the runs check

| run | question | instance |
|---|---|---|
| `grammars` | does memoised evaluation with its early exits compute what the grammar means? (`MemoFaithful`, `LongestFirst`) | every grammar of two symbols that refer to one another, rules of one to three children over three sets of leaves, one of which refers to a name that is nowhere; texts over two letters, length at most 2, and three of length 3. 2.3 million states |
| `recursion` | does `begin` return, do stack, memo and node heap stay together, and is every match one the grammar has, whatever the grammar? (`TypeOK`, `StackMatchesHistory`, `WithinFetched`, `NodesInOrder`, `MatchDerivable`, `Represents`, `Trees`, `CompletedStable`, `NodesStay`, `Terminates`) | every pair of rules over `a` and both names, directly, mutually and hiddenly left-recursive; five libraries with a part, a missing name, a shadowed name, prefixes in an `EQ`, impossible repeats; and libraries in which a match of one symbol comes to be in several outputs. Texts of length at most 2, and two of length 3. 1.1 million states |
| `session` | do the rounds cut each text into the tokens the grammar means, with the library the program uses? (`SessionTypeOK`, `EveryNameResolves`, `NothingForEver`, `UseHasSemicolon`, `ImplementsTokenizer`, `PromptReturns`) | the library of `FlockGrammar.h` on uses of every shape, with and without their end, and on numbers, strings, comments and aliases whole, cut short and next to one another; four small libraries in its manner on every text over three letters of length at most 4. Any number of texts. `LibrariesArePlain` evaluates what `PlainGrammars` assumes for each library and the texts it is run on (each library in which nothing loops, which `NothingForEver` says is all of them). 95 thousand states |
| `builder` | is whatever can be constructed and added a library the other modules may assume? (`OlderKids`, `TypeOK`, `BuildsLibrary`, `NamesKeepTheirRule`, `DerivedResolve`) | every series of constructor calls and additions, with one base and all its marks, up to 10 rules and 3 listed names before an addition. 1.6 million states |
| `printer` | does what is printed say what the rule says? (`ReadsBack`, `WholeLibrary`) | the library of `FlockGrammar.h`, and every library of a rule over a rule over a leaf, for seven leaves |
| `supplier` | does the deque implement the window? (`TypeOK`, `StoreIsText`, `AnswersAsWindow`, `ImplementsWindow`, `CallsReturn`) | texts over a letter and both ends of line, length at most 3; every index and range from -1 to one behind the end, in every order |
| `console` | are the lines supplied once each, and do `clear` and the empty line do what they should? (`TypeOK`, `ImplementsSource`, `ClearDropsLine`, `InputEnds`) | every input of up to 4 lines of up to 2 characters, the last torn or not |
| `claim_...` | five sentences of the comments, each refuted | one small grammar each, and the libraries of `printer`; see Findings |

Why the bounds are enough. The evaluator compares a character with the rule's
and positions with one another; two letters make any such comparison go both
ways. Three characters are enough for a rule to be remembered at one position,
used at another, and to have something left over, and one more than any repeat
of `grammars` asks for; three texts of that length do it, and what a longer or
larger instance would show is proved (`MemoIsFaithful`). In `recursion` the depth of the stack is
bounded by rules times keys (this is what `StackMatchesHistory` says), and two
characters give keys 0, 1 and -1. A rule of `printer` gets its hints from the
rule above it alone, and hands on what two rules decide. An addition of
`builder` depends on what it finds under its own names only, so one base is
enough; `MaxMade` leaves room for a rule and one over it before names are
added. A range of the supplier can start before, in and behind the text and be
cut by it; four lines of the console let a text, its empty line, a text and a
torn line follow one another, with a `clear` anywhere.

The named bounds are `MaxLength` (length of a text), `MaxLines` (lines of the
standard input), `MaxGiven` (a guard of `ConsoleCharSupplier!Supply`), and
`MaxRules`, `MaxMade`, `MaxKids` and `MaxNames` of `RuleLibrary`. `MaxGiven` is
there for the torn line, which is supplied for ever; 15 is more than four lines
can otherwise supply between two clears, so no other input meets it.

Deadlock is checked in every run but `builder` and those of the printer: a
program may stop adding to its library at any time, and it stops printing when
all is printed. A finished `begin` stutters (`Done`).

Fairness is that of one thread that is scheduled: weak fairness of a step for a
call of `begin` (`FairTreeSpec`), of `SessionNext` for the loop. For the
suppliers only what the program itself goes on doing is fair: `Poll` (a call
that was started is carried on, given that the console delivers characters) and
the console's `Supply`. That somebody calls, clears or types a text is not
assumed.

Limits of these runs, all deliberate:

* No grammar has a repeat without a maximum over a child that matches the empty
  text: it does not terminate, in the code and in the model.
* `grammars` and `session` have no left recursion, which `RuleMeaning` gives no
  meaning; `recursion` has little else. What a left-recursive grammar should
  match is documented nowhere. `MatchDerivable` says that it matches nothing it
  should not, and that a `REP` with a maximum below its minimum, which the
  constructor admits (`LogicRules.h:55`), matches nothing; that it misses what
  it could match is known and not a property.
  Of a `NOT` or `BUT` it says no more than where it may end.
* `MemoFaithful` and `LongestFirst` are stated up to the moment key -1 is
  poisoned (`Poisoned`); what happens then is `claim_OptionalSucceeds`. The
  libraries of `session` poison it, in no way that shows in a token.
* No symbol of `session` matches the empty text; it would be FOUND without end.
  That this, and the limit on repeats, is so of the library of `FlockGrammar.h`
  is not assumed but checked: `NothingForEver` computes the rules that can match
  without a character (`EmptyRules`, compared with the meaning on the texts of
  the run), and no symbol and nothing that is repeated without a maximum is one.
* `NodesInOrder` lets the range of a node end one character behind an empty
  match, which is what the code gives it.
* `WholeLibrary` excepts a part that has the name of a symbol: its rule is
  printed nowhere.
* The console properties except the torn last line (`Stuck`): the stream leaves
  `line` as it is once it has failed, and it is supplied for ever.
* `ReadsBack` excepts four shapes, each a named operator, that are printed as
  another rule: a collection of one child (`LoneGroup`, which is
  `claim_LoneGroupsNothing`), a range of two characters (`RangeOfTwo`), an
  exclusive or within an exclusive or (`XOrInXOr`), and a count of a string that
  is printed in pieces (`NoPieceCounted`).

## What is proved

The proofs hold for every value of the constants: any library of any size, any
texts, any calls.

| theorem | states |
|---|---|
| `TypeCorrect` (`SourceEvaluationProofs`) | `TypeOK`: every variable has its type, and the child an `accept()` waits for, the symbol the loop is at and the rule a name resolves to exist |
| `OpenRecordsAreCalls` | `StackMatchesHistory`: the open records are those of the calls on the stack, one each |
| `MemoIsStable` | `CompletedStable`: a completed record is final while `begin` runs |
| `FetchedFirst` | `WithinFetched`: no index runs ahead of the supplier, so the iterator arithmetic of `popRange` is in range |
| `NodesFollowText` | `NodesInOrder`: the nodes of every match are in the order of the text, and none starts before the match or reaches behind it |
| `MemoIsFaithful` (`MeaningProofs`) | `MemoFaithful`: whatever the memo remembers is what the rule means at that position, until key -1 is poisoned |
| `LongestIsFound` | `LongestFirst`: `begin` returns and pops the longest match of any symbol, the first symbol's on a tie, or fails when there is none, until key -1 is poisoned |
| `MatchesAreDerivable` (`DerivationProofs`) | `MatchDerivable`: the evaluator makes no match up, whatever the grammar, and a repeat whose bounds no number is between has none |
| `NodesChangeNothing` (`SyntaxTreeProofs`) | `TreeSpec => Spec`: the evaluator with node objects takes the steps of the one with flat outputs, so every theorem above holds of it |
| `NodesRepresent` | `Represents`: wherever an output is kept (returned, best so far, in the memo, in a frame), its node objects are what the flat output says |
| `NodesAreTrees` | `Trees`: no node has two parents or two places below one, and a node that an output holds has none |
| `NodesAreFinal` | `NodesStay`: no step touches a node an earlier step has made |
| `RoundsMeanTokens`, `RoundsAreTokens` (`SessionProofs`) | the memo and the longest match of every round; and `ImplementsTokenizer`: the loop implements the abstract tokenizer as long as no rule is `Misled` |
| `RoundsAreSound`, `TokensArePartition` | the evaluator's invariants in every round, and the tokens follow one another without gap or overlap up to what has been popped |
| `SupplierTypeCorrect`, `SupplierImplementsWindow`, `LocationsAreRight`, `AnswersAreRight` (`LocationSupplierProofs`) | the deque implements the window; every location has its line, column and position; every call answers what the window says (`AnswersAsWindow`) and reads no further than it must |
| `ConsoleTypeCorrect`, `ClearDropsOneLine` (`ConsoleProofs`) | the position of the console stays in its line or one behind it; a clear drops the rest of that line only |
| `ConsoleIsSource` | `ImplementsSource`: the console implements `CharSource`, whatever the standard input holds, but for a torn last line |
| `BuilderTypeCorrect`, `KidsAreOlder`, `NamesAreKept`, `DerivedRulesResolve` (`RuleLibraryProofs`) | the tables of a library, whose rules have no cycle but through names, which never changes the rule of a name, and whose derived rules refer to names it has (`DerivedResolve`) |
| `EveryLibraryEvaluable` | `BuildsLibrary`: whatever is built satisfies what `LibrariesAssumption` asks |

Assumptions, each named in the module that declares the constant and evaluated
by TLC: a text is a sequence of naturals (`TextsAssumption`); a library is well
built (`LibrariesAssumption`: what the constructors and `addNode` guarantee, one
child for unary rules, at least one for collections, an id for every symbol);
calls are those the evaluator makes (`CallsAssumption`); `nullptr` is no
location (`NoLocationAssumption`); an input is lines of characters
(`InputsAssumption`); terminals have no children, and ids and names are there
for all that is built (`BuilderAssumption`, `NamesAssumption`). That
`LibrariesAssumption` is no more than the program guarantees is itself a
theorem, `EveryLibraryEvaluable`: the theorems about the evaluator hold of every
grammar a program can make with `RuleLibrary`.

The theorems of `MeaningProofs`, and `RoundsMeanTokens` and `RoundsAreTokens`, which
rest on them, are about the grammars of `PlainGrammars`, which three further assumptions describe: the equations have a
solution (`MeaningAssumption`), no `XOR` has more than two children and no `REP`
a maximum without a minimum (`ShapeAssumption`: what those do is refuted below),
and what a rule tries where it is itself has a smaller rank (`LeftAssumption`:
no left recursion). `grammars` evaluates them for each of its libraries, with
the computed solution; `session` evaluates the same (`LibrariesArePlain`) for
the library the program has. `MatchesAreDerivable` has none of these: it assumes
of `Derivation` that it is closed under the constructors (`DerivationAssumption`,
evaluated by `recursion` for the least such sets), which restricts no library.

How the arguments go:

* `TypeOK` is inductive as it stands. It includes that a frame's `turn` is
  within the children of its rule, without which `Kid(Top.turn + 1)` need not be
  a rule.
* `StackMatchesHistory` is inductive together with `TypeOK`. The lemma
  `StepShape` reduces the actions to four: nothing, a push of a new record, a
  pop that completes the top one, and a change of a record to `Completed` or
  `Cyclic` with the stack kept. `CompletedStable` follows from the same lemma
  and the fact that the top frame's record is open.
* `WithinFetched` is stated strong enough to be inductive: that the result is
  in the store is not, so it also says so of every remembered output, every
  pending output, every index a rule is tried at, and that a waiting rule has
  had its own character fetched (`BUT` and `ANY` end one past it).
* `NodesInOrder` speaks of the matches in the memo; `OrderOK` is what is
  inductive. It says of every output, together with the key of the visit that
  returned it, that it `Fits`: a match is not shorter than nothing, a match at
  key -1 is one at the end of input, and nothing there has a range. It says so of
  failures too, since a repeat goes on adding to the nodes of a failed child,
  and that each frame waits at the key the frame above it was called with.
  `JoinFits` is the heart: two outputs are joined only when the second was
  visited where the first has ended, or at index -1 after a failure, and then
  the second has no placed node.
* The meaning and the derivations both need to know which visit an output on its
  way up belongs to. `CallsNested` says that a frame stands for the visit its
  caller asked for, and `FromMemo` that what is returned is the completed record
  of that visit, wrapped, or the failure that ends a recursion.
* `MemoFaithful` is not inductive: it says nothing of outputs on the stack.
  `MeaningNow` is, as long as key -1 is not poisoned. It says of every completed
  record at a character that it means what its rule does there (`MemoMeans`); of
  a frame at a character that what its strategy holds follows the equation up to
  its turn (`FramesMean`: `Steady`, or `Lost` when a child was missed and the
  rule can only fail); that ranks fall from the rules on the stack at one
  character to those above them, so that no visit there meets an open record
  (`Climbing`, `NoCycle`); of an output returned to such a frame, or to the
  library, that it is what was asked for (`ReturnMeans`); and of the library
  loop that it has the best of the symbols tried (`BestSoFar`). Frames at key -1
  are left out of it: a rule visited behind a failed child may do anything, but
  what it does is recorded under key -1, and a frame at a character takes an
  answer from there only at the end of input.
* That an answer from there is right is what `Poisoned` excludes. `Misled` is
  weaker: an answer that is wrong has in fact been given to a rule at a
  character, or to the library (`MisledIsPoisoned`). `RoundsAreTokens` asks only
  that no rule is misled. `begin` starts each round with an empty memo, so that
  a round inherits nothing (`CallBeginSound`).
* The hypothesis of `RoundsAreTokens` is not idle: with the library of
  `FlockGrammar.h` and the texts of `session`, key -1 is poisoned in 258 of 347
  rounds, and a rule is misled in 11: ten are a `use` cut short before its
  semicolon or line end, one is `(a`, where the optional white space at the end
  of input is answered with a failure. No token comes out differently, which is
  what the run shows: it checks `ImplementsTokenizer` without the hypothesis.
* `MatchDerivable` has the invariant `Derivable`: every match in the memo is
  derived at its key, and a frame holds what was derived of the children before
  its turn (`FrameDerives`). A failure needs no derivation, so nothing is asked
  where recursion ends. A repeat whose minimum is above its maximum never gets
  past its needed visits (`Possible`). The invariant has one exception, found when a proof of
  it without failed: a `REP` that has missed a child it needs, having tested the
  output before that one, visits it again at index -1, and may be given a match
  of the end of input. What it then holds was never derived; but it is `Endless`:
  the memo has that match under key -1 and gives it again each time, so that the
  repeat ends in a failure at its maximum, or never.
* The node objects need `TreeInv`. A heap is `Tidy`: every node is older than its
  children, which know it as their parent and are in the order of their age, so
  that they are different. And beside every variable that holds an output, the
  nodes `StandsFor` it: they have no parent, and are flat what it says. Neither
  half is enough alone: what an output is flat would change if a node it holds
  were appended to, and `Trees` would if it were appended, but `over` only appends
  clones. `clone` and `flat` are recursive, and what is shown of them is shown
  from the leaves upwards (`FromLeaves`), since a node is older than its
  children: a clone has the type and range of its original over clones of its
  children (`ClonesAre`), nodes of two heaps that agree in these are flat alike
  (`FlatAlike`), so a clone is what its original was (`ClonesFlat`). A step then
  either leaves the heap alone or adds to its end (`Wider`), which keeps whatever
  stood for an output (`StandsWider`); that is `NodesStay`. What is left is that
  each frame passes on and keeps the nodes that belong to what its strategy
  completes with (`ResumeStands`).
* `LocationSupplier` needs `TypeOK /\ Progress`: an index behind the first of a
  range is polled only when those before it are in the store. `StepShape`
  reduces its actions to what they do to the deque: characters dropped from the
  front, one added, one passed through, all cleared. Lines are counted with the
  cardinality of the set of ends of line.
* `AnswersAsWindow` relates what a call answers to the state it was made in. It
  needs `Asking`: while a call is under way nothing is popped, and either no
  character has been asked for or only those up to the index that is polled.
* The console needs `Spent`: a stream that has met its end has no line left, so
  that `getline` reads a whole line or none. That it implements `CharSource`
  comes down to one fact about what is still to come: `supply` takes the first
  character off it (`SupplyTakes`), or there was none (`SupplyEnds`). What is to
  come is the lines up to an empty one, flattened; that flattening puts the first
  line first (`BlockFirst`, `FlattenFirst`) is an induction over the number of
  lines. The library's induction theorems cannot be used, but a set that has 0,
  and n + 1 whenever it has n, has every number (`Counting`), since a set of
  numbers that is not empty has a least one (`Least`).
* `RuleLibrary` needs that a rule has children that are older and the fields its
  constructor gives it (`Shaped`), which `MadeFor` keeps for what marks derive.
  The one reference a declaration makes (`MadeRefers`) is to the base, which the
  same step gives a rule; the names derived from it are referred to by no rule.
* `SessionInv` is the conjunction of the evaluator's invariants, which a new
  call of `begin` re-establishes from any state, of `SessionTypeOK`, and of
  `WinnerOK`: a best output has a symbol. `FoundPops` shows, from
  `WithinFetched`, that the characters popped are those of the match.

What is only model-checked: everything about time (`Terminates`, `CallsReturn`,
`PromptReturns`, `InputEnds`), which is beyond the proof system; that a grammar
without left recursion has a meaning, an induction over data (`ComputedMeaning`
computes it for the instances); what depends on a recursive operator, which the
provers cannot use (`EBNF` and `FlockGrammar`: `ReadsBack`, `WholeLibrary`,
`EveryNameResolves`, `NothingForEver`, `UseHasSemicolon`; the last three are about one library of 151
rules, which TLC evaluates in full); `ImplementsTokenizer` without its hypothesis, which does not
hold of every library.

## Findings

Where a comment says one thing and the code does another. Each is a run that
ends in a counterexample.

* `OptionalSucceeds`: after a failed child a sequence visits the next one at
  index -1, whose key is also that of the end of input. An `OPT` fails there
  (it should be "a success"), the memo keeps that, and the same `OPT` then fails
  at the end of the text. With `s ::= a, b, [c]` and `t ::= a, [c]`, the text `a`
  is not matched.
* `OnlyOneSuccess`: `XOR` returns at the first success after its first child, so
  `XOR(b, a, ANY)` accepts `a`.
* `NotPastMaximum`: `REP(0, 1, a)` accepts `aa`; the second loop counts from
  `min` although `max(1, min)` visits have been made.
* `RootSpansMatch`: the range of the root node is polled after the match has
  been popped, so it is that of the text which follows.
* `LoneGroupsNothing`: a collection of one child prints no bracket, but tells
  its child that there is one: two times `OR(EQ({a, newline}))` is printed as
  `2*"a" | ? ASCII character 10 ?`.

Seen while modelling, at odds with no sentence of the repository, and modelled
as it is: the range of an empty match holds the character behind it; `?` and `-`
behind a name are derived from a `+` and not from themselves; a name added twice
keeps its first rule and is printed twice; a part with the name of a symbol is
printed with the symbol's rule; a line `use a` without a semicolon is no `use`,
since the white space around `a` takes the newline that should end it; the three
further shapes `ReadsBack` excepts. All are under the hazards of PROJECT.json.

## Not modelled

The plan is carried out but for one point: a source whose end of input can be
passed (byte 0xFF where `char` is signed, `ConsoleCharSupplier.h:53`). The end
of input of `TokenWindow` is sticky, and every theorem rests on that; without it
a text has no position, and no property of the evaluator has a meaning.

Left out for good:

* `RuleTypes.h` and `RuleFunctions.h` are commented out from first to last line;
  `Parser.h`, `AST.h` and `FileCharSupplier.h` are included by no compiled file,
  and the first two depend on headers the repository does not have. Together
  they are some 1700 of the 4900 lines.
* `CachedVectorSupplier`, `getFullRange` and the setters of `SyntaxNode`, which
  nothing instantiates or calls.
* The registries that find a strategy for a rule by its type (`Visitor.h:74-150`,
  `RuleHistory.h:175-219`, `EBNFPrinter.h:366-384`): each is filled once, before
  `begin`, and looked up by a constant. What they are configured to, the memo
  around every strategy and the alias node around the memo, is in the actions.
* Colours and wording of the output (`ConsoleFormat.h`), which nothing reads.
* The ownership of the smart pointers: a child and its parent own one another,
  so no tree is freed. There is no bound in the code that this would meet.
