-------------------------- MODULE SourceEvaluation --------------------------
(***************************************************************************)
(* One call of EvaluationVisitor::begin: every symbol of a library is      *)
(* tried at the front of the token window, and the longest match is popped *)
(* (SourceEvaluation.h, LogicRules.h, Rules.h, RuleHistory.h, Visitor.h).  *)
(*                                                                         *)
(* The C++ is a mutual recursion of accept() and visit().  Here its call   *)
(* stack is the variable `stack', with a frame per accept() that waits for *)
(* a child, and the program counter says what happens next:                *)
(*                                                                         *)
(*   symbols   the library loop is about to try its next symbol            *)
(*   visit     visit(rule, at) has been called                             *)
(*   return    a visit has returned `out' to the frame on top of the stack *)
(*             (to the library loop, when there is no frame)               *)
(*   found, failed   begin has returned                                    *)
(*                                                                         *)
(* Every strategy runs behind the memo of CachingRuleStrategy, so its test *)
(* of the history is the first thing a visit does and its setCompleted the *)
(* last thing before it returns.  The syntax tree is kept flat: the nodes  *)
(* in preorder, each with its depth.                                       *)
(***************************************************************************)
EXTENDS TokenWindow, Rules

VARIABLES
  lib,                         \* the library the visitor was built on
  history,                     \* RuleHistories: <<rule id, key>> to record
  stack,                       \* the accept() calls waiting for a child
  pc,
  rule, at,                    \* the arguments of the visit
  out,                         \* what a visit returned
  tried,                       \* symbols the library loop is done with
  best, winner                 \* its longest output so far, and whose it is

evalVars == <<history, stack, pc, rule, at, out, tried, best, winner>>
vars == <<text, popped, fetched, lib, evalVars>>

-----------------------------------------------------------------------------
(* Output and the mixins.                                                  *)

Index  == Nat \cup {-1}
Span   == [first : Index, last : Index]
Node   == [type : AnyName, range : Span, depth : Nat]
Output == [idx : Index, nodes : Seq(Node)]

ReachedAt(i) == [idx |-> i, nodes |-> <<>>]
FAILURE      == ReachedAt(-1)
Succeeds(o)  == o.idx >= 0

(* Mutant: the nodes of the second output come first.                      *)
Mutant_joinOutputs(first, second) ==
  [idx |-> second.idx, nodes |-> second.nodes \o first.nodes]

joinOutputs(first, second) ==
  [idx   |-> second.idx,
   nodes |-> IF first.nodes = <<>> THEN second.nodes
                                   ELSE first.nodes \o second.nodes]

(* A SyntaxNode of its own over the nodes of o, cloned under it.           *)
Under(type, range, o) ==
  [idx   |-> o.idx,
   nodes |-> <<[type |-> type, range |-> range, depth |-> 0]>>
               \o [n \in 1 .. Len(o.nodes) |->
                     [o.nodes[n] EXCEPT !.depth = @ + 1]]]

(* SyntaxAliasRuleStrategy gives a match of a symbol a node.  It sits      *)
(* outside the memo: also an output the memo remembers is wrapped again.   *)
Wraps(r, o) == /\ lib.rules[r].kind = "Alias"
               /\ Succeeds(o)
               /\ lib.symbol[lib.rules[r].name] # NoRule

Wrapped(r, i, o) ==
  IF Wraps(r, o)
  THEN Under(lib.rules[r].name, RangeBetween(popped, i, o.idx), o)
  ELSE o

-----------------------------------------------------------------------------
(* The memo.  A rule id and key without a record is in state New.          *)

Remembered(record) == record \in DOMAIN history

Remember(record, state, o) ==
  history' = [k \in DOMAIN history \cup {record} |->
                IF k = record THEN [state |-> state, out |-> o]
                              ELSE history[k]]

(* Mutant: the memo forgets where the rule is visited.                    *)
Mutant_Record == <<rule, KeyOf(0)>>

Record == <<rule, KeyOf(at)>>

-----------------------------------------------------------------------------
(* Calls and returns.                                                      *)

Top     == stack[Len(stack)]
TopRule == lib.rules[Top.rule]
Kid(n)  == TopRule.kids[n]
Last    == Top.turn = Len(TopRule.kids)

Visit(r, i) == /\ rule' = r
               /\ at' = i
               /\ pc' = "visit"

Return(r, i, o) == /\ out' = Wrapped(r, i, o)
                   /\ pc' = "return"
                   /\ UNCHANGED <<rule, at>>

LibraryUnchanged == UNCHANGED <<lib, tried, best, winner>>

(* A visit that the memo does not answer.                                  *)
Fresh(kinds) == /\ pc = "visit"
                /\ ~Remembered(Record)
                /\ lib.rules[rule].kind \in kinds

(* ... answered without visiting a child.                                  *)
Answer(o) == /\ Remember(Record, "Completed", o)
             /\ Return(rule, at, o)
             /\ UNCHANGED <<text, popped, stack>>
             /\ LibraryUnchanged

(* A child has returned to a frame of this kind.                           *)
Resumed(kind) == /\ pc = "return"
                 /\ stack # <<>>
                 /\ TopRule.kind = kind

(* The frame returns o: setCompleted, then the alias node.                 *)
Complete(o) ==
  /\ Remember(<<Top.rule, Top.key>>, "Completed", o)
  /\ stack' = SubSeq(stack, 1, Len(stack) - 1)
  /\ Return(Top.rule, Top.at, o)
  /\ fetched' = IF Wraps(Top.rule, o) THEN ReachBetween(Top.at, o.idx)
                                      ELSE fetched
  /\ UNCHANGED <<text, popped>>
  /\ LibraryUnchanged

(* The frame visits a child again, keeping o.                              *)
Again(kid, turn, o, i) ==
  /\ stack' = [stack EXCEPT ![Len(stack)].turn = turn,
                            ![Len(stack)].acc = o]
  /\ Visit(kid, i)
  /\ UNCHANGED <<text, popped, fetched, history, out>>
  /\ LibraryUnchanged

-----------------------------------------------------------------------------
(* CachingRuleStrategy::accept.  Taking the key polls the index.           *)

VisitCompleted ==
  /\ pc = "visit"
  /\ Remembered(Record)
  /\ history[Record].state = "Completed"
  /\ LET o == history[Record].out IN
       /\ Return(rule, at, o)
       /\ fetched' = IF Wraps(rule, o) THEN ReachBetween(at, o.idx)
                                       ELSE Reach(at)
  /\ UNCHANGED <<text, popped, history, stack>>
  /\ LibraryUnchanged

(* Mutant: a completed record is taken for one that is being evaluated.    *)
Mutant_VisitCycle ==
  /\ pc = "visit"
  /\ Remembered(Record)
  /\ Remember(Record, "Cyclic", FAILURE)
  /\ Return(rule, at, FAILURE)
  /\ fetched' = Reach(at)
  /\ UNCHANGED <<text, popped, stack>>
  /\ LibraryUnchanged

(* Mutant: a rule that is being evaluated matches nothing, successfully.   *)
Mutant_CycleMatches ==
  /\ pc = "visit"
  /\ Remembered(Record)
  /\ history[Record].state \in {"Processing", "Cyclic"}
  /\ Remember(Record, "Cyclic", FAILURE)
  /\ Return(rule, at, ReachedAt(at))
  /\ fetched' = Reach(at)
  /\ UNCHANGED <<text, popped, stack>>
  /\ LibraryUnchanged

(* The rule is being evaluated at this key further down the stack.         *)
VisitCycle ==
  /\ pc = "visit"
  /\ Remembered(Record)
  /\ history[Record].state \in {"Processing", "Cyclic"}
  /\ Remember(Record, "Cyclic", FAILURE)
  /\ Return(rule, at, FAILURE)
  /\ fetched' = Reach(at)
  /\ UNCHANGED <<text, popped, stack>>
  /\ LibraryUnchanged

(* Mutant: setProcessing is forgotten.                                     *)
Mutant_Descend ==
  LET R     == lib.rules[rule]
      child == IF R.kind = "Alias" THEN Resolve(lib, R.name) ELSE R.kids[1]
  IN
    /\ Fresh({"Alias"} \cup Unary \cup Collections)
    /\ child # NoRule
    /\ stack' = Append(stack, [rule |-> rule, at |-> at, key |-> KeyOf(at),
                               turn |-> 1, acc |-> FAILURE])
    /\ Visit(child, at)
    /\ fetched' = Reach(at)
    /\ UNCHANGED <<text, popped, history, out>>
    /\ LibraryUnchanged

(* A rule with children: the record is Processing until they have          *)
(* returned.  The first child is visited where the rule itself is.         *)
Descend ==
  LET R     == lib.rules[rule]
      child == IF R.kind = "Alias" THEN Resolve(lib, R.name) ELSE R.kids[1]
  IN
    /\ Fresh({"Alias"} \cup Unary \cup Collections)
    /\ child # NoRule
    /\ Remember(Record, "Processing", FAILURE)
    /\ stack' = Append(stack, [rule |-> rule, at |-> at, key |-> KeyOf(at),
                               turn |-> 1, acc |-> FAILURE])
    /\ Visit(child, at)
    /\ fetched' = Reach(at)
    /\ UNCHANGED <<text, popped, out>>
    /\ LibraryUnchanged

(* visitPart throws, and AliasRuleStrategy turns that into a failure.      *)
MissingAlias ==
  /\ Fresh({"Alias"})
  /\ Resolve(lib, lib.rules[rule].name) = NoRule
  /\ Answer(FAILURE)
  /\ fetched' = Reach(at)

-----------------------------------------------------------------------------
(* Terminal rules.                                                         *)

(* Mutant: ANY forgets the end of input.                                   *)
Mutant_AcceptAny ==
  /\ Fresh({"Any"})
  /\ Answer(ReachedAt(at + 1))
  /\ fetched' = Reach(at)

AcceptAny ==
  /\ Fresh({"Any"})
  /\ Answer(IF Present(at) THEN ReachedAt(at + 1) ELSE FAILURE)
  /\ fetched' = Reach(at)

AcceptEnd ==
  /\ Fresh({"End"})
  /\ Answer(IF Present(at) THEN FAILURE ELSE ReachedAt(at))
  /\ fetched' = Reach(at)

AcceptCharRange ==
  LET values == lib.rules[rule].values IN
    /\ Fresh({"CharRange"})
    /\ Answer(IF /\ Present(at)
                 /\ values[1][1] <= text[popped + at + 1]
                 /\ text[popped + at + 1] <= values[2][1]
              THEN ReachedAt(at + 1) ELSE FAILURE)
    /\ fetched' = Reach(at)

(* pollRange compares at least one character, so "" matches nothing.       *)
Matches(value, i) ==
  /\ value # <<>>
  /\ \A n \in 1 .. Len(value) : /\ Present(i + n - 1)
                                /\ text[popped + i + n] = value[n]

(* The values are tried in order, each polled to its own length.           *)
TriedFirst(values, n) ==
  \E f \in {Reach(at)} \cup
           {ReachBetween(at, at + Len(values[m])) : m \in 1 .. n} :
    /\ Reach(at) <= f
    /\ \A m \in 1 .. n : ReachBetween(at, at + Len(values[m])) <= f
    /\ fetched' = f

AcceptValues ==
  LET values == lib.rules[rule].values IN
    /\ Fresh({"EqualChar", "EqualString"})
    /\ \/ \E n \in 1 .. Len(values) :
            /\ Matches(values[n], at)
            /\ \A m \in 1 .. (n - 1) : ~Matches(values[m], at)
            /\ Answer(ReachedAt(at + Len(values[n])))
            /\ TriedFirst(values, n)
       \/ /\ \A n \in 1 .. Len(values) : ~Matches(values[n], at)
          /\ Answer(FAILURE)
          /\ TriedFirst(values, Len(values))

-----------------------------------------------------------------------------
(* Rules with children.                                                    *)

ResumeAlias == Resumed("Alias") /\ Complete(out)

ResumeOptional ==
  /\ Resumed("Optional")
  /\ Complete(IF Succeeds(out) THEN out ELSE ReachedAt(Top.at))

ResumeNot ==
  /\ Resumed("Not")
  /\ Complete(IF Succeeds(out) THEN FAILURE ELSE ReachedAt(Top.at))

ResumeAnyBut ==
  /\ Resumed("AnyBut")
  /\ Complete(IF Succeeds(out) \/ ~Present(Top.at)
              THEN FAILURE ELSE ReachedAt(Top.at + 1))

(* Mutant: the loop over the children does not advance.                    *)
Mutant_ResumeOr ==
  /\ Resumed("Or")
  /\ \/ Succeeds(out) /\ Complete(out)
     \/ ~Succeeds(out) /\ Last /\ Complete(FAILURE)
     \/ /\ ~Succeeds(out) /\ ~Last
        /\ Again(Kid(Top.turn), Top.turn, FAILURE, Top.at)

ResumeOr ==
  /\ Resumed("Or")
  /\ \/ Succeeds(out) /\ Complete(out)
     \/ ~Succeeds(out) /\ Last /\ Complete(FAILURE)
     \/ /\ ~Succeeds(out) /\ ~Last
        /\ Again(Kid(Top.turn + 1), Top.turn + 1, FAILURE, Top.at)

(* What the strategy holds once a child has returned: the first output, or *)
(* what it held before.                                                    *)
Held == IF Top.turn = 1 THEN out ELSE Top.acc

ResumeAnd ==
  /\ Resumed("And")
  /\ \/ ~Succeeds(out) /\ Complete(FAILURE)
     \/ Succeeds(out) /\ Last /\ Complete(Held)
     \/ /\ Succeeds(out) /\ ~Last
        /\ Again(Kid(Top.turn + 1), Top.turn + 1, Held, Top.at)

(* The loop returns at the first success after the first child; the        *)
(* children that follow are not looked at.                                 *)
ResumeXOr ==
  LET again == Top.turn > 1 /\ Succeeds(out) IN
    /\ Resumed("XOr")
    /\ \/ again /\ ~Succeeds(Top.acc) /\ Complete(out)
       \/ again /\ Succeeds(Top.acc) /\ Complete(FAILURE)
       \/ ~again /\ Last /\ Complete(Held)
       \/ /\ ~again /\ ~Last
          /\ Again(Kid(Top.turn + 1), Top.turn + 1, Held, Top.at)

(* What the strategy tests is the output before the child that returned:   *)
(* the child after a failed one is visited, at index -1.                   *)
Joined == IF Top.turn = 1 THEN out ELSE joinOutputs(Top.acc, out)

ResumeSequence ==
  /\ Resumed("Sequence")
  /\ \/ ~Succeeds(Held) /\ Complete(FAILURE)
     \/ Succeeds(Held) /\ Last /\ Complete(Joined)
     \/ /\ Succeeds(Held) /\ ~Last
        /\ Again(Kid(Top.turn + 1), Top.turn + 1, Joined, Joined.idx)

(* A repeat makes max(1, min) visits, tested as a sequence tests them, and *)
(* then max + 1 - min more, or as many as succeed when max is 0.  Its turn *)
(* counts the visits, and stays put once there is no number to reach.      *)
Needed  == Greater(1, TopRule.min)
Allowed == TopRule.max + 1 - TopRule.min

RepeatNeeded ==
  /\ Top.turn <= Needed
  /\ \/ ~Succeeds(Held) /\ Complete(IF TopRule.min > 0
                                    THEN FAILURE ELSE ReachedAt(Top.at))
     \/ /\ Succeeds(Held)
        /\ Top.turn = Needed /\ TopRule.max > 0 /\ Allowed <= 0
        /\ Complete(FAILURE)
     \/ /\ Succeeds(Held)
        /\ ~(Top.turn = Needed /\ TopRule.max > 0 /\ Allowed <= 0)
        /\ Again(Kid(1), Top.turn + 1, Joined, Joined.idx)

RepeatMore ==
  /\ Top.turn > Needed
  /\ \/ ~Succeeds(out) /\ Complete(Top.acc)
     \/ /\ Succeeds(out) /\ TopRule.max > 0 /\ Top.turn - Needed >= Allowed
        /\ Complete(FAILURE)
     \/ /\ Succeeds(out) /\ TopRule.max > 0 /\ Top.turn - Needed < Allowed
        /\ Again(Kid(1), Top.turn + 1, Joined, Joined.idx)
     \/ /\ Succeeds(out) /\ TopRule.max = 0
        /\ Again(Kid(1), Top.turn, Joined, Joined.idx)

ResumeRepeat == Resumed("Repeat") /\ (RepeatNeeded \/ RepeatMore)

-----------------------------------------------------------------------------
(* EvaluationLibraryStrategy::accept, with an input index of 0.            *)

TrySymbol ==
  /\ pc = "symbols"
  /\ tried < Len(lib.symbols)
  /\ Visit(Resolve(lib, lib.symbols[tried + 1]), 0)
  /\ UNCHANGED <<text, popped, fetched, history, stack, out>>
  /\ LibraryUnchanged

(* Mutant: the last of the longest matches wins.                           *)
Mutant_TakeResult ==
  /\ pc = "return"
  /\ stack = <<>>
  /\ IF out.idx >= best.idx
     THEN best' = out /\ winner' = lib.symbols[tried + 1]
     ELSE UNCHANGED <<best, winner>>
  /\ tried' = tried + 1
  /\ pc' = "symbols"
  /\ UNCHANGED <<text, popped, fetched, lib, history, stack, rule, at, out>>

(* Mutant: a symbol that makes no longer match is tried again.             *)
Mutant_TakeAgain ==
  /\ pc = "return"
  /\ stack = <<>>
  /\ IF out.idx > best.idx
     THEN /\ best' = out
          /\ winner' = lib.symbols[tried + 1]
          /\ tried' = tried + 1
     ELSE UNCHANGED <<best, winner, tried>>
  /\ pc' = "symbols"
  /\ UNCHANGED <<text, popped, fetched, lib, history, stack, rule, at, out>>

(* Only a longer match replaces the one a symbol before it has made.       *)
TakeResult ==
  /\ pc = "return"
  /\ stack = <<>>
  /\ IF out.idx > best.idx
     THEN best' = out /\ winner' = lib.symbols[tried + 1]
     ELSE UNCHANGED <<best, winner>>
  /\ tried' = tried + 1
  /\ pc' = "symbols"
  /\ UNCHANGED <<text, popped, fetched, lib, history, stack, rule, at, out>>

(* popRange, and the node of the symbol: its range is polled after the     *)
(* match has been popped.                                                  *)
Found ==
  LET polled == ReachBetween(0, best.idx)
      left   == popped + Lesser(best.idx, polled - popped)
  IN
    /\ pc = "symbols"
    /\ tried = Len(lib.symbols)
    /\ Succeeds(best)
    /\ popped' = left
    /\ fetched' = Supplied(polled, left, 0, best.idx)
    /\ out' = Under(winner, RangeBetween(left, 0, best.idx), best)
    /\ pc' = "found"
    /\ UNCHANGED <<text, history, stack, rule, at>>
    /\ LibraryUnchanged

NothingFound ==
  /\ pc = "symbols"
  /\ tried = Len(lib.symbols)
  /\ ~Succeeds(best)
  /\ out' = best
  /\ pc' = "failed"
  /\ UNCHANGED <<text, popped, fetched, history, stack, rule, at>>
  /\ LibraryUnchanged

-----------------------------------------------------------------------------
(* begin is called with an empty history: MainLoop clears it each round.   *)
Begin == /\ history = <<>>
         /\ stack = <<>>
         /\ pc = "symbols"
         /\ rule = NoRule
         /\ at = 0
         /\ out = FAILURE
         /\ tried = 0
         /\ best = FAILURE
         /\ winner = NoName

Init == /\ WindowInit
        /\ lib \in Libraries
        /\ Begin

CacheStep    == VisitCompleted \/ VisitCycle \/ Descend \/ MissingAlias
TerminalStep == AcceptAny \/ AcceptEnd \/ AcceptCharRange \/ AcceptValues
ResumeStep   == \/ ResumeAlias \/ ResumeOptional \/ ResumeNot \/ ResumeAnyBut
                \/ ResumeOr \/ ResumeAnd \/ ResumeXOr
                \/ ResumeSequence \/ ResumeRepeat
LibraryStep  == TrySymbol \/ TakeResult \/ Found \/ NothingFound

Step == CacheStep \/ TerminalStep \/ ResumeStep \/ LibraryStep

Done == pc \in {"found", "failed"}

Next == Step \/ (Done /\ UNCHANGED vars)

Spec     == Init /\ [][Next]_vars
FairSpec == Spec /\ WF_vars(Step)

-----------------------------------------------------------------------------
(* Properties.                                                             *)

States == {"Processing", "Cyclic", "Completed"}
HistoryRecord == [state : States, out : Output]
Frame == [rule : RuleIds, at : Index, key : Index, turn : Nat, acc : Output]

LibraryOK == lib \in Library /\ WellBuilt(lib)

HistoryOK == /\ DOMAIN history \subseteq RuleIds \X Index
             /\ \A k \in DOMAIN history : history[k] \in HistoryRecord

(* A frame waits for a child that its rule has.                            *)
FrameOK(frame) ==
  LET R == lib.rules[frame.rule] IN
    /\ R.kind \in Unary \cup Collections \cup {"Alias"}
    /\ frame.turn >= 1
    /\ R.kind \in Collections => frame.turn <= Len(R.kids)

StackOK == /\ stack \in Seq(Frame)
           /\ \A n \in 1 .. Len(stack) : FrameOK(stack[n])

ControlOK == /\ pc \in {"symbols", "visit", "return", "found", "failed"}
             /\ rule \in RuleIds \cup {NoRule}
             /\ pc = "visit" => rule \in RuleIds
             /\ at \in Index
             /\ tried \in 0 .. Len(lib.symbols)
             /\ pc \in {"visit", "return"} => tried < Len(lib.symbols)

ResultOK == out \in Output /\ best \in Output /\ winner \in AnyName

(* The range of every variable; the child a frame waits for and the symbol *)
(* the library loop is at exist.                                           *)
TypeOK == /\ WindowTypeOK
          /\ LibraryOK
          /\ HistoryOK
          /\ StackOK
          /\ ControlOK
          /\ ResultOK

(* The child a frame waits for, and where it visits it.                    *)
ChildRule(frame) ==
  LET R == lib.rules[frame.rule] IN
    IF R.kind = "Alias" THEN Resolve(lib, R.name)
    ELSE IF R.kind \in Unary THEN R.kids[1] ELSE R.kids[frame.turn]

ChildAt(frame) ==
  IF lib.rules[frame.rule].kind \in {"Sequence", "Repeat"} /\ frame.turn > 1
  THEN frame.acc.idx ELSE frame.at

(* The visit frame n waits for; below the first is the library loop.       *)
CalledRule(n) == IF n = 0 THEN Resolve(lib, lib.symbols[tried + 1])
                          ELSE ChildRule(stack[n])
CalledAt(n)   == IF n = 0 THEN 0 ELSE ChildAt(stack[n])

RecordOf(frame) == <<frame.rule, frame.key>>
IsOpen(k)       == history[k].state \in {"Processing", "Cyclic"}

(* The records that are Processing or Cyclic are exactly those of the      *)
(* accept() calls on the stack, and no two calls share one.  So            *)
(* setCompleted never completes a record twice, no record is left open     *)
(* when begin returns, and the recursion is never deeper than there are    *)
(* rules and keys, however left-recursive the grammar is.                  *)
StackMatchesHistory ==
  /\ \A n \in 1 .. Len(stack) : /\ RecordOf(stack[n]) \in DOMAIN history
                                /\ IsOpen(RecordOf(stack[n]))
  /\ \A k \in DOMAIN history :
       IsOpen(k) => \E n \in 1 .. Len(stack) : RecordOf(stack[n]) = k
  /\ \A m, n \in 1 .. Len(stack) :
       RecordOf(stack[m]) = RecordOf(stack[n]) => m = n

(* What the memo has answered once it answers for the rest of the call.    *)
CompletedStable ==
  [][\A k \in DOMAIN history :
       history[k].state = "Completed" =>
         k \in DOMAIN history' /\ history'[k] = history[k]]_vars

(* No index the evaluator has reached lies beyond what has been fetched,   *)
(* whether an output ends there or a rule is tried there; and a rule that  *)
(* waits for its child has had its own character fetched.  So the supplier *)
(* holds every character of a match, and popRange, which adds the length   *)
(* of the match to an iterator of the store, stays within the store.       *)
InStore(i) == popped + i <= fetched

WaitsInStore(frame) == /\ InStore(frame.acc.idx)
                       /\ InStore(frame.at)
                       /\ Present(frame.at) => InStore(frame.at + 1)

WithinFetched ==
  pc # "found" =>
    /\ InStore(out.idx) /\ InStore(best.idx) /\ InStore(at)
    /\ \A k \in DOMAIN history : InStore(history[k].out.idx)
    /\ \A n \in 1 .. Len(stack) : WaitsInStore(stack[n])

(* The nodes of a match are in the order of the text, and none starts      *)
(* before the rule was tried or after its match ends, or reaches behind    *)
(* that end; but the range of an empty match is the one character that it  *)
(* starts at.  (A node visited where there is no character has no range.)  *)
NodesInOrder ==
  \A k \in DOMAIN history :
    LET nodes  == history[k].out.nodes
        placed == {n \in DOMAIN nodes : nodes[n].range # NoRange}
    IN
      pc # "found" /\ Succeeds(history[k].out) =>
        /\ \A n \in placed :
             LET range == nodes[n].range
                 end   == popped + history[k].out.idx
             IN  /\ range.first \in k[2] .. end
                 /\ range.last <= Greater(range.first, end - 1)
        /\ \A m, n \in placed :
             m < n => nodes[m].range.first <= nodes[n].range.first

(* begin returns as long as the evaluator runs, for every grammar, left-   *)
(* recursive ones included, in which no REP without a maximum has a child  *)
(* that matches the empty text (RepeatMore would visit it forever).        *)
Terminates == <>Done

=============================================================================
