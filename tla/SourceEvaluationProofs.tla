----------------------- MODULE SourceEvaluationProofs -----------------------
(***************************************************************************)
(* What holds of SourceEvaluation for every library, text and rule id.     *)
(*                                                                         *)
(* Most actions end a visit (Answer, Complete) or ask for another one      *)
(* (Again, Descend), so each invariant is first shown to survive these,    *)
(* and the step lemmas then say which of them an action is, with which     *)
(* output and which child.                                                 *)
(***************************************************************************)
EXTENDS SourceEvaluation, SequenceTheorems, TLAPS

-----------------------------------------------------------------------------
(* The window.                                                             *)

(* The text of a window is a sequence of characters.                       *)
LEMMA TextType ==
  ASSUME WindowTypeOK
  PROVE  /\ text \in Seq(Nat)
         /\ Len(text) \in Nat
         /\ fetched \in Nat /\ fetched <= Len(text)
         /\ popped \in Nat /\ popped <= fetched
<1>1. text \in Seq(Nat)
  BY TextsAssumption DEF WindowTypeOK
<1>2. Len(text) \in Nat
  BY <1>1, LenProperties
<1> QED
  BY <1>1, <1>2 DEF WindowTypeOK

(* Polling never gives characters back and never goes beyond the text.     *)
LEMMA SuppliedBounds ==
  ASSUME WindowTypeOK,
         NEW f \in 0 .. Len(text), NEW base \in Nat,
         NEW from \in Int, NEW to \in Int
  PROVE  /\ Supplied(f, base, from, to) \in f .. Len(text)
         /\ from >= 0 /\ base + to <= Len(text) =>
              base + to <= Supplied(f, base, from, to)
         /\ from >= 0 /\ base + from < Len(text) =>
              base + from + 1 <= Supplied(f, base, from, to)
BY TextType DEF Supplied, Lesser, Greater

LEMMA ReachBounds ==
  ASSUME WindowTypeOK, NEW i \in Index, NEW j \in Int
  PROVE  /\ ReachBetween(i, j) \in fetched .. Len(text)
         /\ Reach(i) \in fetched .. Len(text)
         /\ Present(i) => popped + i + 1 <= Reach(i)
         /\ i >= 0 /\ popped + j <= Len(text) => popped + j <= ReachBetween(i, j)
<1>1. fetched \in 0 .. Len(text) /\ popped \in Nat /\ i \in Int /\ i + 1 \in Int
  BY TextType DEF Index
<1>2. ReachBetween(i, j) \in fetched .. Len(text)
      /\ (i >= 0 /\ popped + j <= Len(text) => popped + j <= ReachBetween(i, j))
  BY <1>1, SuppliedBounds DEF ReachBetween
<1>3. Reach(i) \in fetched .. Len(text)
      /\ (Present(i) => popped + i + 1 <= Reach(i))
  BY <1>1, SuppliedBounds DEF Reach, ReachBetween, Present
<1> QED
  BY <1>2, <1>3

LEMMA KeyOfType ==
  ASSUME WindowTypeOK, NEW i \in Index
  PROVE  KeyOf(i) \in Index
BY TextType DEF KeyOf, Present, Index

LEMMA RangeBetweenType ==
  ASSUME WindowTypeOK, NEW base \in Nat, NEW from \in Int, NEW to \in Int
  PROVE  RangeBetween(base, from, to) \in Span
<1>1. CASE from >= 0 /\ base + from < Len(text)
  <2>1. Greater(base + from, Lesser(base + to, Len(text)) - 1) \in Nat
    BY <1>1, TextType DEF Greater, Lesser
  <2> QED
    BY <1>1, <2>1 DEF RangeBetween, Span, Index
<1>2. CASE ~(from >= 0 /\ base + from < Len(text))
  BY <1>2 DEF RangeBetween, NoRange, Span, Index
<1> QED
  BY <1>1, <1>2

-----------------------------------------------------------------------------
(* Outputs.                                                                *)

LEMMA ReachedAtType ==
  ASSUME NEW i \in Index
  PROVE  /\ ReachedAt(i) \in Output
         /\ FAILURE \in Output
         /\ ReachedAt(i).idx = i
         /\ FAILURE.idx = -1
BY DEF ReachedAt, FAILURE, Output, Index

LEMMA JoinType ==
  ASSUME NEW first \in Output, NEW second \in Output
  PROVE  /\ joinOutputs(first, second) \in Output
         /\ joinOutputs(first, second).idx = second.idx
<1>1. first.nodes \o second.nodes \in Seq(Node)
  BY ConcatProperties DEF Output
<1> QED
  BY <1>1 DEF joinOutputs, Output

LEMMA Singleton ==
  ASSUME NEW S, NEW e \in S
  PROVE  <<e>> \in Seq(S)
OBVIOUS

LEMMA Deeper ==
  ASSUME NEW n \in Node
  PROVE  [n EXCEPT !.depth = @ + 1] \in Node
<1>1. n.depth + 1 \in Nat
  BY DEF Node
<1>2. [n EXCEPT !.depth = @ + 1]
        = [type |-> n.type, range |-> n.range, depth |-> n.depth + 1]
  BY DEF Node
<1> QED
  BY <1>1, <1>2 DEF Node

LEMMA UnderType ==
  ASSUME NEW type \in AnyName, NEW range \in Span, NEW o \in Output
  PROVE  /\ Under(type, range, o) \in Output
         /\ Under(type, range, o).idx = o.idx
<1> DEFINE root    == <<[type |-> type, range |-> range, depth |-> 0]>>
           cloned  == [n \in 1 .. Len(o.nodes) |->
                         [o.nodes[n] EXCEPT !.depth = @ + 1]]
<1>1. o.nodes \in Seq(Node) /\ o.idx \in Index
  BY DEF Output
<1>2. root \in Seq(Node)
  <2>1. [type |-> type, range |-> range, depth |-> 0] \in Node
    BY DEF Node, Span
  <2> QED
    BY <2>1, Singleton
<1>3. cloned \in Seq(Node)
  <2>1. Len(o.nodes) \in Nat
    BY <1>1, LenProperties
  <2>2. ASSUME NEW n \in 1 .. Len(o.nodes)
        PROVE  [o.nodes[n] EXCEPT !.depth = @ + 1] \in Node
    <3>1. o.nodes[n] \in Node
      BY <1>1, ElementOfSeq
    <3> QED
      BY <3>1, Deeper
  <2>3. cloned \in [1 .. Len(o.nodes) -> Node]
    BY <2>2
  <2> QED
    BY <2>1, <2>3, SeqDef
<1>4. root \o cloned \in Seq(Node)
  BY <1>2, <1>3, ConcatProperties
<1> QED
  BY <1>1, <1>4 DEF Under, Output

-----------------------------------------------------------------------------
(* The library, the memo and the stack.                                    *)

LEMMA RuleType ==
  ASSUME LibraryOK, NEW r \in RuleIds
  PROVE  /\ lib.rules[r] \in Rule
         /\ lib.rules[r].kids \in Seq(RuleIds)
         /\ Len(lib.rules[r].kids) \in Nat
         /\ lib.rules[r].kind \in Unary \cup Collections =>
              Len(lib.rules[r].kids) >= 1
         /\ lib.rules[r].kind = "Alias" => lib.rules[r].name \in Names
<1>1. lib.rules[r] \in Rule
  BY DEF LibraryOK, Library
<1>2. lib.rules[r].kids \in Seq(RuleIds)
  BY <1>1 DEF Rule
<1>3. Len(lib.rules[r].kids) \in Nat
  BY <1>2, LenProperties
<1>4. /\ lib.rules[r].kind \in Unary => Len(lib.rules[r].kids) = 1
      /\ lib.rules[r].kind \in Collections => Len(lib.rules[r].kids) >= 1
      /\ lib.rules[r].kind = "Alias" => lib.rules[r].name \in Names
  BY DEF LibraryOK, WellBuilt
<1> QED
  BY <1>1, <1>2, <1>3, <1>4

LEMMA ResolveType ==
  ASSUME LibraryOK, NEW name \in Names
  PROVE  Resolve(lib, name) \in RuleIds \cup {NoRule}
<1>1. /\ lib.symbol \in [Names -> RuleIds \cup {NoRule}]
      /\ lib.part \in [Names -> RuleIds \cup {NoRule}]
  BY DEF LibraryOK, Library
<1> QED
  BY <1>1 DEF Resolve

LEMMA SymbolType ==
  ASSUME LibraryOK, NEW n \in 1 .. Len(lib.symbols)
  PROVE  /\ lib.symbols[n] \in Names
         /\ Resolve(lib, lib.symbols[n]) \in RuleIds
<1>1. lib.symbols \in Seq(Names) /\ lib.symbol \in [Names -> RuleIds \cup {NoRule}]
  BY DEF LibraryOK, Library
<1>2. lib.symbols[n] \in Names
  BY <1>1, ElementOfSeq
<1>3. lib.symbol[lib.symbols[n]] # NoRule
  BY DEF LibraryOK, WellBuilt
<1> QED
  BY <1>1, <1>2, <1>3 DEF Resolve

LEMMA WrappedType ==
  ASSUME WindowTypeOK, LibraryOK,
         NEW r \in RuleIds, NEW i \in Index, NEW o \in Output
  PROVE  /\ Wrapped(r, i, o) \in Output
         /\ Wrapped(r, i, o).idx = o.idx
<1>1. CASE Wraps(r, o)
  <2>1. popped \in Nat /\ i \in Int /\ o.idx \in Int
    BY TextType DEF Output, Index
  <2>2. RangeBetween(popped, i, o.idx) \in Span
    BY <2>1, RangeBetweenType
  <2>3. lib.rules[r].name \in AnyName
    BY <1>1, RuleType DEF Wraps, AnyName
  <2> QED
    BY <1>1, <2>2, <2>3, UnderType DEF Wrapped
<1>2. CASE ~Wraps(r, o)
  BY <1>2 DEF Wrapped
<1> QED
  BY <1>1, <1>2

LEMMA RecordFields ==
  ASSUME NEW state \in States, NEW o \in Output
  PROVE  [state |-> state, out |-> o] \in HistoryRecord
BY DEF HistoryRecord

LEMMA RememberType ==
  ASSUME HistoryOK, NEW record \in RuleIds \X Index,
         NEW state \in States, NEW o \in Output,
         Remember(record, state, o)
  PROVE  HistoryOK'
<1>1. [state |-> state, out |-> o] \in HistoryRecord
  BY RecordFields
<1>2. DOMAIN history' = DOMAIN history \cup {record}
  BY DEF Remember
<1>3. \A k \in DOMAIN history' : history'[k] \in HistoryRecord
  BY <1>1 DEF Remember, HistoryOK
<1> QED
  BY <1>2, <1>3 DEF HistoryOK

LEMMA TopType ==
  ASSUME LibraryOK, StackOK, stack # <<>>
  PROVE  /\ Len(stack) \in Nat \ {0}
         /\ Len(stack) \in 1 .. Len(stack)
         /\ Top \in Frame
         /\ FrameOK(Top)
         /\ Top.rule \in RuleIds /\ Top.at \in Index /\ Top.key \in Index
         /\ Top.turn \in Nat /\ Top.turn >= 1 /\ Top.acc \in Output
         /\ TopRule \in Rule
<1>1. Len(stack) \in Nat \ {0}
  BY EmptySeq DEF StackOK
<1>2. Len(stack) \in 1 .. Len(stack)
  BY <1>1
<1>3. Top \in Frame /\ FrameOK(Top)
  BY <1>2, ElementOfSeq DEF StackOK, Top
<1>4. Top.rule \in RuleIds /\ Top.at \in Index /\ Top.key \in Index
      /\ Top.turn \in Nat /\ Top.acc \in Output
  BY <1>3 DEF Frame
<1>5. TopRule \in Rule
  BY <1>4, RuleType DEF TopRule
<1> QED
  BY <1>1, <1>2, <1>3, <1>4, <1>5 DEF FrameOK

(* The next child of a collection that is not at its last.                 *)
LEMMA NextKidType ==
  ASSUME LibraryOK, StackOK, stack # <<>>, TopRule.kind \in Collections, ~Last
  PROVE  /\ Kid(Top.turn + 1) \in RuleIds
         /\ Top.turn + 1 \in Nat
         /\ Top.turn + 1 <= Len(TopRule.kids)
<1>1. /\ TopRule.kids \in Seq(RuleIds)
      /\ Len(TopRule.kids) \in Nat
      /\ Top.turn \in Nat /\ Top.turn >= 1
      /\ Top.turn <= Len(TopRule.kids)
  BY TopType, RuleType DEF TopRule, FrameOK
<1>2. Top.turn + 1 \in 1 .. Len(TopRule.kids)
  BY <1>1 DEF Last
<1> QED
  BY <1>1, <1>2, ElementOfSeq DEF Kid

-----------------------------------------------------------------------------
(* Type correctness.                                                       *)

LEMMA WindowKept ==
  ASSUME WindowTypeOK, UNCHANGED <<text, popped>>,
         fetched' \in fetched .. Len(text)
  PROVE  WindowTypeOK'
BY TextType DEF WindowTypeOK

LEMMA LibraryKept ==
  ASSUME LibraryOK, UNCHANGED lib
  PROVE  LibraryOK'
BY DEF LibraryOK

LEMMA StackKept ==
  ASSUME StackOK, UNCHANGED <<lib, stack>>
  PROVE  StackOK'
BY DEF StackOK, FrameOK

LEMMA AnswerType ==
  ASSUME TypeOK, pc = "visit", NEW o \in Output, Answer(o),
         fetched' \in fetched .. Len(text)
  PROVE  TypeOK'
<1> USE DEF TypeOK
<1>1. rule \in RuleIds /\ at \in Index
  BY DEF ControlOK
<1>2. Record \in RuleIds \X Index
  BY <1>1, KeyOfType DEF Record
<1>3. HistoryOK'
  BY <1>2, RememberType DEF Answer, States
<1>4. WindowTypeOK' /\ LibraryOK' /\ StackOK'
  BY WindowKept, LibraryKept, StackKept DEF Answer, LibraryUnchanged
<1>5. ControlOK'
  BY DEF Answer, Return, LibraryUnchanged, ControlOK
<1>6. ResultOK'
  BY <1>1, WrappedType DEF Answer, Return, LibraryUnchanged, ResultOK
<1> QED
  BY <1>3, <1>4, <1>5, <1>6

(* Returning from a call removes the last frame and no other.              *)
LEMMA WithoutLast ==
  ASSUME NEW S, NEW s \in Seq(S), s # <<>>
  PROVE  /\ Len(s) \in Nat \ {0}
         /\ SubSeq(s, 1, Len(s) - 1) \in Seq(S)
         /\ Len(SubSeq(s, 1, Len(s) - 1)) = Len(s) - 1
         /\ \A n \in 1 .. (Len(s) - 1) : SubSeq(s, 1, Len(s) - 1)[n] = s[n]
<1>1. Len(s) \in Nat \ {0} /\ Len(s) \in Nat /\ Len(s) >= 1
  BY EmptySeq
<1>2. \A n \in 1 .. (Len(s) - 1) : s[n] \in S
  BY <1>1, ElementOfSeq
<1>3. 1 \in Int /\ Len(s) - 1 \in Int
  BY <1>1
<1> DEFINE t == SubSeq(s, 1, Len(s) - 1)
<1>4. /\ t \in Seq(S)
      /\ Len(t) = IF 1 <= Len(s) - 1 THEN Len(s) - 1 - 1 + 1 ELSE 0
      /\ \A n \in 1 .. (Len(s) - 1 - 1 + 1) : t[n] = s[1 + n - 1]
  BY <1>2, <1>3, SubSeqProperties
<1> HIDE DEF t
<1>5. Len(t) = Len(s) - 1
  <2>1. CASE Len(s) = 1
    BY <1>4, <2>1
  <2>2. CASE 1 <= Len(s) - 1
    BY <1>1, <1>4, <2>2
  <2>3. \A n \in Nat : n >= 1 => n = 1 \/ 1 <= n - 1
    OBVIOUS
  <2>4. Len(s) = 1 \/ 1 <= Len(s) - 1
    BY <1>1, <2>3
  <2> QED
    BY <2>1, <2>2, <2>4
<1>6. ASSUME NEW n \in 1 .. (Len(s) - 1)
      PROVE  t[n] = s[n]
  <2>1. n \in 1 .. (Len(s) - 1 - 1 + 1) /\ 1 + n - 1 = n
    BY <1>1
  <2> QED
    BY <1>4, <2>1
<1> QED
  BY <1>1, <1>4, <1>5, <1>6 DEF t

LEMMA CompleteType ==
  ASSUME TypeOK, pc = "return", stack # <<>>, NEW o \in Output, Complete(o)
  PROVE  TypeOK'
<1> USE DEF TypeOK
<1>1. /\ Top.rule \in RuleIds /\ Top.at \in Index /\ Top.key \in Index
      /\ Len(stack) \in Nat \ {0}
  BY TopType
<1>2. HistoryOK'
  <2>1. <<Top.rule, Top.key>> \in RuleIds \X Index
    BY <1>1
  <2> QED
    BY <2>1, RememberType DEF Complete, States
<1>3. WindowTypeOK'
  <2>1. o.idx \in Int
    BY DEF Output, Index
  <2>2. ReachBetween(Top.at, o.idx) \in fetched .. Len(text)
    BY <1>1, <2>1, ReachBounds
  <2>3. fetched' \in fetched .. Len(text)
    BY <2>2, TextType DEF Complete
  <2> QED
    BY <2>3, WindowKept DEF Complete
<1>4. LibraryOK'
  BY LibraryKept DEF Complete, LibraryUnchanged
<1>5. StackOK'
  <2>1. \A n \in 1 .. (Len(stack) - 1) : stack[n] \in Frame /\ FrameOK(stack[n])
    BY <1>1, ElementOfSeq DEF StackOK
  <2>2. /\ stack' \in Seq(Frame)
        /\ Len(stack') = Len(stack) - 1
        /\ \A n \in 1 .. (Len(stack) - 1) : stack'[n] = stack[n]
    BY <1>1, WithoutLast DEF Complete, StackOK
  <2>3. ASSUME NEW n \in 1 .. (Len(stack) - 1)
        PROVE  FrameOK(stack[n])'
    BY <2>1, <2>2 DEF FrameOK, Complete, LibraryUnchanged
  <2> QED
    BY <1>1, <2>2, <2>3 DEF StackOK
<1>6. ControlOK'
  BY DEF Complete, Return, LibraryUnchanged, ControlOK
<1>7. ResultOK'
  BY <1>1, WrappedType DEF Complete, Return, LibraryUnchanged, ResultOK
<1> QED
  BY <1>2, <1>3, <1>4, <1>5, <1>6, <1>7

LEMMA FrameFields ==
  ASSUME NEW f \in Frame, NEW turn, NEW o
  PROVE  [[f EXCEPT !.turn = turn] EXCEPT !.acc = o]
           = [rule |-> f.rule, at |-> f.at, key |-> f.key,
              turn |-> turn, acc |-> o]
<1>1. f = [rule |-> f.rule, at |-> f.at, key |-> f.key,
           turn |-> f.turn, acc |-> f.acc]
  BY DEF Frame
<1> DEFINE g == [f EXCEPT !.turn = turn]
<1>2. g = [rule |-> f.rule, at |-> f.at, key |-> f.key,
           turn |-> turn, acc |-> f.acc]
  BY <1>1
<1> HIDE DEF g
<1>3. [g EXCEPT !.acc = o]
        = [rule |-> f.rule, at |-> f.at, key |-> f.key,
           turn |-> turn, acc |-> o]
  BY <1>2
<1> QED
  BY <1>3 DEF g

(* The stack after Again, frame by frame.                                  *)
LEMMA AgainStack ==
  ASSUME LibraryOK, StackOK, stack # <<>>, NEW turn, NEW o,
         stack' = [stack EXCEPT ![Len(stack)].turn = turn,
                                ![Len(stack)].acc = o]
  PROVE  /\ turn \in Nat /\ o \in Output => stack' \in Seq(Frame)
         /\ Len(stack') = Len(stack)
         /\ \A n \in 1 .. Len(stack) :
              /\ RecordOf(stack'[n]) = RecordOf(stack[n])
              /\ stack'[n].rule = stack[n].rule
              /\ stack'[n].at = stack[n].at
              /\ n # Len(stack) => stack'[n] = stack[n]
         /\ stack'[Len(stack)].turn = turn
         /\ stack'[Len(stack)].acc = o
<1> DEFINE top == [rule |-> Top.rule, at |-> Top.at, key |-> Top.key,
                   turn |-> turn, acc |-> o]
<1>1. Len(stack) \in 1 .. Len(stack) /\ Top \in Frame
  BY TopType
<1>2. turn \in Nat /\ o \in Output => top \in Frame
  BY <1>1 DEF Frame
<1>3. [[Top EXCEPT !.turn = turn] EXCEPT !.acc = o] = top
  BY <1>1, FrameFields
<1>4. stack' = [stack EXCEPT ![Len(stack)] = top]
  <2>1. stack \in [1 .. Len(stack) -> Frame]
    BY LenProperties DEF StackOK
  <2>2. DOMAIN stack' = 1 .. Len(stack)
    BY <2>1
  <2>3. stack'[Len(stack)] = top
    BY <1>1, <1>3, <2>1 DEF Top
  <2>4. \A n \in 1 .. Len(stack) : n # Len(stack) => stack'[n] = stack[n]
    BY <2>1
  <2>5. stack' = [n \in 1 .. Len(stack) |-> stack'[n]]
    BY <2>1
  <2> QED
    BY <2>1, <2>2, <2>3, <2>4, <2>5
<1>5. /\ stack' \in Seq(Frame \cup {top})
      /\ Len(stack') = Len(stack)
      /\ \A n \in 1 .. Len(stack) :
           stack'[n] = IF n = Len(stack) THEN top ELSE stack[n]
  <2>1. stack \in Seq(Frame \cup {top}) /\ top \in Frame \cup {top}
    BY DEF StackOK
  <2> HIDE DEF top
  <2> QED
    BY <1>1, <1>4, <2>1, ExceptSeq
<1>6. turn \in Nat /\ o \in Output => stack' \in Seq(Frame)
  <2>1. top \in Frame => Frame \cup {top} = Frame
    OBVIOUS
  <2> HIDE DEF top
  <2> QED
    BY <1>2, <1>5, <2>1
<1> QED
  BY <1>1, <1>5, <1>6 DEF Top, RecordOf

LEMMA AgainType ==
  ASSUME TypeOK, pc = "return", stack # <<>>,
         NEW kid \in RuleIds, NEW turn \in Nat, turn >= 1,
         TopRule.kind \in Collections => turn <= Len(TopRule.kids),
         NEW o \in Output, NEW i \in Index,
         Again(kid, turn, o, i)
  PROVE  TypeOK'
<1> USE DEF TypeOK
<1>1. WindowTypeOK'
  BY WindowKept, TextType DEF Again
<1>2. LibraryOK' /\ UNCHANGED lib
  BY LibraryKept DEF Again, LibraryUnchanged
<1>3. HistoryOK'
  BY DEF Again, HistoryOK
<1>4. StackOK'
  <2>1. /\ stack' \in Seq(Frame)
        /\ Len(stack') = Len(stack)
        /\ \A n \in 1 .. Len(stack) : stack'[n].rule = stack[n].rule
        /\ \A n \in 1 .. Len(stack) : n # Len(stack) => stack'[n] = stack[n]
        /\ stack'[Len(stack)].turn = turn
    BY AgainStack DEF Again
  <2>2. Len(stack) \in 1 .. Len(stack) /\ FrameOK(Top)
    BY TopType
  <2>3. ASSUME NEW n \in 1 .. Len(stack)
        PROVE  FrameOK(stack[n])'
    <3>1. CASE n = Len(stack)
      BY <1>2, <2>1, <2>2, <3>1 DEF FrameOK, Top, TopRule
    <3>2. CASE n # Len(stack)
      BY <1>2, <2>1, <3>2 DEF StackOK, FrameOK
    <3> QED
      BY <3>1, <3>2
  <2> QED
    BY <2>1, <2>3 DEF StackOK
<1>5. ControlOK'
  BY DEF Again, Visit, LibraryUnchanged, ControlOK
<1>6. ResultOK'
  BY DEF Again, LibraryUnchanged, ResultOK
<1> QED
  BY <1>1, <1>2, <1>3, <1>4, <1>5, <1>6

(* A value that matches is not empty and lies within the text.             *)
LEMMA MatchesBounds ==
  ASSUME WindowTypeOK, NEW value \in Seq(Nat), NEW i \in Index,
         Matches(value, i)
  PROVE  /\ i \in Nat
         /\ Len(value) \in Nat
         /\ popped + i + Len(value) <= Len(text)
<1>1. Len(value) \in Nat /\ Len(value) >= 1
  BY EmptySeq DEF Matches
<1>2. 1 \in 1 .. Len(value) /\ Len(value) \in 1 .. Len(value)
  BY <1>1
<1>3. Present(i + 1 - 1) /\ Present(i + Len(value) - 1)
  BY <1>2 DEF Matches
<1> QED
  BY <1>1, <1>3, TextType DEF Present, Index

(* What a visit starts from.                                               *)
LEMMA VisitType ==
  ASSUME TypeOK, pc = "visit"
  PROVE  /\ rule \in RuleIds /\ at \in Index
         /\ Record \in RuleIds \X Index
         /\ Reach(at) \in fetched .. Len(text)
         /\ \A j \in Int : ReachBetween(at, j) \in fetched .. Len(text)
         /\ Present(at) => at + 1 \in Index
<1>1. rule \in RuleIds /\ at \in Index /\ WindowTypeOK
  BY DEF TypeOK, ControlOK
<1>2. Record \in RuleIds \X Index
  BY <1>1, KeyOfType DEF Record
<1>3. Present(at) => at + 1 \in Index
  BY <1>1 DEF Present, Index
<1>4. ASSUME NEW j \in Int
      PROVE  ReachBetween(at, j) \in fetched .. Len(text)
  BY <1>1, ReachBounds
<1>5. Reach(at) \in fetched .. Len(text)
  <2>1. 0 \in Int
    OBVIOUS
  <2> QED
    BY <1>1, <2>1, ReachBounds
<1> QED
  BY <1>1, <1>2, <1>3, <1>4, <1>5

LEMMA CacheStepType ==
  ASSUME TypeOK, CacheStep
  PROVE  TypeOK'
<1>1. CASE VisitCompleted
  <2> DEFINE o == history[Record].out
  <2>1. pc = "visit" /\ o \in Output
    BY <1>1 DEF VisitCompleted, Remembered, TypeOK, HistoryOK, HistoryRecord
  <2>2. o.idx \in Int
    BY <2>1 DEF Output, Index
  <2>3. fetched' \in fetched .. Len(text)
    BY <1>1, <2>1, <2>2, VisitType DEF VisitCompleted
  <2>4. WindowTypeOK' /\ LibraryOK' /\ StackOK'
    BY <1>1, <2>3, WindowKept, LibraryKept, StackKept
    DEF VisitCompleted, LibraryUnchanged, TypeOK
  <2>5. HistoryOK'
    BY <1>1 DEF VisitCompleted, TypeOK, HistoryOK
  <2>6. ControlOK'
    BY <1>1 DEF VisitCompleted, Return, LibraryUnchanged, TypeOK, ControlOK
  <2>7. ResultOK'
    BY <1>1, <2>1, VisitType, WrappedType
    DEF VisitCompleted, Return, LibraryUnchanged, TypeOK, ResultOK
  <2> QED
    BY <2>4, <2>5, <2>6, <2>7 DEF TypeOK
<1>2. CASE VisitCycle
  <2>1. pc = "visit"
    BY <1>2 DEF VisitCycle
  <2>2. HistoryOK'
    BY <1>2, <2>1, VisitType, ReachedAtType, RememberType
    DEF VisitCycle, States, Index, TypeOK
  <2>3. WindowTypeOK' /\ LibraryOK' /\ StackOK'
    BY <1>2, <2>1, VisitType, WindowKept, LibraryKept, StackKept
    DEF VisitCycle, LibraryUnchanged, TypeOK
  <2>4. ControlOK'
    BY <1>2 DEF VisitCycle, Return, LibraryUnchanged, TypeOK, ControlOK
  <2>5. ResultOK'
    BY <1>2, <2>1, VisitType, WrappedType, ReachedAtType
    DEF VisitCycle, Return, LibraryUnchanged, TypeOK, ResultOK, Index
  <2> QED
    BY <2>2, <2>3, <2>4, <2>5 DEF TypeOK
<1>3. CASE Descend
  <2> DEFINE R     == lib.rules[rule]
             child == IF R.kind = "Alias" THEN Resolve(lib, R.name) ELSE R.kids[1]
             frame == [rule |-> rule, at |-> at, key |-> KeyOf(at),
                       turn |-> 1, acc |-> FAILURE]
  <2>1. /\ pc = "visit" /\ WindowTypeOK /\ LibraryOK /\ StackOK
        /\ R.kind \in {"Alias"} \cup Unary \cup Collections
        /\ child # NoRule
    BY <1>3 DEF Descend, Fresh, TypeOK
  <2>2. /\ rule \in RuleIds /\ at \in Index /\ KeyOf(at) \in Index
        /\ FAILURE \in Output
    BY <2>1, VisitType, KeyOfType, ReachedAtType
  <2>3. child \in RuleIds
    <3>1. CASE R.kind = "Alias"
      BY <2>1, <2>2, <3>1, RuleType, ResolveType
    <3>2. CASE R.kind # "Alias"
      <4>1. R.kids \in Seq(RuleIds) /\ 1 \in 1 .. Len(R.kids)
        BY <2>1, <2>2, <3>2, RuleType
      <4> QED
        BY <3>2, <4>1, ElementOfSeq
    <3> QED
      BY <3>1, <3>2
  <2>4. HistoryOK'
    BY <1>3, <2>1, <2>2, VisitType, RememberType DEF Descend, States, TypeOK
  <2>5. WindowTypeOK' /\ LibraryOK' /\ UNCHANGED lib
    BY <1>3, <2>1, VisitType, WindowKept, LibraryKept
    DEF Descend, LibraryUnchanged
  <2>6. StackOK'
    <3>1. frame \in Frame
      BY <2>2 DEF Frame
    <3>2. FrameOK(frame)
      BY <2>1, <2>2, RuleType DEF FrameOK
    <3>3. stack \in Seq(Frame) /\ Len(stack) \in Nat
      BY <2>1, LenProperties DEF StackOK
    <3>4. /\ stack' \in Seq(Frame) /\ Len(stack') = Len(stack) + 1
          /\ \A n \in 1 .. Len(stack) : stack'[n] = stack[n]
          /\ stack'[Len(stack) + 1] = frame
      BY <1>3, <3>1, <3>3 DEF Descend
    <3>5. ASSUME NEW n \in 1 .. Len(stack')
          PROVE  FrameOK(stack[n])'
      <4>1. CASE n \in 1 .. Len(stack)
        BY <2>1, <2>5, <3>4, <4>1 DEF StackOK, FrameOK
      <4>2. CASE n = Len(stack) + 1
        BY <2>5, <3>2, <3>4, <4>2 DEF FrameOK
      <4> QED
        BY <3>3, <3>4, <4>1, <4>2
    <3> QED
      BY <3>4, <3>5 DEF StackOK
  <2>7. ControlOK'
    <3>1. rule' = child /\ at' = at /\ pc' = "visit" /\ UNCHANGED tried
      BY <1>3 DEF Descend, Visit, LibraryUnchanged
    <3>2. tried \in 0 .. Len(lib.symbols) /\ tried < Len(lib.symbols)
      BY <2>1 DEF TypeOK, ControlOK
    <3> HIDE DEF child
    <3> QED
      BY <2>2, <2>3, <2>5, <3>1, <3>2 DEF ControlOK
  <2>8. ResultOK'
    BY <1>3 DEF Descend, LibraryUnchanged, TypeOK, ResultOK
  <2> QED
    BY <2>4, <2>5, <2>6, <2>7, <2>8 DEF TypeOK
<1>4. CASE MissingAlias
  <2>1. FAILURE \in Output
    BY ReachedAtType DEF Index
  <2> QED
    BY <1>4, <2>1, VisitType, AnswerType DEF MissingAlias, Fresh
<1> QED
  BY <1>1, <1>2, <1>3, <1>4 DEF CacheStep

LEMMA TerminalStepType ==
  ASSUME TypeOK, TerminalStep
  PROVE  TypeOK'
<1>1. FAILURE \in Output
  BY ReachedAtType DEF Index
<1>2. pc = "visit"
  BY DEF TerminalStep, AcceptAny, AcceptEnd, AcceptCharRange, AcceptValues, Fresh
<1>3. /\ ReachedAt(at) \in Output
      /\ Present(at) => ReachedAt(at + 1) \in Output
  BY <1>2, VisitType, ReachedAtType
<1>4. CASE AcceptAny
  BY <1>1, <1>2, <1>3, <1>4, VisitType, AnswerType DEF AcceptAny
<1>5. CASE AcceptEnd
  BY <1>1, <1>2, <1>3, <1>5, VisitType, AnswerType DEF AcceptEnd
<1>6. CASE AcceptCharRange
  BY <1>1, <1>2, <1>3, <1>6, VisitType, AnswerType DEF AcceptCharRange
<1>7. CASE AcceptValues
  <2> DEFINE values == lib.rules[rule].values
  <2>1. values \in Seq(Seq(Nat)) /\ Len(values) \in Nat
    BY <1>2, VisitType, RuleType, LenProperties DEF TypeOK, Rule
  <2>2. \A m \in 1 .. Len(values) : Len(values[m]) \in Nat
    BY <2>1, ElementOfSeq, LenProperties
  <2>3. ASSUME NEW n \in 0 .. Len(values), TriedFirst(values, n)
        PROVE  fetched' \in fetched .. Len(text)
    <3>1. ASSUME NEW m \in 1 .. n
          PROVE  at + Len(values[m]) \in Int
      <4>1. at \in Index
        BY <1>2, VisitType
      <4> HIDE DEF values
      <4>2. m \in 1 .. Len(values)
        BY <2>1
      <4>3. Len(values[m]) \in Int
        BY <2>2, <4>2
      <4> QED
        BY <4>1, <4>3 DEF Index
    <3> QED
      BY <1>2, <2>3, <3>1, VisitType DEF TriedFirst
  <2>4. CASE \E n \in 1 .. Len(values) :
               /\ Matches(values[n], at)
               /\ Answer(ReachedAt(at + Len(values[n])))
               /\ TriedFirst(values, n)
    <3>1. PICK n \in 1 .. Len(values) :
            /\ Matches(values[n], at)
            /\ Answer(ReachedAt(at + Len(values[n])))
            /\ TriedFirst(values, n)
      BY <2>4
    <3>2. at \in Nat
      <4>1. values[n] \in Seq(Nat)
        BY <2>1, <3>1, ElementOfSeq
      <4>2. WindowTypeOK /\ at \in Index
        BY <1>2, VisitType DEF TypeOK
      <4> HIDE DEF values
      <4> QED
        BY <3>1, <4>1, <4>2, MatchesBounds
    <3>3. ReachedAt(at + Len(values[n])) \in Output
      BY <2>2, <3>2, ReachedAtType DEF Index
    <3> QED
      BY <1>2, <2>1, <2>3, <3>1, <3>3, AnswerType
  <2>5. CASE Answer(FAILURE) /\ TriedFirst(values, Len(values))
    BY <1>1, <1>2, <2>1, <2>3, <2>5, AnswerType
  <2> QED
    BY <1>7, <2>4, <2>5 DEF AcceptValues
<1> QED
  BY <1>4, <1>5, <1>6, <1>7 DEF TerminalStep

(* What a strategy is resumed with: the output of the child, what it held  *)
(* before, and what it makes of the two.                                   *)
LEMMA ResumedType ==
  ASSUME TypeOK, pc = "return", stack # <<>>
  PROVE  /\ LibraryOK /\ StackOK
         /\ out \in Output /\ FAILURE \in Output
         /\ Held \in Output /\ Joined \in Output
         /\ out.idx \in Index /\ Joined.idx \in Index
         /\ Top.at \in Index /\ Top.acc \in Output
         /\ Top.turn \in Nat /\ Top.turn >= 1
         /\ ReachedAt(Top.at) \in Output
         /\ Present(Top.at) => ReachedAt(Top.at + 1) \in Output
<1>1. LibraryOK /\ StackOK /\ out \in Output
  BY DEF TypeOK, ResultOK
<1>2. /\ Top.at \in Index /\ Top.acc \in Output
      /\ Top.turn \in Nat /\ Top.turn >= 1
  BY <1>1, TopType
<1>3. FAILURE \in Output /\ ReachedAt(Top.at) \in Output
  BY <1>2, ReachedAtType
<1>4. Present(Top.at) => ReachedAt(Top.at + 1) \in Output
  <2>1. Present(Top.at) => Top.at + 1 \in Index
    BY <1>2 DEF Present, Index
  <2> QED
    BY <2>1, ReachedAtType
<1>5. Held \in Output
  BY <1>1, <1>2 DEF Held
<1>6. Joined \in Output
  BY <1>1, <1>2, JoinType DEF Joined
<1>7. out.idx \in Index /\ Joined.idx \in Index
  BY <1>1, <1>6 DEF Output
<1> QED
  BY <1>1, <1>2, <1>3, <1>4, <1>5, <1>6, <1>7

(* The next child of a collection is one that it has.                      *)
LEMMA NextChildType ==
  ASSUME TypeOK, pc = "return", stack # <<>>, TopRule.kind \in Collections,
         ~Last, NEW o \in Output, NEW i \in Index,
         Again(Kid(Top.turn + 1), Top.turn + 1, o, i)
  PROVE  TypeOK'
<1>1. /\ Kid(Top.turn + 1) \in RuleIds
      /\ Top.turn + 1 \in Nat
      /\ Top.turn + 1 <= Len(TopRule.kids)
  BY NextKidType DEF TypeOK
<1>2. Top.turn + 1 >= 1
  BY ResumedType
<1> QED
  BY <1>1, <1>2, AgainType

(* The child of a repeat is visited again.                                 *)
LEMMA SameChildType ==
  ASSUME TypeOK, pc = "return", stack # <<>>, TopRule.kind = "Repeat",
         NEW turn \in {Top.turn, Top.turn + 1},
         Again(Kid(1), turn, Joined, Joined.idx)
  PROVE  TypeOK'
<1>1. LibraryOK /\ StackOK
  BY DEF TypeOK
<1>2. TopRule.kids \in Seq(RuleIds) /\ 1 \in 1 .. Len(TopRule.kids)
  BY <1>1, TopType, RuleType DEF TopRule, Unary
<1>3. Kid(1) \in RuleIds
  BY <1>2, ElementOfSeq DEF Kid
<1>4. turn \in Nat /\ turn >= 1
  BY ResumedType
<1>5. TopRule.kind \notin Collections
  BY DEF Collections
<1> QED
  BY <1>3, <1>4, <1>5, ResumedType, AgainType

LEMMA ResumeStepType ==
  ASSUME TypeOK, ResumeStep
  PROVE  TypeOK'
<1>1. pc = "return" /\ stack # <<>>
  BY DEF ResumeStep, ResumeAlias, ResumeOptional, ResumeNot, ResumeAnyBut,
         ResumeOr, ResumeAnd, ResumeXOr, ResumeSequence, ResumeRepeat, Resumed
<1>2. \A o \in Output : Complete(o) => TypeOK'
  BY <1>1, CompleteType
<1>3. CASE ResumeAlias
  BY <1>1, <1>2, <1>3, ResumedType DEF ResumeAlias
<1>4. CASE ResumeOptional
  BY <1>1, <1>2, <1>4, ResumedType DEF ResumeOptional
<1>5. CASE ResumeNot
  BY <1>1, <1>2, <1>5, ResumedType DEF ResumeNot
<1>6. CASE ResumeAnyBut
  BY <1>1, <1>2, <1>6, ResumedType DEF ResumeAnyBut
<1>7. CASE ResumeOr
  <2>1. TopRule.kind \in Collections
    BY <1>7 DEF ResumeOr, Resumed, Collections
  <2> QED
    BY <1>1, <1>2, <1>7, <2>1, ResumedType, NextChildType DEF ResumeOr
<1>8. CASE ResumeAnd
  <2>1. TopRule.kind \in Collections
    BY <1>8 DEF ResumeAnd, Resumed, Collections
  <2> QED
    BY <1>1, <1>2, <1>8, <2>1, ResumedType, NextChildType DEF ResumeAnd
<1>9. CASE ResumeXOr
  <2>1. TopRule.kind \in Collections
    BY <1>9 DEF ResumeXOr, Resumed, Collections
  <2> QED
    BY <1>1, <1>2, <1>9, <2>1, ResumedType, NextChildType DEF ResumeXOr
<1>10. CASE ResumeSequence
  <2>1. TopRule.kind \in Collections
    BY <1>10 DEF ResumeSequence, Resumed, Collections
  <2> QED
    BY <1>1, <1>2, <1>10, <2>1, ResumedType, NextChildType DEF ResumeSequence
<1>11. CASE ResumeRepeat
  <2>1. TopRule.kind = "Repeat"
    BY <1>11 DEF ResumeRepeat, Resumed
  <2>2. CASE RepeatNeeded
    BY <1>1, <1>2, <2>1, <2>2, ResumedType, SameChildType DEF RepeatNeeded
  <2>3. CASE RepeatMore
    BY <1>1, <1>2, <2>1, <2>3, ResumedType, SameChildType DEF RepeatMore
  <2> QED
    BY <1>11, <2>2, <2>3 DEF ResumeRepeat
<1> QED
  BY <1>3, <1>4, <1>5, <1>6, <1>7, <1>8, <1>9, <1>10, <1>11 DEF ResumeStep

LEMMA LibraryStepType ==
  ASSUME TypeOK, LibraryStep
  PROVE  TypeOK'
<1>1. CASE TrySymbol
  <2>1. LibraryOK /\ tried \in 0 .. Len(lib.symbols) /\ tried < Len(lib.symbols)
    BY <1>1 DEF TrySymbol, TypeOK, ControlOK
  <2>2. Len(lib.symbols) \in Nat
    BY <2>1, LenProperties DEF LibraryOK, Library
  <2>3. Resolve(lib, lib.symbols[tried + 1]) \in RuleIds
    BY <2>1, <2>2, SymbolType
  <2>4. WindowTypeOK' /\ LibraryOK' /\ StackOK'
    BY <1>1, WindowKept, LibraryKept, StackKept, TextType
    DEF TrySymbol, LibraryUnchanged, TypeOK
  <2>5. HistoryOK' /\ ResultOK'
    BY <1>1 DEF TrySymbol, LibraryUnchanged, TypeOK, HistoryOK, ResultOK
  <2>6. ControlOK'
    BY <1>1, <2>1, <2>3 DEF TrySymbol, Visit, LibraryUnchanged, ControlOK, Index
  <2> QED
    BY <2>4, <2>5, <2>6 DEF TypeOK
<1>2. CASE TakeResult
  <2>1. LibraryOK /\ tried \in 0 .. Len(lib.symbols) /\ tried < Len(lib.symbols)
    BY <1>2 DEF TakeResult, TypeOK, ControlOK
  <2>2. Len(lib.symbols) \in Nat
    BY <2>1, LenProperties DEF LibraryOK, Library
  <2>3. lib.symbols[tried + 1] \in AnyName
    BY <2>1, <2>2, SymbolType DEF AnyName
  <2>4. WindowTypeOK' /\ LibraryOK' /\ StackOK'
    BY <1>2, WindowKept, LibraryKept, StackKept, TextType
    DEF TakeResult, TypeOK
  <2>5. HistoryOK'
    BY <1>2 DEF TakeResult, TypeOK, HistoryOK
  <2>6. ControlOK'
    BY <1>2, <2>1, <2>2 DEF TakeResult, TypeOK, ControlOK
  <2>7. ResultOK'
    BY <1>2, <2>3 DEF TakeResult, TypeOK, ResultOK
  <2> QED
    BY <2>4, <2>5, <2>6, <2>7 DEF TypeOK
<1>3. CASE Found
  <2> DEFINE polled == ReachBetween(0, best.idx)
             left   == popped + Lesser(best.idx, polled - popped)
  <2>1. /\ WindowTypeOK /\ best \in Output /\ winner \in AnyName
        /\ best.idx \in Nat
    BY <1>3 DEF Found, TypeOK, ResultOK, Output, Succeeds, Index
  <2>2. polled \in fetched .. Len(text)
    <3>1. 0 \in Index /\ best.idx \in Int
      BY <2>1 DEF Index
    <3> QED
      BY <2>1, <3>1, ReachBounds
  <2> HIDE DEF polled
  <2>3. left \in popped .. polled
    BY <2>1, <2>2, TextType DEF Lesser
  <2> HIDE DEF left
  <2>4. polled \in 0 .. Len(text) /\ left \in Nat /\ 0 \in Int /\ best.idx \in Int
    BY <2>1, <2>2, <2>3, TextType
  <2>5. Supplied(polled, left, 0, best.idx) \in polled .. Len(text)
    BY <2>1, <2>4, SuppliedBounds
  <2>6. RangeBetween(left, 0, best.idx) \in Span
    BY <2>1, <2>4, RangeBetweenType
  <2>7. UNCHANGED <<text, lib, history, stack, rule, at, tried, best, winner>>
    BY <1>3 DEF Found, LibraryUnchanged
  <2>8. WindowTypeOK'
    <3>1. popped' = left /\ fetched' = Supplied(polled, left, 0, best.idx)
      BY <1>3 DEF Found, polled, left
    <3> QED
      BY <2>1, <2>2, <2>3, <2>5, <2>7, <3>1, TextType DEF WindowTypeOK
  <2>9. LibraryOK' /\ StackOK'
    BY <2>7, LibraryKept, StackKept DEF TypeOK
  <2>10. HistoryOK'
    BY <2>7 DEF TypeOK, HistoryOK
  <2>11. ControlOK'
    BY <1>3, <2>7 DEF Found, TypeOK, ControlOK
  <2>12. ResultOK'
    BY <1>3, <2>1, <2>6, <2>7, UnderType DEF Found, ResultOK, polled, left
  <2> QED
    BY <2>8, <2>9, <2>10, <2>11, <2>12 DEF TypeOK
<1>4. CASE NothingFound
  <2>1. WindowTypeOK' /\ LibraryOK' /\ StackOK'
    BY <1>4, WindowKept, LibraryKept, StackKept, TextType
    DEF NothingFound, LibraryUnchanged, TypeOK
  <2>2. HistoryOK' /\ ControlOK' /\ ResultOK'
    BY <1>4 DEF NothingFound, LibraryUnchanged, TypeOK, HistoryOK, ControlOK,
                ResultOK
  <2> QED
    BY <2>1, <2>2 DEF TypeOK
<1> QED
  BY <1>1, <1>2, <1>3, <1>4 DEF LibraryStep

LEMMA InitType ==
  ASSUME Init
  PROVE  TypeOK
<1>1. WindowTypeOK
  <2>1. text \in Seq(Nat)
    BY TextsAssumption DEF Init, WindowInit
  <2> QED
    BY <2>1, LenProperties DEF Init, WindowInit, WindowTypeOK
<1>2. LibraryOK
  BY LibrariesAssumption DEF Init, LibraryOK
<1>3. Len(lib.symbols) \in Nat
  BY <1>2, LenProperties DEF LibraryOK, Library
<1>4. FAILURE \in Output
  BY ReachedAtType DEF Index
<1>5. HistoryOK
  BY DEF Init, Begin, HistoryOK
<1>6. StackOK
  BY DEF Init, Begin, StackOK
<1>7. ControlOK
  BY <1>3 DEF Init, Begin, ControlOK, Index
<1>8. ResultOK
  BY <1>4 DEF Init, Begin, ResultOK, AnyName
<1> QED
  BY <1>1, <1>2, <1>5, <1>6, <1>7, <1>8 DEF TypeOK

LEMMA StutterType ==
  ASSUME TypeOK, UNCHANGED vars
  PROVE  TypeOK'
BY DEF vars, evalVars, TypeOK, WindowTypeOK, LibraryOK, HistoryOK, StackOK,
       FrameOK, ControlOK, ResultOK

LEMMA NextType ==
  ASSUME TypeOK, [Next]_vars
  PROVE  TypeOK'
BY CacheStepType, TerminalStepType, ResumeStepType, LibraryStepType, StutterType
   DEF Next, Step

(* Every variable of a call of begin stays within its type, whatever the   *)
(* library and the text: in particular an accept() that waits for a child  *)
(* waits for one that its rule has, and the symbol loop stays in bounds.   *)
THEOREM TypeCorrect == Spec => []TypeOK
<1>1. Init => TypeOK
  BY InitType
<1>2. TypeOK /\ [Next]_vars => TypeOK'
  BY NextType
<1> QED
  BY <1>1, <1>2, PTL DEF Spec

-----------------------------------------------------------------------------
(* The memo and the stack.                                                 *)

LEMMA Remembering ==
  ASSUME NEW record, NEW state, NEW o, Remember(record, state, o)
  PROVE  /\ DOMAIN history' = DOMAIN history \cup {record}
         /\ history'[record].state = state
         /\ \A k \in DOMAIN history : k # record => history'[k] = history[k]
BY DEF Remember

(* A frame that is resumed returns, or visits another child.               *)
LEMMA ResumeShape ==
  ASSUME ResumeStep
  PROVE  /\ stack # <<>>
         /\ \/ \E o : Complete(o)
            \/ \E kid, turn, o, i : Again(kid, turn, o, i)
<1>1. stack # <<>>
  BY DEF ResumeStep, ResumeAlias, ResumeOptional, ResumeNot, ResumeAnyBut,
         ResumeOr, ResumeAnd, ResumeXOr, ResumeSequence, ResumeRepeat, Resumed
<1>2. CASE ResumeAlias \/ ResumeOptional \/ ResumeNot \/ ResumeAnyBut
  BY <1>1, <1>2 DEF ResumeAlias, ResumeOptional, ResumeNot, ResumeAnyBut
<1>3. CASE ResumeOr \/ ResumeAnd
  BY <1>1, <1>3 DEF ResumeOr, ResumeAnd
<1>4. CASE ResumeXOr \/ ResumeSequence
  BY <1>1, <1>4 DEF ResumeXOr, ResumeSequence
<1>5. CASE ResumeRepeat
  BY <1>1, <1>5 DEF ResumeRepeat, RepeatNeeded, RepeatMore
<1> QED
  BY <1>2, <1>3, <1>4, <1>5 DEF ResumeStep

(* Everything a step can do to the memo and the stack together.            *)
Untouched == UNCHANGED <<history, stack>>

Answered == \E o : /\ ~Remembered(Record)
                   /\ Remember(Record, "Completed", o)
                   /\ UNCHANGED stack

Cycled == /\ Remembered(Record)
          /\ IsOpen(Record)
          /\ Remember(Record, "Cyclic", FAILURE)
          /\ UNCHANGED stack

Called == \E frame : /\ RecordOf(frame) = Record
                     /\ ~Remembered(Record)
                     /\ Remember(Record, "Processing", FAILURE)
                     /\ stack' = Append(stack, frame)

Completes == \E o : /\ stack # <<>>
                    /\ Remember(RecordOf(Top), "Completed", o)
                    /\ stack' = SubSeq(stack, 1, Len(stack) - 1)

Repeats == /\ UNCHANGED history
           /\ Len(stack') = Len(stack)
           /\ \A n \in 1 .. Len(stack) : RecordOf(stack'[n]) = RecordOf(stack[n])

LEMMA StepShape ==
  ASSUME TypeOK, [Next]_vars
  PROVE  Untouched \/ Answered \/ Cycled \/ Called \/ Completes \/ Repeats
<1>1. CASE VisitCompleted
  BY <1>1 DEF VisitCompleted, Untouched
<1>2. CASE VisitCycle
  BY <1>2 DEF VisitCycle, Cycled, IsOpen
<1>3. CASE Descend
  <2> DEFINE frame == [rule |-> rule, at |-> at, key |-> KeyOf(at),
                       turn |-> 1, acc |-> FAILURE]
  <2>1. RecordOf(frame) = Record
    BY DEF RecordOf, Record
  <2>2. /\ ~Remembered(Record)
        /\ Remember(Record, "Processing", FAILURE)
        /\ stack' = Append(stack, frame)
    BY <1>3 DEF Descend, Fresh
  <2> HIDE DEF frame
  <2> QED
    BY <2>1, <2>2 DEF Called
<1>4. CASE MissingAlias
  BY <1>4 DEF MissingAlias, Fresh, Answer, Answered
<1>5. CASE TerminalStep
  <2>1. ~Remembered(Record)
    BY <1>5 DEF TerminalStep, AcceptAny, AcceptEnd, AcceptCharRange,
                AcceptValues, Fresh
  <2>2. \E o : Answer(o)
    BY <1>5 DEF TerminalStep, AcceptAny, AcceptEnd, AcceptCharRange,
                AcceptValues
  <2> QED
    BY <2>1, <2>2 DEF Answer, Answered
<1>6. CASE ResumeStep
  <2>1. stack # <<>>
    BY <1>6, ResumeShape
  <2>2. CASE \E o : Complete(o)
    BY <2>1, <2>2 DEF Complete, Completes, RecordOf
  <2>3. CASE \E kid, turn, o, i : Again(kid, turn, o, i)
    BY <2>1, <2>3, AgainStack DEF Again, Repeats, TypeOK
  <2> QED
    BY <1>6, <2>2, <2>3, ResumeShape
<1>7. CASE LibraryStep
  BY <1>7 DEF LibraryStep, TrySymbol, TakeResult, Found, NothingFound, Untouched
<1>8. CASE UNCHANGED vars
  BY <1>8 DEF vars, evalVars, Untouched
<1> QED
  BY <1>1, <1>2, <1>3, <1>4, <1>5, <1>6, <1>7, <1>8 DEF Next, Step, CacheStep

LEMMA StackMatchesHistoryStep ==
  ASSUME TypeOK, StackMatchesHistory, [Next]_vars
  PROVE  StackMatchesHistory'
<1>1. stack \in Seq(Frame) /\ Len(stack) \in Nat
  BY LenProperties DEF TypeOK, StackOK
<1>2. CASE Untouched
  BY <1>2 DEF Untouched, StackMatchesHistory, IsOpen, RecordOf
<1>3. CASE Answered
  <2>1. PICK o : /\ ~Remembered(Record)
                 /\ Remember(Record, "Completed", o)
                 /\ UNCHANGED stack
    BY <1>3 DEF Answered
  <2>2. /\ DOMAIN history' = DOMAIN history \cup {Record}
        /\ history'[Record].state = "Completed"
        /\ \A k \in DOMAIN history : history'[k] = history[k]
    BY <2>1, Remembering DEF Remembered
  <2>3. \A n \in 1 .. Len(stack) : RecordOf(stack[n]) \in DOMAIN history'
                                  /\ IsOpen(RecordOf(stack[n]))'
    BY <2>1, <2>2 DEF StackMatchesHistory, IsOpen
  <2>4. \A k \in DOMAIN history' :
          IsOpen(k)' => k \in DOMAIN history /\ IsOpen(k)
    BY <2>2 DEF IsOpen
  <2> QED
    BY <2>1, <2>3, <2>4 DEF StackMatchesHistory, RecordOf
<1>4. CASE Cycled
  <2>1. /\ DOMAIN history' = DOMAIN history
        /\ IsOpen(Record)
        /\ history'[Record].state = "Cyclic"
        /\ \A k \in DOMAIN history : k # Record => history'[k] = history[k]
    BY <1>4, Remembering DEF Cycled, Remembered
  <2>2. \A k \in DOMAIN history : IsOpen(k)' <=> IsOpen(k)
    BY <2>1 DEF IsOpen
  <2> QED
    BY <1>4, <2>1, <2>2 DEF Cycled, StackMatchesHistory, RecordOf
<1>5. CASE Called
  <2>1. PICK frame : /\ RecordOf(frame) = Record
                     /\ ~Remembered(Record)
                     /\ Remember(Record, "Processing", FAILURE)
                     /\ stack' = Append(stack, frame)
    BY <1>5 DEF Called
  <2>2. /\ Len(stack') = Len(stack) + 1
        /\ \A n \in 1 .. Len(stack) : stack'[n] = stack[n]
        /\ stack'[Len(stack) + 1] = frame
    BY <1>1, <2>1
  <2>3. /\ DOMAIN history' = DOMAIN history \cup {Record}
        /\ history'[Record].state = "Processing"
        /\ \A k \in DOMAIN history : k # Record /\ history'[k] = history[k]
    BY <2>1, Remembering DEF Remembered
  <2>4. \A n \in 1 .. Len(stack') :
          /\ n \in 1 .. Len(stack) => RecordOf(stack'[n]) = RecordOf(stack[n])
          /\ n \notin 1 .. Len(stack) => /\ n = Len(stack) + 1
                                         /\ RecordOf(stack'[n]) = Record
    BY <1>1, <2>1, <2>2
  <2>5. \A n \in 1 .. Len(stack') : RecordOf(stack'[n]) \in DOMAIN history'
                                   /\ IsOpen(RecordOf(stack[n]))'
    BY <2>3, <2>4 DEF StackMatchesHistory, IsOpen
  <2>6. \A k \in DOMAIN history' :
          IsOpen(k)' => \E n \in 1 .. Len(stack') : RecordOf(stack'[n]) = k
    <3>1. Len(stack) + 1 \in 1 .. Len(stack')
          /\ \A n \in 1 .. Len(stack) : n \in 1 .. Len(stack')
      BY <1>1, <2>2
    <3> QED
      BY <2>1, <2>2, <2>3, <2>4, <3>1 DEF StackMatchesHistory, IsOpen
  <2>7. \A m, n \in 1 .. Len(stack') :
          RecordOf(stack'[m]) = RecordOf(stack'[n]) => m = n
    BY <2>3, <2>4 DEF StackMatchesHistory
  <2> QED
    BY <2>5, <2>6, <2>7 DEF StackMatchesHistory, RecordOf
<1>6. CASE Completes
  <2>1. PICK o : /\ stack # <<>>
                 /\ Remember(RecordOf(Top), "Completed", o)
                 /\ stack' = SubSeq(stack, 1, Len(stack) - 1)
    BY <1>6 DEF Completes
  <2>2. /\ Len(stack) \in Nat \ {0}
        /\ Len(stack') = Len(stack) - 1
        /\ \A n \in 1 .. (Len(stack) - 1) : stack'[n] = stack[n]
    BY <1>1, <2>1, WithoutLast
  <2>3. /\ DOMAIN history' = DOMAIN history
        /\ history'[RecordOf(Top)].state = "Completed"
        /\ \A k \in DOMAIN history : k # RecordOf(Top) => history'[k] = history[k]
    <3>1. RecordOf(Top) \in DOMAIN history
      BY <2>2 DEF StackMatchesHistory, Top
    <3> QED
      BY <2>1, <3>1, Remembering
  <2>4. \A n \in 1 .. Len(stack) : n \in 1 .. Len(stack') \/ n = Len(stack)
    BY <2>2
  <2>5. \A n \in 1 .. Len(stack') : /\ n \in 1 .. Len(stack)
                                   /\ n # Len(stack)
                                   /\ stack'[n] = stack[n]
                                   /\ RecordOf(stack[n]) # RecordOf(Top)
    BY <2>2 DEF StackMatchesHistory, Top
  <2>6. \A n \in 1 .. Len(stack') : RecordOf(stack'[n]) \in DOMAIN history'
                                   /\ IsOpen(RecordOf(stack[n]))'
    BY <2>3, <2>5 DEF StackMatchesHistory, IsOpen
  <2>7. \A k \in DOMAIN history' :
          IsOpen(k)' => \E n \in 1 .. Len(stack') : RecordOf(stack'[n]) = k
    BY <2>3, <2>4, <2>5 DEF StackMatchesHistory, IsOpen, Top
  <2>8. \A m, n \in 1 .. Len(stack') :
          RecordOf(stack'[m]) = RecordOf(stack'[n]) => m = n
    BY <2>5 DEF StackMatchesHistory
  <2> QED
    BY <2>6, <2>7, <2>8 DEF StackMatchesHistory, RecordOf
<1>7. CASE Repeats
  BY <1>7 DEF Repeats, StackMatchesHistory, IsOpen, RecordOf
<1> QED
  BY <1>2, <1>3, <1>4, <1>5, <1>6, <1>7, StepShape

(* The open records are those of the calls on the stack, one each, for     *)
(* every grammar: the recursion guard of RuleHistory.h does its work.      *)
THEOREM OpenRecordsAreCalls == Spec => []StackMatchesHistory
<1>1. Init => TypeOK /\ StackMatchesHistory
  BY InitType DEF Init, Begin, StackMatchesHistory
<1>2. TypeOK /\ StackMatchesHistory /\ [Next]_vars
        => TypeOK' /\ StackMatchesHistory'
  BY NextType, StackMatchesHistoryStep
<1> QED
  BY <1>1, <1>2, PTL DEF Spec

LEMMA CompletedStays ==
  ASSUME TypeOK, StackMatchesHistory, [Next]_vars,
         NEW k \in DOMAIN history, history[k].state = "Completed"
  PROVE  k \in DOMAIN history' /\ history'[k] = history[k]
<1>1. CASE Untouched \/ Repeats
  BY <1>1 DEF Untouched, Repeats
<1>2. CASE Answered \/ Cycled \/ Called
  BY <1>2, Remembering DEF Answered, Cycled, Called, Remembered, IsOpen
<1>3. CASE Completes
  <2>1. RecordOf(Top) \in DOMAIN history /\ IsOpen(RecordOf(Top))
    BY <1>3, TopType DEF Completes, StackMatchesHistory, TypeOK, Top
  <2>2. k # RecordOf(Top)
    BY <2>1 DEF IsOpen
  <2> QED
    BY <1>3, <2>2, Remembering DEF Completes
<1> QED
  BY <1>1, <1>2, <1>3, StepShape

(* What the memo has answered once it answers until begin returns: a       *)
(* completed record is neither evaluated again nor overwritten.            *)
THEOREM MemoIsStable == Spec => CompletedStable
<1>1. TypeOK /\ StackMatchesHistory /\ [Next]_vars =>
        [\A k \in DOMAIN history :
           history[k].state = "Completed" =>
             k \in DOMAIN history' /\ history'[k] = history[k]]_vars
  BY CompletedStays
<1> QED
  BY <1>1, TypeCorrect, OpenRecordsAreCalls, PTL DEF Spec, CompletedStable

-----------------------------------------------------------------------------
(* The evaluator never reaches beyond what the supplier has been asked     *)
(* for.  What has to be shown of each action is that the index it hands on *)
(* is one it polled, one it was called with, or one a child handed to it.  *)

(* A step that only adds to what is fetched: the indices that are new are  *)
(* all that has to be looked at.                                           *)
LEMMA FetchedStep ==
  ASSUME TypeOK, TypeOK', WithinFetched, pc # "found",
         UNCHANGED <<text, popped>>, fetched <= fetched',
         popped + out'.idx <= fetched',
         popped + best'.idx <= fetched',
         popped + at' <= fetched',
         \A k \in DOMAIN history' :
           \/ k \in DOMAIN history /\ history'[k] = history[k]
           \/ popped + history'[k].out.idx <= fetched',
         \A n \in 1 .. Len(stack') :
           \/ n \in 1 .. Len(stack) /\ stack'[n] = stack[n]
           \/ /\ popped + stack'[n].acc.idx <= fetched'
              /\ popped + stack'[n].at <= fetched'
              /\ Present(stack'[n].at) => popped + stack'[n].at + 1 <= fetched'
  PROVE  WithinFetched'
<1>1. popped \in Int /\ fetched \in Int /\ fetched' \in Int
  <2>1. /\ text \in Texts /\ fetched \in 0 .. Len(text) /\ popped \in 0 .. fetched
        /\ fetched' \in 0 .. Len(text')
    BY DEF TypeOK, WindowTypeOK
  <2> QED
    BY <2>1
<1>2. InStore(out.idx)' /\ InStore(best.idx)' /\ InStore(at)'
  BY DEF InStore
<1>3. ASSUME NEW k \in DOMAIN history'
      PROVE  popped + history'[k].out.idx <= fetched'
  <2>1. CASE k \in DOMAIN history /\ history'[k] = history[k]
    <3>1. popped + history[k].out.idx <= fetched
      BY <2>1 DEF WithinFetched, InStore
    <3>2. history[k].out.idx \in Int
      BY <2>1 DEF TypeOK, HistoryOK, HistoryRecord, Output, Index
    <3> QED
      BY <1>1, <2>1, <3>1, <3>2
  <2>2. CASE popped + history'[k].out.idx <= fetched'
    BY <2>2
  <2> QED
    BY <2>1, <2>2
<1>4. ASSUME NEW n \in 1 .. Len(stack')
      PROVE  /\ popped + stack'[n].acc.idx <= fetched'
             /\ popped + stack'[n].at <= fetched'
             /\ Present(stack'[n].at) => popped + stack'[n].at + 1 <= fetched'
  <2>1. CASE n \in 1 .. Len(stack) /\ stack'[n] = stack[n]
    <3>1. /\ popped + stack[n].acc.idx <= fetched
          /\ popped + stack[n].at <= fetched
          /\ Present(stack[n].at) => popped + (stack[n].at + 1) <= fetched
      BY <2>1 DEF WithinFetched, WaitsInStore, InStore
    <3>2. stack[n] \in Frame
      BY <2>1, ElementOfSeq DEF TypeOK, StackOK
    <3>3. stack[n].acc.idx \in Int /\ stack[n].at \in Int
      BY <3>2 DEF Frame, Output, Index
    <3> QED
      BY <1>1, <2>1, <3>1, <3>3
  <2>2. CASE n \notin 1 .. Len(stack) \/ stack'[n] # stack[n]
    BY <2>2
  <2> QED
    BY <2>1, <2>2
<1>5. \A n \in 1 .. Len(stack') : WaitsInStore(stack[n])'
  <2>1. ASSUME NEW n \in 1 .. Len(stack')
        PROVE  stack'[n].at \in Int
    <3>1. stack'[n] \in Frame
      BY ElementOfSeq DEF TypeOK, StackOK
    <3> QED
      BY <3>1 DEF Frame, Index
  <2> QED
    BY <1>1, <1>4, <2>1 DEF WaitsInStore, InStore, Present
<1> QED
  BY <1>2, <1>3, <1>5 DEF WithinFetched, InStore

(* What is remembered is new, or what the record was.                      *)
LEMMA RememberedFetched ==
  ASSUME NEW record, NEW state, NEW o, Remember(record, state, o),
         popped + o.idx <= fetched'
  PROVE  \A k \in DOMAIN history' :
           \/ k \in DOMAIN history /\ history'[k] = history[k]
           \/ popped + history'[k].out.idx <= fetched'
BY DEF Remember

(* The indices of a state, as the invariant bounds them.                   *)
LEMMA FetchedNow ==
  ASSUME TypeOK, WithinFetched, pc # "found"
  PROVE  /\ popped \in Nat /\ fetched \in Nat /\ popped <= fetched
         /\ fetched <= Len(text) /\ Len(text) \in Nat
         /\ out.idx \in Index /\ best.idx \in Index /\ at \in Index
         /\ popped + out.idx <= fetched
         /\ popped + best.idx <= fetched
         /\ popped + at <= fetched
         /\ popped + FAILURE.idx <= fetched
<1>1. /\ popped \in Nat /\ fetched \in Nat /\ popped <= fetched
      /\ fetched <= Len(text) /\ Len(text) \in Nat
  BY TextType DEF TypeOK
<1>2. out.idx \in Index /\ best.idx \in Index /\ at \in Index
  BY DEF TypeOK, ResultOK, ControlOK, Output
<1>3. /\ popped + out.idx <= fetched
      /\ popped + best.idx <= fetched
      /\ popped + at <= fetched
  BY DEF WithinFetched, InStore
<1>4. FAILURE.idx = -1
  BY DEF FAILURE, ReachedAt
<1> QED
  BY <1>1, <1>2, <1>3, <1>4

LEMMA AnswerFetched ==
  ASSUME TypeOK, WithinFetched, pc = "visit", NEW o \in Output, Answer(o),
         fetched' \in fetched .. Len(text),
         popped + o.idx <= fetched'
  PROVE  WithinFetched'
<1>1. TypeOK' /\ pc # "found"
  BY AnswerType
<1>2. fetched <= fetched'
  BY <1>1, FetchedNow
<1>3. out'.idx = o.idx
  BY VisitType, WrappedType DEF Answer, Return, TypeOK
<1>4. popped + best'.idx <= fetched' /\ popped + at' <= fetched'
  <2>1. best' = best /\ at' = at
    BY DEF Answer, Return, LibraryUnchanged
  <2> QED
    BY <1>1, <2>1, FetchedNow DEF Index
<1>5. UNCHANGED <<text, popped, stack>>
  BY DEF Answer
<1>6. \A k \in DOMAIN history' :
        \/ k \in DOMAIN history /\ history'[k] = history[k]
        \/ popped + history'[k].out.idx <= fetched'
  BY RememberedFetched DEF Answer
<1> QED
  BY <1>1, <1>2, <1>3, <1>4, <1>5, <1>6, FetchedStep

LEMMA CompleteFetched ==
  ASSUME TypeOK, WithinFetched, pc = "return", stack # <<>>,
         NEW o \in Output, Complete(o), popped + o.idx <= fetched
  PROVE  WithinFetched'
<1>1. TypeOK' /\ pc # "found"
  BY CompleteType
<1>2. /\ Len(stack) \in Nat \ {0}
      /\ Top.rule \in RuleIds /\ Top.at \in Index /\ WaitsInStore(Top)
  <2>1. Len(stack) \in 1 .. Len(stack)
    BY TopType DEF TypeOK
  <2> QED
    BY <1>1, <2>1, TopType DEF TypeOK, WithinFetched, Top
<1>3. fetched <= fetched'
  <2>1. o.idx \in Int
    BY DEF Output, Index
  <2>2. ReachBetween(Top.at, o.idx) \in fetched .. Len(text)
    BY <1>2, <2>1, ReachBounds DEF TypeOK
  <2>3. fetched' = ReachBetween(Top.at, o.idx) \/ fetched' = fetched
    BY DEF Complete
  <2> QED
    BY <1>1, <2>2, <2>3, FetchedNow
<1>4. popped + o.idx <= fetched'
  <2>1. o.idx \in Int /\ fetched' \in Int
    BY <1>1, TextType DEF Output, Index, TypeOK, WindowTypeOK
  <2> QED
    BY <1>1, <1>3, <2>1, FetchedNow
<1>5. popped + out'.idx <= fetched'
  <2>1. out'.idx = o.idx
    BY <1>2, WrappedType DEF Complete, Return, TypeOK
  <2> QED
    BY <1>4, <2>1
<1>6. popped + best'.idx <= fetched' /\ popped + at' <= fetched'
  <2>1. best' = best /\ at' = at
    BY DEF Complete, Return, LibraryUnchanged
  <2>2. fetched' \in Int
    BY <1>1 DEF TypeOK, WindowTypeOK
  <2> QED
    BY <1>1, <1>3, <2>1, <2>2, FetchedNow DEF Index
<1>7. \A k \in DOMAIN history' :
        \/ k \in DOMAIN history /\ history'[k] = history[k]
        \/ popped + history'[k].out.idx <= fetched'
  BY <1>4, RememberedFetched DEF Complete
<1>8. \A n \in 1 .. Len(stack') : n \in 1 .. Len(stack) /\ stack'[n] = stack[n]
  BY <1>2, WithoutLast DEF Complete, TypeOK, StackOK
<1>9. UNCHANGED <<text, popped>>
  BY DEF Complete
<1> QED
  BY <1>1, <1>3, <1>5, <1>6, <1>7, <1>8, <1>9, FetchedStep

LEMMA AgainFetched ==
  ASSUME TypeOK, TypeOK', WithinFetched, pc = "return", stack # <<>>,
         NEW kid, NEW turn, NEW o \in Output, NEW i \in Index,
         Again(kid, turn, o, i),
         popped + o.idx <= fetched, popped + i <= fetched
  PROVE  WithinFetched'
<1>1. UNCHANGED <<text, popped, fetched, history, out, best>> /\ at' = i
  BY DEF Again, Visit, LibraryUnchanged
<1>2. popped + at' <= fetched' /\ popped + out'.idx <= fetched'
      /\ popped + best'.idx <= fetched' /\ fetched <= fetched'
  BY <1>1, FetchedNow
<1>3. /\ Len(stack') = Len(stack)
      /\ \A n \in 1 .. Len(stack) :
           /\ stack'[n].at = stack[n].at
           /\ n # Len(stack) => stack'[n] = stack[n]
      /\ stack'[Len(stack)].acc = o
  BY AgainStack DEF Again, TypeOK
<1>4. \A n \in 1 .. Len(stack) :
        /\ popped + stack[n].at <= fetched
        /\ Present(stack[n].at) => popped + (stack[n].at + 1) <= fetched
  BY DEF WithinFetched, WaitsInStore, InStore
<1>5. \A n \in 1 .. Len(stack') :
        \/ n \in 1 .. Len(stack) /\ stack'[n] = stack[n]
        \/ /\ popped + stack'[n].acc.idx <= fetched'
           /\ popped + stack'[n].at <= fetched'
           /\ Present(stack'[n].at) => popped + stack'[n].at + 1 <= fetched'
  <2>1. ASSUME NEW n \in 1 .. Len(stack')
        PROVE  /\ n \in 1 .. Len(stack)
               /\ popped + stack'[n].at <= fetched'
               /\ Present(stack'[n].at) => popped + stack'[n].at + 1 <= fetched'
    <3>1. stack[n].at \in Int /\ popped \in Int
      <4>1. stack[n] \in Frame
        BY <1>3, ElementOfSeq DEF TypeOK, StackOK
      <4> QED
        BY <4>1, FetchedNow DEF Frame, Index
    <3>2. stack'[n].at = stack[n].at /\ fetched' = fetched
      BY <1>1, <1>3
    <3>3. popped + stack[n].at + 1 = popped + (stack[n].at + 1)
      BY <3>1
    <3> QED
      BY <1>3, <1>4, <3>2, <3>3
  <2> QED
    BY <1>1, <1>3, <2>1
<1> QED
  BY <1>1, <1>2, <1>5, FetchedStep

(* Where a visit starts, and what polling there makes sure of.             *)
LEMMA VisitFetched ==
  ASSUME TypeOK, WithinFetched, pc = "visit"
  PROVE  /\ pc # "found"
         /\ at \in Index /\ popped \in Nat /\ fetched \in Nat
         /\ popped + at <= fetched
         /\ Reach(at) \in fetched .. Len(text)
         /\ popped + at <= Reach(at)
         /\ popped - 1 <= Reach(at)
         /\ Present(at) => popped + (at + 1) <= Reach(at)
<1>1. /\ at \in Index /\ popped \in Nat /\ fetched \in Nat
      /\ popped + at <= fetched /\ popped <= fetched
      /\ Len(text) \in Nat
  BY FetchedNow
<1>2. Reach(at) \in fetched .. Len(text)
  BY VisitType
<1>3. Present(at) => popped + at + 1 <= Reach(at)
  <2>1. 0 \in Int
    OBVIOUS
  <2> QED
    BY <1>1, <2>1, ReachBounds DEF TypeOK
<1> QED
  BY <1>1, <1>2, <1>3 DEF Index

LEMMA CacheStepFetched ==
  ASSUME TypeOK, WithinFetched, CacheStep
  PROVE  WithinFetched'
<1>1. TypeOK' /\ pc = "visit"
  BY CacheStepType
  DEF CacheStep, VisitCompleted, VisitCycle, Descend, MissingAlias, Fresh
<1>2. /\ Reach(at) \in Int /\ fetched <= Reach(at) /\ at \in Int
      /\ popped \in Int /\ fetched \in Int
      /\ rule \in RuleIds /\ at \in Index
  BY <1>1, VisitFetched, VisitType DEF Index
<1>3. CASE VisitCompleted
  <2> DEFINE o == history[Record].out
  <2>1. o \in Output /\ popped + o.idx <= fetched
    BY <1>1, <1>3 DEF VisitCompleted, Remembered, TypeOK, HistoryOK,
                      HistoryRecord, WithinFetched, InStore
  <2> HIDE DEF o
  <2>2. out' = Wrapped(rule, at, o) /\ UNCHANGED <<text, popped, history, stack,
                                                  best, at>>
    BY <1>3 DEF VisitCompleted, Return, LibraryUnchanged, o
  <2>3. fetched' \in fetched .. Len(text)
    <3>1. o.idx \in Int
      BY <2>1 DEF Output, Index
    <3>2. fetched' = ReachBetween(at, o.idx) \/ fetched' = Reach(at)
      BY <1>3 DEF VisitCompleted, o
    <3> QED
      BY <1>1, <3>1, <3>2, VisitType
  <2>4. out'.idx = o.idx
    BY <1>2, <2>1, <2>2, WrappedType DEF TypeOK
  <2>5. fetched <= fetched' /\ popped + out'.idx <= fetched'
    <3>1. o.idx \in Int /\ fetched' \in Int
      BY <1>1, <2>1 DEF Output, Index, TypeOK, WindowTypeOK
    <3> QED
      BY <1>2, <2>1, <2>3, <2>4, <3>1
  <2>6. popped + best'.idx <= fetched' /\ popped + at' <= fetched'
    <3>1. fetched' \in Int
      BY <1>1 DEF TypeOK, WindowTypeOK
    <3> QED
      BY <1>1, <1>2, <2>2, <2>5, <3>1, FetchedNow DEF Index
  <2> QED
    BY <1>1, <2>2, <2>5, <2>6, FetchedStep
<1>4. CASE VisitCycle
  <2>1. /\ out' = Wrapped(rule, at, FAILURE) /\ fetched' = Reach(at)
        /\ UNCHANGED <<text, popped, stack, best, at>>
        /\ Remember(Record, "Cyclic", FAILURE)
    BY <1>4 DEF VisitCycle, Return, LibraryUnchanged
  <2>2. /\ popped + FAILURE.idx <= fetched' /\ fetched <= fetched'
        /\ popped + best'.idx <= fetched' /\ popped + at' <= fetched'
    BY <1>1, <1>2, <2>1, FetchedNow, ReachedAtType DEF Index
  <2>3. out'.idx = FAILURE.idx
    BY <1>2, <2>1, WrappedType, ReachedAtType DEF TypeOK, Index
  <2> QED
    BY <1>1, <2>1, <2>2, <2>3, RememberedFetched, FetchedStep
<1>5. CASE Descend
  <2> DEFINE frame == [rule |-> rule, at |-> at, key |-> KeyOf(at),
                       turn |-> 1, acc |-> FAILURE]
  <2>1. /\ at' = at /\ fetched' = Reach(at)
        /\ UNCHANGED <<text, popped, best, out>>
        /\ Remember(Record, "Processing", FAILURE)
        /\ stack' = Append(stack, frame)
    BY <1>5 DEF Descend, Visit, LibraryUnchanged
  <2>2. /\ popped + FAILURE.idx <= fetched' /\ fetched <= fetched'
        /\ popped + best'.idx <= fetched' /\ popped + at' <= fetched'
        /\ popped + out'.idx <= fetched'
    BY <1>1, <1>2, <2>1, FetchedNow, ReachedAtType DEF Index
  <2>3. frame.acc = FAILURE /\ frame.at = at
    OBVIOUS
  <2>4. /\ popped + frame.acc.idx <= fetched'
        /\ popped + frame.at <= fetched'
        /\ Present(frame.at) => popped + frame.at + 1 <= fetched'
    <3>1. popped + at + 1 = popped + (at + 1)
      BY <1>2
    <3> QED
      BY <1>1, <2>1, <2>2, <2>3, <3>1, VisitFetched
  <2> HIDE DEF frame
  <2>5. \A n \in 1 .. Len(stack') :
          \/ n \in 1 .. Len(stack) /\ stack'[n] = stack[n]
          \/ stack'[n] = frame
    BY <2>1 DEF TypeOK, StackOK
  <2> QED
    BY <1>1, <2>1, <2>2, <2>4, <2>5, RememberedFetched, FetchedStep
<1>6. CASE MissingAlias
  <2>1. /\ Answer(FAILURE) /\ fetched' = Reach(at)
        /\ FAILURE \in Output /\ FAILURE.idx = -1
    BY <1>6, ReachedAtType DEF MissingAlias, Index
  <2>2. popped + FAILURE.idx <= fetched'
    BY <1>1, <2>1, VisitFetched
  <2> QED
    BY <1>1, <2>1, <2>2, VisitFetched, AnswerFetched
<1> QED
  BY <1>3, <1>4, <1>5, <1>6 DEF CacheStep

LEMMA TerminalStepFetched ==
  ASSUME TypeOK, WithinFetched, TerminalStep
  PROVE  WithinFetched'
<1>1. pc = "visit"
  BY DEF TerminalStep, AcceptAny, AcceptEnd, AcceptCharRange, AcceptValues, Fresh
<1>2. /\ FAILURE \in Output /\ popped + FAILURE.idx <= Reach(at)
      /\ ReachedAt(at) \in Output /\ popped + ReachedAt(at).idx <= Reach(at)
      /\ Reach(at) \in fetched .. Len(text)
  <2>1. FAILURE \in Output /\ FAILURE.idx = -1
        /\ ReachedAt(at) \in Output /\ ReachedAt(at).idx = at
    BY <1>1, VisitFetched, ReachedAtType
  <2> QED
    BY <1>1, <2>1, VisitFetched
<1>3. Present(at) => /\ ReachedAt(at + 1) \in Output
                     /\ popped + ReachedAt(at + 1).idx <= Reach(at)
  <2>1. Present(at) => at + 1 \in Index
    BY <1>1, VisitType
  <2>2. Present(at) => /\ ReachedAt(at + 1) \in Output
                       /\ ReachedAt(at + 1).idx = at + 1
    BY <2>1, ReachedAtType
  <2> QED
    BY <1>1, <2>2, VisitFetched
<1>4. CASE AcceptAny
  BY <1>1, <1>2, <1>3, <1>4, AnswerFetched DEF AcceptAny
<1>5. CASE AcceptEnd
  BY <1>1, <1>2, <1>3, <1>5, AnswerFetched DEF AcceptEnd
<1>6. CASE AcceptCharRange
  BY <1>1, <1>2, <1>3, <1>6, AnswerFetched DEF AcceptCharRange
<1>7. CASE AcceptValues
  <2> DEFINE values == lib.rules[rule].values
  <2>1. values \in Seq(Seq(Nat)) /\ Len(values) \in Nat
    BY <1>1, VisitType, RuleType, LenProperties DEF TypeOK, Rule
  <2>2. \A m \in 1 .. Len(values) : Len(values[m]) \in Nat
    BY <2>1, ElementOfSeq, LenProperties
  <2>3. ASSUME NEW n \in 0 .. Len(values), TriedFirst(values, n)
        PROVE  /\ fetched' \in fetched .. Len(text)
               /\ Reach(at) <= fetched'
               /\ \A m \in 1 .. n : ReachBetween(at, at + Len(values[m])) <= fetched'
    <3>1. ASSUME NEW m \in 1 .. n
          PROVE  ReachBetween(at, at + Len(values[m])) \in fetched .. Len(text)
      <4> HIDE DEF values
      <4>1. Len(values[m]) \in Int /\ at \in Int
        BY <1>1, <2>1, <2>2, VisitFetched DEF Index
      <4>2. at + Len(values[m]) \in Int
        BY <4>1
      <4> QED
        BY <1>1, <4>2, VisitType
    <3> QED
      BY <1>2, <2>3, <3>1 DEF TriedFirst
  <2>4. CASE \E n \in 1 .. Len(values) :
               /\ Matches(values[n], at)
               /\ Answer(ReachedAt(at + Len(values[n])))
               /\ TriedFirst(values, n)
    <3>1. PICK n \in 1 .. Len(values) :
            /\ Matches(values[n], at)
            /\ Answer(ReachedAt(at + Len(values[n])))
            /\ TriedFirst(values, n)
      BY <2>4
    <3> HIDE DEF values
    <3>2. /\ at \in Nat /\ Len(values[n]) \in Nat
          /\ popped + at + Len(values[n]) <= Len(text)
      <4>1. values[n] \in Seq(Nat)
        BY <2>1, ElementOfSeq
      <4>2. WindowTypeOK /\ at \in Index
        BY <1>1, VisitType DEF TypeOK
      <4> QED
        BY <3>1, <4>1, <4>2, MatchesBounds
    <3>3. at + Len(values[n]) \in Index /\ at + Len(values[n]) \in Int
      BY <3>2 DEF Index
    <3>4. /\ ReachedAt(at + Len(values[n])) \in Output
          /\ ReachedAt(at + Len(values[n])).idx = at + Len(values[n])
      BY <3>3, ReachedAtType
    <3>5. /\ fetched' \in fetched .. Len(text)
          /\ ReachBetween(at, at + Len(values[n])) <= fetched'
      <4>1. n \in 0 .. Len(values) /\ n \in 1 .. n
        OBVIOUS
      <4> QED
        BY <2>3, <3>1, <4>1
    <3>6. /\ popped + (at + Len(values[n])) <= ReachBetween(at, at + Len(values[n]))
          /\ ReachBetween(at, at + Len(values[n])) \in fetched .. Len(text)
      <4>1. popped + (at + Len(values[n])) <= Len(text) /\ at >= 0 /\ at \in Index
        BY <1>1, <3>2, VisitFetched
      <4> QED
        BY <3>3, <4>1, ReachBounds DEF TypeOK
    <3>7. popped + (at + Len(values[n])) <= fetched'
      BY <1>1, <3>2, <3>5, <3>6, VisitFetched
    <3> QED
      BY <1>1, <3>1, <3>4, <3>5, <3>7, AnswerFetched
  <2>5. CASE Answer(FAILURE) /\ TriedFirst(values, Len(values))
    <3>1. fetched' \in fetched .. Len(text) /\ Reach(at) <= fetched'
      <4>1. Len(values) \in 0 .. Len(values)
        BY <2>1
      <4> HIDE DEF values
      <4> QED
        BY <2>3, <2>5, <4>1
    <3>2. popped + FAILURE.idx <= fetched'
      <4>1. FAILURE.idx = -1
        BY DEF FAILURE, ReachedAt
      <4> QED
        BY <1>1, <3>1, <4>1, VisitFetched
    <3> QED
      BY <1>1, <1>2, <2>5, <3>1, <3>2, AnswerFetched
  <2> QED
    BY <1>7, <2>4, <2>5 DEF AcceptValues
<1> QED
  BY <1>4, <1>5, <1>6, <1>7 DEF TerminalStep

(* What a strategy is resumed with lies within the store.                  *)
LEMMA ResumedFetched ==
  ASSUME TypeOK, WithinFetched, pc = "return", stack # <<>>
  PROVE  /\ popped + out.idx <= fetched
         /\ popped + FAILURE.idx <= fetched
         /\ popped + Held.idx <= fetched
         /\ popped + Joined.idx <= fetched
         /\ popped + Top.acc.idx <= fetched
         /\ popped + Top.at <= fetched
         /\ popped + ReachedAt(Top.at).idx <= fetched
         /\ Present(Top.at) => popped + ReachedAt(Top.at + 1).idx <= fetched
<1>1. popped + out.idx <= fetched /\ popped + FAILURE.idx <= fetched
  BY FetchedNow
<1>2. WaitsInStore(Top)
  <2>1. Len(stack) \in 1 .. Len(stack)
    BY TopType DEF TypeOK
  <2> QED
    BY <2>1 DEF WithinFetched, Top
<1>3. Joined.idx = out.idx
  BY ResumedType, JoinType DEF Joined
<1> QED
  BY <1>1, <1>2, <1>3 DEF WaitsInStore, InStore, Held, ReachedAt

LEMMA ResumeStepFetched ==
  ASSUME TypeOK, WithinFetched, ResumeStep
  PROVE  WithinFetched'
<1>1. pc = "return" /\ stack # <<>> /\ TypeOK'
  BY ResumeStepType
  DEF ResumeStep, ResumeAlias, ResumeOptional, ResumeNot, ResumeAnyBut,
      ResumeOr, ResumeAnd, ResumeXOr, ResumeSequence, ResumeRepeat, Resumed
<1>2. \A o \in Output : Complete(o) /\ popped + o.idx <= fetched => WithinFetched'
  BY <1>1, CompleteFetched
<1>3. \A kid, turn : \A o \in Output, i \in Index :
        /\ Again(kid, turn, o, i)
        /\ popped + o.idx <= fetched
        /\ popped + i <= fetched
        => WithinFetched'
  BY <1>1, AgainFetched
<1>4. CASE ResumeAlias \/ ResumeOptional \/ ResumeNot \/ ResumeAnyBut
  BY <1>1, <1>2, <1>4, ResumedType, ResumedFetched
  DEF ResumeAlias, ResumeOptional, ResumeNot, ResumeAnyBut
<1>5. CASE ResumeOr
  BY <1>1, <1>2, <1>3, <1>5, ResumedType, ResumedFetched DEF ResumeOr
<1>6. CASE ResumeAnd
  BY <1>1, <1>2, <1>3, <1>6, ResumedType, ResumedFetched DEF ResumeAnd
<1>7. CASE ResumeXOr
  BY <1>1, <1>2, <1>3, <1>7, ResumedType, ResumedFetched DEF ResumeXOr
<1>8. CASE ResumeSequence
  BY <1>1, <1>2, <1>3, <1>8, ResumedType, ResumedFetched DEF ResumeSequence
<1>9. CASE ResumeRepeat
  <2>1. CASE RepeatNeeded
    BY <1>1, <1>2, <1>3, <2>1, ResumedType, ResumedFetched DEF RepeatNeeded
  <2>2. CASE RepeatMore
    BY <1>1, <1>2, <1>3, <2>2, ResumedType, ResumedFetched DEF RepeatMore
  <2> QED
    BY <1>9, <2>1, <2>2 DEF ResumeRepeat
<1> QED
  BY <1>4, <1>5, <1>6, <1>7, <1>8, <1>9 DEF ResumeStep

LEMMA LibraryStepFetched ==
  ASSUME TypeOK, WithinFetched, LibraryStep
  PROVE  WithinFetched'
<1>1. TypeOK'
  BY LibraryStepType
<1>2. CASE TrySymbol
  <2>1. /\ pc # "found" /\ at' = 0
        /\ UNCHANGED <<text, popped, fetched, history, stack, out, best>>
    BY <1>2 DEF TrySymbol, Visit, LibraryUnchanged
  <2>2. /\ popped + out'.idx <= fetched' /\ popped + best'.idx <= fetched'
        /\ popped + at' <= fetched' /\ fetched <= fetched'
    BY <2>1, FetchedNow
  <2> QED
    BY <1>1, <2>1, <2>2, FetchedStep
<1>3. CASE TakeResult
  <2>1. /\ pc # "found" /\ best' \in {best, out}
        /\ UNCHANGED <<text, popped, fetched, history, stack, out, at>>
    BY <1>3 DEF TakeResult
  <2>2. /\ popped + out'.idx <= fetched' /\ popped + best'.idx <= fetched'
        /\ popped + at' <= fetched' /\ fetched <= fetched'
    BY <2>1, FetchedNow
  <2> QED
    BY <1>1, <2>1, <2>2, FetchedStep
<1>4. CASE Found
  BY <1>4 DEF Found, WithinFetched
<1>5. CASE NothingFound
  <2>1. /\ pc # "found" /\ out' = best
        /\ UNCHANGED <<text, popped, fetched, history, stack, best, at>>
    BY <1>5 DEF NothingFound, LibraryUnchanged
  <2>2. /\ popped + out'.idx <= fetched' /\ popped + best'.idx <= fetched'
        /\ popped + at' <= fetched' /\ fetched <= fetched'
    BY <2>1, FetchedNow
  <2> QED
    BY <1>1, <2>1, <2>2, FetchedStep
<1> QED
  BY <1>2, <1>3, <1>4, <1>5 DEF LibraryStep

LEMMA StutterFetched ==
  ASSUME WithinFetched, UNCHANGED vars
  PROVE  WithinFetched'
BY DEF vars, evalVars, WithinFetched, WaitsInStore, InStore, Present

(* Until begin pops the match, no index it has reached is beyond what the  *)
(* supplier holds; so the iterator of popRange never leaves the store.     *)
THEOREM FetchedFirst == Spec => []WithinFetched
<1>1. Init => TypeOK /\ WithinFetched
  <2>1. Init => WithinFetched
    BY DEF Init, WindowInit, Begin, WithinFetched, InStore, FAILURE, ReachedAt
  <2> QED
    BY <2>1, InitType
<1>2. TypeOK /\ WithinFetched /\ [Next]_vars => TypeOK' /\ WithinFetched'
  BY NextType, CacheStepFetched, TerminalStepFetched, ResumeStepFetched,
     LibraryStepFetched, StutterFetched
  DEF Next, Step
<1> QED
  BY <1>1, <1>2, PTL DEF Spec

-----------------------------------------------------------------------------
(* The nodes of every match are in the order of the text.  An output is    *)
(* looked at together with the key of the visit that returned it; that a   *)
(* frame of the call stack is handed an output with the key it asked for   *)
(* is shown along with it.                                                 *)

(* The nodes that have a range.                                            *)
Placed(nodes) == {n \in DOMAIN nodes : nodes[n].range # NoRange}

InOrder(nodes, key, upto) ==
  /\ \A n \in Placed(nodes) :
       /\ key # -1 /\ nodes[n].range.first \in key .. upto
       /\ nodes[n].range.last <= Greater(nodes[n].range.first, upto - 1)
  /\ \A m, n \in Placed(nodes) :
       m < n => nodes[m].range.first <= nodes[n].range.first

EndOf(o) == IF Succeeds(o) THEN popped + o.idx ELSE Len(text)

(* o may be returned by a visit whose key is key.  Key -1 has no           *)
(* character, so nothing there has a range, and a match there is one at    *)
(* the end of input.  A failure may have nodes too (those before the child *)
(* that failed last), and a repeat may still add to them.                  *)
Fits(o, key) ==
  /\ Succeeds(o) => /\ popped + o.idx <= Len(text)
                    /\ key = -1 => popped + o.idx = Len(text)
                    /\ key <= popped + o.idx
  /\ InOrder(o.nodes, key, EndOf(o))

FrameFits(frame) == /\ frame.key = KeyOf(frame.at)
                    /\ frame.turn > 1 => Fits(frame.acc, frame.key)

(* A frame waits for the one above it, or for the visit that is under way; *)
(* while the library loop is at work there is none.                        *)
Nested ==
  /\ \A n \in 1 .. Len(stack) - 1 :
       stack[n + 1].key = KeyOf(ChildAt(stack[n]))
  /\ stack # <<>> /\ pc = "visit"  => KeyOf(at) = KeyOf(ChildAt(Top))
  /\ stack # <<>> /\ pc = "return" => Fits(out, KeyOf(ChildAt(Top)))
  /\ pc \notin {"visit", "return"} => stack = <<>>

OrderOK ==
  pc # "found" =>
    /\ \A k \in DOMAIN history : Fits(history[k].out, k[2])
    /\ \A n \in 1 .. Len(stack) : FrameFits(stack[n])
    /\ Nested

-----------------------------------------------------------------------------
(* Outputs that fit.                                                       *)

LEMMA FailureFits ==
  ASSUME NEW key
  PROVE  Fits(FAILURE, key)
<1>1. FAILURE.idx = -1 /\ FAILURE.nodes = <<>> /\ DOMAIN <<>> = {}
  BY DEF FAILURE, ReachedAt
<1>2. Placed(FAILURE.nodes) = {}
  BY <1>1 DEF Placed
<1> QED
  BY <1>1, <1>2 DEF Fits, Succeeds, InOrder

LEMMA ReachedFits ==
  ASSUME WindowTypeOK, NEW i \in Index, popped + i <= Len(text),
         NEW j \in Index, popped + j <= Len(text), i <= j,
         ~Present(i) => j = i
  PROVE  Fits(ReachedAt(j), KeyOf(i))
<1>1. ReachedAt(j).idx = j /\ ReachedAt(j).nodes = <<>> /\ DOMAIN <<>> = {}
  BY DEF ReachedAt
<1>2. Placed(ReachedAt(j).nodes) = {}
  BY <1>1 DEF Placed
<1>3. popped \in Nat /\ Len(text) \in Nat /\ i \in Int /\ j \in Int
  BY TextType DEF Index
<1>4. ASSUME j >= 0
      PROVE  /\ KeyOf(i) = -1 => popped + j = Len(text)
             /\ KeyOf(i) <= popped + j
  <2>1. CASE Present(i)
    BY <1>3, <2>1 DEF KeyOf, Present
  <2>2. CASE ~Present(i)
    BY <1>3, <1>4, <2>2 DEF KeyOf, Present
  <2> QED
    BY <2>1, <2>2
<1> QED
  BY <1>1, <1>2, <1>4 DEF Fits, Succeeds, InOrder

LEMMA KeyBounds ==
  ASSUME WindowTypeOK, NEW i \in Index
  PROVE  /\ KeyOf(i) \in Int /\ KeyOf(i) <= Len(text) /\ KeyOf(i) >= -1
         /\ KeyOf(i) # -1 => Present(i) /\ KeyOf(i) = popped + i
         /\ KeyOf(i) = -1 => ~Present(i)
         /\ KeyOf(-1) = -1
BY TextType DEF KeyOf, Present, Index

LEMMA FirstType ==
  ASSUME NEW o \in Output, NEW n \in DOMAIN o.nodes
  PROVE  o.nodes[n].range.first \in Int /\ o.nodes[n].range.last \in Int
<1>1. o.nodes \in Seq(Node)
  BY DEF Output
<1>2. o.nodes[n] \in Node
  BY <1>1
<1> QED
  BY <1>2 DEF Node, Span, Index

(* Joining the output of the child that was visited where another has      *)
(* ended, be it a match or at index -1.                                    *)
LEMMA JoinFits ==
  ASSUME WindowTypeOK, NEW a \in Output, NEW b \in Output,
         NEW key \in Int, -1 <= key, key <= Len(text),
         Fits(a, key), Fits(b, KeyOf(a.idx))
  PROVE  Fits(joinOutputs(a, b), key)
<1> DEFINE j     == joinOutputs(a, b)
           next  == KeyOf(a.idx)
           before == Len(a.nodes)
           F(o, n) == o.nodes[n].range.first
           L(o, n) == o.nodes[n].range.last
<1>1. /\ popped \in Nat /\ Len(text) \in Nat
      /\ a.idx \in Index /\ b.idx \in Index /\ a.idx \in Int /\ b.idx \in Int
      /\ a.idx >= -1 /\ b.idx >= -1
  BY TextType DEF Output, Index
<1>2. /\ a.nodes \in Seq(Node) /\ b.nodes \in Seq(Node)
      /\ Len(a.nodes) \in Nat /\ Len(b.nodes) \in Nat
  BY LenProperties DEF Output
<1>3. /\ next \in Int /\ -1 <= next /\ next <= Len(text)
      /\ next # -1 => next = popped + a.idx /\ Succeeds(a) /\ next < Len(text)
      /\ a.idx = -1 => next = -1
  BY <1>1, KeyBounds DEF Succeeds, Present
<1>4. j.idx = b.idx /\ j.nodes = a.nodes \o b.nodes
  <2>1. a.nodes = <<>> => a.nodes \o b.nodes = b.nodes
    BY <1>2
  <2> QED
    BY <2>1 DEF joinOutputs
<1>5. Succeeds(j) => /\ popped + j.idx <= Len(text)
                     /\ key = -1 => popped + j.idx = Len(text)
                     /\ key <= popped + j.idx
  <2> SUFFICES ASSUME Succeeds(b)
               PROVE  /\ popped + b.idx <= Len(text)
                      /\ key = -1 => popped + b.idx = Len(text)
                      /\ key <= popped + b.idx
    BY <1>4 DEF Succeeds
  <2>1. /\ popped + b.idx <= Len(text) /\ next <= popped + b.idx
        /\ next = -1 => popped + b.idx = Len(text)
    BY DEF Fits
  <2>2. CASE next = -1
    BY <1>1, <2>1, <2>2
  <2>3. CASE next # -1
    <3>1. key <= popped + a.idx /\ (key = -1 => popped + a.idx = Len(text))
      BY <1>3, <2>3 DEF Fits
    <3> QED
      BY <1>1, <1>3, <2>1, <2>3, <3>1
  <2> QED
    BY <2>2, <2>3
<1>6. EndOf(j) = EndOf(b) /\ EndOf(j) \in Int
      /\ EndOf(a) \in Int /\ EndOf(a) <= Len(text)
  <2>1. Succeeds(a) => popped + a.idx <= Len(text)
    BY DEF Fits
  <2> QED
    BY <1>1, <1>4, <2>1 DEF EndOf, Succeeds
<1>7. /\ \A n \in Placed(a.nodes) :
           /\ key # -1 /\ F(a, n) \in key .. EndOf(a)
           /\ L(a, n) <= Greater(F(a, n), EndOf(a) - 1)
      /\ \A m, n \in Placed(a.nodes) : m < n => F(a, m) <= F(a, n)
      /\ \A n \in Placed(b.nodes) :
           /\ next # -1 /\ F(b, n) \in next .. EndOf(b)
           /\ L(b, n) <= Greater(F(b, n), EndOf(b) - 1)
      /\ \A m, n \in Placed(b.nodes) : m < n => F(b, m) <= F(b, n)
  BY DEF Fits, InOrder
<1>8. EndOf(a) <= EndOf(j)
  <2>1. CASE ~Succeeds(b)
    BY <1>6, <2>1 DEF EndOf
  <2>2. CASE Succeeds(b) /\ next = -1
    BY <1>6, <2>2 DEF EndOf, Fits
  <2>3. CASE Succeeds(b) /\ next # -1
    <3>1. EndOf(a) = next /\ EndOf(b) = popped + b.idx /\ next <= popped + b.idx
      BY <1>3, <2>3 DEF EndOf, Fits
    <3> QED
      BY <1>6, <3>1
  <2> QED
    BY <2>1, <2>2, <2>3
<1>9. next # -1 => EndOf(a) = next /\ key # -1 /\ key <= next
  <2> SUFFICES ASSUME next # -1
               PROVE  EndOf(a) = next /\ key # -1 /\ key <= next
    OBVIOUS
  <2>1. Succeeds(a) /\ next = popped + a.idx /\ next < Len(text)
    BY <1>3
  <2>2. key <= popped + a.idx /\ (key = -1 => popped + a.idx = Len(text))
    BY <2>1 DEF Fits
  <2> QED
    BY <1>1, <2>1, <2>2 DEF EndOf
(* A node of j is one of a, or one of b behind those of a.                 *)
<1>10. \A n \in Placed(j.nodes) :
         \/ /\ n \in Placed(a.nodes) /\ n <= before
            /\ F(j, n) = F(a, n) /\ L(j, n) = L(a, n)
         \/ /\ n - before \in Placed(b.nodes) /\ n > before
            /\ F(j, n) = F(b, n - before) /\ L(j, n) = L(b, n - before)
  <2> SUFFICES ASSUME NEW n \in DOMAIN j.nodes, j.nodes[n].range # NoRange
               PROVE  \/ /\ n \in Placed(a.nodes) /\ n <= before
                         /\ F(j, n) = F(a, n) /\ L(j, n) = L(a, n)
                      \/ /\ n - before \in Placed(b.nodes) /\ n > before
                         /\ F(j, n) = F(b, n - before)
                         /\ L(j, n) = L(b, n - before)
    BY DEF Placed
  <2>1. /\ DOMAIN j.nodes = 1 .. before + Len(b.nodes)
        /\ n \in Int /\ n >= 1
    BY <1>2, <1>4
  <2>2. CASE n <= before
    <3>1. n \in DOMAIN a.nodes /\ j.nodes[n] = a.nodes[n]
      BY <1>2, <1>4, <2>1, <2>2
    <3> QED
      BY <2>2, <3>1 DEF Placed
  <2>3. CASE n > before
    <3>1. n - before \in 1 .. Len(b.nodes) /\ n \in 1 .. before + Len(b.nodes)
      <4>1. n \in 1 .. before + Len(b.nodes) /\ before \in Nat
        BY <1>2, <2>1
      <4> HIDE DEF before
      <4> QED
        BY <1>2, <2>3, <4>1
    <3>2. n - before \in DOMAIN b.nodes
      BY <1>2, <3>1
    <3>3. (a.nodes \o b.nodes)[n] = b.nodes[n - before]
      BY <1>2, <2>3, <3>1, ConcatProperties
    <3>4. j.nodes[n] = b.nodes[n - before]
      BY <1>4, <3>3
    <3> QED
      BY <2>3, <3>2, <3>4 DEF Placed
  <2> QED
    BY <1>2, <2>1, <2>2, <2>3
<1> DEFINE Old(n) == /\ n \in Placed(a.nodes) /\ n <= before
                     /\ F(j, n) = F(a, n) /\ L(j, n) = L(a, n)
           New(n) == /\ n - before \in Placed(b.nodes) /\ n > before
                     /\ F(j, n) = F(b, n - before) /\ L(j, n) = L(b, n - before)
<1>11. /\ \A n : Old(n) => F(a, n) \in Int /\ L(a, n) \in Int /\ n \in Int
       /\ \A n : New(n) => F(b, n - before) \in Int /\ L(b, n - before) \in Int
  <2>1. \A n \in Placed(a.nodes) : F(a, n) \in Int /\ L(a, n) \in Int /\ n \in Int
    BY <1>2, FirstType DEF Placed
  <2>2. \A n \in Placed(b.nodes) : F(b, n) \in Int /\ L(b, n) \in Int
    BY FirstType DEF Placed
  <2> QED
    BY <2>1, <2>2
<1>12. \A n \in Placed(j.nodes) : n \in Int
  BY <1>2, <1>4 DEF Placed
<1> HIDE DEF j, next, before, F, L
<1>13. \A n \in Placed(j.nodes) : /\ key # -1 /\ F(j, n) \in key .. EndOf(j)
                                 /\ L(j, n) <= Greater(F(j, n), EndOf(j) - 1)
  <2> SUFFICES ASSUME NEW n \in Placed(j.nodes)
               PROVE  /\ key # -1 /\ F(j, n) \in key .. EndOf(j)
                      /\ L(j, n) <= Greater(F(j, n), EndOf(j) - 1)
    OBVIOUS
  <2>1. CASE Old(n)
    BY <1>6, <1>7, <1>8, <1>11, <2>1 DEF Greater
  <2>2. CASE New(n)
    BY <1>3, <1>6, <1>7, <1>9, <1>11, <2>2 DEF Greater
  <2> QED
    BY <1>10, <2>1, <2>2
<1>14. \A m, n \in Placed(j.nodes) : m < n => F(j, m) <= F(j, n)
  <2> SUFFICES ASSUME NEW m \in Placed(j.nodes), NEW n \in Placed(j.nodes), m < n
               PROVE  F(j, m) <= F(j, n)
    OBVIOUS
  <2>0. m \in Int /\ n \in Int /\ before \in Nat
    BY <1>2, <1>12 DEF before
  <2>1. CASE Old(m) /\ Old(n)
    BY <1>7, <2>1
  <2>2. CASE New(m) /\ New(n)
    <3>1. m - before < n - before
      BY <2>0
    <3> QED
      BY <1>7, <2>2, <3>1
  <2>3. CASE Old(m) /\ New(n)
    BY <1>3, <1>6, <1>7, <1>9, <1>11, <2>3
  <2>4. CASE New(m) /\ Old(n)
    BY <2>0, <2>4
  <2> QED
    BY <1>10, <2>1, <2>2, <2>3, <2>4
<1> QED
  BY <1>5, <1>13, <1>14 DEF Fits, InOrder, j, F, L

(* The node of a symbol starts where the rule was tried, so before all the *)
(* nodes it is put over.                                                   *)
LEMMA WrappedFits ==
  ASSUME WindowTypeOK, LibraryOK,
         NEW r \in RuleIds, NEW i \in Index, NEW o \in Output,
         Fits(o, KeyOf(i))
  PROVE  Fits(Wrapped(r, i, o), KeyOf(i))
<1> SUFFICES ASSUME Wraps(r, o)
             PROVE  Fits(Wrapped(r, i, o), KeyOf(i))
  BY DEF Wrapped
<1> DEFINE w     == Wrapped(r, i, o)
           range == RangeBetween(popped, i, o.idx)
           name  == lib.rules[r].name
           key   == KeyOf(i)
           F(u, n) == u.nodes[n].range.first
           L(u, n) == u.nodes[n].range.last
<1>1. /\ popped \in Nat /\ Len(text) \in Nat /\ i \in Int /\ o.idx \in Int
      /\ o.nodes \in Seq(Node) /\ Len(o.nodes) \in Nat
      /\ key \in Int /\ -1 <= key
  BY TextType, KeyBounds, LenProperties DEF Output, Index
<1>2. /\ w.idx = o.idx
      /\ DOMAIN w.nodes = 1 .. Len(o.nodes) + 1
      /\ w.nodes[1].range = range
      /\ \A n \in 2 .. Len(o.nodes) + 1 :
           /\ w.nodes[n].range = o.nodes[n - 1].range
           /\ n - 1 \in DOMAIN o.nodes
  <2> DEFINE root   == [type |-> name, range |-> range, depth |-> 0]
             cloned == [n \in 1 .. Len(o.nodes) |->
                          [o.nodes[n] EXCEPT !.depth = @ + 1]]
  <2>1. w = [idx |-> o.idx, nodes |-> <<root>> \o cloned]
    BY DEF Wrapped, Under
  <2>2. \A n \in 1 .. Len(o.nodes) :
          cloned[n] \in Node /\ cloned[n].range = o.nodes[n].range
    <3>1. ASSUME NEW e \in Node
          PROVE  [e EXCEPT !.depth = @ + 1].range = e.range
      BY DEF Node
    <3> QED
      BY <1>1, <3>1, Deeper, ElementOfSeq
  <2>3. cloned \in Seq(Node) /\ Len(cloned) = Len(o.nodes)
    <3>1. cloned \in [1 .. Len(o.nodes) -> Node]
      BY <2>2
    <3> HIDE DEF cloned
    <3>2. cloned \in Seq(Node)
      BY <1>1, <3>1, SeqDef
    <3> QED
      BY <1>1, <3>1, <3>2, LenProperties
  <2>4. root \in Node /\ root.range = range
    <3>1. range \in Span
      BY <1>1, RangeBetweenType
    <3>2. name \in AnyName
      BY RuleType DEF Rule
    <3> QED
      BY <3>1, <3>2 DEF Node
  <2> HIDE DEF root, cloned, range, name
  <2>5. <<root>> \in Seq(Node) /\ Len(<<root>>) = 1 /\ <<root>>[1] = root
    BY <2>4
  <2>6. /\ <<root>> \o cloned \in Seq(Node)
        /\ Len(<<root>> \o cloned) = Len(o.nodes) + 1
        /\ \A n \in 1 .. Len(o.nodes) + 1 :
             (<<root>> \o cloned)[n] = IF n <= 1 THEN <<root>>[n] ELSE cloned[n - 1]
    <3>1. 1 + Len(o.nodes) = Len(o.nodes) + 1
      BY <1>1
    <3> QED
      BY <2>3, <2>5, <3>1, ConcatProperties
  <2>7. DOMAIN w.nodes = 1 .. Len(o.nodes) + 1
    BY <2>1, <2>6, LenProperties
  <2>8. 1 \in 1 .. Len(o.nodes) + 1 /\ 1 <= 1
    BY <1>1
  <2>9. w.nodes[1].range = range
    BY <2>1, <2>4, <2>5, <2>6, <2>8
  <2>10. ASSUME NEW n \in 2 .. Len(o.nodes) + 1
         PROVE  /\ w.nodes[n].range = o.nodes[n - 1].range
                /\ n - 1 \in DOMAIN o.nodes
    <3>1. n \in 1 .. Len(o.nodes) + 1 /\ ~(n <= 1) /\ n - 1 \in 1 .. Len(o.nodes)
      BY <1>1
    <3>2. w.nodes[n] = cloned[n - 1]
      BY <2>1, <2>6, <3>1
    <3> QED
      BY <1>1, <2>2, <3>1, <3>2, LenProperties
  <2> QED
    BY <2>1, <2>7, <2>9, <2>10
<1>3. Succeeds(o) /\ Succeeds(w) /\ EndOf(w) = EndOf(o) /\ EndOf(o) = popped + o.idx
  BY <1>2 DEF Wraps, Succeeds, EndOf
<1>4. key <= popped + o.idx /\ popped + o.idx <= Len(text)
  BY <1>3 DEF Fits
<1>5. range # NoRange => /\ key # -1 /\ range.first = key
                         /\ range.last <= Greater(key, EndOf(o) - 1)
  BY <1>1, <1>3, <1>4 DEF RangeBetween, NoRange, KeyOf, Present, Greater, Lesser
<1>6. /\ \A n \in Placed(o.nodes) :
           /\ key # -1 /\ F(o, n) \in key .. EndOf(o)
           /\ L(o, n) <= Greater(F(o, n), EndOf(o) - 1)
      /\ \A m, n \in Placed(o.nodes) : m < n => F(o, m) <= F(o, n)
  BY DEF Fits, InOrder
<1>7. \A n \in Placed(w.nodes) :
        \/ n = 1 /\ range # NoRange /\ F(w, n) = key /\ L(w, n) = range.last
        \/ n \in 2 .. Len(o.nodes) + 1 /\ n - 1 \in Placed(o.nodes)
           /\ F(w, n) = F(o, n - 1) /\ L(w, n) = L(o, n - 1)
  <2> SUFFICES ASSUME NEW n \in DOMAIN w.nodes, w.nodes[n].range # NoRange
               PROVE  \/ /\ n = 1 /\ range # NoRange /\ F(w, n) = key
                         /\ L(w, n) = range.last
                      \/ n \in 2 .. Len(o.nodes) + 1 /\ n - 1 \in Placed(o.nodes)
                         /\ F(w, n) = F(o, n - 1) /\ L(w, n) = L(o, n - 1)
    BY DEF Placed
  <2> HIDE DEF w, range, key
  <2>1. n = 1 \/ n \in 2 .. Len(o.nodes) + 1
    BY <1>1, <1>2
  <2>2. CASE n = 1
    BY <1>2, <1>5, <2>2
  <2>3. CASE n \in 2 .. Len(o.nodes) + 1
    BY <1>2, <2>3 DEF Placed
  <2> QED
    BY <2>1, <2>2, <2>3
<1>8. \A n \in Placed(o.nodes) : F(o, n) \in Int
  BY FirstType DEF Placed
<1> HIDE DEF w, range, key, F, L
<1>9. \A n \in Placed(w.nodes) : /\ key # -1 /\ F(w, n) \in key .. EndOf(w)
                                /\ L(w, n) <= Greater(F(w, n), EndOf(w) - 1)
  BY <1>1, <1>3, <1>4, <1>5, <1>6, <1>7, <1>8
<1>10. ASSUME NEW m \in Placed(w.nodes), NEW n \in Placed(w.nodes), m < n
       PROVE  F(w, m) <= F(w, n)
  <2>1. CASE m = 1 /\ range # NoRange /\ F(w, m) = key
    <3>1. F(w, n) \in key .. EndOf(w)
      BY <1>9
    <3> QED
      BY <1>1, <2>1, <3>1
  <2>2. CASE m \in 2 .. Len(o.nodes) + 1 /\ m - 1 \in Placed(o.nodes)
             /\ F(w, m) = F(o, m - 1)
    <3>1. n \in 2 .. Len(o.nodes) + 1 /\ n - 1 \in Placed(o.nodes)
          /\ F(w, n) = F(o, n - 1)
      BY <1>7, <1>10, <2>2
    <3>2. m - 1 < n - 1
      BY <1>1, <1>10, <2>2, <3>1
    <3> QED
      BY <1>6, <2>2, <3>1, <3>2
  <2> QED
    BY <1>7, <2>1, <2>2
<1>11. Fits(o, key)
  BY DEF key
<1> QED
  BY <1>2, <1>3, <1>9, <1>10, <1>11 DEF Fits, InOrder, w, key, F, L

-----------------------------------------------------------------------------
(* Steps.                                                                  *)

(* What is to be shown of a step that pops no characters.                  *)
LEMMA OrderStep ==
  ASSUME UNCHANGED <<text, popped, lib>>,
         \A k \in DOMAIN history' : Fits(history'[k].out, k[2]),
         \A n \in 1 .. Len(stack') : FrameFits(stack'[n]),
         \A n \in 1 .. Len(stack') - 1 :
           stack'[n + 1].key = KeyOf(ChildAt(stack'[n])),
         stack' # <<>> /\ pc' = "visit" =>
           KeyOf(at') = KeyOf(ChildAt(stack'[Len(stack')])),
         stack' # <<>> /\ pc' = "return" =>
           Fits(out', KeyOf(ChildAt(stack'[Len(stack')]))),
         pc' \notin {"visit", "return"} => stack' = <<>>
  PROVE  OrderOK'
BY DEF OrderOK, Nested, Top, FrameFits, ChildAt, Fits, EndOf, Succeeds,
       InOrder, Placed, KeyOf, Present

(* What is remembered fits the key of its record.                          *)
LEMMA RememberFits ==
  ASSUME OrderOK, pc # "found", NEW record, NEW state, NEW o,
         Remember(record, state, o), Fits(o, record[2])
  PROVE  \A k \in DOMAIN history' : Fits(history'[k].out, k[2])
BY DEF Remember, OrderOK

(* The memo is added to, and the frame on top is answered.                 *)
LEMMA ReturnFits ==
  ASSUME TypeOK, OrderOK, pc = "visit", NEW o \in Output, Fits(o, KeyOf(at)),
         Return(rule, at, o), UNCHANGED <<text, popped, lib, stack>>,
         \A k \in DOMAIN history' : Fits(history'[k].out, k[2])
  PROVE  OrderOK'
<1>1. Fits(out', KeyOf(at))
  BY VisitType, WrappedFits DEF Return, TypeOK
<1>2. stack # <<>> => KeyOf(at) = KeyOf(ChildAt(stack[Len(stack)]))
  BY DEF OrderOK, Nested, Top
<1>3. /\ \A n \in 1 .. Len(stack) : FrameFits(stack[n])
      /\ \A n \in 1 .. Len(stack) - 1 :
           stack[n + 1].key = KeyOf(ChildAt(stack[n]))
      /\ pc' = "return"
  BY DEF OrderOK, Nested, Return
<1> QED
  BY <1>1, <1>2, <1>3, OrderStep

LEMMA AnswerFits ==
  ASSUME TypeOK, OrderOK, pc = "visit", NEW o \in Output, Answer(o),
         Fits(o, KeyOf(at))
  PROVE  OrderOK'
<1>1. Record[2] = KeyOf(at)
  BY DEF Record
<1>2. \A k \in DOMAIN history' : Fits(history'[k].out, k[2])
  BY <1>1, RememberFits DEF Answer
<1> QED
  BY <1>2, ReturnFits DEF Answer, LibraryUnchanged

LEMMA CompleteFits ==
  ASSUME TypeOK, OrderOK, pc = "return", stack # <<>>,
         NEW o \in Output, Complete(o), Fits(o, Top.key)
  PROVE  OrderOK'
<1>1. /\ Len(stack) \in Nat \ {0} /\ Top.rule \in RuleIds /\ Top.at \in Index
      /\ Len(stack) \in 1 .. Len(stack)
  BY TopType DEF TypeOK
<1>2. Top.key = KeyOf(Top.at)
  BY <1>1 DEF OrderOK, FrameFits, Top
<1>3. Fits(out', Top.key)
  BY <1>1, <1>2, WrappedFits DEF Complete, Return, TypeOK
<1>4. \A k \in DOMAIN history' : Fits(history'[k].out, k[2])
  <2>1. <<Top.rule, Top.key>>[2] = Top.key
    OBVIOUS
  <2> QED
    BY <2>1, RememberFits DEF Complete
<1>5. /\ Len(stack') = Len(stack) - 1
      /\ \A n \in 1 .. Len(stack') : n \in 1 .. Len(stack) /\ stack'[n] = stack[n]
  BY <1>1, WithoutLast DEF Complete, TypeOK, StackOK
<1>6. /\ \A n \in 1 .. Len(stack) : FrameFits(stack[n])
      /\ \A n \in 1 .. Len(stack) - 1 :
           stack[n + 1].key = KeyOf(ChildAt(stack[n]))
  BY DEF OrderOK, Nested
<1>7. \A n \in 1 .. Len(stack') : FrameFits(stack'[n])
  BY <1>5, <1>6
<1>8. \A n \in 1 .. Len(stack') - 1 :
        stack'[n + 1].key = KeyOf(ChildAt(stack'[n]))
  <2> SUFFICES ASSUME NEW n \in 1 .. Len(stack') - 1
               PROVE  stack'[n + 1].key = KeyOf(ChildAt(stack'[n]))
    OBVIOUS
  <2>1. n \in 1 .. Len(stack') /\ n + 1 \in 1 .. Len(stack')
        /\ n \in 1 .. Len(stack) - 1
    BY <1>1, <1>5
  <2> QED
    BY <1>5, <1>6, <2>1
<1>9. ASSUME stack' # <<>>
      PROVE  Fits(out', KeyOf(ChildAt(stack'[Len(stack')])))
  <2>1. Len(stack) - 1 \in 1 .. Len(stack')
    <3>1. stack' \in Seq(Frame)
      BY <1>1, WithoutLast DEF Complete, TypeOK, StackOK
    <3>2. Len(stack') # 0
      BY <1>9, <3>1, EmptySeq
    <3> QED
      BY <1>1, <1>5, <3>2
  <2>2. stack'[Len(stack')] = stack[Len(stack) - 1]
    BY <1>5, <2>1
  <2>3. Len(stack) - 1 \in 1 .. Len(stack) - 1 /\ (Len(stack) - 1) + 1 = Len(stack)
    BY <1>1, <1>5, <2>1
  <2>4. stack[Len(stack)].key = KeyOf(ChildAt(stack[Len(stack) - 1]))
    BY <1>6, <2>3
  <2> QED
    BY <1>3, <2>2, <2>4 DEF Top
<1> QED
  BY <1>4, <1>7, <1>8, <1>9, OrderStep DEF Complete, Return, LibraryUnchanged

LEMMA AgainFits ==
  ASSUME TypeOK, OrderOK, pc = "return", stack # <<>>,
         NEW kid, NEW turn \in Nat, turn > 1, NEW o \in Output, NEW i,
         Again(kid, turn, o, i), Fits(o, Top.key),
         i = IF TopRule.kind \in {"Sequence", "Repeat"} THEN o.idx ELSE Top.at
  PROVE  OrderOK'
<1>1. Len(stack) \in Nat \ {0} /\ Len(stack) \in 1 .. Len(stack)
  BY TopType DEF TypeOK
<1>2. /\ \A n \in 1 .. Len(stack) : FrameFits(stack[n])
      /\ \A n \in 1 .. Len(stack) - 1 :
           stack[n + 1].key = KeyOf(ChildAt(stack[n]))
      /\ \A k \in DOMAIN history : Fits(history[k].out, k[2])
  BY DEF OrderOK, Nested
<1>3. /\ Len(stack') = Len(stack)
      /\ \A n \in 1 .. Len(stack) :
           /\ stack'[n].key = stack[n].key
           /\ stack'[n].rule = stack[n].rule
           /\ stack'[n].at = stack[n].at
           /\ n # Len(stack) => stack'[n] = stack[n]
      /\ stack'[Len(stack)].turn = turn
      /\ stack'[Len(stack)].acc = o
  BY AgainStack DEF Again, TypeOK, RecordOf
<1>4. FrameFits(stack'[Len(stack)])
  <2>1. FrameFits(Top)
    BY <1>1, <1>2 DEF Top
  <2> QED
    BY <1>1, <1>3, <2>1 DEF FrameFits, Top
<1>5. \A n \in 1 .. Len(stack') : FrameFits(stack'[n])
  BY <1>2, <1>3, <1>4
<1>6. ASSUME NEW n \in 1 .. Len(stack') - 1
      PROVE  stack'[n + 1].key = KeyOf(ChildAt(stack'[n]))
  <2>1. n \in 1 .. Len(stack) /\ n # Len(stack) /\ n + 1 \in 1 .. Len(stack)
        /\ n \in 1 .. Len(stack) - 1
    BY <1>1, <1>3
  <2> QED
    BY <1>2, <1>3, <2>1
<1>7. ChildAt(stack'[Len(stack)]) = i
  BY <1>1, <1>3 DEF ChildAt, TopRule, Top
<1>8. /\ pc' = "visit" /\ at' = i
      /\ UNCHANGED <<text, popped, lib, history>>
  BY DEF Again, Visit, LibraryUnchanged
<1> QED
  BY <1>2, <1>3, <1>5, <1>6, <1>7, <1>8, OrderStep

LEMMA CacheStepFits ==
  ASSUME TypeOK, OrderOK, CacheStep
  PROVE  OrderOK'
<1>1. pc = "visit" /\ pc # "found" /\ Record[2] = KeyOf(at) /\ FAILURE \in Output
  BY ReachedAtType
  DEF CacheStep, VisitCompleted, VisitCycle, Descend, MissingAlias, Fresh, Record,
      Index
<1>2. CASE VisitCompleted
  <2> DEFINE o == history[Record].out
  <2>1. o \in Output /\ Fits(o, KeyOf(at))
    BY <1>1, <1>2 DEF VisitCompleted, Remembered, TypeOK, HistoryOK,
                      HistoryRecord, OrderOK
  <2>2. /\ Return(rule, at, o)
        /\ UNCHANGED <<text, popped, lib, history, stack>>
    BY <1>2 DEF VisitCompleted, LibraryUnchanged
  <2> HIDE DEF o
  <2>3. \A k \in DOMAIN history' : Fits(history'[k].out, k[2])
    BY <1>1, <2>2 DEF OrderOK
  <2> QED
    BY <1>1, <2>1, <2>2, <2>3, ReturnFits
<1>3. CASE VisitCycle
  <2>1. /\ Return(rule, at, FAILURE)
        /\ Remember(Record, "Cyclic", FAILURE)
        /\ UNCHANGED <<text, popped, lib, stack>>
    BY <1>3 DEF VisitCycle, LibraryUnchanged
  <2>2. \A k \in DOMAIN history' : Fits(history'[k].out, k[2])
    BY <1>1, <2>1, FailureFits, RememberFits
  <2> QED
    BY <1>1, <2>1, <2>2, FailureFits, ReturnFits
<1>4. CASE Descend
  <2> DEFINE frame == [rule |-> rule, at |-> at, key |-> KeyOf(at),
                       turn |-> 1, acc |-> FAILURE]
  <2>1. /\ Remember(Record, "Processing", FAILURE)
        /\ stack' = Append(stack, frame)
        /\ pc' = "visit" /\ at' = at
        /\ UNCHANGED <<text, popped, lib>>
    BY <1>4 DEF Descend, Visit, LibraryUnchanged
  <2>2. /\ frame.key = KeyOf(at) /\ FrameFits(frame)
        /\ ChildAt(frame) = at
    BY DEF FrameFits, ChildAt
  <2> HIDE DEF frame
  <2>3. \A k \in DOMAIN history' : Fits(history'[k].out, k[2])
    BY <1>1, <2>1, FailureFits, RememberFits
  <2>4. /\ Len(stack) \in Nat /\ Len(stack') = Len(stack) + 1
        /\ stack'[Len(stack')] = frame
        /\ \A n \in 1 .. Len(stack) : stack'[n] = stack[n]
    BY <2>1, LenProperties DEF TypeOK, StackOK
  <2>5. /\ \A n \in 1 .. Len(stack) : FrameFits(stack[n])
        /\ \A n \in 1 .. Len(stack) - 1 :
             stack[n + 1].key = KeyOf(ChildAt(stack[n]))
        /\ stack # <<>> => KeyOf(at) = KeyOf(ChildAt(stack[Len(stack)]))
    BY <1>1 DEF OrderOK, Nested, Top
  <2>6. \A n \in 1 .. Len(stack') : FrameFits(stack'[n])
    <3> SUFFICES ASSUME NEW n \in 1 .. Len(stack')
                 PROVE  FrameFits(stack'[n])
      OBVIOUS
    <3>1. n \in 1 .. Len(stack) \/ n = Len(stack')
      BY <2>4
    <3> QED
      BY <2>2, <2>4, <2>5, <3>1
  <2>7. \A n \in 1 .. Len(stack') - 1 :
          stack'[n + 1].key = KeyOf(ChildAt(stack'[n]))
    <3> SUFFICES ASSUME NEW n \in 1 .. Len(stack') - 1
                 PROVE  stack'[n + 1].key = KeyOf(ChildAt(stack'[n]))
      OBVIOUS
    <3>1. n \in 1 .. Len(stack) /\ stack'[n] = stack[n]
      BY <2>4
    <3>2. CASE n = Len(stack)
      <4>1. stack # <<>>
        BY <3>1, <3>2
      <4>2. n + 1 = Len(stack')
        BY <2>4, <3>2
      <4> QED
        BY <2>2, <2>4, <2>5, <3>1, <3>2, <4>1, <4>2
    <3>3. CASE n # Len(stack)
      <4>1. n \in 1 .. Len(stack) - 1 /\ n + 1 \in 1 .. Len(stack)
        BY <2>4, <3>1, <3>3
      <4> QED
        BY <2>4, <2>5, <3>1, <4>1
    <3> QED
      BY <3>2, <3>3
  <2>8. KeyOf(at') = KeyOf(ChildAt(stack'[Len(stack')]))
    BY <2>1, <2>2, <2>4
  <2> QED
    BY <2>1, <2>3, <2>6, <2>7, <2>8, OrderStep
<1>5. CASE MissingAlias
  BY <1>1, <1>5, FailureFits, AnswerFits DEF MissingAlias
<1> QED
  BY <1>2, <1>3, <1>4, <1>5 DEF CacheStep

LEMMA TerminalStepFits ==
  ASSUME TypeOK, WithinFetched, OrderOK, TerminalStep
  PROVE  OrderOK'
<1>1. pc = "visit" /\ FAILURE \in Output
  BY ReachedAtType
  DEF TerminalStep, AcceptAny, AcceptEnd, AcceptCharRange, AcceptValues, Fresh, Index
<1>2. /\ WindowTypeOK /\ at \in Index /\ at \in Int
      /\ popped \in Nat /\ Len(text) \in Nat
      /\ popped + at <= Len(text)
  BY <1>1, VisitFetched, FetchedNow DEF TypeOK, Index
<1>3. \A j \in Index : /\ popped + j <= Len(text)
                       /\ at <= j
                       /\ ~Present(at) => j = at
                       => Fits(ReachedAt(j), KeyOf(at))
  BY <1>2, ReachedFits
<1>4. ReachedAt(at) \in Output /\ Fits(ReachedAt(at), KeyOf(at))
  BY <1>2, <1>3, ReachedAtType
<1>5. Present(at) =>
        ReachedAt(at + 1) \in Output /\ Fits(ReachedAt(at + 1), KeyOf(at))
  <2> SUFFICES ASSUME Present(at)
               PROVE  ReachedAt(at + 1) \in Output /\ Fits(ReachedAt(at + 1), KeyOf(at))
    OBVIOUS
  <2>1. at + 1 \in Index /\ popped + (at + 1) <= Len(text) /\ at <= at + 1
    BY <1>2 DEF Present, Index
  <2> QED
    BY <1>3, <2>1, ReachedAtType
<1>6. CASE AcceptAny
  BY <1>1, <1>5, <1>6, FailureFits, AnswerFits DEF AcceptAny
<1>7. CASE AcceptEnd
  BY <1>1, <1>4, <1>7, FailureFits, AnswerFits DEF AcceptEnd
<1>8. CASE AcceptCharRange
  BY <1>1, <1>5, <1>8, FailureFits, AnswerFits DEF AcceptCharRange
<1>9. CASE AcceptValues
  <2> DEFINE values == lib.rules[rule].values
  <2>1. values \in Seq(Seq(Nat)) /\ Len(values) \in Nat
    BY <1>1, VisitType, RuleType, LenProperties DEF TypeOK, Rule
  <2>2. CASE Answer(FAILURE)
    BY <1>1, <2>2, FailureFits, AnswerFits
  <2>3. CASE \E n \in 1 .. Len(values) :
               Matches(values[n], at) /\ Answer(ReachedAt(at + Len(values[n])))
    <3>1. PICK n \in 1 .. Len(values) :
            Matches(values[n], at) /\ Answer(ReachedAt(at + Len(values[n])))
      BY <2>3
    <3> DEFINE j == at + Len(values[n])
    <3>2. values[n] \in Seq(Nat)
      BY <2>1, ElementOfSeq
    <3> HIDE DEF values
    <3>3. /\ at \in Nat /\ Len(values[n]) \in Nat
          /\ popped + at + Len(values[n]) <= Len(text)
      BY <1>2, <3>1, <3>2, MatchesBounds
    <3>4. Present(at)
      <4>1. 1 \in 1 .. Len(values[n])
        BY <3>1, <3>2, <3>3, EmptySeq DEF Matches
      <4>2. Present(at + 1 - 1)
        BY <3>1, <4>1 DEF Matches
      <4>3. at + 1 - 1 = at
        BY <1>2
      <4> QED
        BY <4>2, <4>3
    <3>5. j \in Index /\ popped + j <= Len(text) /\ at <= j
      <4>1. \A p, i, l \in Nat : /\ i + l \in Nat /\ i <= i + l
                                 /\ p + (i + l) = p + i + l
        OBVIOUS
      <4>2. j \in Nat /\ at <= j /\ popped + j = popped + at + Len(values[n])
        BY <1>2, <3>3, <4>1
      <4> HIDE DEF j
      <4> QED
        BY <3>3, <4>2 DEF Index
    <3> HIDE DEF j
    <3>6. ReachedAt(j) \in Output /\ Fits(ReachedAt(j), KeyOf(at))
      BY <1>3, <3>4, <3>5, ReachedAtType
    <3> QED
      BY <1>1, <3>1, <3>6, AnswerFits DEF j
  <2> QED
    BY <1>9, <2>2, <2>3 DEF AcceptValues
<1> QED
  BY <1>6, <1>7, <1>8, <1>9 DEF TerminalStep

(* What a strategy is resumed with, and what it makes of that.             *)
LEMMA ResumedFits ==
  ASSUME TypeOK, WithinFetched, OrderOK, pc = "return", stack # <<>>
  PROVE  /\ Fits(FAILURE, Top.key)
         /\ Fits(ReachedAt(Top.at), Top.key)
         /\ Present(Top.at) => Fits(ReachedAt(Top.at + 1), Top.key)
         /\ TopRule.kind \notin {"Sequence", "Repeat"} => Fits(out, Top.key)
         /\ Fits(Held, Top.key)
         /\ TopRule.kind \in {"Sequence", "Repeat"} => Fits(Joined, Top.key)
         /\ Top.turn > 1 => Fits(Top.acc, Top.key)
<1>1. /\ Len(stack) \in 1 .. Len(stack)
      /\ Top.at \in Index /\ Top.at \in Int /\ Top.turn \in Nat /\ Top.turn >= 1
      /\ Top.acc \in Output /\ out \in Output
      /\ WindowTypeOK /\ popped \in Nat /\ fetched \in Nat /\ Len(text) \in Nat
      /\ fetched <= Len(text)
  BY TopType, ResumedType, FetchedNow DEF TypeOK, Index
<1>2. Top.key = KeyOf(Top.at) /\ (Top.turn > 1 => Fits(Top.acc, Top.key))
  BY <1>1 DEF OrderOK, FrameFits, Top
<1>3. Fits(out, KeyOf(ChildAt(Top)))
  BY DEF OrderOK, Nested
<1>4. popped + Top.at <= Len(text)
  <2>1. popped + Top.at <= fetched
    BY <1>1 DEF WithinFetched, WaitsInStore, InStore, Top
  <2> QED
    BY <1>1, <2>1
<1>5. Fits(ReachedAt(Top.at), Top.key)
  BY <1>1, <1>2, <1>4, ReachedFits
<1>6. Present(Top.at) => Fits(ReachedAt(Top.at + 1), Top.key)
  <2> SUFFICES ASSUME Present(Top.at)
               PROVE  Fits(ReachedAt(Top.at + 1), Top.key)
    OBVIOUS
  <2>1. /\ Top.at + 1 \in Index /\ popped + (Top.at + 1) <= Len(text)
        /\ Top.at <= Top.at + 1
    BY <1>1 DEF Present, Index
  <2> QED
    BY <1>1, <1>2, <1>4, <2>1, ReachedFits
<1>7. TopRule.kind \notin {"Sequence", "Repeat"} \/ Top.turn = 1 => Fits(out, Top.key)
  BY <1>1, <1>2, <1>3 DEF ChildAt, TopRule
<1>8. Fits(Held, Top.key)
  BY <1>1, <1>2, <1>7 DEF Held
<1>9. TopRule.kind \in {"Sequence", "Repeat"} => Fits(Joined, Top.key)
  <2>1. CASE Top.turn = 1
    BY <1>7, <2>1 DEF Joined
  <2>2. CASE TopRule.kind \in {"Sequence", "Repeat"} /\ Top.turn # 1
    <3>1. Top.turn > 1
      BY <1>1, <2>2
    <3>2. Fits(Top.acc, Top.key) /\ Fits(out, KeyOf(Top.acc.idx))
      BY <1>2, <1>3, <2>2, <3>1 DEF ChildAt, TopRule
    <3>3. Top.key \in Int /\ -1 <= Top.key /\ Top.key <= Len(text)
      BY <1>1, <1>2, KeyBounds
    <3> QED
      BY <1>1, <2>2, <3>2, <3>3, JoinFits DEF Joined
  <2> QED
    BY <2>1, <2>2
<1> QED
  BY <1>2, <1>5, <1>6, <1>7, <1>8, <1>9, FailureFits

LEMMA ResumeStepFits ==
  ASSUME TypeOK, WithinFetched, OrderOK, ResumeStep
  PROVE  OrderOK'
<1>1. pc = "return" /\ stack # <<>>
  BY DEF ResumeStep, ResumeAlias, ResumeOptional, ResumeNot, ResumeAnyBut,
         ResumeOr, ResumeAnd, ResumeXOr, ResumeSequence, ResumeRepeat, Resumed
<1>2. \A o \in Output : Complete(o) /\ Fits(o, Top.key) => OrderOK'
  BY <1>1, CompleteFits
<1>3. \A kid : \A turn \in Nat, o \in Output :
        /\ TopRule.kind \notin {"Sequence", "Repeat"}
        /\ Again(kid, turn, o, Top.at)
        /\ turn > 1
        /\ Fits(o, Top.key)
        => OrderOK'
  BY <1>1, AgainFits
<1>4. \A kid : \A turn \in Nat, o \in Output :
        /\ TopRule.kind \in {"Sequence", "Repeat"}
        /\ Again(kid, turn, o, o.idx)
        /\ turn > 1
        /\ Fits(o, Top.key)
        => OrderOK'
  BY <1>1, AgainFits
<1>5. /\ Top.turn \in Nat /\ Top.turn + 1 \in Nat /\ Top.turn + 1 > 1
      /\ out \in Output /\ FAILURE \in Output /\ Held \in Output
      /\ Joined \in Output /\ Top.acc \in Output /\ ReachedAt(Top.at) \in Output
      /\ Present(Top.at) => ReachedAt(Top.at + 1) \in Output
  BY <1>1, ResumedType
<1>6. CASE ResumeAlias \/ ResumeOptional \/ ResumeNot \/ ResumeAnyBut
  BY <1>1, <1>2, <1>5, <1>6, ResumedFits
  DEF ResumeAlias, ResumeOptional, ResumeNot, ResumeAnyBut, Resumed
<1>7. CASE ResumeOr
  BY <1>1, <1>2, <1>3, <1>5, <1>7, ResumedFits DEF ResumeOr, Resumed
<1>8. CASE ResumeAnd
  BY <1>1, <1>2, <1>3, <1>5, <1>8, ResumedFits DEF ResumeAnd, Resumed
<1>9. CASE ResumeXOr
  BY <1>1, <1>2, <1>3, <1>5, <1>9, ResumedFits DEF ResumeXOr, Resumed
<1>10. CASE ResumeSequence
  BY <1>1, <1>2, <1>4, <1>5, <1>10, ResumedFits DEF ResumeSequence, Resumed
<1>11. CASE ResumeRepeat
  <2>1. TopRule.kind = "Repeat" /\ Needed \in Nat /\ Needed >= 1
    <3>1. TopRule \in Rule
      BY <1>1, TopType DEF TypeOK
    <3> QED
      BY <1>11, <3>1 DEF ResumeRepeat, Resumed, Needed, Greater, Rule
  <2>2. CASE RepeatNeeded
    BY <1>1, <1>2, <1>4, <1>5, <2>1, <2>2, ResumedFits DEF RepeatNeeded
  <2>3. CASE RepeatMore
    <3>1. Top.turn > 1
      BY <1>5, <2>1, <2>3 DEF RepeatMore
    <3> QED
      BY <1>1, <1>2, <1>4, <1>5, <2>1, <2>3, <3>1, ResumedFits DEF RepeatMore
  <2> QED
    BY <1>11, <2>2, <2>3 DEF ResumeRepeat
<1> QED
  BY <1>6, <1>7, <1>8, <1>9, <1>10, <1>11 DEF ResumeStep

LEMMA LibraryStepFits ==
  ASSUME OrderOK, LibraryStep
  PROVE  OrderOK'
<1>1. CASE Found
  BY <1>1 DEF Found, OrderOK
<1>2. CASE TrySymbol \/ TakeResult \/ NothingFound
  <2>1. /\ UNCHANGED <<text, popped, lib, history, stack>>
        /\ pc # "found" /\ stack = <<>>
    BY <1>2 DEF TrySymbol, TakeResult, NothingFound, LibraryUnchanged,
                OrderOK, Nested
  <2>2. Len(stack') = 0
    BY <2>1
  <2>3. \A k \in DOMAIN history' : Fits(history'[k].out, k[2])
    BY <2>1 DEF OrderOK
  <2> QED
    BY <2>1, <2>2, <2>3, OrderStep
<1> QED
  BY <1>1, <1>2 DEF LibraryStep

LEMMA StutterFits ==
  ASSUME OrderOK, UNCHANGED vars
  PROVE  OrderOK'
<1>1. CASE pc = "found"
  BY <1>1 DEF vars, evalVars, OrderOK
<1>2. CASE pc # "found"
  <2>1. /\ UNCHANGED <<text, popped, lib, history, stack, pc, at, out>>
    BY DEF vars, evalVars
  <2> QED
    BY <1>2, <2>1, OrderStep DEF OrderOK, Nested, Top
<1> QED
  BY <1>1, <1>2

LEMMA OrderNext ==
  ASSUME TypeOK, WithinFetched, OrderOK, [Next]_vars
  PROVE  OrderOK'
BY CacheStepFits, TerminalStepFits, ResumeStepFits, LibraryStepFits, StutterFits
   DEF Next, Step

LEMMA FitsInOrder ==
  ASSUME TypeOK, OrderOK
  PROVE  NodesInOrder
<1> SUFFICES ASSUME NEW k \in DOMAIN history, pc # "found",
                    Succeeds(history[k].out)
             PROVE  LET nodes  == history[k].out.nodes
                        placed == {n \in DOMAIN nodes : nodes[n].range # NoRange}
                    IN  /\ \A n \in placed :
                             LET range == nodes[n].range
                                 end   == popped + history[k].out.idx
                             IN  /\ range.first \in k[2] .. end
                                 /\ range.last <= Greater(range.first, end - 1)
                        /\ \A m, n \in placed :
                             m < n => nodes[m].range.first <= nodes[n].range.first
  BY DEF NodesInOrder
<1>1. Fits(history[k].out, k[2])
  BY DEF OrderOK
<1> QED
  BY <1>1 DEF Fits, InOrder, Placed, EndOf

(* Whatever a visit returns may be returned by a visit with its key.        *)
LEMMA OutputsFit == Spec => []OrderOK
<1>1. Init => OrderOK
  <2> SUFFICES ASSUME Init
               PROVE  OrderOK
    OBVIOUS
  <2>1. history = <<>> /\ stack = <<>> /\ pc = "symbols"
        /\ DOMAIN <<>> = {} /\ Len(<<>>) = 0
    BY DEF Init, Begin
  <2> QED
    BY <2>1 DEF OrderOK, Nested
<1>2. TypeOK /\ WithinFetched /\ OrderOK /\ [Next]_vars => OrderOK'
  BY OrderNext
<1> QED
  BY <1>1, <1>2, TypeCorrect, FetchedFirst, PTL DEF Spec

(* The nodes of a match follow the text, whatever the library: the outputs *)
(* joinOutputs puts together never overlap backwards, and a node put over  *)
(* others starts where they start or before (SourceEvaluation.h:105).      *)
THEOREM NodesFollowText == Spec => []NodesInOrder
<1>1. TypeOK /\ OrderOK => NodesInOrder
  BY FitsInOrder
<1> QED
  BY <1>1, TypeCorrect, OutputsFit, PTL

-----------------------------------------------------------------------------
(* Which rule is visited where: a frame stands for the visit its caller    *)
(* asked for, be that the frame below it or the library loop.              *)
CallsNested ==
  /\ \A n \in 1 .. Len(stack) : /\ stack[n].rule = CalledRule(n - 1)
                                /\ stack[n].at = CalledAt(n - 1)
  /\ pc = "visit" => /\ rule = CalledRule(Len(stack))
                     /\ at = CalledAt(Len(stack))
  /\ pc \notin {"visit", "return"} => stack = <<>>

(* A frame that is resumed returns, or visits the child of its next turn.  *)
LEMMA ResumeCalls ==
  ASSUME TypeOK, ResumeStep
  PROVE  \/ \E o \in Output : Complete(o)
         \/ \E turn \in Nat, o \in Output : \E kid, i :
              /\ Again(kid, turn, o, i)
              /\ turn > 1
              /\ TopRule.kind # "Alias"
              /\ kid = IF TopRule.kind \in Unary THEN TopRule.kids[1]
                                                 ELSE TopRule.kids[turn]
              /\ i = IF TopRule.kind \in {"Sequence", "Repeat"}
                     THEN o.idx ELSE Top.at
<1> DEFINE Goes(kid, turn, o, i) ==
              /\ Again(kid, turn, o, i)
              /\ turn > 1
              /\ TopRule.kind # "Alias"
              /\ kid = IF TopRule.kind \in Unary THEN TopRule.kids[1]
                                                 ELSE TopRule.kids[turn]
              /\ i = IF TopRule.kind \in {"Sequence", "Repeat"}
                     THEN o.idx ELSE Top.at
           Goal == \/ \E o \in Output : Complete(o)
                   \/ \E turn \in Nat, o \in Output : \E kid, i : Goes(kid, turn, o, i)
<1>1. pc = "return" /\ stack # <<>>
  BY DEF ResumeStep, ResumeAlias, ResumeOptional, ResumeNot, ResumeAnyBut,
         ResumeOr, ResumeAnd, ResumeXOr, ResumeSequence, ResumeRepeat, Resumed
<1>2. /\ Top.turn \in Nat /\ Top.turn + 1 \in Nat /\ Top.turn + 1 > 1
      /\ out \in Output /\ FAILURE \in Output /\ Held \in Output
      /\ Joined \in Output /\ Top.acc \in Output /\ ReachedAt(Top.at) \in Output
      /\ Present(Top.at) => ReachedAt(Top.at + 1) \in Output
  BY <1>1, ResumedType
<1>3. \A o \in Output : Complete(o) => Goal
  OBVIOUS
<1>4. \A turn \in Nat, o \in Output : \A kid, i : Goes(kid, turn, o, i) => Goal
  OBVIOUS
<1> HIDE DEF Goal
<1>5. CASE ResumeAlias \/ ResumeOptional \/ ResumeNot \/ ResumeAnyBut
  BY <1>2, <1>3, <1>5
  DEF ResumeAlias, ResumeOptional, ResumeNot, ResumeAnyBut, Resumed
<1>6. CASE ResumeOr
  BY <1>2, <1>3, <1>4, <1>6 DEF ResumeOr, Resumed, Kid, Unary
<1>7. CASE ResumeAnd
  BY <1>2, <1>3, <1>4, <1>7 DEF ResumeAnd, Resumed, Kid, Unary
<1>8. CASE ResumeXOr
  BY <1>2, <1>3, <1>4, <1>8 DEF ResumeXOr, Resumed, Kid, Unary
<1>9. CASE ResumeSequence
  BY <1>2, <1>3, <1>4, <1>9 DEF ResumeSequence, Resumed, Kid, Unary
<1>10. CASE ResumeRepeat
  <2>1. TopRule.kind = "Repeat" /\ Needed \in Nat /\ Needed >= 1
    <3>1. TopRule \in Rule
      BY <1>1, TopType DEF TypeOK
    <3> QED
      BY <1>10, <3>1 DEF ResumeRepeat, Resumed, Needed, Greater, Rule
  <2>2. CASE RepeatNeeded
    BY <1>2, <1>3, <1>4, <2>1, <2>2 DEF RepeatNeeded, Kid, Unary
  <2>3. CASE RepeatMore
    <3>1. Top.turn > 1
      BY <1>2, <2>1, <2>3 DEF RepeatMore
    <3> QED
      BY <1>2, <1>3, <1>4, <2>1, <2>3, <3>1 DEF RepeatMore, Kid, Unary
  <2> QED
    BY <1>10, <2>2, <2>3 DEF ResumeRepeat
<1> QED
  BY <1>5, <1>6, <1>7, <1>8, <1>9, <1>10 DEF ResumeStep, Goal

LEMMA CallsStep ==
  ASSUME TypeOK, CallsNested, [Next]_vars
  PROVE  CallsNested'
<1>1. stack \in Seq(Frame) /\ Len(stack) \in Nat
  BY LenProperties DEF TypeOK, StackOK
(* An answer, or nothing at all.                                           *)
<1>2. UNCHANGED <<lib, stack, tried>> /\ pc' = "return" /\ pc = "visit"
        => CallsNested'
  BY DEF CallsNested, CalledRule, CalledAt, ChildRule, ChildAt
<1>3. CASE VisitCompleted \/ VisitCycle \/ MissingAlias \/ TerminalStep
  BY <1>2, <1>3
  DEF VisitCompleted, VisitCycle, MissingAlias, TerminalStep, AcceptAny,
      AcceptEnd, AcceptCharRange, AcceptValues, Fresh, Answer, Return,
      LibraryUnchanged
<1>4. CASE Descend
  <2> DEFINE frame == [rule |-> rule, at |-> at, key |-> KeyOf(at),
                       turn |-> 1, acc |-> FAILURE]
  <2>1. /\ stack' = Append(stack, frame)
        /\ rule' = ChildRule(frame) /\ at' = ChildAt(frame)
        /\ pc = "visit" /\ pc' = "visit" /\ UNCHANGED <<lib, tried>>
    <3>1. lib.rules[rule].kind \in {"Alias"} \cup Unary \cup Collections
      BY <1>4 DEF Descend, Fresh
    <3> QED
      BY <1>4, <3>1
      DEF Descend, Fresh, Visit, LibraryUnchanged, ChildRule, ChildAt
  <2>2. frame.rule = CalledRule(Len(stack)) /\ frame.at = CalledAt(Len(stack))
    BY <2>1 DEF CallsNested
  <2> HIDE DEF frame
  <2>3. /\ Len(stack') = Len(stack) + 1
        /\ stack'[Len(stack) + 1] = frame
        /\ \A n \in 1 .. Len(stack) : stack'[n] = stack[n]
    BY <1>1, <2>1
  <2>4. \A n \in 0 .. Len(stack) : /\ CalledRule(n)' = CalledRule(n)
                                   /\ CalledAt(n)' = CalledAt(n)
    <3> SUFFICES ASSUME NEW n \in 0 .. Len(stack)
                 PROVE  /\ CalledRule(n)' = CalledRule(n)
                        /\ CalledAt(n)' = CalledAt(n)
      OBVIOUS
    <3>1. n # 0 => stack'[n] = stack[n]
      BY <1>1, <2>3
    <3> QED
      BY <2>1, <3>1 DEF CalledRule, CalledAt, ChildRule, ChildAt
  <2>5. ASSUME NEW n \in 1 .. Len(stack')
        PROVE  stack'[n].rule = CalledRule(n - 1)' /\ stack'[n].at = CalledAt(n - 1)'
    <3>1. n - 1 \in 0 .. Len(stack) /\ (n \in 1 .. Len(stack) \/ n = Len(stack) + 1)
      BY <1>1, <2>3
    <3>2. n = Len(stack) + 1 => n - 1 = Len(stack)
      BY <1>1
    <3> QED
      BY <2>2, <2>3, <2>4, <3>1, <3>2 DEF CallsNested
  <2>6. rule' = CalledRule(Len(stack))' /\ at' = CalledAt(Len(stack))'
    <3>1. Len(stack') # 0 /\ stack'[Len(stack')] = frame
      BY <1>1, <2>3
    <3> QED
      BY <2>1, <3>1 DEF CalledRule, CalledAt, ChildRule, ChildAt
  <2> QED
    BY <2>1, <2>5, <2>6 DEF CallsNested
<1>5. CASE ResumeStep
  <2>1. pc = "return" /\ stack # <<>> /\ Len(stack) \in 1 .. Len(stack)
    <3>1. pc = "return" /\ stack # <<>>
      BY <1>5
      DEF ResumeStep, ResumeAlias, ResumeOptional, ResumeNot, ResumeAnyBut,
          ResumeOr, ResumeAnd, ResumeXOr, ResumeSequence, ResumeRepeat, Resumed
    <3> QED
      BY <3>1, TopType DEF TypeOK
  <2>2. ASSUME NEW o, Complete(o)
        PROVE  CallsNested'
    <3>1. /\ Len(stack') = Len(stack) - 1
          /\ \A n \in 1 .. Len(stack') : n \in 1 .. Len(stack) /\ stack'[n] = stack[n]
          /\ UNCHANGED <<lib, tried>> /\ pc' = "return"
      BY <2>1, <2>2, WithoutLast DEF Complete, Return, LibraryUnchanged, TypeOK, StackOK
    <3>2. \A n \in 0 .. Len(stack') : /\ CalledRule(n)' = CalledRule(n)
                                      /\ CalledAt(n)' = CalledAt(n)
      <4> SUFFICES ASSUME NEW n \in 0 .. Len(stack')
                   PROVE  /\ CalledRule(n)' = CalledRule(n)
                          /\ CalledAt(n)' = CalledAt(n)
        OBVIOUS
      <4>1. n # 0 => stack'[n] = stack[n]
        BY <1>1, <3>1
      <4> QED
        BY <3>1, <4>1 DEF CalledRule, CalledAt, ChildRule, ChildAt
    <3>3. \A n \in 1 .. Len(stack') : n - 1 \in 0 .. Len(stack')
      BY <1>1, <3>1
    <3> QED
      BY <3>1, <3>2, <3>3 DEF CallsNested
  <2>3. ASSUME NEW turn \in Nat, NEW o \in Output, NEW kid, NEW i,
               Again(kid, turn, o, i),
               turn > 1,
               TopRule.kind # "Alias",
               kid = IF TopRule.kind \in Unary THEN TopRule.kids[1]
                                               ELSE TopRule.kids[turn],
               i = IF TopRule.kind \in {"Sequence", "Repeat"}
                   THEN o.idx ELSE Top.at
        PROVE  CallsNested'
    <3>1. /\ Len(stack') = Len(stack)
          /\ \A n \in 1 .. Len(stack) :
               /\ stack'[n].rule = stack[n].rule
               /\ stack'[n].at = stack[n].at
               /\ n # Len(stack) => stack'[n] = stack[n]
          /\ stack'[Len(stack)].turn = turn
          /\ stack'[Len(stack)].acc = o
      BY <2>1, <2>3, AgainStack DEF Again, TypeOK, RecordOf
    <3>2. /\ rule' = kid /\ at' = i /\ pc' = "visit"
          /\ UNCHANGED <<lib, tried>>
      BY <2>3 DEF Again, Visit, LibraryUnchanged
    <3>3. ASSUME NEW n \in 1 .. Len(stack')
          PROVE  /\ CalledRule(n - 1)' = CalledRule(n - 1)
                 /\ CalledAt(n - 1)' = CalledAt(n - 1)
      <4>1. n - 1 # 0 => stack'[n - 1] = stack[n - 1]
        BY <1>1, <3>1
      <4> QED
        BY <3>2, <4>1 DEF CalledRule, CalledAt, ChildRule, ChildAt
    <3>4. rule' = CalledRule(Len(stack))' /\ at' = CalledAt(Len(stack))'
      <4>1. /\ Len(stack') = Len(stack) /\ Len(stack) # 0
            /\ stack'[Len(stack)].rule = Top.rule
            /\ stack'[Len(stack)].at = Top.at
            /\ stack'[Len(stack)].turn = turn
            /\ stack'[Len(stack)].acc = o
        BY <1>1, <2>1, <3>1 DEF Top
      <4>2. CalledRule(Len(stack))' = kid
        BY <2>3, <3>2, <4>1 DEF CalledRule, ChildRule, TopRule
      <4>3. CalledAt(Len(stack))' = i
        BY <2>3, <3>2, <4>1 DEF CalledAt, ChildAt, TopRule
      <4> QED
        BY <3>2, <4>2, <4>3
    <3> QED
      BY <3>1, <3>2, <3>3, <3>4 DEF CallsNested
  <2> QED
    BY <1>5, <2>2, <2>3, ResumeCalls
<1>6. CASE LibraryStep
  <2>1. stack = <<>> /\ stack' = <<>> /\ Len(<<>>) = 0
    BY <1>6
    DEF LibraryStep, TrySymbol, TakeResult, Found, NothingFound, CallsNested
  <2>2. pc' = "visit" => /\ rule' = CalledRule(0)'
                         /\ at' = CalledAt(0)'
    BY <1>6
    DEF LibraryStep, TrySymbol, TakeResult, Found, NothingFound, Visit,
        LibraryUnchanged, CalledRule, CalledAt
  <2> QED
    BY <2>1, <2>2 DEF CallsNested
<1>7. CASE UNCHANGED vars
  BY <1>7 DEF vars, evalVars, CallsNested, CalledRule, CalledAt, ChildRule, ChildAt
<1> QED
  BY <1>3, <1>4, <1>5, <1>6, <1>7 DEF Next, Step, CacheStep

LEMMA CallsAreNested == Spec => []CallsNested
<1>1. Init => CallsNested
  <2> SUFFICES ASSUME Init
               PROVE  CallsNested
    OBVIOUS
  <2>1. stack = <<>> /\ pc = "symbols" /\ Len(<<>>) = 0
    BY DEF Init, Begin
  <2> QED
    BY <2>1 DEF CallsNested
<1>2. TypeOK /\ CallsNested /\ [Next]_vars => CallsNested'
  BY CallsStep
<1> QED
  BY <1>1, <1>2, TypeCorrect, PTL DEF Spec

-----------------------------------------------------------------------------
(* What is returned is what the memo has of the visit, or the failure that *)
(* ends a recursion.                                                       *)
FromMemo ==
  LET r == CalledRule(Len(stack))
      i == CalledAt(Len(stack))
      k == <<r, KeyOf(i)>>
  IN
    pc = "return" =>
      /\ k \in DOMAIN history
      /\ \/ history[k].state = "Completed" /\ out = Wrapped(r, i, history[k].out)
         \/ history[k].state = "Cyclic" /\ out = FAILURE

LEMMA VisitFromMemo ==
  ASSUME CallsNested, pc = "visit", NEW o, Return(rule, at, o),
         UNCHANGED <<text, popped, lib, stack, tried>>,
         Record \in DOMAIN history',
         \/ history'[Record].state = "Completed" /\ o = history'[Record].out
         \/ history'[Record].state = "Cyclic" /\ o = FAILURE
  PROVE  FromMemo'
<1>1. /\ CalledRule(Len(stack))' = rule /\ CalledAt(Len(stack))' = at
      /\ KeyOf(CalledAt(Len(stack)))' = KeyOf(at)
      /\ out' = Wrapped(rule, at, o)
  <2>1. rule = CalledRule(Len(stack)) /\ at = CalledAt(Len(stack))
    BY DEF CallsNested
  <2>2. /\ CalledRule(Len(stack))' = CalledRule(Len(stack))
        /\ CalledAt(Len(stack))' = CalledAt(Len(stack))
    BY DEF CalledRule, CalledAt, ChildRule, ChildAt
  <2> QED
    BY <2>1, <2>2 DEF Return, KeyOf, Present
<1>2. <<CalledRule(Len(stack)), KeyOf(CalledAt(Len(stack)))>>' = Record
  BY <1>1 DEF Record
<1>3. \A u : Wrapped(CalledRule(Len(stack)), CalledAt(Len(stack)), u)'
              = Wrapped(rule, at, u)
  BY <1>1 DEF Wrapped, Wraps, RangeBetween, Present
<1>4. Wrapped(rule, at, FAILURE) = FAILURE
  BY DEF Wrapped, Wraps, Succeeds, FAILURE, ReachedAt
<1> QED
  BY <1>1, <1>2, <1>3, <1>4 DEF FromMemo

LEMMA CompleteFromMemo ==
  ASSUME TypeOK, OrderOK, CallsNested, pc = "return", stack # <<>>,
         NEW o, Complete(o)
  PROVE  FromMemo'
<1>1. /\ UNCHANGED <<text, popped, lib, tried>>
      /\ Remember(<<Top.rule, Top.key>>, "Completed", o)
      /\ out' = Wrapped(Top.rule, Top.at, o)
  BY DEF Complete, Return, LibraryUnchanged
<1>2. /\ Len(stack) \in 1 .. Len(stack) /\ Len(stack) \in Nat
      /\ Top.key = KeyOf(Top.at)
  <2>1. Len(stack) \in 1 .. Len(stack) /\ Len(stack) \in Nat
    BY TopType DEF TypeOK
  <2> QED
    BY <2>1 DEF OrderOK, FrameFits, Top
<1>3. /\ Len(stack') = Len(stack) - 1
      /\ \A n \in 1 .. Len(stack') : n \in 1 .. Len(stack) /\ stack'[n] = stack[n]
  BY <1>2, WithoutLast DEF Complete, TypeOK, StackOK
<1>4. CalledRule(Len(stack))' = Top.rule /\ CalledAt(Len(stack))' = Top.at
  <2>1. Len(stack') = Len(stack) - 1 /\ Len(stack) - 1 \in Nat
    BY <1>2, <1>3
  <2>2. Top.rule = CalledRule(Len(stack) - 1) /\ Top.at = CalledAt(Len(stack) - 1)
    BY <1>2 DEF CallsNested, Top
  <2>3. Len(stack) - 1 # 0 => stack'[Len(stack) - 1] = stack[Len(stack) - 1]
    BY <1>2, <1>3
  <2> QED
    BY <1>1, <2>1, <2>2, <2>3 DEF CalledRule, CalledAt, ChildRule, ChildAt
<1>5. /\ KeyOf(CalledAt(Len(stack)))' = Top.key
      /\ \A u : Wrapped(CalledRule(Len(stack)), CalledAt(Len(stack)), u)'
                  = Wrapped(Top.rule, Top.at, u)
  BY <1>1, <1>2, <1>4 DEF KeyOf, Present, Wrapped, Wraps, RangeBetween
<1>6. PICK k : k = <<Top.rule, Top.key>>
  OBVIOUS
<1>7. k \in DOMAIN history' /\ history'[k].state = "Completed" /\ history'[k].out = o
  BY <1>1, <1>6 DEF Remember
<1> QED
  BY <1>1, <1>4, <1>5, <1>6, <1>7 DEF FromMemo

LEMMA FromMemoStep ==
  ASSUME TypeOK, OrderOK, CallsNested, FromMemo, [Next]_vars
  PROVE  FromMemo'
<1>1. CASE VisitCompleted
  <2> DEFINE o == history[Record].out
  <2>1. /\ pc = "visit" /\ Return(rule, at, o)
        /\ UNCHANGED <<text, popped, lib, history, stack, tried>>
        /\ Record \in DOMAIN history /\ history[Record].state = "Completed"
    BY <1>1 DEF VisitCompleted, Remembered, LibraryUnchanged
  <2> HIDE DEF o
  <2>2. o = history'[Record].out
    BY <2>1 DEF o
  <2> QED
    BY <2>1, <2>2, VisitFromMemo
<1>2. CASE VisitCycle
  <2>1. /\ pc = "visit" /\ Return(rule, at, FAILURE)
        /\ UNCHANGED <<text, popped, lib, stack, tried>>
        /\ Remember(Record, "Cyclic", FAILURE)
    BY <1>2 DEF VisitCycle, LibraryUnchanged
  <2>2. Record \in DOMAIN history' /\ history'[Record].state = "Cyclic"
    BY <2>1 DEF Remember
  <2> QED
    BY <2>1, <2>2, VisitFromMemo
<1>3. ASSUME NEW o, pc = "visit", Answer(o)
      PROVE  FromMemo'
  <2>1. /\ Return(rule, at, o)
        /\ UNCHANGED <<text, popped, lib, stack, tried>>
        /\ Remember(Record, "Completed", o)
    BY <1>3 DEF Answer, LibraryUnchanged
  <2>2. /\ Record \in DOMAIN history' /\ history'[Record].state = "Completed"
        /\ o = history'[Record].out
    BY <2>1 DEF Remember
  <2> QED
    BY <1>3, <2>1, <2>2, VisitFromMemo
<1>4. CASE MissingAlias \/ TerminalStep
  BY <1>3, <1>4
  DEF MissingAlias, TerminalStep, AcceptAny, AcceptEnd, AcceptCharRange,
      AcceptValues, Fresh
<1>5. CASE Descend \/ LibraryStep
  BY <1>5 DEF Descend, LibraryStep, TrySymbol, TakeResult, Found, NothingFound, Visit,
              FromMemo
<1>6. CASE ResumeStep
  <2>1. pc = "return" /\ stack # <<>>
    BY <1>6
    DEF ResumeStep, ResumeAlias, ResumeOptional, ResumeNot, ResumeAnyBut,
        ResumeOr, ResumeAnd, ResumeXOr, ResumeSequence, ResumeRepeat, Resumed
  <2>2. ASSUME NEW kid, NEW turn, NEW o, NEW i, Again(kid, turn, o, i)
        PROVE  FromMemo'
    BY <2>2 DEF Again, Visit, FromMemo
  <2> QED
    BY <1>6, <2>1, <2>2, ResumeCalls, CompleteFromMemo
<1>7. CASE UNCHANGED vars
  <2>1. /\ CalledRule(Len(stack))' = CalledRule(Len(stack))
        /\ CalledAt(Len(stack))' = CalledAt(Len(stack))
    BY <1>7 DEF vars, evalVars, CalledRule, CalledAt, ChildRule, ChildAt
  <2> QED
    BY <1>7, <2>1
    DEF vars, evalVars, FromMemo, KeyOf, Present, Wrapped, Wraps, RangeBetween
<1> QED
  BY <1>1, <1>2, <1>4, <1>5, <1>6, <1>7 DEF Next, Step, CacheStep

LEMMA ReturnsAreRemembered == Spec => []FromMemo
<1>1. Init => FromMemo
  BY DEF Init, Begin, FromMemo
<1>2. TypeOK /\ OrderOK /\ CallsNested /\ FromMemo /\ [Next]_vars => FromMemo'
  BY FromMemoStep
<1> QED
  BY <1>1, <1>2, TypeCorrect, OutputsFit, CallsAreNested, PTL DEF Spec

=============================================================================
