--------------------------- MODULE SessionProofs ---------------------------
(***************************************************************************)
(* What holds round after round.  For every library and every series of    *)
(* texts, the invariants of one call of begin outlive the call, and the    *)
(* tokens cut the text up to where the rounds have got.  For any library   *)
(* and any series of texts of PlainGrammars.tla, what is shown of one call *)
(* of begin (MeaningProofs.tla) holds of every round: the tokens are those *)
(* the library means.                                                      *)
(***************************************************************************)
EXTENDS SessionTokens, MeaningProofs

(* What the tokens rest on: a match is made by a symbol of the library,    *)
(* and its output carries the node of that symbol first.                   *)
WinnerOK == /\ Succeeds(best) => winner \in Names
            /\ pc = "found" => /\ out.idx \in Nat
                               /\ out.nodes # <<>>
                               /\ out.nodes[1].type \in Names

RoundInv == TypeOK /\ StackMatchesHistory /\ WithinFetched

SessionInv == RoundInv /\ SessionTypeOK /\ WinnerOK

-----------------------------------------------------------------------------
(* begin.                                                                  *)

LEMMA NoFurther ==
  ASSUME NEW p \in Int, NEW f \in Int, p <= f, NEW i \in {-1, 0}
  PROVE  p + i <= f
OBVIOUS

(* begin finds an empty memo and an empty stack.                           *)
LEMMA CallBeginInv ==
  ASSUME LibraryOK, LibraryOK', WindowTypeOK', UNCHANGED lib, CallBegin(<<>>)
  PROVE  RoundInv' /\ WinnerOK'
<1>1. Len(lib.symbols) \in Nat
  BY LenProperties DEF LibraryOK, Library
<1>2. FAILURE \in Output /\ FAILURE.idx = -1
  BY ReachedAtType DEF Index
<1>3. HistoryOK' /\ StackOK' /\ ResultOK'
  BY <1>2 DEF CallBegin, HistoryOK, StackOK, ResultOK, AnyName
<1>4. ControlOK'
  BY <1>1 DEF CallBegin, ControlOK, Index
<1>5. TypeOK'
  BY <1>3, <1>4 DEF TypeOK
<1>6. StackMatchesHistory'
  BY DEF CallBegin, StackMatchesHistory
<1>7. WithinFetched'
  <2>1. /\ popped' \in Int /\ fetched' \in Int /\ popped' <= fetched'
    <3>1. text' \in Seq(Nat)
      BY TextsAssumption DEF WindowTypeOK
    <3>2. Len(text') \in Nat
      BY <3>1, LenProperties
    <3> QED
      BY <3>2 DEF WindowTypeOK
  <2>2. /\ out' = FAILURE /\ best' = FAILURE /\ at' = 0
        /\ DOMAIN history' = {} /\ Len(stack') = 0
    BY DEF CallBegin
  <2>3. /\ popped' + out'.idx <= fetched' /\ popped' + best'.idx <= fetched'
        /\ popped' + at' <= fetched'
    <3>1. out'.idx \in {-1, 0} /\ best'.idx \in {-1, 0} /\ at' \in {-1, 0}
      BY <1>2, <2>2
    <3> QED
      BY <2>1, <3>1, NoFurther
  <2> QED
    BY <2>2, <2>3 DEF WithinFetched, InStore
<1>8. WinnerOK'
  BY <1>2 DEF CallBegin, WinnerOK, Succeeds
<1> QED
  BY <1>5, <1>6, <1>7, <1>8 DEF RoundInv

-----------------------------------------------------------------------------
(* The steps of a round.                                                   *)

(* begin pops nothing before it returns.                                   *)
LEMMA QuietStep ==
  ASSUME TypeOK, Step, ~Found
  PROVE  /\ UNCHANGED <<popped, lib>>
         /\ pc # "found" /\ pc' # "found"
         /\ \/ UNCHANGED <<best, winner>>
            \/ best' = out /\ winner' \in Names
<1>1. CASE CacheStep
  BY <1>1 DEF CacheStep, VisitCompleted, VisitCycle, Descend, MissingAlias,
     Fresh, Answer, Return, Visit, LibraryUnchanged
<1>2. CASE TerminalStep
  <2>1. pc = "visit" /\ \E o : Answer(o)
    BY <1>2 DEF TerminalStep, AcceptAny, AcceptEnd, AcceptCharRange,
       AcceptValues, Fresh
  <2> QED
    BY <2>1 DEF Answer, Return, LibraryUnchanged
<1>3. CASE ResumeStep
  <2>1. pc = "return"
    BY <1>3 DEF ResumeStep, ResumeAlias, ResumeOptional, ResumeNot,
       ResumeAnyBut, ResumeOr, ResumeAnd, ResumeXOr, ResumeSequence,
       ResumeRepeat, Resumed
  <2>2. \/ \E o : Complete(o)
        \/ \E kid, turn, o, i : Again(kid, turn, o, i)
    BY <1>3, ResumeShape
  <2> QED
    BY <2>1, <2>2 DEF Complete, Again, Return, Visit, LibraryUnchanged
<1>4. CASE TrySymbol
  BY <1>4 DEF TrySymbol, Visit, LibraryUnchanged
<1>5. CASE TakeResult
  <2>1. LibraryOK /\ tried \in 0 .. Len(lib.symbols) /\ tried < Len(lib.symbols)
    BY <1>5 DEF TakeResult, TypeOK, ControlOK
  <2>2. Len(lib.symbols) \in Nat
    BY <2>1, LenProperties DEF LibraryOK, Library
  <2>3. lib.symbols[tried + 1] \in Names
    BY <2>1, <2>2, SymbolType
  <2> QED
    BY <1>5, <2>3 DEF TakeResult
<1>6. CASE NothingFound
  BY <1>6 DEF NothingFound, LibraryUnchanged
<1> QED
  BY <1>1, <1>2, <1>3, <1>4, <1>5, <1>6 DEF Step, LibraryStep

(* popRange erases exactly the match, since all of it has been fetched;    *)
(* and the node of the winning symbol comes first.                         *)
LEMMA FoundPops ==
  ASSUME TypeOK, WithinFetched, WinnerOK, Found
  PROVE  /\ popped' = popped + best.idx
         /\ out'.idx = best.idx /\ best.idx \in Nat
         /\ out'.nodes # <<>> /\ out'.nodes[1].type \in Names
         /\ pc # "found" /\ pc' = "found"
         /\ UNCHANGED <<lib, best, winner>>
<1> DEFINE polled == ReachBetween(0, best.idx)
           left   == popped + Lesser(best.idx, polled - popped)
<1>1. /\ WindowTypeOK /\ best \in Output /\ best.idx \in Nat
      /\ winner \in Names /\ pc = "symbols"
  BY DEF Found, TypeOK, ResultOK, Output, Succeeds, Index, WinnerOK
<1>2. polled \in fetched .. Len(text)
  <2>1. 0 \in Index /\ best.idx \in Int
    BY <1>1 DEF Index
  <2> QED
    BY <1>1, <2>1, ReachBounds
<1>3. popped + best.idx <= fetched
  BY <1>1 DEF WithinFetched, InStore
<1>4. left = popped + best.idx
  <2> HIDE DEF polled
  <2> QED
    BY <1>1, <1>2, <1>3, TextType DEF Lesser
<1>5. popped' = left /\ out' = Under(winner, RangeBetween(left, 0, best.idx), best)
  BY DEF Found
<1>6. /\ Under(winner, RangeBetween(left, 0, best.idx), best).idx = best.idx
      /\ LET nodes == Under(winner, RangeBetween(left, 0, best.idx), best).nodes
         IN  nodes # <<>> /\ nodes[1].type = winner
  <2> HIDE DEF left
  <2> DEFINE root   == [type |-> winner, range |-> RangeBetween(left, 0, best.idx),
                        depth |-> 0]
             cloned == [n \in 1 .. Len(best.nodes) |->
                          [best.nodes[n] EXCEPT !.depth = @ + 1]]
  <2>1. root \in {root} \cup Node /\ cloned \in Seq({root} \cup Node)
    <3>1. best.nodes \in Seq(Node)
      BY <1>1 DEF Output
    <3>2. Len(best.nodes) \in Nat
      BY <3>1, LenProperties
    <3>3. ASSUME NEW n \in 1 .. Len(best.nodes)
          PROVE  [best.nodes[n] EXCEPT !.depth = @ + 1] \in {root} \cup Node
      <4>1. best.nodes[n] \in Node
        BY <3>1, ElementOfSeq
      <4> QED
        BY <4>1, Deeper
    <3>4. cloned \in [1 .. Len(best.nodes) -> {root} \cup Node]
      BY <3>3
    <3> QED
      BY <3>2, <3>4, SeqDef
  <2>2. Under(winner, RangeBetween(left, 0, best.idx), best)
          = [idx |-> best.idx, nodes |-> <<root>> \o cloned]
    BY DEF Under
  <2>3. <<root>> \in Seq({root} \cup Node) /\ Len(<<root>>) = 1 /\ <<root>>[1] = root
    OBVIOUS
  <2> HIDE DEF root, cloned
  <2>4. Len(cloned) \in Nat
    BY <2>1, LenProperties
  <2>5. (<<root>> \o cloned)[1] = root /\ Len(<<root>> \o cloned) = 1 + Len(cloned)
    BY <2>1, <2>3, <2>4, ConcatProperties
  <2>6. <<root>> \o cloned # <<>>
    BY <2>4, <2>5, EmptySeq
  <2> QED
    BY <2>2, <2>5, <2>6 DEF root
<1> QED
  BY <1>1, <1>4, <1>5, <1>6 DEF Found, LibraryUnchanged

-----------------------------------------------------------------------------
(* The main loop.                                                          *)

LEMMA EndingType ==
  ASSUME SessionTypeOK
  PROVE  Ending \in Nat
<1>1. CASE printed = <<>>
  BY <1>1 DEF Ending
<1>2. CASE printed # <<>>
  <2>1. printed \in Seq(Token) /\ Len(printed) \in 1 .. Len(printed)
    BY <1>2, EmptySeq DEF SessionTypeOK
  <2>2. printed[Len(printed)] \in Token
    BY <2>1, ElementOfSeq
  <2> QED
    BY <1>2, <2>2 DEF Ending, Token
<1> QED
  BY <1>1, <1>2

(* A step of begin prints nothing.                                         *)
LEMMA StepInv ==
  ASSUME SessionInv, Step, UNCHANGED printed
  PROVE  SessionInv'
<1>1. TypeOK /\ StackMatchesHistory /\ WithinFetched /\ [Next]_vars
  BY DEF SessionInv, RoundInv, Next
<1>2. RoundInv'
  <2>1. TypeOK'
    BY <1>1, NextType
  <2>2. StackMatchesHistory'
    BY <1>1, StackMatchesHistoryStep
  <2>3. WithinFetched'
    BY <1>1, CacheStepFetched, TerminalStepFetched, ResumeStepFetched,
       LibraryStepFetched DEF Step
  <2> QED
    BY <2>1, <2>2, <2>3 DEF RoundInv
<1>3. /\ popped \in Nat /\ Ending' = Ending
      /\ popped = Ending + (IF pc = "found" THEN out.idx ELSE 0)
      /\ WinnerOK
  BY <1>1, TextType DEF SessionInv, SessionTypeOK, Ending, TypeOK
<1>4. /\ popped' = Ending' + (IF pc' = "found" THEN out'.idx ELSE 0)
      /\ WinnerOK'
  <2>1. CASE Found
    <3>1. /\ popped' = popped + best.idx
          /\ out'.idx = best.idx /\ best.idx \in Nat
          /\ out'.nodes # <<>> /\ out'.nodes[1].type \in Names
          /\ pc # "found" /\ pc' = "found"
          /\ UNCHANGED <<lib, best, winner>>
      BY <1>1, <1>3, <2>1, FoundPops
    <3>2. popped = Ending
      BY <1>3, <3>1, EndingType DEF SessionInv
    <3> QED
      BY <1>3, <3>1, <3>2 DEF WinnerOK, Succeeds
  <2>2. CASE ~Found
    <3>1. /\ UNCHANGED <<popped, lib>>
          /\ pc # "found" /\ pc' # "found"
          /\ \/ UNCHANGED <<best, winner>>
             \/ best' = out /\ winner' \in Names
      BY <1>1, <2>2, QuietStep
    <3> QED
      BY <1>3, <3>1 DEF WinnerOK, Succeeds
  <2> QED
    BY <2>1, <2>2
<1> QED
  BY <1>2, <1>4 DEF SessionInv, SessionTypeOK, RoundInv

LEMMA NextRoundInv ==
  ASSUME SessionInv, NextRound
  PROVE  SessionInv'
<1>1. /\ TypeOK /\ SessionTypeOK /\ WinnerOK /\ LibraryOK /\ pc = "found"
      /\ CallBegin(<<>>)
      /\ printed' = Append(printed, Printed)
      /\ UNCHANGED <<text, popped, fetched, lib>>
  BY DEF SessionInv, RoundInv, TypeOK, NextRound
<1>2. LibraryOK' /\ WindowTypeOK'
  BY <1>1 DEF LibraryOK, WindowTypeOK, TypeOK
<1>3. RoundInv' /\ WinnerOK'
  BY <1>1, <1>2, CallBeginInv
<1>4. /\ printed \in Seq(Token) /\ Len(printed) \in Nat
      /\ popped \in Nat /\ out.idx \in Nat /\ popped = Ending + out.idx
      /\ Ending \in Nat
  BY <1>1, TextType, EndingType, LenProperties
  DEF SessionTypeOK, WinnerOK, TypeOK
<1>5. /\ Printed.from = Ending /\ Printed.to = popped
      /\ Printed \in Token
  <2>1. Tail(out.nodes) \in Seq(Node)
    <3>1. out.nodes \in Seq(Node)
      BY <1>1 DEF TypeOK, ResultOK, Output
    <3> QED
      BY <1>1, <3>1, HeadTailProperties DEF WinnerOK
  <2>2. out.nodes[1].type \in Names
    BY <1>1 DEF WinnerOK
  <2> QED
    BY <1>4, <2>1, <2>2 DEF Printed, Token
<1>6. /\ printed' \in Seq(Token)
      /\ Len(printed') = Len(printed) + 1
      /\ \A n \in 1 .. Len(printed) : printed'[n] = printed[n]
      /\ printed'[Len(printed) + 1] = Printed
  BY <1>1, <1>4, <1>5, AppendProperties
<1>7. ASSUME NEW n \in 1 .. Len(printed')
      PROVE  printed'[n].from = IF n = 1 THEN 0 ELSE printed'[n - 1].to
  <2>1. CASE n \in 1 .. Len(printed)
    <3>1. printed[n].from = IF n = 1 THEN 0 ELSE printed[n - 1].to
      BY <1>1, <2>1 DEF SessionTypeOK
    <3>2. n # 1 => n - 1 \in 1 .. Len(printed)
      BY <1>4, <2>1
    <3> QED
      BY <1>6, <2>1, <3>1, <3>2
  <2>2. CASE n = Len(printed) + 1 /\ printed = <<>>
    <3>1. Ending = 0 /\ Len(printed) = 0
      BY <2>2, EmptySeq DEF Ending
    <3> QED
      BY <1>5, <1>6, <2>2, <3>1
  <2>3. CASE n = Len(printed) + 1 /\ printed # <<>>
    <3>1. Ending = printed[Len(printed)].to /\ Len(printed) \in Nat \ {0}
      BY <1>4, <2>3, EmptySeq DEF Ending
    <3>2. n # 1 /\ n - 1 = Len(printed) /\ printed'[n - 1] = printed[Len(printed)]
      BY <1>6, <2>3, <3>1
    <3> QED
      BY <1>5, <1>6, <2>3, <3>1, <3>2
  <2> QED
    BY <1>4, <1>6, <2>1, <2>2, <2>3
<1>8. Ending' = popped
  <2>1. printed' # <<>>
    BY <1>4, <1>6, EmptySeq
  <2> QED
    BY <1>5, <1>6, <2>1 DEF Ending
<1>9. popped' = Ending' + (IF pc' = "found" THEN out'.idx ELSE 0)
  <2>1. pc' # "found"
    BY <1>1 DEF CallBegin
  <2> QED
    BY <1>1, <1>4, <1>8, <2>1
<1> QED
  BY <1>3, <1>6, <1>7, <1>9 DEF SessionInv, SessionTypeOK, RoundInv

LEMMA NewTextInv ==
  ASSUME SessionInv, NewText
  PROVE  SessionInv'
<1>1. /\ LibraryOK /\ Restart /\ CallBegin(<<>>)
      /\ printed' = <<>> /\ UNCHANGED lib
  BY DEF SessionInv, RoundInv, TypeOK, NewText
<1>2. LibraryOK' /\ WindowTypeOK'
  <2>1. text' \in Texts /\ text' \in Seq(Nat)
    BY <1>1, TextsAssumption DEF Restart
  <2>2. Len(text') \in Nat
    BY <2>1, LenProperties
  <2> QED
    BY <1>1, <2>1, <2>2 DEF LibraryOK, Restart, WindowTypeOK
<1>3. RoundInv' /\ WinnerOK'
  BY <1>1, <1>2, CallBeginInv
<1>4. /\ printed' \in Seq(Token) /\ Len(printed') = 0
      /\ Ending' = 0 /\ popped' = 0 /\ pc' # "found"
  BY <1>1, EmptySeq DEF Ending, Restart, CallBegin
<1> QED
  BY <1>3, <1>4 DEF SessionInv, SessionTypeOK, RoundInv

LEMMA SessionStep ==
  ASSUME SessionInv, [SessionNext]_sessionVars
  PROVE  SessionInv'
<1>1. CASE UNCHANGED sessionVars
  <2>1. UNCHANGED vars /\ UNCHANGED printed
    BY <1>1 DEF sessionVars
  <2>2. RoundInv'
    BY <2>1, StutterType, StutterFetched, StackMatchesHistoryStep
    DEF SessionInv, RoundInv
  <2> QED
    BY <2>1, <2>2
    DEF SessionInv, SessionTypeOK, WinnerOK, Ending, RoundInv, vars, evalVars
<1> QED
  BY <1>1, StepInv, NextRoundInv, NewTextInv DEF SessionNext

LEMMA SessionStart == SessionInit => SessionInv
<1> SUFFICES ASSUME SessionInit
             PROVE  SessionInv
  OBVIOUS
<1>1. Init /\ printed = <<>>
  BY DEF SessionInit
<1>2. TypeOK
  BY <1>1, InitType
<1>3. StackMatchesHistory
  BY <1>1 DEF Init, Begin, StackMatchesHistory
<1>4. WithinFetched
  BY <1>1 DEF Init, WindowInit, Begin, WithinFetched, InStore, FAILURE, ReachedAt
<1>5. WinnerOK
  BY <1>1 DEF Init, Begin, WinnerOK, Succeeds, FAILURE, ReachedAt
<1>6. /\ printed \in Seq(Token) /\ Len(printed) = 0
      /\ Ending = 0 /\ popped = 0 /\ pc # "found"
  BY <1>1, EmptySeq DEF Init, WindowInit, Begin, Ending
<1> QED
  BY <1>2, <1>3, <1>4, <1>5, <1>6 DEF SessionInv, SessionTypeOK, RoundInv

(* The tokens of a session cut each text into pieces, one behind the       *)
(* other, up to what has been popped; and every round keeps its types.     *)
THEOREM TokensArePartition == SessionSpec => []SessionTypeOK
<1>1. SessionInit => SessionInv
  BY SessionStart
<1>2. SessionInv /\ [SessionNext]_sessionVars => SessionInv'
  BY SessionStep
<1>3. SessionInv => SessionTypeOK
  BY DEF SessionInv
<1> QED
  BY <1>1, <1>2, <1>3, PTL DEF SessionSpec

(* In every round of a session the memo and the stack agree, and nothing   *)
(* the evaluator reaches is beyond what the supplier holds: what a round   *)
(* leaves behind does not disturb the next one.                            *)
THEOREM RoundsAreSound == SessionSpec => [](StackMatchesHistory /\ WithinFetched)
<1>1. SessionInit => SessionInv
  BY SessionStart
<1>2. SessionInv /\ [SessionNext]_sessionVars => SessionInv'
  BY SessionStep
<1>3. SessionInv => StackMatchesHistory /\ WithinFetched
  BY DEF SessionInv, RoundInv
<1> QED
  BY <1>1, <1>2, <1>3, PTL DEF SessionSpec

-----------------------------------------------------------------------------
(* What the rounds mean.                                                   *)

(* The match is on its way to be printed under the node of its symbol.     *)
Deepened(nodes) == [n \in DOMAIN nodes |-> [nodes[n] EXCEPT !.depth = @ + 1]]

MatchOnTop == pc = "found" => /\ out.idx = best.idx
                              /\ out.nodes[1].type = winner
                              /\ Tail(out.nodes) = Deepened(best.nodes)
                              /\ winner \in Names

RoundSound == SessionInv /\ Sound /\ MatchOnTop

RoundMeans == /\ pc # "found" => MeaningNow
              /\ Done => ReturnsLongest(Ending)

-----------------------------------------------------------------------------
(* begin forgets all that a round before has left.                         *)

LEMMA CallBeginSound ==
  ASSUME TypeOK', StackMatchesHistory', WithinFetched', lib' \in Libraries,
         CallBegin(<<>>)
  PROVE  Sound' /\ MatchOnTop' /\ RoundMeans'
<1>1. /\ history' = <<>> /\ stack' = <<>> /\ pc' = "symbols" /\ tried' = 0
      /\ best'.idx = -1
  BY DEF CallBegin, FAILURE, ReachedAt
<1>2. DOMAIN history' = {} /\ Len(stack') = 0
  BY <1>1
<1>3. OrderOK' /\ CallsNested' /\ FromMemo' /\ BaseOK' /\ MatchOnTop'
  BY <1>1, <1>2 DEF OrderOK, Nested, CallsNested, FromMemo, BaseOK, MatchOnTop
<1>4. MeaningNow'
  BY <1>1, <1>2 DEF MeaningNow, MemoMeans, Completed, FramesMean, Climbing,
                    ReturnMeans, BestSoFar
<1>5. ~Done'
  BY <1>1 DEF Done
<1> QED
  BY <1>3, <1>4, <1>5 DEF Sound, RoundMeans

(* The root of a match has what was found in it below.                     *)
LEMMA UnderRoot ==
  ASSUME NEW o \in Output, NEW name, NEW range
  PROVE  LET u == Under(name, range, o) IN
           /\ u.idx = o.idx
           /\ u.nodes[1].type = name
           /\ Tail(u.nodes) = Deepened(o.nodes)
<1> DEFINE root == [type |-> name, range |-> range, depth |-> 0]
<1>1. o.nodes \in Seq(Node) /\ Len(o.nodes) \in Nat /\ DOMAIN o.nodes = 1 .. Len(o.nodes)
  BY LenProperties DEF Output
<1>2. Under(name, range, o) = [idx |-> o.idx, nodes |-> <<root>> \o Deepened(o.nodes)]
  BY <1>1 DEF Under, Deepened
<1>3. PICK S : <<root>> \in Seq(S) /\ Deepened(o.nodes) \in Seq(S)
              /\ Len(Deepened(o.nodes)) = Len(o.nodes)
  <2> DEFINE S == {root} \cup Node
  <2>1. ASSUME NEW n \in 1 .. Len(o.nodes)
        PROVE  [o.nodes[n] EXCEPT !.depth = @ + 1] \in S
    BY <1>1, Deeper, ElementOfSeq
  <2>2. Deepened(o.nodes) \in [1 .. Len(o.nodes) -> S]
    BY <1>1, <2>1 DEF Deepened
  <2>3. Deepened(o.nodes) \in Seq(S) /\ Len(Deepened(o.nodes)) = Len(o.nodes)
    BY <1>1, <2>2, LenProperties, SeqDef
  <2>4. <<root>> \in Seq(S)
    OBVIOUS
  <2> QED
    BY <2>3, <2>4
<1> HIDE DEF root
<1>4. /\ (<<root>> \o Deepened(o.nodes))[1] = root
      /\ Tail(<<root>> \o Deepened(o.nodes)) = Deepened(o.nodes)
  BY <1>1, <1>3
<1> QED
  BY <1>2, <1>4 DEF root

-----------------------------------------------------------------------------
(* Every step.                                                             *)

(* A round starts where the last token that was printed ends.              *)
LEMMA RoundStarts ==
  ASSUME RoundSound
  PROVE  Base = Ending /\ Ending \in Nat
<1>1. popped = Ending + (IF pc = "found" THEN out.idx ELSE 0)
      /\ (pc = "found" => out.idx = best.idx /\ out.idx \in Nat)
  BY DEF RoundSound, SessionInv, SessionTypeOK, WinnerOK, MatchOnTop
<1>2. Ending \in Nat
  BY EndingType DEF RoundSound, SessionInv
<1> QED
  BY <1>1, <1>2 DEF Base

LEMMA RoundGoesOn ==
  ASSUME RoundSound, SessionInv', [Next]_vars
  PROVE  RoundSound'
<1>1. Sound'
  BY SoundStep DEF RoundSound, SessionInv, RoundInv
<1>2. CASE Found
  <2>1. best \in Output /\ winner \in Names
    BY <1>2 DEF RoundSound, SessionInv, WinnerOK, Sound, TypeOK, ResultOK, Found
  <2>2. UNCHANGED <<best, winner>> /\ \E range : out' = Under(winner, range, best)
    BY <1>2 DEF Found, LibraryUnchanged
  <2>3. MatchOnTop'
    BY <2>1, <2>2, UnderRoot DEF MatchOnTop
  <2> QED
    BY <1>1, <2>3 DEF RoundSound
<1>3. CASE Step /\ ~Found
  BY <1>1, <1>3, QuietStep DEF RoundSound, Sound, MatchOnTop
<1>4. CASE UNCHANGED vars
  BY <1>1, <1>4 DEF RoundSound, MatchOnTop, vars, evalVars
<1> QED
  BY <1>2, <1>3, <1>4 DEF Next

(* A round that is not misled returns what the rules mean.                 *)
LEMMA RoundGoesRight ==
  ASSUME RoundSound, RoundSound', RoundMeans, ~Misled, [Next]_vars, Ending' = Ending
  PROVE  RoundMeans'
<1>1. ASSUME pc' # "found"
      PROVE  MeaningNow'
  <2>1. pc # "found"
    BY <1>1, NothingElsePops DEF RoundSound, Sound, vars, evalVars
  <2> QED
    BY <1>1, <2>1, MeaningStep DEF RoundSound, RoundMeans
<1>2. ASSUME Done'
      PROVE  ReturnsLongest(Ending)'
  <2>1. PICK p : p = Ending
    OBVIOUS
  <2>2. ReturnsLongest(p)'
    <3>1. CASE Found \/ NothingFound
      <4>1. pc = "symbols"
        BY <3>1 DEF Found, NothingFound
      <4>2. MeaningNow /\ p = popped
        BY <2>1, <4>1, RoundStarts DEF RoundMeans, Base
      <4> QED
        BY <3>1, <4>2, LongestStep DEF RoundSound
    <3>2. CASE Done /\ UNCHANGED vars
      BY <2>1, <3>2, ResultStays DEF RoundMeans
    <3> QED
      BY <1>2, <3>1, <3>2, EndsOnce
  <2> QED
    BY <2>1, <2>2 DEF ReturnsLongest
<1> QED
  BY <1>1, <1>2 DEF RoundMeans

(* The loop goes on with the round, or starts the next.                    *)
LEMMA RoundStep ==
  ASSUME RoundSound, [SessionNext]_sessionVars
  PROVE  /\ RoundSound'
         /\ RoundMeans' \/ ([Next]_vars /\ Ending' = Ending)
<1>1. SessionInv'
  BY SessionStep DEF RoundSound
<1>2. CASE Step /\ UNCHANGED printed
  BY <1>1, <1>2, RoundGoesOn DEF Next, Ending
<1>3. CASE NextRound \/ NewText
  <2>1. CallBegin(<<>>) /\ lib' = lib /\ lib \in Libraries
    BY <1>3 DEF NextRound, NewText, RoundSound, Sound, BaseOK
  <2> QED
    BY <1>1, <2>1, CallBeginSound DEF RoundSound, SessionInv, RoundInv
<1>4. CASE UNCHANGED sessionVars
  <2>1. [Next]_vars /\ Ending' = Ending
    BY <1>4 DEF sessionVars, Ending
  <2> QED
    BY <1>1, <2>1, RoundGoesOn
<1> QED
  BY <1>2, <1>3, <1>4 DEF SessionNext

LEMMA RoundsStart == SessionInit => RoundSound /\ RoundMeans
<1> SUFFICES ASSUME SessionInit
             PROVE  RoundSound /\ RoundMeans
  OBVIOUS
<1>1. SessionInv
  BY SessionStart
<1>2. /\ history = <<>> /\ stack = <<>> /\ pc = "symbols" /\ tried = 0
      /\ best.idx = -1 /\ lib \in Libraries
  BY DEF SessionInit, Init, Begin, FAILURE, ReachedAt
<1>3. DOMAIN history = {} /\ Len(stack) = 0
  BY <1>2
<1>4. OrderOK /\ CallsNested /\ FromMemo /\ BaseOK /\ MatchOnTop
  BY <1>2, <1>3 DEF OrderOK, Nested, CallsNested, FromMemo, BaseOK, MatchOnTop
<1>5. MeaningNow
  BY <1>2, <1>3 DEF MeaningNow, MemoMeans, Completed, FramesMean, Climbing,
                    ReturnMeans, BestSoFar
<1>6. ~Done
  BY <1>2 DEF Done
<1> QED
  BY <1>1, <1>4, <1>5, <1>6 DEF RoundSound, RoundMeans, Sound, SessionInv, RoundInv

LEMMA RoundsStaySound == SessionSpec => []RoundSound
<1>1. RoundSound /\ [SessionNext]_sessionVars => RoundSound'
  BY RoundStep
<1> QED
  BY <1>1, RoundsStart, PTL DEF SessionSpec

(* As long as no round is misled, ...                                      *)
LEMMA RoundsGoRight == SessionSpec /\ []~Misled => [](RoundSound /\ RoundMeans)
<1>1. RoundSound /\ RoundMeans /\ ~Misled /\ [SessionNext]_sessionVars => RoundMeans'
  BY RoundStep, RoundGoesRight
<1> QED
  BY <1>1, RoundsStart, RoundsStaySound, PTL DEF SessionSpec

(* ... and whatever the rounds before have read, as long as this one has   *)
(* not poisoned its memo.                                                  *)
LEMMA CleanRoundStep ==
  ASSUME RoundSound, ~Poisoned => RoundMeans, [SessionNext]_sessionVars, ~Poisoned'
  PROVE  RoundMeans'
<1> SUFFICES ASSUME RoundSound', [Next]_vars, Ending' = Ending
             PROVE  RoundMeans'
  BY RoundStep
<1>1. RoundMeans
  BY PoisonedStays DEF RoundSound
<1>2. ~Misled
  <2>1. Misled => pc # "found"
    BY DEF Misled
  <2>2. ~Poisoned
    BY PoisonedStays DEF RoundSound
  <2> QED
    BY <1>1, <2>1, <2>2, MisledIsPoisoned DEF RoundSound, RoundMeans
<1> QED
  BY <1>1, <1>2, RoundGoesRight

LEMMA CleanRounds == SessionSpec => []((~Poisoned => RoundMeans) /\ RoundSound)
<1>1. RoundSound /\ (~Poisoned => RoundMeans) /\ [SessionNext]_sessionVars
        => (~Poisoned => RoundMeans)'
  BY CleanRoundStep
<1> QED
  BY <1>1, RoundsStart, RoundsStaySound, PTL DEF SessionSpec

-----------------------------------------------------------------------------
(* The tokens.                                                             *)

(* What a round has found is the longest token at its start.               *)
LEMMA FoundIsLongest ==
  ASSUME RoundSound, RoundMeans, pc = "found"
  PROVE  LongestToken(lib, text, Ending) = Printed /\ Printed # NoToken
<1> DEFINE meant   == Candidates(lib, text, Ending)
           winning == First(LongestOf(meant))
<1>1. /\ LongestOf(meant) # {}
      /\ best = meant[winning]
      /\ winner = lib.symbols[winning]
      /\ popped = Ending + best.idx
  BY DEF RoundMeans, ReturnsLongest, Done
<1>2. /\ out.idx = best.idx /\ out.nodes[1].type = winner
      /\ Tail(out.nodes) = Deepened(best.nodes) /\ winner \in Names
      /\ best.idx \in Nat /\ Ending \in Nat
  BY RoundStarts DEF RoundSound, MatchOnTop, SessionInv, WinnerOK
<1>3. Printed = [symbol |-> winner, from |-> Ending, to |-> Ending + best.idx,
                 nodes |-> Deepened(best.nodes)]
  <2>1. popped - out.idx = Ending
    <3> HIDE DEF meant, winning
    <3> QED
      BY <1>1, <1>2
  <2> QED
    BY <1>1, <1>2, <2>1 DEF Printed
<1> HIDE DEF meant
<1>4. LongestToken(lib, text, Ending)
        = [symbol |-> winner, from |-> Ending, to |-> Ending + best.idx,
           nodes |-> Deepened(best.nodes)]
  BY <1>1 DEF LongestToken, Deepened, meant
<1>5. Printed # NoToken
  <2>1. Printed.symbol = winner /\ NoToken.symbol = NoName
    BY <1>3 DEF NoToken
  <2> QED
    BY <1>2, <2>1, LibrariesAssumption
<1> QED
  BY <1>3, <1>4, <1>5

(* A round that has failed was at a place where there is no token.         *)
LEMMA FailedIsNone ==
  ASSUME RoundMeans, pc = "failed"
  PROVE  LongestToken(lib, text, Ending) = NoToken
BY DEF RoundMeans, ReturnsLongest, Done, LongestToken

TokenStep == Abstract!Cut \/ Abstract!Drop

LEMMA RoundsCut ==
  ASSUME RoundSound, RoundMeans, [SessionNext]_sessionVars
  PROVE  TokenStep \/ UNCHANGED <<text, lib, printed>>
<1>1. Abstract!Position = Ending /\ Abstract!LongestHere = LongestToken(lib, text, Ending)
  BY DEF Abstract!Position, Abstract!LongestHere, Ending
<1>2. CASE Step /\ UNCHANGED printed
  BY <1>2, NothingElsePops DEF Next, RoundSound, Sound
<1>3. CASE NextRound
  BY <1>1, <1>3, FoundIsLongest DEF NextRound, TokenStep, Abstract!Cut
<1>4. CASE NewText
  BY <1>1, <1>4, FailedIsNone DEF NewText, Restart, TokenStep, Abstract!Drop
<1>5. CASE UNCHANGED sessionVars
  BY <1>5 DEF sessionVars, vars, evalVars
<1> QED
  BY <1>2, <1>3, <1>4, <1>5 DEF SessionNext

(* In every round that has not poisoned the key of the end of input, the   *)
(* memo answers what the rules mean and begin returns the longest match    *)
(* behind the last token, whatever the rounds before have left or read.    *)
THEOREM RoundsMeanTokens == SessionSpec => [](MemoFaithful /\ LongestBehind(Ending))
<1>1. RoundSound /\ (~Poisoned => RoundMeans) => MemoFaithful /\ LongestBehind(Ending)
  BY FaithfulMemo DEF RoundSound, RoundMeans, MeaningOK, LongestBehind
<1> QED
  BY <1>1, CleanRounds, PTL

(* The main loop is said to cut a text into tokens from its front, each    *)
(* the longest one any symbol of the library means, and to drop the rest   *)
(* where there is none (Tokenizer.tla).  So it does, for every library and *)
(* every series of texts, as long as no rule that is at a character has    *)
(* been given an answer of the end of input that is wrong there.           *)
THEOREM RoundsAreTokens == SessionSpec /\ []~Misled => ImplementsTokenizer
<1>1. SessionInit => Abstract!TokenInit
  BY DEF SessionInit, Init, WindowInit, Abstract!TokenInit
<1>2. RoundSound /\ RoundMeans /\ [SessionNext]_sessionVars
        => [Abstract!TokenNext]_<<text, lib, printed>>
  BY RoundsCut DEF TokenStep, Abstract!TokenNext, Abstract!tokenVars
<1> QED
  BY <1>1, <1>2, RoundsGoRight, PTL
  DEF SessionSpec, ImplementsTokenizer, Abstract!TokenSpec, Abstract!tokenVars

=============================================================================
