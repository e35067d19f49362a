--------------------------- MODULE MeaningProofs ---------------------------
(***************************************************************************)
(* The evaluator returns what the grammar means: for every library and     *)
(* text of PlainGrammars.tla, of any size, the memo holds of every rule    *)
(* what it means where it was visited, and begin returns the longest match *)
(* of a symbol.                                                            *)
(*                                                                         *)
(* The invariant says of each frame at a character what its strategy knows *)
(* of the children before its turn.  Nothing is said of the frames without *)
(* a character, at the end of input or at index -1: their answers can be   *)
(* wrong, and Misled is the moment such an answer comes to be used.        *)
(***************************************************************************)
EXTENDS PlainGrammars, SourceEvaluationProofs

(* Where the match that has been found begins is in the text.              *)
BaseOK == lib \in Libraries /\ (pc = "found" => best.idx \in 0 .. popped)

(* What is known of a call of begin already.                               *)
Sound == /\ TypeOK
         /\ WithinFetched
         /\ OrderOK
         /\ StackMatchesHistory
         /\ CallsNested
         /\ FromMemo
         /\ BaseOK

-----------------------------------------------------------------------------
(* How many characters are left, and where index i is among them: all that *)
(* has no character is their end.                                          *)
Left     == Len(text) - popped
Place(i) == IF Present(i) THEN i ELSE Left

Means(r, i) == Meant(lib, text, popped, r, Place(i))

(* A rule visited above a frame is visited further on in the text, or has  *)
(* a smaller rank; above a frame without a character none has one.         *)
Climbs(frame, r, i) ==
  KeyOf(i) # -1 => /\ frame.key # -1
                   /\ frame.at <= i
                   /\ frame.at = i =>
                        Rank(lib, text, popped, r, i)
                          < Rank(lib, text, popped, frame.rule, i)

Climbing ==
  /\ \A m, n \in 1 .. Len(stack) :
       m < n => Climbs(stack[m], stack[n].rule, stack[n].at)
  /\ pc = "visit" => \A m \in 1 .. Len(stack) : Climbs(stack[m], rule, at)

NeededBy(R) == Greater(1, R.min)

(* A repeat past the visits it needs holds a match of each child so far.   *)
Steady(R, turn, acc, run) ==
  \E n \in NeededBy(R) + 1 .. Len(run) :
    /\ Succeeds(run[n])
    /\ acc = run[n]
    /\ R.max > 0 => n = turn

(* The memo has a match of rule r at a key.                                *)
Recorded(r, key) == /\ <<r, key>> \in Completed
                    /\ Succeeds(history[<<r, key>>].out)

(* One that has missed a child it needs goes on at index -1 all the same,  *)
(* where it can but fail, or be given a match of the end of input without  *)
(* end.                                                                    *)
Lost(R, acc, run) ==
  /\ NeededBy(R) >= 2
  /\ Len(run) = NeededBy(R) + 1
  /\ ~Succeeds(run[Len(run)])
  /\ KeyOf(acc.idx) = -1
  /\ Succeeds(acc) => Recorded(R.kids[1], -1)

(* What a frame at a character knows of the children before its turn.      *)
FrameMeans(frame) ==
  LET R     == lib.rules[frame.rule]
      Of(n) == Meant(lib, text, popped, R.kids[n], frame.at)
      run   == Run(lib, text, popped, frame.rule, frame.at)
      turn  == frame.turn
  IN
    /\ R.kind = "Alias" => Resolve(lib, R.name) # NoRule
    /\ R.kind = "Or"  => \A n \in 1 .. turn - 1 : ~Succeeds(Of(n))
    /\ R.kind = "And" => \A n \in 1 .. turn - 1 : Succeeds(Of(n))
    /\ R.kind \in {"And", "XOr"} /\ turn > 1 => SameAs(frame.acc, Of(1))
    /\ R.kind = "Sequence" /\ turn > 1 =>
         turn <= Len(run) /\ SameAs(frame.acc, run[turn])
    /\ R.kind = "Repeat" /\ turn > 1 =>
         IF turn <= NeededBy(R)
         THEN turn <= Len(run) /\ SameAs(frame.acc, run[turn])
         ELSE /\ R.max > 0 => turn <= R.max + 1
              /\ Steady(R, turn, frame.acc, run) \/ Lost(R, frame.acc, run)

(* What has been returned to the library loop, or to a frame at a          *)
(* character, of a visit at a character.                                   *)
ReturnMeans ==
  LET r == CalledRule(Len(stack))
      i == CalledAt(Len(stack))
  IN
    pc = "return" /\ (stack # <<>> => Top.key # -1) /\ KeyOf(i) # -1 =>
      SameAs(out, Means(r, i))

(* The longest match of the symbols tried so far, the first of these.      *)
BestSoFar ==
  LET Of(n) == Meant(lib, text, popped, lib.symbol[lib.symbols[n]], 0) IN
    \/ best.idx = -1 /\ \A n \in 1 .. tried : ~Succeeds(Of(n))
    \/ \E n \in 1 .. tried :
         /\ Succeeds(Of(n))
         /\ best = Of(n)
         /\ winner = lib.symbols[n]
         /\ \A m \in 1 .. tried : Succeeds(Of(m)) =>
              /\ Of(m).idx \in Nat
              /\ Of(m).idx <= Of(n).idx
              /\ m < n => Of(m).idx < Of(n).idx

(* The record of k is what rule k[1] means at index i.                     *)
Holds(k, i) == SameAs(Wrapped(k[1], i, history[k].out),
                      Meant(lib, text, popped, k[1], i))

MemoMeans == \A k \in Completed : k[2] # -1 => Holds(k, k[2] - popped)

FramesMean == \A n \in 1 .. Len(stack) :
                stack[n].key # -1 => FrameMeans(stack[n])

MeaningNow == /\ MemoMeans
              /\ FramesMean
              /\ Climbing
              /\ ReturnMeans
              /\ BestSoFar

MeaningOK == pc # "found" /\ ~Poisoned => MeaningNow

-----------------------------------------------------------------------------
(* Meanings and outputs.                                                   *)

LEMMA FailureFails ==
  ~Succeeds(FAILURE) /\ \A o : When(FALSE, o) = FAILURE /\ When(TRUE, o) = o
BY DEF Succeeds, FAILURE, ReachedAt, When

LEMMA FirstIs ==
  ASSUME NEW S, S \subseteq Int, NEW n \in S, \A m \in S : n <= m
  PROVE  First(S) = n
<1>1. First(S) \in S /\ \A m \in S : First(S) <= m
  BY DEF First
<1>2. First(S) <= n /\ n <= First(S) /\ First(S) \in Int /\ n \in Int
  BY <1>1
<1> QED
  BY <1>2

(* Joining keeps to what is meant, child by child.                         *)
LEMMA JoinSame ==
  ASSUME NEW a \in Output, NEW x, SameAs(a, x), Succeeds(a), NEW b, NEW y, SameAs(b, y)
  PROVE  SameAs(joinOutputs(a, b), joinOutputs(x, y))
<1>1. a = x
  BY DEF SameAs
<1>2. joinOutputs(x, y).idx = y.idx /\ joinOutputs(a, b).idx = b.idx
  BY DEF joinOutputs
<1>3. Succeeds(y) => b = y
  BY DEF SameAs
<1>4. ~Succeeds(y) => ~Succeeds(b)
  BY DEF SameAs
<1> QED
  BY <1>1, <1>2, <1>3, <1>4 DEF SameAs, Succeeds

(* The first child of a run is joined to nothing.                          *)
LEMMA JoinFirst ==
  ASSUME NEW i, NEW b \in Output, NEW y, SameAs(b, y)
  PROVE  SameAs(b, joinOutputs(ReachedAt(i), y))
<1>1. joinOutputs(ReachedAt(i), y) = [idx |-> y.idx, nodes |-> y.nodes]
  BY DEF joinOutputs, ReachedAt
<1>2. b = [idx |-> b.idx, nodes |-> b.nodes]
  BY DEF Output
<1>3. joinOutputs(ReachedAt(i), y).idx = y.idx
  BY <1>1
<1> QED
  BY <1>1, <1>2, <1>3 DEF SameAs, Succeeds

LEMMA PlaceFacts ==
  ASSUME WindowTypeOK, NEW i \in Index
  PROVE  /\ text \in Texts /\ Len(text) \in Nat
         /\ popped \in 0 .. Len(text) /\ popped \in Nat /\ Left \in Nat
         /\ Place(i) \in 0 .. Left
         /\ KeyOf(i) # -1 => /\ i \in 0 .. Left - 1
                             /\ KeyOf(i) = popped + i
                             /\ Present(i) /\ Place(i) = i
         /\ KeyOf(i) = -1 => ~Present(i) /\ Place(i) = Left
         /\ i \in 0 .. Left - 1 => Present(i) /\ KeyOf(i) = popped + i
BY TextType DEF KeyOf, Present, Place, Left, Index, WindowTypeOK

(* At the place of a rule without a character no symbol has a range.       *)
LEMMA WrappedAtEnd ==
  ASSUME NEW r, NEW i, NEW o, ~Present(i)
  PROVE  Wrapped(r, i, o) = IF Wraps(r, o) THEN Under(lib.rules[r].name, NoRange, o)
                                           ELSE o
BY DEF Wrapped, RangeBetween, Present

LEMMA EndIsNotPresent ==
  ASSUME WindowTypeOK
  PROVE  ~Present(Left)
BY TextType DEF Present, Left, WindowTypeOK

-----------------------------------------------------------------------------
(* What is known of a call of begin already.                               *)

(* popRange erases the match, all of which has been fetched.               *)
LEMMA MatchIsPopped ==
  ASSUME TypeOK, WithinFetched, Found
  PROVE  popped' = popped + best.idx /\ best.idx \in Nat
<1> DEFINE polled == ReachBetween(0, best.idx)
<1>1. /\ WindowTypeOK /\ best.idx \in Nat /\ pc = "symbols"
  BY DEF Found, TypeOK, ResultOK, Output, Succeeds, Index
<1>2. polled \in fetched .. Len(text)
  <2>1. 0 \in Index /\ best.idx \in Int
    BY <1>1 DEF Index
  <2> QED
    BY <1>1, <2>1, ReachBounds
<1>3. popped + best.idx <= fetched
  BY <1>1 DEF WithinFetched, InStore
<1>4. popped' = popped + Lesser(best.idx, polled - popped)
  BY DEF Found
<1> HIDE DEF polled
<1> QED
  BY <1>1, <1>2, <1>3, <1>4, TextType DEF Lesser

LEMMA NothingElsePops ==
  ASSUME TypeOK, [Next]_vars
  PROVE  /\ UNCHANGED <<text, lib>>
         /\ ~Found => /\ popped' = popped
                      /\ pc' = "found" => pc = "found" /\ UNCHANGED vars
         /\ Found => pc # "found" /\ pc' = "found" /\ best' = best
         /\ pc = "found" => UNCHANGED vars
BY DEF TypeOK, ControlOK, Next, Step, CacheStep, TerminalStep, ResumeStep, LibraryStep,
       VisitCompleted, VisitCycle, Descend, MissingAlias, AcceptAny, AcceptEnd,
       AcceptCharRange, AcceptValues, Fresh, Answer, Visit, Return, Again, Complete,
       Resumed, ResumeAlias, ResumeOptional, ResumeNot, ResumeAnyBut, ResumeOr,
       ResumeAnd, ResumeXOr, ResumeSequence, ResumeRepeat, RepeatNeeded, RepeatMore,
       TrySymbol, TakeResult, Found, NothingFound, LibraryUnchanged, vars, evalVars

LEMMA BaseOKStep ==
  ASSUME TypeOK, WithinFetched, BaseOK, [Next]_vars
  PROVE  BaseOK' /\ Base' = Base
<1>1. popped \in Nat /\ lib' = lib
  BY TextType, NothingElsePops DEF TypeOK
<1>2. CASE Found
  BY <1>1, <1>2, MatchIsPopped, NothingElsePops DEF BaseOK, Base
<1>3. CASE ~Found
  BY <1>1, <1>3, NothingElsePops DEF BaseOK, Base, vars, evalVars
<1> QED
  BY <1>2, <1>3

LEMMA SoundStep ==
  ASSUME Sound, TypeOK', WithinFetched', StackMatchesHistory', [Next]_vars
  PROVE  Sound'
BY OrderNext, CallsStep, FromMemoStep, BaseOKStep DEF Sound

LEMMA CallIsSound == Spec => []Sound
<1>1. Init => BaseOK
  BY DEF Init, Begin, BaseOK
<1>2. TypeOK /\ WithinFetched /\ BaseOK /\ [Next]_vars => BaseOK'
  BY BaseOKStep
<1>3. Spec => []BaseOK
  BY <1>1, <1>2, TypeCorrect, FetchedFirst, PTL DEF Spec
<1>4. Spec => []TypeOK /\ []WithinFetched /\ []OrderOK
              /\ []StackMatchesHistory /\ []CallsNested /\ []FromMemo
  BY TypeCorrect, FetchedFirst, OutputsFit, OpenRecordsAreCalls, CallsAreNested,
     ReturnsAreRemembered
<1> QED
  BY <1>3, <1>4, PTL DEF Sound

(* What has poisoned the key of the end of input stays in the memo.        *)
LEMMA PoisonedStays ==
  ASSUME Sound, Sound', [Next]_vars, Poisoned
  PROVE  Poisoned'
<1> DEFINE end == Len(text) - Base
<1>1. PICK k \in Completed : k[2] = -1 /\ ~RecordMeans(k, end)
  BY DEF Poisoned
<1>2. k \in DOMAIN history /\ history[k].state = "Completed"
  BY DEF Completed
<1>3. k \in Completed' /\ history'[k] = history[k]
  BY <1>2, CompletedStays DEF Sound, Completed
<1>4. UNCHANGED <<text, lib>> /\ Base' = Base
  BY NothingElsePops, BaseOKStep DEF Sound
<1>5. ~(end >= 0 /\ popped + end < Len(text))
      /\ ~(end >= 0 /\ popped' + end < Len(text))
  <2>1. /\ popped \in Nat /\ popped' \in Nat /\ Len(text) \in Nat
        /\ Base \in Int /\ Base <= popped /\ Base' <= popped'
    BY <1>4, TextType DEF Sound, TypeOK, WindowTypeOK, BaseOK, Base
  <2> QED
    BY <1>4, <2>1
<1>6. \A o : Wrapped(k[1], end, o)' = Wrapped(k[1], end, o)
  BY <1>4, <1>5 DEF Wrapped, Wraps, RangeBetween
<1>7. ~RecordMeans(k, end)' /\ end' = end
  BY <1>1, <1>3, <1>4, <1>6 DEF RecordMeans
<1> QED
  BY <1>1, <1>3, <1>7 DEF Poisoned

-----------------------------------------------------------------------------
(* What the rules of this library mean.                                    *)

LEMMA Solved ==
  ASSUME Sound, NEW r \in RuleIds, NEW i \in 0 .. Left
  PROVE  /\ Meant(lib, text, popped, r, i) = Says(lib, text, popped, r, i)
         /\ lib.rules[r].kind \in {"Sequence", "Repeat"} =>
              IsRun(lib, text, popped, r, i, Run(lib, text, popped, r, i))
<1>1. /\ popped \in 0 .. Len(text) /\ i \in 0 .. Len(text) - popped
      /\ lib \in Libraries /\ text \in Texts
  BY TextType DEF Sound, BaseOK, TypeOK, WindowTypeOK, Left
<1>2. Solves(lib, text)
  BY <1>1, MeaningAssumption
<1> QED
  BY <1>1, <1>2 DEF Solves

LEMMA AtCharacter ==
  ASSUME Sound, NEW i \in Index, KeyOf(i) # -1
  PROVE  /\ popped \in Nat /\ Len(text) \in Nat /\ Left = Len(text) - popped
         /\ i \in 0 .. Left - 1 /\ i \in 0 .. Left
         /\ KeyOf(i) = popped + i /\ Present(i) /\ Place(i) = i
BY PlaceFacts DEF Sound, TypeOK, Left

LEMMA Ranked ==
  ASSUME Sound, NEW r \in RuleIds, NEW i \in Index, KeyOf(i) # -1
  PROVE  /\ Rank(lib, text, popped, r, i) \in Nat
         /\ \A c \in Tries(lib, text, popped, r, i) :
              Rank(lib, text, popped, c, i) < Rank(lib, text, popped, r, i)
<1>1. /\ popped \in 0 .. Len(text) /\ i \in 0 .. Len(text) - popped - 1
      /\ lib \in Libraries /\ text \in Texts
  BY AtCharacter, PlaceFacts DEF Sound, BaseOK, TypeOK
<1> QED
  BY <1>1, LeftAssumption DEF NotLeftRecursive

(* o is what rule r means at index i.                                      *)
Right(r, i, o) == SameAs(Wrapped(r, i, o), Means(r, i))

LEMMA PlainRight ==
  ASSUME Sound, NEW r \in RuleIds, NEW i \in Index, KeyOf(i) # -1,
         lib.rules[r].kind # "Alias", NEW o, SameAs(o, Says(lib, text, popped, r, i))
  PROVE  Right(r, i, o)
<1>1. Means(r, i) = Says(lib, text, popped, r, i)
  BY AtCharacter, Solved DEF Means
<1>2. Wrapped(r, i, o) = o
  BY DEF Wrapped, Wraps
<1> QED
  BY <1>1, <1>2 DEF Right

LEMMA MatchesStarts ==
  ASSUME WindowTypeOK, NEW v \in Seq(Nat), NEW i \in 0 .. Left
  PROVE  Matches(v, i) <=> Starts(text, popped + i, v)
<1>1. /\ text \in Seq(Nat) /\ Len(text) \in Nat /\ Len(v) \in Nat /\ i \in Nat
      /\ popped \in Nat
  BY TextType, LenProperties DEF WindowTypeOK
<1>2. v # <<>> => Len(v) \in 1 .. Len(v)
  BY <1>1, EmptySeq
<1>3. ASSUME NEW n \in 1 .. Len(v)
      PROVE  Present(i + n - 1) <=> popped + i + n <= Len(text)
  BY <1>1 DEF Present
<1>4. ASSUME Matches(v, i)
      PROVE  Starts(text, popped + i, v)
  <2>1. popped + i + Len(v) <= Len(text)
    BY <1>2, <1>3, <1>4 DEF Matches
  <2> QED
    BY <1>3, <1>4, <2>1 DEF Matches, Starts
<1>5. ASSUME Starts(text, popped + i, v), NEW n \in 1 .. Len(v)
      PROVE  Present(i + n - 1) /\ text[popped + i + n] = v[n]
  <2>1. popped + i + n <= Len(text)
    BY <1>1, <1>5 DEF Starts
  <2> QED
    BY <1>3, <1>5, <2>1 DEF Starts
<1> QED
  BY <1>4, <1>5 DEF Matches, Starts

(* What is answered without visiting a child.                              *)
LEMMA AnswerRight ==
  ASSUME Sound, TerminalStep \/ MissingAlias, KeyOf(at) # -1
  PROVE  \E o \in Output : Answer(o) /\ Right(rule, at, o)
<1>1. pc = "visit"
  BY DEF TerminalStep, AcceptAny, AcceptEnd, AcceptCharRange, AcceptValues,
         MissingAlias, Fresh
<1>2. /\ rule \in RuleIds /\ at \in Index /\ FAILURE \in Output
      /\ Present(at) => ReachedAt(at + 1) \in Output
  BY <1>1, VisitType, ReachedAtType DEF Sound
<1>3. /\ popped \in Nat /\ Len(text) \in Nat /\ at \in 0 .. Left - 1
      /\ at \in 0 .. Left /\ at \in Nat /\ Present(at) /\ popped + at < Len(text)
  BY <1>1, <1>2, AtCharacter DEF Left
<1> DEFINE R == lib.rules[rule]
<1>4. ASSUME NEW o \in Output, R.kind # "Alias", Answer(o),
             SameAs(o, Says(lib, text, popped, rule, at))
      PROVE  \E u \in Output : Answer(u) /\ Right(rule, at, u)
  BY <1>1, <1>2, <1>4, PlainRight
<1>5. \A o : SameAs(o, o)
  BY DEF SameAs
<1>6. CASE AcceptAny
  <2>1. R.kind = "Any" /\ Answer(ReachedAt(at + 1))
    BY <1>3, <1>6 DEF AcceptAny, Fresh
  <2>2. Says(lib, text, popped, rule, at) = ReachedAt(at + 1)
    BY <1>3, <2>1 DEF Says, Equation, When
  <2> QED
    BY <1>2, <1>3, <1>4, <1>5, <2>1, <2>2
<1>7. CASE AcceptEnd
  <2>1. R.kind = "End" /\ Answer(FAILURE)
    BY <1>3, <1>7 DEF AcceptEnd, Fresh
  <2>2. Says(lib, text, popped, rule, at) = FAILURE
    BY <1>3, <2>1 DEF Says, Equation, When
  <2> QED
    BY <1>2, <1>4, <1>5, <2>1, <2>2
<1>8. CASE AcceptCharRange
  <2> DEFINE lo == R.values[1][1]
             hi == R.values[2][1]
             c  == text[popped + at + 1]
  <2>1. /\ R.kind = "CharRange"
        /\ Answer(IF lo <= c /\ c <= hi THEN ReachedAt(at + 1) ELSE FAILURE)
    BY <1>3, <1>8 DEF AcceptCharRange, Fresh
  <2>2. lo \in Int /\ hi \in Int /\ c \in Int
    <3>1. R.values \in Seq(Seq(Nat)) /\ Len(R.values) = 2
          /\ Len(R.values[1]) = 1 /\ Len(R.values[2]) = 1
      BY <1>2, <2>1, RuleType DEF Sound, TypeOK, LibraryOK, WellBuilt, Rule
    <3>2. R.values[1] \in Seq(Nat) /\ R.values[2] \in Seq(Nat)
      BY <3>1, ElementOfSeq
    <3>3. lo \in Nat /\ hi \in Nat
      <4>1. ASSUME NEW v \in Seq(Nat), Len(v) = 1
            PROVE  v[1] \in Nat
        BY <4>1
      <4> QED
        BY <3>1, <3>2, <4>1
    <3>4. popped + at + 1 \in 1 .. Len(text) /\ text \in Seq(Nat)
      BY <1>3, TextType DEF Sound, TypeOK
    <3> QED
      BY <3>3, <3>4, ElementOfSeq
  <2>3. c \in lo .. hi <=> lo <= c /\ c <= hi
    BY <2>2
  <2>4. Says(lib, text, popped, rule, at)
          = IF lo <= c /\ c <= hi THEN ReachedAt(at + 1) ELSE FAILURE
    BY <1>3, <2>1, <2>3 DEF Says, Equation, When
  <2> QED
    BY <1>2, <1>3, <1>4, <1>5, <2>1, <2>4
<1>9. CASE AcceptValues
  <2> DEFINE hits == {n \in DOMAIN R.values : Starts(text, popped + at, R.values[n])}
  <2>1. R.kind \in {"EqualChar", "EqualString"}
    BY <1>9 DEF AcceptValues, Fresh
  <2>2. Says(lib, text, popped, rule, at)
          = When(hits # {}, ReachedAt(at + Len(R.values[First(hits)])))
    BY <2>1 DEF Says, Equation
  <2>3. /\ R.values \in Seq(Seq(Nat)) /\ DOMAIN R.values = 1 .. Len(R.values)
        /\ Len(R.values) \in Nat
    BY <1>2, RuleType, LenProperties DEF Sound, TypeOK, Rule
  <2>4. \A n \in 1 .. Len(R.values) :
          Matches(R.values[n], at) <=> Starts(text, popped + at, R.values[n])
    BY <1>3, <2>3, ElementOfSeq, MatchesStarts DEF Sound, TypeOK
  <2>5. ASSUME NEW n \in 1 .. Len(R.values), Matches(R.values[n], at),
               \A m \in 1 .. (n - 1) : ~Matches(R.values[m], at),
               Answer(ReachedAt(at + Len(R.values[n])))
        PROVE  \E o \in Output : Answer(o) /\ Right(rule, at, o)
    <3>1. n \in hits /\ hits \subseteq Int
      BY <2>3, <2>4, <2>5
    <3>2. \A m \in hits : n <= m
      <4> SUFFICES ASSUME NEW m \in hits, m < n
                   PROVE  FALSE
        BY <2>3, <3>1
      <4>1. m \in 1 .. (n - 1) /\ m \in 1 .. Len(R.values)
        BY <2>3
      <4> QED
        BY <2>4, <2>5, <4>1
    <3>3. First(hits) = n
      <4> HIDE DEF hits
      <4> QED
        BY <3>1, <3>2, FirstIs
    <3>4. Says(lib, text, popped, rule, at) = ReachedAt(at + Len(R.values[n]))
      BY <2>2, <3>1, <3>3 DEF When
    <3>5. ReachedAt(at + Len(R.values[n])) \in Output
      <4>1. R.values[n] \in Seq(Nat)
        BY <2>3, ElementOfSeq
      <4>2. Len(R.values[n]) \in Nat
        BY <4>1, LenProperties
      <4>3. at + Len(R.values[n]) \in Nat
        BY <1>3, <4>2
      <4> QED
        BY <4>3, ReachedAtType DEF Index
    <3> QED
      BY <1>4, <1>5, <2>1, <2>5, <3>4, <3>5
  <2>6. ASSUME \A n \in 1 .. Len(R.values) : ~Matches(R.values[n], at),
               Answer(FAILURE)
        PROVE  \E o \in Output : Answer(o) /\ Right(rule, at, o)
    <3>1. hits = {}
      BY <2>3, <2>4, <2>6
    <3>2. Says(lib, text, popped, rule, at) = FAILURE
      BY <2>2, <3>1 DEF When
    <3> QED
      BY <1>2, <1>4, <1>5, <2>1, <2>6, <3>2
  <2> QED
    BY <1>9, <2>5, <2>6 DEF AcceptValues
<1>10. CASE MissingAlias
  <2>1. /\ R.kind = "Alias" /\ Resolve(lib, R.name) = NoRule
        /\ Answer(FAILURE)
    BY <1>10 DEF MissingAlias, Fresh
  <2>2. Says(lib, text, popped, rule, at) = FAILURE
    BY <2>1 DEF Says, Equation
  <2>3. Means(rule, at) = FAILURE
    BY <1>1, <1>2, <2>2, AtCharacter, Solved DEF Means
  <2>4. Wrapped(rule, at, FAILURE) = FAILURE
    BY FailureFails DEF Wrapped, Wraps
  <2> QED
    BY <1>2, <1>5, <2>1, <2>3, <2>4 DEF Right
<1> QED
  BY <1>6, <1>7, <1>8, <1>9, <1>10 DEF TerminalStep

-----------------------------------------------------------------------------
(* Climbing.                                                               *)

(* Where a frame visits its child, no rule but one it tries is visited at  *)
(* its own character.                                                      *)
LEMMA ChildTried ==
  ASSUME Sound, pc # "found", NEW f \in Frame, FrameOK(f), FrameFits(f),
         f.key # -1, FrameMeans(f), ChildRule(f) # NoRule,
         ChildAt(f) = f.at
  PROVE  ChildRule(f) \in Tries(lib, text, popped, f.rule, f.at)
<1> DEFINE R   == lib.rules[f.rule]
           i   == f.at
           run == Run(lib, text, popped, f.rule, i)
<1>1. /\ f.rule \in RuleIds /\ f.at \in Index /\ f.turn \in Nat /\ f.turn >= 1
      /\ f.acc \in Output /\ f.acc.idx \in Index
      /\ f.key = KeyOf(f.at)
  BY DEF Frame, FrameOK, FrameFits, Output
<1>2. i \in 0 .. Left /\ Left \in Nat /\ i \in Int
  BY <1>1, AtCharacter
<1>3. /\ R.kids \in Seq(RuleIds) /\ DOMAIN R.kids = 1 .. Len(R.kids)
      /\ Len(R.kids) \in Nat
      /\ R.kind \in Unary \cup Collections \cup {"Alias"}
      /\ R.kind \in Collections => f.turn \in 1 .. Len(R.kids)
  BY <1>1, RuleType, LenProperties DEF Sound, TypeOK, FrameOK
<1>4. CASE R.kind = "Alias"
  BY <1>4 DEF ChildRule, Tries, Unary
<1>5. CASE R.kind \in Unary
  BY <1>5 DEF ChildRule, Tries, Unary
<1>6. CASE R.kind = "Or"
  <2>1. ChildRule(f) = R.kids[f.turn]
    BY <1>6 DEF ChildRule, Unary
  <2>2. \A n \in 1 .. f.turn - 1 : ~Succeeds(Meant(lib, text, popped, R.kids[n], i))
    BY <1>2, <1>6 DEF FrameMeans
  <2>3. Tries(lib, text, popped, f.rule, i)
          = {R.kids[n] : n \in {m \in DOMAIN R.kids :
               \A k \in 1 .. m - 1 : ~Succeeds(Meant(lib, text, popped, R.kids[k], i))}}
    BY <1>6 DEF Tries, Unary
  <2>4. f.turn \in DOMAIN R.kids
    BY <1>3, <1>6 DEF Collections
  <2> QED
    BY <2>1, <2>2, <2>3, <2>4
<1>7. CASE R.kind = "And"
  <2>1. ChildRule(f) = R.kids[f.turn]
    BY <1>7 DEF ChildRule, Unary
  <2>2. \A n \in 1 .. f.turn - 1 : Succeeds(Meant(lib, text, popped, R.kids[n], i))
    BY <1>2, <1>7 DEF FrameMeans
  <2>3. Tries(lib, text, popped, f.rule, i)
          = {R.kids[n] : n \in {m \in DOMAIN R.kids :
               \A k \in 1 .. m - 1 : Succeeds(Meant(lib, text, popped, R.kids[k], i))}}
    BY <1>7 DEF Tries, Unary
  <2>4. f.turn \in DOMAIN R.kids
    BY <1>3, <1>7 DEF Collections
  <2> QED
    BY <2>1, <2>2, <2>3, <2>4
<1>8. CASE R.kind = "XOr"
  <2>1. ChildRule(f) = R.kids[f.turn]
    BY <1>8 DEF ChildRule, Unary
  <2> QED
    BY <1>3, <1>8, <2>1 DEF Tries, Collections, Unary
<1>9. CASE R.kind = "Sequence"
  <2>1. ChildRule(f) = R.kids[f.turn]
    BY <1>9 DEF ChildRule, Unary
  <2>2. IsRun(lib, text, popped, f.rule, i, run)
    BY <1>1, <1>2, <1>9, Solved
  <2>3. f.turn <= Len(run) /\ run[f.turn].idx = i
    <3>1. CASE f.turn = 1
      BY <2>2, <3>1 DEF IsRun, ReachedAt
    <3>2. CASE f.turn > 1
      <4>1. f.turn <= Len(run) /\ SameAs(f.acc, run[f.turn])
        BY <1>2, <1>9, <3>2 DEF FrameMeans
      <4>2. ChildAt(f) = f.acc.idx
        BY <1>9, <3>2 DEF ChildAt
      <4>3. f.acc.idx = i /\ Succeeds(f.acc)
        BY <1>1, <1>2, <4>2, AtCharacter DEF Succeeds
      <4> QED
        BY <4>1, <4>3 DEF SameAs
    <3> QED
      BY <1>1, <3>1, <3>2
  <2> QED
    BY <1>3, <1>9, <2>1, <2>3 DEF Tries, Collections, Unary
<1> QED
  BY <1>3, <1>4, <1>5, <1>6, <1>7, <1>8, <1>9 DEF Collections

LEMMA ChildClimbs ==
  ASSUME Sound, pc # "found", NEW f \in Frame, FrameOK(f), FrameFits(f),
         f.key # -1 => FrameMeans(f), ChildRule(f) # NoRule
  PROVE  Climbs(f, ChildRule(f), ChildAt(f))
<1> DEFINE i == ChildAt(f)
<1> SUFFICES ASSUME KeyOf(i) # -1
             PROVE  /\ f.key # -1 /\ f.at <= i
                    /\ f.at = i =>
                         Rank(lib, text, popped, ChildRule(f), i)
                           < Rank(lib, text, popped, f.rule, i)
  BY DEF Climbs
<1>1. /\ f.rule \in RuleIds /\ f.at \in Index /\ f.turn \in Nat
      /\ f.acc.idx \in Index /\ f.key = KeyOf(f.at)
  BY DEF Frame, FrameFits, Output
<1>2. f.key # -1 /\ f.at <= i
  <2>1. CASE i = f.at
    BY <1>1, <2>1 DEF Index
  <2>2. CASE i = f.acc.idx /\ f.turn > 1
    <3>1. f.acc.idx \in 0 .. Left - 1 /\ popped \in Nat /\ Len(text) \in Nat
      BY <1>1, <2>2, AtCharacter
    <3>2. Succeeds(f.acc) /\ Fits(f.acc, f.key)
      BY <2>2, <3>1 DEF Succeeds, FrameFits
    <3>3. f.key # -1
      BY <3>1, <3>2 DEF Fits, Left
    <3>4. f.key = popped + f.at /\ f.at \in Int
      BY <1>1, <3>3, AtCharacter
    <3> QED
      BY <2>2, <3>1, <3>2, <3>3, <3>4 DEF Fits
  <2> QED
    BY <2>1, <2>2 DEF ChildAt
<1>3. ASSUME f.at = i
      PROVE  Rank(lib, text, popped, ChildRule(f), i)
               < Rank(lib, text, popped, f.rule, i)
  <2>1. ChildRule(f) \in Tries(lib, text, popped, f.rule, i)
    BY <1>1, <1>2, <1>3, ChildTried
  <2> QED
    BY <1>1, <1>3, <2>1, Ranked
<1> QED
  BY <1>2, <1>3

LEMMA ClimbsOn ==
  ASSUME Sound,
         NEW f \in Frame, NEW g \in Frame, NEW r \in RuleIds, NEW i \in Index,
         FrameFits(g), Climbs(f, g.rule, g.at), Climbs(g, r, i)
  PROVE  Climbs(f, r, i)
<1> SUFFICES ASSUME KeyOf(i) # -1
             PROVE  Climbs(f, r, i)
  BY DEF Climbs
<1>1. /\ f.rule \in RuleIds /\ g.rule \in RuleIds
      /\ f.at \in Int /\ g.at \in Int /\ i \in Int /\ g.key = KeyOf(g.at)
  BY DEF Frame, Index, FrameFits
<1>2. /\ Rank(lib, text, popped, f.rule, i) \in Int
      /\ Rank(lib, text, popped, g.rule, i) \in Int
      /\ Rank(lib, text, popped, r, i) \in Int
  BY <1>1, Ranked
<1> QED
  BY <1>1, <1>2 DEF Climbs

-----------------------------------------------------------------------------
(* Calls and returns.                                                      *)

(* What the memo has stays there.                                          *)
MemoKept == \A k \in Completed : k \in Completed' /\ history'[k] = history[k]

LEMMA MemoGrows ==
  ASSUME NEW record, NEW state, NEW o, Remember(record, state, o),
         record \notin Completed
  PROVE  MemoKept
BY DEF MemoKept, Remember, Completed

LEMMA FrameKept ==
  ASSUME UNCHANGED <<text, popped, lib>>, MemoKept, NEW f
  PROVE  FrameMeans(f) => FrameMeans(f)'
<1>1. \A r : Recorded(r, -1) => Recorded(r, -1)'
  BY DEF Recorded, MemoKept
<1>2. \A R, acc, run : Lost(R, acc, run) => Lost(R, acc, run)'
  BY <1>1 DEF Lost, NeededBy, KeyOf, Present
<1>3. \A R, turn, acc, run : Steady(R, turn, acc, run)' <=> Steady(R, turn, acc, run)
  BY DEF Steady, NeededBy
<1> QED
  BY <1>2, <1>3 DEF FrameMeans, NeededBy

(* One record is added to the memo, or completed.                          *)
LEMMA MemoStep ==
  ASSUME UNCHANGED <<text, popped, lib>>, MemoMeans,
         NEW record, NEW state, NEW o, Remember(record, state, o),
         state = "Completed" /\ record[2] # -1 =>
           SameAs(Wrapped(record[1], record[2] - popped, o),
                  Meant(lib, text, popped, record[1], record[2] - popped))
  PROVE  MemoMeans'
<1> SUFFICES ASSUME NEW k \in Completed', k[2] # -1
             PROVE  Holds(k, k[2] - popped)'
  BY DEF MemoMeans
<1>1. k \in DOMAIN history' /\ history'[k].state = "Completed"
  BY DEF Completed
<1>2. CASE k = record
  <2>1. history'[k] = [state |-> state, out |-> o]
    BY <1>1, <1>2 DEF Remember
  <2> QED
    BY <1>1, <1>2, <2>1 DEF Holds, Wrapped, Wraps, RangeBetween
<1>3. CASE k # record
  <2>1. k \in DOMAIN history /\ history'[k] = history[k]
    BY <1>1, <1>3 DEF Remember
  <2>2. Holds(k, k[2] - popped)
    BY <1>1, <2>1 DEF MemoMeans, Completed
  <2> QED
    BY <2>1, <2>2 DEF Holds, Wrapped, Wraps, RangeBetween
<1> QED
  BY <1>2, <1>3

(* An answer that is used is right, unless it misleads.                    *)
LEMMA AnswerMeant ==
  ASSUME Sound, MeaningNow, ~Misled, pc = "return", stack # <<>> => Top.key # -1,
         CalledAt(Len(stack)) \in Nat
  PROVE  SameAs(out, Means(CalledRule(Len(stack)), CalledAt(Len(stack))))
<1> DEFINE i == CalledAt(Len(stack))
<1>1. i # -1 /\ i \in Index
  BY DEF Index
<1>2. CASE KeyOf(i) # -1
  BY <1>2 DEF MeaningNow, ReturnMeans
<1>3. CASE KeyOf(i) = -1
  <2>1. ~Present(i) /\ Place(i) = Left
    BY <1>1, <1>3, PlaceFacts DEF Sound, TypeOK
  <2> QED
    BY <1>1, <2>1 DEF Misled, Means, Left
<1> QED
  BY <1>2, <1>3

(* What misleads is in the memo.                                           *)
LEMMA MisledIsPoisoned ==
  ASSUME Sound, MeaningNow, Misled
  PROVE  Poisoned
<1> DEFINE r == CalledRule(Len(stack))
           i == CalledAt(Len(stack))
<1>1. /\ pc = "return" /\ (stack # <<>> => Top.key # -1) /\ ~Present(i)
      /\ ~SameAs(out, Meant(lib, text, popped, r, Left))
  BY DEF Misled, Left
<1>2. PICK k : k = <<r, KeyOf(i)>>
  OBVIOUS
<1>3. KeyOf(i) = -1 /\ k = <<r, -1>> /\ k[1] = r /\ k[2] = -1
  BY <1>1, <1>2 DEF KeyOf
<1>4. Base = popped
  BY <1>1 DEF Base
<1>5. CASE /\ k \in DOMAIN history /\ history[k].state = "Completed"
            /\ out = Wrapped(r, i, history[k].out)
  <2>1. Wrapped(r, i, history[k].out) = Wrapped(r, Left, history[k].out)
    <3>1. ~Present(Left)
      BY EndIsNotPresent DEF Sound, TypeOK
    <3> QED
      BY <1>1, <3>1, WrappedAtEnd
  <2> QED
    BY <1>1, <1>3, <1>4, <1>5, <2>1 DEF Poisoned, RecordMeans, Left, Completed
<1>6. CASE k \in DOMAIN history /\ history[k].state = "Cyclic"
  <2>1. PICK n \in 1 .. Len(stack) : RecordOf(stack[n]) = k
    BY <1>6 DEF Sound, StackMatchesHistory, IsOpen
  <2>2. stack[n].key = -1
    BY <1>3, <2>1 DEF RecordOf
  <2>3. stack # <<>> /\ Len(stack) \in Nat /\ n # Len(stack)
    BY <1>1, <2>1, <2>2, EmptySeq, LenProperties DEF Top, Sound, TypeOK, StackOK
  <2>4. Len(stack) \in 1 .. Len(stack) /\ n < Len(stack)
    BY <2>1, <2>3
  <2>5. Climbs(stack[n], Top.rule, Top.at)
    BY <2>1, <2>4 DEF MeaningNow, Climbing, Top
  <2>6. Top.key = KeyOf(Top.at)
    BY <1>1, <2>4 DEF Sound, OrderOK, FrameFits, Top
  <2> QED
    BY <1>1, <2>2, <2>3, <2>5, <2>6 DEF Climbs
<1> QED
  BY <1>1, <1>2, <1>5, <1>6 DEF Sound, FromMemo

(* A visit returns without a frame of its own.                             *)
LEMMA VisitMeans ==
  ASSUME Sound, MeaningNow, pc = "visit", NEW o, Return(rule, at, o),
         UNCHANGED <<text, popped, lib, stack, tried, best, winner>>,
         MemoMeans', MemoKept,
         (stack # <<>> => Top.key # -1) /\ KeyOf(at) # -1 => Right(rule, at, o)
  PROVE  MeaningNow'
<1>1. FramesMean'
  BY FrameKept DEF MeaningNow, FramesMean
<1>2. Climbing'
  BY DEF MeaningNow, Climbing, Climbs, KeyOf, Present, Return
<1>3. /\ CalledRule(Len(stack))' = rule /\ CalledAt(Len(stack))' = at
      /\ KeyOf(CalledAt(Len(stack)))' = KeyOf(at)
      /\ out' = Wrapped(rule, at, o)
  <2>1. rule = CalledRule(Len(stack)) /\ at = CalledAt(Len(stack))
    BY DEF Sound, CallsNested
  <2>2. /\ CalledRule(Len(stack))' = CalledRule(Len(stack))
        /\ CalledAt(Len(stack))' = CalledAt(Len(stack))
    BY DEF CalledRule, CalledAt, ChildRule, ChildAt
  <2> QED
    BY <2>1, <2>2 DEF Return, KeyOf, Present
<1>4. ReturnMeans'
  <2>1. (stack # <<>> => Top.key # -1)' <=> (stack # <<>> => Top.key # -1)
    BY DEF Top
  <2>2. Means(CalledRule(Len(stack)), CalledAt(Len(stack)))' = Means(rule, at)
    BY <1>3 DEF Means, Place, Left, Present
  <2> QED
    BY <1>3, <2>1, <2>2 DEF ReturnMeans, Right
<1>5. BestSoFar'
  BY DEF MeaningNow, BestSoFar
<1> QED
  BY <1>1, <1>2, <1>4, <1>5 DEF MeaningNow

(* No rule that is being evaluated is visited again for a frame at a       *)
(* character, or for the library.                                          *)
LEMMA NoCycle ==
  ASSUME Sound, MeaningNow, VisitCycle
  PROVE  stack # <<>> /\ Top.key = -1
<1>1. /\ pc = "visit" /\ Record \in DOMAIN history /\ IsOpen(Record)
      /\ rule \in RuleIds /\ at \in Index
  BY VisitType DEF VisitCycle, Remembered, IsOpen, Sound
<1>2. PICK n \in 1 .. Len(stack) : RecordOf(stack[n]) = Record
  BY <1>1 DEF Sound, StackMatchesHistory
<1>3. stack[n].rule = rule /\ stack[n].key = KeyOf(at)
  BY <1>2 DEF RecordOf, Record
<1>4. stack \in Seq(Frame) /\ Len(stack) \in Nat
  BY LenProperties DEF Sound, TypeOK, StackOK
<1>5. stack[n].at \in Index /\ stack[n].key = KeyOf(stack[n].at)
  <2>1. stack[n] \in Frame
    BY <1>4, ElementOfSeq
  <2> QED
    BY <1>1, <2>1 DEF Frame, Sound, OrderOK, FrameFits
<1>6. KeyOf(at) = -1
  <2> SUFFICES ASSUME KeyOf(at) # -1
               PROVE  FALSE
    OBVIOUS
  <2>1. Climbs(stack[n], rule, at)
    BY <1>1 DEF MeaningNow, Climbing
  <2>2. stack[n].at = at
    <3>1. popped \in Nat /\ KeyOf(at) = popped + at /\ at \in Int
      BY <1>1, AtCharacter
    <3>2. KeyOf(stack[n].at) = popped + stack[n].at /\ stack[n].at \in Int
      BY <1>3, <1>5, AtCharacter
    <3>3. popped + at = popped + stack[n].at
      BY <1>3, <1>5, <3>1, <3>2
    <3> QED
      BY <3>1, <3>2, <3>3
  <2>3. Rank(lib, text, popped, rule, at) < Rank(lib, text, popped, rule, at)
    BY <1>3, <2>1, <2>2 DEF Climbs
  <2>4. Rank(lib, text, popped, rule, at) \in Nat
    BY <1>1, Ranked
  <2> QED
    BY <2>3, <2>4
<1>7. CASE n = Len(stack)
  BY <1>3, <1>4, <1>6, <1>7 DEF Top
<1>8. CASE n # Len(stack)
  <2>1. Len(stack) \in 1 .. Len(stack) /\ n < Len(stack)
    BY <1>4, <1>8
  <2>2. Climbs(stack[n], Top.rule, Top.at)
    BY <2>1 DEF MeaningNow, Climbing, Top
  <2>3. Top.key = KeyOf(Top.at)
    BY <1>1, <2>1 DEF Sound, OrderOK, FrameFits, Top
  <2> QED
    BY <1>3, <1>6, <2>1, <2>2, <2>3 DEF Climbs
<1> QED
  BY <1>7, <1>8

LEMMA CacheAnswerMeans ==
  ASSUME Sound, MeaningNow, VisitCompleted \/ VisitCycle
  PROVE  MeaningNow'
<1>1. pc = "visit" /\ pc # "found" /\ rule \in RuleIds /\ at \in Index
  BY VisitType DEF VisitCompleted, VisitCycle, Sound
<1>2. UNCHANGED <<text, popped, lib, stack, tried, best, winner>>
  BY DEF VisitCompleted, VisitCycle, LibraryUnchanged
<1>3. CASE VisitCompleted
  <2> DEFINE o == history[Record].out
  <2>1. /\ Record \in Completed /\ Return(rule, at, o) /\ history' = history
        /\ Record[1] = rule /\ Record[2] = KeyOf(at)
    BY <1>3 DEF VisitCompleted, Remembered, Completed, Record
  <2>2. KeyOf(at) # -1 => Right(rule, at, o)
    <3> SUFFICES ASSUME KeyOf(at) # -1
                 PROVE  Right(rule, at, o)
      OBVIOUS
    <3>1. Holds(Record, KeyOf(at) - popped)
      BY <2>1 DEF MeaningNow, MemoMeans
    <3>2. KeyOf(at) - popped = at /\ Place(at) = at
      BY <1>1, AtCharacter
    <3> QED
      BY <2>1, <3>1, <3>2 DEF Holds, Right, Means
  <2>3. MemoMeans' /\ MemoKept
    BY <1>2, <2>1 DEF MeaningNow, MemoMeans, MemoKept, Completed, Holds, Wrapped,
                      Wraps, RangeBetween
  <2> QED
    BY <1>1, <1>2, <2>1, <2>2, <2>3, VisitMeans
<1>4. CASE VisitCycle
  <2>1. Return(rule, at, FAILURE) /\ Remember(Record, "Cyclic", FAILURE)
    BY <1>4 DEF VisitCycle
  <2>2. MemoMeans' /\ MemoKept
    <3>1. Record \notin Completed
      BY <1>4 DEF VisitCycle, Completed
    <3> QED
      BY <1>2, <2>1, <3>1, MemoStep, MemoGrows DEF MeaningNow
  <2>3. stack # <<>> /\ Top.key = -1
    BY <1>4, NoCycle
  <2> QED
    BY <1>1, <1>2, <2>1, <2>2, <2>3, VisitMeans
<1> QED
  BY <1>3, <1>4

LEMMA AnswerMeans ==
  ASSUME Sound, MeaningNow, TerminalStep \/ MissingAlias
  PROVE  MeaningNow'
<1>1. pc = "visit" /\ pc # "found" /\ rule \in RuleIds /\ at \in Index
  <2>1. pc = "visit"
    BY DEF TerminalStep, AcceptAny, AcceptEnd, AcceptCharRange, AcceptValues,
           MissingAlias, Fresh
  <2> QED
    BY <2>1, VisitType DEF Sound
<1>2. PICK o : Answer(o) /\ (KeyOf(at) # -1 => Right(rule, at, o))
  <2>1. \E o : Answer(o)
    BY DEF TerminalStep, AcceptAny, AcceptEnd, AcceptCharRange, AcceptValues,
           MissingAlias
  <2> QED
    BY <2>1, AnswerRight
<1>3. /\ UNCHANGED <<text, popped, lib, stack, tried, best, winner>>
      /\ Return(rule, at, o) /\ Remember(Record, "Completed", o)
  BY <1>2 DEF Answer, LibraryUnchanged
<1>4. Record[1] = rule /\ Record[2] = KeyOf(at) /\ Record = <<rule, KeyOf(at)>>
  BY DEF Record
<1>5. MemoMeans'
  <2>1. KeyOf(at) # -1 => KeyOf(at) - popped = at /\ Place(at) = at
    BY <1>1, AtCharacter
  <2> QED
    BY <1>2, <1>3, <1>4, <2>1, MemoStep DEF Right, Means, MeaningNow
<1>6. MemoKept
  <2>1. Record \notin Completed
    BY DEF TerminalStep, AcceptAny, AcceptEnd, AcceptCharRange, AcceptValues,
           MissingAlias, Fresh, Remembered, Completed
  <2> QED
    BY <1>3, <2>1, MemoGrows
<1> QED
  BY <1>1, <1>2, <1>3, <1>5, <1>6, VisitMeans

(* The rules visited below the top frame climb, and so does its child.     *)
LEMMA FrameVisits ==
  ASSUME Sound, Sound', pc # "found", UNCHANGED <<text, popped, lib>>,
         pc' = "visit", stack' # <<>>,
         \A m, n \in 1 .. Len(stack') :
           m < n => Climbs(stack'[m], stack'[n].rule, stack'[n].at),
         NEW top \in Frame, top = stack'[Len(stack')],
         top.key # -1 => FrameMeans(top)
  PROVE  Climbing'
<1>1. /\ stack' \in Seq(Frame) /\ Len(stack') \in Nat /\ Len(stack') \in 1 .. Len(stack')
      /\ rule' \in RuleIds /\ at' \in Index
  <2>1. LibraryOK' /\ StackOK' /\ ControlOK'
    BY DEF Sound, TypeOK
  <2> QED
    BY <2>1, EmptySeq, LenProperties DEF StackOK, ControlOK
<1>2. \A n \in 1 .. Len(stack') : /\ stack'[n] \in Frame
                                  /\ FrameFits(stack'[n])
                                  /\ FrameOK(stack'[n])
  <2> SUFFICES ASSUME NEW n \in 1 .. Len(stack')
               PROVE  /\ stack'[n] \in Frame
                      /\ FrameFits(stack'[n])
                      /\ FrameOK(stack'[n])
    OBVIOUS
  <2>1. FrameFits(stack[n])' /\ FrameOK(stack[n])'
    BY DEF Sound, TypeOK, OrderOK, StackOK
  <2> QED
    BY <1>1, <2>1, ElementOfSeq DEF FrameFits, FrameOK, KeyOf, Present, Fits,
                                    EndOf, InOrder, Placed, Succeeds
<1>3. rule' = ChildRule(top) /\ at' = ChildAt(top)
  <2>1. /\ rule' = CalledRule(Len(stack))'
        /\ at' = CalledAt(Len(stack))'
    BY DEF Sound, CallsNested
  <2> QED
    BY <1>1, <2>1 DEF CalledRule, CalledAt, ChildRule, ChildAt
<1>4. Climbs(top, rule', at')
  <2>1. rule' # NoRule
    BY <1>1, LibrariesAssumption
  <2> QED
    BY <1>1, <1>2, <1>3, <2>1, ChildClimbs
<1>5. ASSUME NEW m \in 1 .. Len(stack')
      PROVE  Climbs(stack'[m], rule', at')
  <2>1. m = Len(stack') \/ m < Len(stack')
    BY <1>1
  <2>2. m < Len(stack') => Climbs(stack'[m], top.rule, top.at)
    BY <1>1
  <2> QED
    BY <1>1, <1>2, <1>4, <2>1, <2>2, ClimbsOn
<1> QED
  BY <1>5 DEF Climbing, Climbs, KeyOf, Present

LEMMA DescendMeans ==
  ASSUME Sound, Sound', MeaningNow, Descend
  PROVE  MeaningNow'
<1> DEFINE frame == [rule |-> rule, at |-> at, key |-> KeyOf(at),
                     turn |-> 1, acc |-> FAILURE]
<1>1. /\ pc = "visit" /\ pc # "found" /\ pc' = "visit" /\ rule \in RuleIds
      /\ UNCHANGED <<text, popped, lib, tried, best, winner>>
      /\ Remember(Record, "Processing", FAILURE)
      /\ stack' = Append(stack, frame)
  BY VisitType DEF Descend, Fresh, Visit, LibraryUnchanged, Sound
<1>2. /\ Len(stack) \in Nat /\ Len(stack') = Len(stack) + 1
      /\ \A n \in 1 .. Len(stack) : stack'[n] = stack[n]
      /\ stack'[Len(stack')] = frame /\ frame.turn = 1
      /\ frame.rule = rule /\ frame.key = KeyOf(at) /\ frame.at = at
  BY <1>1 DEF Sound, TypeOK, StackOK
<1> HIDE DEF frame
<1>3. frame \in Frame
  <2>1. stack' \in Seq(Frame) /\ Len(stack') \in 1 .. Len(stack')
    BY <1>2 DEF Sound, TypeOK, StackOK
  <2> QED
    BY <1>2, <2>1, ElementOfSeq
<1>4. FrameMeans(frame)
  <2>1. lib.rules[rule].kind = "Alias" => Resolve(lib, lib.rules[rule].name) # NoRule
    BY DEF Descend
  <2> QED
    BY <1>2, <2>1 DEF FrameMeans
<1>5. \A n \in 1 .. Len(stack') : n \in 1 .. Len(stack) \/ n = Len(stack')
  BY <1>2
<1>6. MemoMeans'
  BY <1>1, MemoStep DEF MeaningNow
<1>7. FramesMean'
  <2>1. MemoKept
    <3>1. Record \notin Completed
      BY DEF Descend, Fresh, Remembered, Completed
    <3> QED
      BY <1>1, <3>1, MemoGrows
  <2> QED
    BY <1>1, <1>2, <1>4, <1>5, <2>1, FrameKept DEF MeaningNow, FramesMean
<1>8. Climbing'
  <2>1. ASSUME NEW m \in 1 .. Len(stack'), NEW n \in 1 .. Len(stack'), m < n
        PROVE  Climbs(stack'[m], stack'[n].rule, stack'[n].at)
    <3>1. m \in 1 .. Len(stack)
      BY <1>2, <2>1
    <3>2. CASE n \in 1 .. Len(stack)
      BY <1>2, <2>1, <3>1, <3>2 DEF MeaningNow, Climbing
    <3>3. CASE n = Len(stack')
      BY <1>1, <1>2, <3>1, <3>3 DEF MeaningNow, Climbing
    <3> QED
      BY <1>5, <3>2, <3>3
  <2>2. stack' # <<>>
    BY <1>2
  <2> QED
    BY <1>1, <1>2, <1>3, <1>4, <2>1, <2>2, FrameVisits
<1>9. ReturnMeans' /\ BestSoFar'
  BY <1>1 DEF MeaningNow, ReturnMeans, BestSoFar
<1> QED
  BY <1>6, <1>7, <1>8, <1>9 DEF MeaningNow

(* What the strategy of the top frame knows if it goes on with o.          *)
Knows(turn, o) ==
  \A f \in Frame : /\ f.rule = Top.rule
                   /\ f.at = Top.at
                   /\ f.turn = turn
                   /\ f.acc = o
                   => FrameMeans(f)

LEMMA AgainMeans ==
  ASSUME Sound, Sound', MeaningNow, pc = "return", stack # <<>>,
         NEW kid, NEW turn, NEW o, NEW i, Again(kid, turn, o, i),
         Top.key # -1 => Knows(turn, o)
  PROVE  MeaningNow'
<1>1. /\ pc # "found" /\ pc' = "visit"
      /\ UNCHANGED <<text, popped, lib, history, tried, best, winner>>
  BY DEF Again, Visit, LibraryUnchanged
<1>2. /\ Len(stack') = Len(stack) /\ Len(stack) \in 1 .. Len(stack)
      /\ Len(stack) \in Nat
      /\ \A n \in 1 .. Len(stack) :
           /\ stack'[n].rule = stack[n].rule
           /\ stack'[n].at = stack[n].at
           /\ stack'[n].key = stack[n].key
           /\ n # Len(stack) => stack'[n] = stack[n]
      /\ stack'[Len(stack)].turn = turn
      /\ stack'[Len(stack)].acc = o
  BY AgainStack, TopType DEF Again, Sound, TypeOK, RecordOf
<1>3. PICK top : top = stack'[Len(stack')]
  OBVIOUS
<1>4. /\ top \in Frame /\ top.rule = Top.rule /\ top.at = Top.at
      /\ top.key = Top.key /\ top.turn = turn /\ top.acc = o
  <2>1. stack' \in Seq(Frame)
    BY DEF Sound, TypeOK, StackOK
  <2> QED
    BY <1>2, <1>3, <2>1, ElementOfSeq DEF Top
<1>5. top.key # -1 => FrameMeans(top)
  BY <1>4 DEF Knows
<1>6. MemoMeans'
  BY <1>1 DEF MeaningNow, MemoMeans, Completed, Holds, Wrapped, Wraps,
              RangeBetween
<1>7. FramesMean'
  <2> SUFFICES ASSUME NEW n \in 1 .. Len(stack), stack'[n].key # -1
               PROVE  FrameMeans(stack'[n])
    <3>1. MemoKept
      BY <1>1 DEF MemoKept, Completed
    <3> QED
      BY <1>1, <1>2, <3>1, FrameKept DEF FramesMean
  <2>1. CASE n = Len(stack)
    BY <1>2, <1>3, <1>5, <2>1
  <2>2. CASE n # Len(stack)
    BY <1>2, <2>2 DEF MeaningNow, FramesMean
  <2> QED
    BY <2>1, <2>2
<1>8. Climbing'
  <2>1. \A m, n \in 1 .. Len(stack') :
          m < n => Climbs(stack'[m], stack'[n].rule, stack'[n].at)
    BY <1>2 DEF MeaningNow, Climbing, Climbs
  <2>2. stack' # <<>>
    BY <1>2
  <2> QED
    BY <1>1, <1>3, <1>4, <1>5, <2>1, <2>2, FrameVisits
<1>9. ReturnMeans' /\ BestSoFar'
  BY <1>1 DEF MeaningNow, ReturnMeans, BestSoFar
<1> QED
  BY <1>6, <1>7, <1>8, <1>9 DEF MeaningNow

LEMMA CompleteMeans ==
  ASSUME Sound, MeaningNow, pc = "return", stack # <<>>,
         NEW o, Complete(o), Top.key # -1 => Right(Top.rule, Top.at, o)
  PROVE  MeaningNow'
<1>1. /\ pc # "found" /\ pc' = "return"
      /\ UNCHANGED <<text, popped, lib, tried, best, winner>>
      /\ Remember(<<Top.rule, Top.key>>, "Completed", o)
      /\ out' = Wrapped(Top.rule, Top.at, o)
  BY DEF Complete, Return, LibraryUnchanged
<1>2. /\ Len(stack) \in 1 .. Len(stack) /\ Len(stack) \in Nat
      /\ Top.rule \in RuleIds /\ Top.at \in Index /\ Top.key = KeyOf(Top.at)
  <2>1. Top.rule \in RuleIds /\ Top.at \in Index /\ Len(stack) \in 1 .. Len(stack)
        /\ Len(stack) \in Nat
    BY TopType DEF Sound, TypeOK
  <2> QED
    BY <1>1, <2>1 DEF Sound, OrderOK, FrameFits, Top
<1>3. /\ Len(stack') = Len(stack) - 1
      /\ \A n \in 1 .. Len(stack') : n \in 1 .. Len(stack) /\ stack'[n] = stack[n]
  BY <1>2, WithoutLast DEF Complete, Sound, TypeOK, StackOK
<1>4. MemoKept
  <2>1. RecordOf(Top) \in DOMAIN history /\ IsOpen(RecordOf(Top))
    BY <1>2 DEF Sound, StackMatchesHistory, Top
  <2>2. <<Top.rule, Top.key>> \notin Completed
    BY <2>1 DEF RecordOf, IsOpen, Completed
  <2> QED
    BY <1>1, <2>2, MemoGrows
<1>5. MemoMeans'
  <2>1. PICK k : k = <<Top.rule, Top.key>>
    OBVIOUS
  <2>2. Top.key # -1 => Top.key - popped = Top.at /\ Place(Top.at) = Top.at
    BY <1>1, <1>2, AtCharacter
  <2>3. k[2] # -1 => SameAs(Wrapped(k[1], k[2] - popped, o),
                            Meant(lib, text, popped, k[1], k[2] - popped))
    BY <2>1, <2>2 DEF Right, Means
  <2> QED
    BY <1>1, <2>1, <2>3, MemoStep DEF MeaningNow
<1>6. FramesMean'
  BY <1>1, <1>3, <1>4, FrameKept DEF MeaningNow, FramesMean
<1>7. Climbing'
  BY <1>1, <1>3 DEF MeaningNow, Climbing, Climbs, KeyOf, Present
<1>8. CalledRule(Len(stack))' = Top.rule /\ CalledAt(Len(stack))' = Top.at
  <2>1. Len(stack') = Len(stack) - 1 /\ Len(stack) - 1 \in Nat
    BY <1>2, <1>3
  <2>2. Top.rule = CalledRule(Len(stack) - 1) /\ Top.at = CalledAt(Len(stack) - 1)
    BY <1>2 DEF Sound, CallsNested, Top
  <2>3. Len(stack) - 1 # 0 => stack'[Len(stack) - 1] = stack[Len(stack) - 1]
    BY <1>2, <1>3
  <2> QED
    BY <1>1, <2>1, <2>2, <2>3 DEF CalledRule, CalledAt, ChildRule, ChildAt
<1>9. ReturnMeans'
  <2>1. /\ Means(CalledRule(Len(stack)), CalledAt(Len(stack)))' = Means(Top.rule, Top.at)
        /\ KeyOf(CalledAt(Len(stack)))' = Top.key
    BY <1>1, <1>2, <1>8 DEF Means, Place, Left, KeyOf, Present
  <2> QED
    BY <1>1, <1>8, <2>1 DEF ReturnMeans, Right
<1>10. BestSoFar'
  BY <1>1 DEF MeaningNow, BestSoFar
<1> QED
  BY <1>5, <1>6, <1>7, <1>9, <1>10 DEF MeaningNow

-----------------------------------------------------------------------------
(* What a strategy makes of the answers of its children.                   *)

LEMMA ResumedMeans ==
  ASSUME Sound, MeaningNow, ~Misled, pc = "return", stack # <<>>, Top.key # -1
  PROVE  /\ pc # "found" /\ popped \in Nat /\ Len(text) \in Nat
         /\ Top.rule \in RuleIds /\ Top.at \in Index /\ KeyOf(Top.at) # -1
         /\ Top.at \in 0 .. Left /\ popped + Top.at < Len(text) /\ Present(Top.at)
         /\ FrameMeans(Top)
         /\ ChildAt(Top) \in Nat => SameAs(out, Means(ChildRule(Top), ChildAt(Top)))
         /\ TopRule.kind \notin {"Sequence", "Repeat"} =>
              SameAs(out, Meant(lib, text, popped, ChildRule(Top), Top.at))
<1>1. /\ Len(stack) \in 1 .. Len(stack) /\ Top.rule \in RuleIds /\ Top.at \in Index
  BY TopType DEF Sound, TypeOK
<1>2. Top.key = KeyOf(Top.at)
  BY <1>1 DEF Sound, OrderOK, FrameFits, Top
<1>3. /\ popped \in Nat /\ Len(text) \in Nat /\ Place(Top.at) = Top.at
      /\ Top.at \in 0 .. Left /\ popped + Top.at < Len(text) /\ Present(Top.at)
  BY <1>1, <1>2, AtCharacter
<1>4. FrameMeans(Top)
  BY <1>1 DEF MeaningNow, FramesMean, Top
<1>5. ChildAt(Top) \in Nat => SameAs(out, Means(ChildRule(Top), ChildAt(Top)))
  <2>1. Len(stack) # 0
    BY <1>1
  <2>2. ChildRule(Top) = CalledRule(Len(stack)) /\ ChildAt(Top) = CalledAt(Len(stack))
    BY <2>1 DEF CalledRule, CalledAt, Top
  <2> QED
    BY <2>2, AnswerMeant
<1>6. TopRule.kind \notin {"Sequence", "Repeat"} => ChildAt(Top) = Top.at
  BY DEF ChildAt, TopRule
<1> QED
  BY <1>1, <1>2, <1>3, <1>4, <1>5, <1>6 DEF Means

(* How many children a rule has, and which of them a frame waits for.      *)
LEMMA KidsOfTop ==
  ASSUME Sound, pc = "return", stack # <<>>
  PROVE  /\ TopRule.kids \in Seq(RuleIds) /\ Len(TopRule.kids) \in Nat
         /\ DOMAIN TopRule.kids = 1 .. Len(TopRule.kids)
         /\ TopRule.kind \in Collections =>
              /\ Top.turn \in 1 .. Len(TopRule.kids)
              /\ ChildRule(Top) = TopRule.kids[Top.turn]
         /\ TopRule.kind \in Unary => ChildRule(Top) = TopRule.kids[1]
         /\ Top.turn \in Nat /\ Top.turn >= 1
         /\ TopRule = lib.rules[Top.rule]
<1>1. /\ Top.turn \in Nat /\ Top.turn >= 1 /\ FrameOK(Top) /\ Top.rule \in RuleIds
      /\ LibraryOK
  BY TopType DEF Sound, TypeOK
<1>2. TopRule.kids \in Seq(RuleIds) /\ Len(TopRule.kids) \in Nat
  BY <1>1, RuleType DEF TopRule
<1>3. DOMAIN TopRule.kids = 1 .. Len(TopRule.kids)
  BY <1>2, LenProperties
<1>4. /\ TopRule.kind \in Collections =>
           /\ Top.turn \in 1 .. Len(TopRule.kids)
           /\ ChildRule(Top) = TopRule.kids[Top.turn]
      /\ TopRule.kind \in Unary => ChildRule(Top) = TopRule.kids[1]
  BY <1>1, <1>2 DEF FrameOK, ChildRule, TopRule, Collections, Unary
<1> QED
  BY <1>1, <1>2, <1>3, <1>4 DEF TopRule

LEMMA AliasRight ==
  ASSUME Sound, MeaningNow, ~Misled, pc = "return", stack # <<>>, Top.key # -1,
         TopRule.kind = "Alias"
  PROVE  Right(Top.rule, Top.at, out)
<1> DEFINE i == Top.at
           o == Meant(lib, text, popped, Resolve(lib, TopRule.name), i)
<1>1. /\ popped \in Nat /\ Len(text) \in Nat /\ Top.rule \in RuleIds
      /\ i \in 0 .. Left /\ popped + i < Len(text) /\ Present(i) /\ FrameMeans(Top)
      /\ i \in Nat
  BY ResumedMeans
<1>2. ChildRule(Top) = Resolve(lib, TopRule.name) /\ SameAs(out, o)
  BY ResumedMeans DEF ChildRule, TopRule
<1>3. Resolve(lib, TopRule.name) # NoRule
  BY <1>1 DEF FrameMeans, TopRule
<1>4. Means(Top.rule, i) = IF Succeeds(o) /\ lib.symbol[TopRule.name] # NoRule
                           THEN Under(TopRule.name,
                                      Covered(text, popped + i, popped + o.idx), o)
                           ELSE o
  <2>1. Means(Top.rule, i) = Says(lib, text, popped, Top.rule, i)
    BY <1>1, Solved DEF Means, Place
  <2> QED
    BY <1>3, <2>1 DEF Says, Equation, TopRule
<1> HIDE DEF o
<1>5. CASE Succeeds(o)
  <2>1. out = o
    BY <1>2, <1>5 DEF SameAs
  <2>2. o.idx \in Nat /\ popped + o.idx <= Len(text)
    <3>1. popped + out.idx <= Len(text) /\ out.idx \in Index
      BY <1>5, <2>1 DEF Sound, OrderOK, Nested, Fits, TypeOK, ResultOK, Output
    <3> QED
      BY <1>1, <1>5, <2>1, <3>1 DEF Succeeds, Index
  <2>3. RangeBetween(popped, i, o.idx) = Covered(text, popped + i, popped + o.idx)
    BY <1>1, <2>2 DEF RangeBetween, Covered, Lesser
  <2>4. Wrapped(Top.rule, i, o) = Means(Top.rule, i)
    BY <1>4, <1>5, <2>3 DEF Wrapped, Wraps, TopRule
  <2>5. SameAs(Means(Top.rule, i), Means(Top.rule, i))
    BY DEF SameAs
  <2> QED
    BY <2>1, <2>4, <2>5 DEF Right
<1>6. CASE ~Succeeds(o)
  <2>1. ~Succeeds(out) /\ Wrapped(Top.rule, i, out) = out
    BY <1>2, <1>6 DEF SameAs, Wrapped, Wraps
  <2> QED
    BY <1>4, <1>6, <2>1 DEF Right, SameAs
<1> QED
  BY <1>5, <1>6

(* A frame of a rule with children returns what the rule says.             *)
LEMMA FrameReturns ==
  ASSUME Sound, MeaningNow, ~Misled, pc = "return", stack # <<>>,
         TopRule.kind # "Alias",
         NEW o, Complete(o),
         Top.key # -1 => SameAs(o, Says(lib, text, popped, Top.rule, Top.at))
  PROVE  MeaningNow'
<1>1. Top.key # -1 => Right(Top.rule, Top.at, o)
  BY ResumedMeans, PlainRight DEF TopRule
<1> QED
  BY <1>1, CompleteMeans

LEMMA UnaryMeans ==
  ASSUME Sound, MeaningNow, ~Misled,
         ResumeAlias \/ ResumeOptional \/ ResumeNot \/ ResumeAnyBut
  PROVE  MeaningNow'
<1> DEFINE i     == Top.at
           child == Meant(lib, text, popped, TopRule.kids[1], i)
<1>1. pc = "return" /\ stack # <<>>
  BY DEF ResumeAlias, ResumeOptional, ResumeNot, ResumeAnyBut, Resumed
<1>2. CASE ResumeAlias
  BY <1>1, <1>2, AliasRight, CompleteMeans DEF ResumeAlias, Resumed
<1>3. Top.key # -1 => Present(i) /\ popped + i < Len(text)
  BY <1>1, ResumedMeans
<1>4. Top.key # -1 /\ TopRule.kind \in {"Optional", "Not", "AnyBut"} =>
        SameAs(out, child)
  BY <1>1, ResumedMeans, KidsOfTop DEF Unary
<1>5. TopRule = lib.rules[Top.rule]
  BY DEF TopRule
<1>6. CASE ResumeOptional
  <2>1. TopRule.kind = "Optional"
        /\ Complete(IF Succeeds(out) THEN out ELSE ReachedAt(i))
    BY <1>6 DEF ResumeOptional, Resumed
  <2>2. Says(lib, text, popped, Top.rule, i) = IF Succeeds(child) THEN child ELSE ReachedAt(i)
    BY <1>5, <2>1 DEF Says, Equation
  <2>3. Top.key # -1 => SameAs(IF Succeeds(out) THEN out ELSE ReachedAt(i),
                               Says(lib, text, popped, Top.rule, i))
    BY <1>4, <2>1, <2>2 DEF SameAs
  <2> QED
    BY <1>1, <2>1, <2>3, FrameReturns
<1>7. CASE ResumeNot
  <2>1. TopRule.kind = "Not"
        /\ Complete(IF Succeeds(out) THEN FAILURE ELSE ReachedAt(i))
    BY <1>7 DEF ResumeNot, Resumed
  <2>2. Says(lib, text, popped, Top.rule, i) = IF ~Succeeds(child) THEN ReachedAt(i) ELSE FAILURE
    BY <1>5, <2>1 DEF Says, Equation, When
  <2>3. Top.key # -1 => SameAs(IF Succeeds(out) THEN FAILURE ELSE ReachedAt(i),
                               Says(lib, text, popped, Top.rule, i))
    BY <1>4, <2>1, <2>2 DEF SameAs
  <2> QED
    BY <1>1, <2>1, <2>3, FrameReturns
<1>8. CASE ResumeAnyBut
  <2> DEFINE o == IF Succeeds(out) \/ ~Present(i) THEN FAILURE ELSE ReachedAt(i + 1)
  <2>1. TopRule.kind = "AnyBut" /\ Complete(o)
    BY <1>8 DEF ResumeAnyBut, Resumed
  <2>2. Says(lib, text, popped, Top.rule, i)
          = IF ~Succeeds(child) /\ popped + i < Len(text) THEN ReachedAt(i + 1) ELSE FAILURE
    BY <1>5, <2>1 DEF Says, Equation, When
  <2>3. Top.key # -1 => SameAs(o, Says(lib, text, popped, Top.rule, i))
    BY <1>3, <1>4, <2>1, <2>2 DEF SameAs
  <2> QED
    BY <1>1, <2>1, <2>3, FrameReturns
<1> QED
  BY <1>2, <1>6, <1>7, <1>8

LEMMA OrMeans ==
  ASSUME Sound, Sound', MeaningNow, ~Misled, ResumeOr
  PROVE  MeaningNow'
<1> DEFINE i        == Top.at
           turn     == Top.turn
           kids     == TopRule.kids
           Of(n)    == Meant(lib, text, popped, kids[n], i)
           matching == {n \in DOMAIN kids : Succeeds(Of(n))}
<1>1. pc = "return" /\ stack # <<>> /\ TopRule.kind = "Or"
  BY DEF ResumeOr, Resumed
<1>2. /\ turn \in 1 .. Len(kids) /\ DOMAIN kids = 1 .. Len(kids) /\ Len(kids) \in Nat
      /\ TopRule = lib.rules[Top.rule] /\ turn \in Nat
      /\ Top.key # -1 => SameAs(out, Of(turn)) /\ FrameMeans(Top)
  BY <1>1, KidsOfTop, ResumedMeans DEF Collections
<1>3. Top.key # -1 => \A n \in 1 .. turn - 1 : ~Succeeds(Of(n))
  BY <1>1, <1>2 DEF FrameMeans
<1>4. Says(lib, text, popped, Top.rule, i) = When(matching # {}, Of(First(matching)))
  BY <1>1, <1>2 DEF Says, Equation
<1>5. CASE Succeeds(out) /\ Complete(out)
  <2> SUFFICES ASSUME Top.key # -1
               PROVE  SameAs(out, Says(lib, text, popped, Top.rule, i))
    BY <1>1, <1>5, FrameReturns
  <2>1. turn \in matching /\ out = Of(turn)
    BY <1>2, <1>5 DEF SameAs
  <2>2. matching \subseteq Int /\ \A m \in matching : turn <= m
    BY <1>2, <1>3
  <2>3. First(matching) = turn
    <3> HIDE DEF matching
    <3> QED
      BY <2>1, <2>2, FirstIs
  <2>4. Says(lib, text, popped, Top.rule, i) = out
    BY <1>4, <2>1, <2>3 DEF When
  <2> QED
    BY <2>4 DEF SameAs
<1>6. CASE ~Succeeds(out) /\ Last /\ Complete(FAILURE)
  <2> SUFFICES ASSUME Top.key # -1
               PROVE  SameAs(FAILURE, Says(lib, text, popped, Top.rule, i))
    BY <1>1, <1>6, FrameReturns
  <2>1. ~Succeeds(Of(turn))
    BY <1>2, <1>6 DEF SameAs
  <2>2. matching = {}
    BY <1>2, <1>3, <1>6, <2>1 DEF Last
  <2>3. Says(lib, text, popped, Top.rule, i) = FAILURE
    BY <1>4, <2>2 DEF When
  <2> QED
    BY <2>3 DEF SameAs
<1>7. CASE ~Succeeds(out) /\ Again(Kid(turn + 1), turn + 1, FAILURE, i)
  <2>1. Top.key # -1 => ~Succeeds(Of(turn))
    BY <1>2, <1>7 DEF SameAs
  <2>2. Top.key # -1 => \A n \in 1 .. (turn + 1) - 1 : ~Succeeds(Of(n))
    BY <1>2, <1>3, <2>1
  <2>3. Top.key # -1 => Knows(turn + 1, FAILURE)
    BY <1>1, <1>2, <2>2 DEF Knows, FrameMeans
  <2> QED
    BY <1>1, <1>7, <2>3, AgainMeans
<1> QED
  BY <1>5, <1>6, <1>7 DEF ResumeOr

(* What And and XOR hold is the answer of their first child.               *)
LEMMA HeldMeans ==
  ASSUME Sound, MeaningNow, ~Misled, pc = "return", stack # <<>>, Top.key # -1,
         TopRule.kind \in {"And", "XOr"}
  PROVE  SameAs(Held, Meant(lib, text, popped, TopRule.kids[1], Top.at))
<1>1. /\ FrameMeans(Top) /\ Top.turn \in Nat /\ Top.turn >= 1
      /\ SameAs(out, Meant(lib, text, popped, TopRule.kids[Top.turn], Top.at))
  BY ResumedMeans, KidsOfTop DEF Collections
<1>2. CASE Top.turn = 1
  BY <1>1, <1>2 DEF Held
<1>3. CASE Top.turn > 1
  BY <1>1, <1>3 DEF Held, FrameMeans, TopRule
<1> QED
  BY <1>1, <1>2, <1>3

LEMMA AndMeans ==
  ASSUME Sound, Sound', MeaningNow, ~Misled, ResumeAnd
  PROVE  MeaningNow'
<1> DEFINE i        == Top.at
           turn     == Top.turn
           kids     == TopRule.kids
           Of(n)    == Meant(lib, text, popped, kids[n], i)
           matching == {n \in DOMAIN kids : Succeeds(Of(n))}
<1>1. pc = "return" /\ stack # <<>> /\ TopRule.kind = "And"
  BY DEF ResumeAnd, Resumed
<1>2. /\ turn \in 1 .. Len(kids) /\ DOMAIN kids = 1 .. Len(kids) /\ Len(kids) \in Nat
      /\ TopRule = lib.rules[Top.rule] /\ turn \in Nat
      /\ Top.key # -1 => SameAs(out, Of(turn)) /\ FrameMeans(Top)
  BY <1>1, KidsOfTop, ResumedMeans DEF Collections
<1>3. Top.key # -1 => \A n \in 1 .. turn - 1 : Succeeds(Of(n))
  BY <1>1, <1>2 DEF FrameMeans
<1>4. Says(lib, text, popped, Top.rule, i) = When(matching = DOMAIN kids, Of(1))
  BY <1>1, <1>2 DEF Says, Equation
<1>5. CASE ~Succeeds(out) /\ Complete(FAILURE)
  <2> SUFFICES ASSUME Top.key # -1
               PROVE  SameAs(FAILURE, Says(lib, text, popped, Top.rule, i))
    BY <1>1, <1>5, FrameReturns
  <2>1. turn \notin matching /\ turn \in DOMAIN kids
    BY <1>2, <1>5 DEF SameAs
  <2>2. Says(lib, text, popped, Top.rule, i) = FAILURE
    BY <1>4, <2>1 DEF When
  <2> QED
    BY <2>2 DEF SameAs
<1>6. CASE Succeeds(out) /\ Last /\ Complete(Held)
  <2> SUFFICES ASSUME Top.key # -1
               PROVE  SameAs(Held, Says(lib, text, popped, Top.rule, i))
    BY <1>1, <1>6, FrameReturns
  <2>1. Succeeds(Of(turn))
    BY <1>2, <1>6 DEF SameAs
  <2>2. matching = DOMAIN kids
    BY <1>2, <1>3, <1>6, <2>1 DEF Last
  <2>3. Says(lib, text, popped, Top.rule, i) = Of(1)
    BY <1>4, <2>2 DEF When
  <2> QED
    BY <1>1, <2>3, HeldMeans
<1>7. CASE Succeeds(out) /\ Again(Kid(turn + 1), turn + 1, Held, i)
  <2>1. Top.key # -1 => Succeeds(Of(turn))
    BY <1>2, <1>7 DEF SameAs
  <2>2. Top.key # -1 => \A n \in 1 .. (turn + 1) - 1 : Succeeds(Of(n))
    BY <1>2, <1>3, <2>1
  <2>3. Top.key # -1 => SameAs(Held, Of(1))
    BY <1>1, HeldMeans
  <2>4. Top.key # -1 => Knows(turn + 1, Held)
    BY <1>1, <1>2, <2>2, <2>3 DEF Knows, FrameMeans
  <2> QED
    BY <1>1, <1>7, <2>4, AgainMeans
<1> QED
  BY <1>5, <1>6, <1>7 DEF ResumeAnd

(* With two children, that of the second is all there is to wait for.      *)
LEMMA XOrMeans ==
  ASSUME Sound, Sound', MeaningNow, ~Misled, ResumeXOr
  PROVE  MeaningNow'
<1> DEFINE i        == Top.at
           turn     == Top.turn
           kids     == TopRule.kids
           Of(n)    == Meant(lib, text, popped, kids[n], i)
           matching == {n \in DOMAIN kids : Succeeds(Of(n))}
           says     == Says(lib, text, popped, Top.rule, i)
           again    == turn > 1 /\ Succeeds(out)
<1>1. pc = "return" /\ stack # <<>> /\ TopRule.kind = "XOr"
  BY DEF ResumeXOr, Resumed
<1>2. /\ turn \in 1 .. Len(kids) /\ DOMAIN kids = 1 .. Len(kids) /\ Len(kids) \in Nat
      /\ TopRule = lib.rules[Top.rule] /\ turn \in Nat
      /\ Top.key # -1 => SameAs(out, Of(turn)) /\ FrameMeans(Top)
  BY <1>1, KidsOfTop, ResumedMeans DEF Collections
<1>3. Len(kids) \in {1, 2} /\ turn \in {1, 2}
  <2>1. Len(kids) <= 2
    <3>1. Top.rule \in RuleIds
      BY <1>1, TopType DEF Sound, TypeOK
    <3> QED
      BY <1>1, <1>2, <3>1, ShapeAssumption DEF WellShaped, Sound, BaseOK
  <2>2. \A m, n \in Nat : n \in 1 .. m /\ m <= 2 => m \in {1, 2} /\ n \in {1, 2}
    OBVIOUS
  <2> QED
    BY <1>2, <2>1, <2>2
<1>4. /\ Top.key # -1 => SameAs(Held, Of(1))
      /\ turn = 1 => Held = out
      /\ turn = 2 => Held = Top.acc
  <2>1. Top.key # -1 => SameAs(Held, Of(1))
    BY <1>1, HeldMeans
  <2> QED
    BY <2>1 DEF Held
<1>5. /\ says = When(\E n \in matching : matching = {n}, Of(First(matching)))
      /\ \A n \in DOMAIN kids : matching = {n} => says = Of(n)
      /\ (\A n \in DOMAIN kids : matching # {n}) => says = FAILURE
  <2>1. says = When(\E n \in matching : matching = {n}, Of(First(matching)))
    BY <1>1, <1>2 DEF Says, Equation
  <2>2. ASSUME NEW n \in DOMAIN kids, matching = {n}
        PROVE  says = Of(n)
    <3>1. n \in Int /\ {n} \subseteq Int /\ \A m \in {n} : n <= m
      BY <1>2
    <3>2. First({n}) = n
      BY <3>1, FirstIs
    <3> QED
      BY <2>1, <2>2, <3>2 DEF When
  <2>3. (\A n \in DOMAIN kids : matching # {n}) => says = FAILURE
    BY <2>1 DEF When
  <2> QED
    BY <2>1, <2>2, <2>3
<1> HIDE DEF says
<1>6. CASE again /\ ~Succeeds(Top.acc) /\ Complete(out)
  <2> SUFFICES ASSUME Top.key # -1
               PROVE  SameAs(out, says)
    BY <1>1, <1>6, FrameReturns DEF says
  <2>1. turn = 2 /\ Succeeds(Of(2)) /\ ~Succeeds(Of(1)) /\ out = Of(2)
    BY <1>2, <1>3, <1>4, <1>6 DEF SameAs
  <2>2. matching = {2} /\ 2 \in DOMAIN kids
    BY <1>2, <1>3, <2>1
  <2> QED
    BY <1>5, <2>1, <2>2 DEF SameAs
<1>7. CASE again /\ Succeeds(Top.acc) /\ Complete(FAILURE)
  <2> SUFFICES ASSUME Top.key # -1
               PROVE  SameAs(FAILURE, says)
    BY <1>1, <1>7, FrameReturns DEF says
  <2>1. turn = 2 /\ Succeeds(Of(2)) /\ Succeeds(Of(1))
    BY <1>2, <1>3, <1>4, <1>7 DEF SameAs
  <2>2. 1 \in matching /\ 2 \in matching
    BY <1>2, <1>3, <2>1
  <2>3. \A n \in DOMAIN kids : matching # {n}
    BY <2>2
  <2> QED
    BY <1>5, <2>3 DEF SameAs
<1>8. CASE ~again /\ Last /\ Complete(Held)
  <2> SUFFICES ASSUME Top.key # -1
               PROVE  SameAs(Held, says)
    BY <1>1, <1>8, FrameReturns DEF says
  <2>1. turn = 2 => ~Succeeds(Of(2))
    BY <1>2, <1>8 DEF SameAs
  <2>2. Len(kids) = turn
    BY <1>8 DEF Last
  <2>3. matching = IF Succeeds(Of(1)) THEN {1} ELSE {}
    BY <1>2, <1>3, <2>1, <2>2
  <2>4. CASE Succeeds(Of(1))
    <3>1. matching = {1} /\ 1 \in DOMAIN kids
      BY <1>2, <1>3, <2>3, <2>4
    <3>2. says = Of(1)
      BY <1>5, <3>1
    <3> QED
      BY <1>4, <3>2
  <2>5. CASE ~Succeeds(Of(1))
    <3>1. says = FAILURE
      BY <1>5, <2>3, <2>5
    <3> QED
      BY <1>4, <2>5, <3>1, FailureFails DEF SameAs
  <2> QED
    BY <2>4, <2>5
<1>9. CASE ~Last /\ Again(Kid(turn + 1), turn + 1, Held, i)
  <2>1. Top.key # -1 => Knows(turn + 1, Held)
    BY <1>1, <1>2, <1>4 DEF Knows, FrameMeans
  <2> QED
    BY <1>1, <1>9, <2>1, AgainMeans
<1> QED
  BY <1>6, <1>7, <1>8, <1>9 DEF ResumeXOr

-----------------------------------------------------------------------------
(* Runs.                                                                   *)

LEMMA RunGrows ==
  ASSUME NEW l, NEW t, NEW p, NEW r, NEW i, NEW run, IsRun(l, t, p, r, i, run),
         NEW n \in 1 .. Len(run)
  PROVE  /\ Len(run) \in Nat
         /\ Succeeds(run[n]) /\ Another(l.rules[r], n) =>
              /\ n + 1 \in 1 .. Len(run)
              /\ run[n + 1] = Extended(l, t, p, l.rules[r], run[n], n)
         /\ ~Succeeds(run[n]) \/ ~Another(l.rules[r], n) => n = Len(run)
<1>1. Len(run) \in Nat \ {0}
  BY DEF IsRun
<1>2. n = Len(run) \/ n \in 1 .. Len(run) - 1
  BY <1>1
<1>3. n = Len(run) => (Succeeds(run[n]) => ~Another(l.rules[r], n))
  BY DEF IsRun
<1>4. n \in 1 .. Len(run) - 1 =>
        /\ Succeeds(run[n]) /\ Another(l.rules[r], n)
        /\ run[n + 1] = Extended(l, t, p, l.rules[r], run[n], n)
  BY DEF IsRun
<1> QED
  BY <1>1, <1>2, <1>3, <1>4

(* The next child joined to a run is the run's next output.                *)
LEMMA JoinedRun ==
  ASSUME Sound, MeaningNow, ~Misled, pc = "return", stack # <<>>, Top.key # -1,
         TopRule.kind \in {"Sequence", "Repeat"},
         NEW run, run = Run(lib, text, popped, Top.rule, Top.at),
         NEW n \in 1 .. Len(run), Another(TopRule, n),
         ChildOf(TopRule, n) = ChildRule(Top),
         \/ Top.turn = 1 /\ n = 1
         \/ Top.turn > 1 /\ Succeeds(Top.acc) /\ Top.acc = run[n]
  PROVE  /\ Succeeds(run[n])
         /\ n + 1 \in 1 .. Len(run)
         /\ SameAs(Joined, run[n + 1])
<1>1. /\ IsRun(lib, text, popped, Top.rule, Top.at, run) /\ TopRule = lib.rules[Top.rule]
      /\ popped \in Nat /\ Len(text) \in Nat /\ Top.at \in 0 .. Left
      /\ Place(Top.at) = Top.at /\ Top.turn \in Nat
      /\ out \in Output /\ Top.acc \in Output /\ Top.acc.idx \in Index
  <2>1. out \in Output /\ Top.acc \in Output /\ Top.acc.idx \in Index
    BY ResumedType DEF Sound, Output
  <2> QED
    BY <2>1, ResumedMeans, KidsOfTop, Solved DEF TopRule, Place
<1>2. ChildAt(Top) \in Nat => SameAs(out, Means(ChildRule(Top), ChildAt(Top)))
  BY ResumedMeans
<1>3. CASE Top.turn = 1 /\ n = 1
  <2>1. run[1] = ReachedAt(Top.at) /\ Succeeds(run[n])
    BY <1>1, <1>3 DEF IsRun, Succeeds, ReachedAt
  <2>2. /\ n + 1 \in 1 .. Len(run)
        /\ run[n + 1] = Extended(lib, text, popped, TopRule, run[n], n)
    BY <1>1, <2>1, RunGrows
  <2>3. Extended(lib, text, popped, TopRule, run[n], n)
          = joinOutputs(ReachedAt(Top.at), Meant(lib, text, popped, ChildRule(Top), Top.at))
    BY <1>3, <2>1 DEF Extended, ReachedAt
  <2>4. ChildAt(Top) = Top.at /\ Joined = out
    BY <1>3 DEF ChildAt, Joined
  <2>5. SameAs(out, Meant(lib, text, popped, ChildRule(Top), Top.at))
    BY <1>1, <1>2, <2>4 DEF Means
  <2>6. SameAs(out, run[n + 1])
    BY <1>1, <2>2, <2>3, <2>5, JoinFirst
  <2> QED
    BY <2>1, <2>2, <2>4, <2>6
<1>4. CASE Top.turn > 1 /\ Succeeds(Top.acc) /\ Top.acc = run[n]
  <2>1. /\ n + 1 \in 1 .. Len(run)
        /\ run[n + 1] = Extended(lib, text, popped, TopRule, Top.acc, n)
    BY <1>1, <1>4, RunGrows
  <2>2. ChildAt(Top) = Top.acc.idx /\ Joined = joinOutputs(Top.acc, out)
    BY <1>4 DEF ChildAt, Joined, TopRule
  <2>3. Place(Top.acc.idx) = Top.acc.idx /\ Top.acc.idx \in Nat
    <3>1. Fits(Top.acc, Top.key)
      BY <1>4, TopType DEF Sound, OrderOK, FrameFits, TypeOK, Top
    <3>2. Top.acc.idx \in Nat /\ popped + Top.acc.idx <= Len(text)
      BY <1>1, <1>4, <3>1 DEF Fits, Succeeds, Index
    <3> QED
      BY <1>1, <3>2 DEF Place, Left, Present
  <2>4. run[n + 1] = joinOutputs(Top.acc, Means(ChildRule(Top), ChildAt(Top)))
    BY <2>1, <2>2, <2>3 DEF Extended, Means
  <2>5. SameAs(Top.acc, Top.acc)
    BY DEF SameAs
  <2>6. SameAs(Joined, run[n + 1])
    <3>1. SameAs(out, Means(ChildRule(Top), ChildAt(Top)))
      BY <1>2, <2>2, <2>3
    <3> QED
      BY <1>1, <1>4, <2>2, <2>4, <2>5, <3>1, JoinSame
  <2> QED
    BY <1>4, <2>1, <2>6
<1> QED
  BY <1>3, <1>4

LEMMA SequenceMeans ==
  ASSUME Sound, Sound', MeaningNow, ~Misled, ResumeSequence
  PROVE  MeaningNow'
<1> DEFINE i    == Top.at
           turn == Top.turn
           says == Says(lib, text, popped, Top.rule, i)
<1>1. pc = "return" /\ stack # <<>> /\ TopRule.kind = "Sequence"
  BY DEF ResumeSequence, Resumed
<1>2. /\ turn \in 1 .. Len(TopRule.kids) /\ Len(TopRule.kids) \in Nat
      /\ TopRule = lib.rules[Top.rule] /\ turn \in Nat
      /\ ChildRule(Top) = TopRule.kids[turn]
  BY <1>1, KidsOfTop DEF Collections
<1>3. PICK run : run = Run(lib, text, popped, Top.rule, i)
  OBVIOUS
<1>4. says = When(Succeeds(run[Len(run)]), run[Len(run)])
  BY <1>1, <1>2, <1>3 DEF Says, Equation
<1>5. /\ Another(TopRule, turn) /\ ChildOf(TopRule, turn) = ChildRule(Top)
      /\ ~Another(TopRule, Len(TopRule.kids) + 1)
  <2>1. \A m \in Nat : \A n \in 1 .. m : n <= m /\ ~(m + 1 <= m)
    OBVIOUS
  <2>2. turn <= Len(TopRule.kids) /\ ~(Len(TopRule.kids) + 1 <= Len(TopRule.kids))
    BY <1>2, <2>1
  <2> QED
    BY <1>1, <1>2, <2>2 DEF Another, ChildOf
<1>6. ASSUME Top.key # -1
      PROVE  /\ IsRun(lib, text, popped, Top.rule, i, run) /\ Len(run) \in Nat
             /\ Len(run) >= 1 /\ FrameMeans(Top)
             /\ turn > 1 => turn \in 1 .. Len(run) /\ SameAs(Top.acc, run[turn])
  <2>1. IsRun(lib, text, popped, Top.rule, i, run) /\ FrameMeans(Top)
    BY <1>1, <1>2, <1>3, <1>6, ResumedMeans, Solved
  <2>2. turn > 1 => turn <= Len(run) /\ SameAs(Top.acc, run[turn])
    BY <1>1, <1>2, <1>3, <2>1 DEF FrameMeans
  <2> QED
    BY <1>2, <2>1, <2>2 DEF IsRun
(* The run goes on, unless what is held is a failure already.              *)
<1>7. ASSUME Top.key # -1, turn = 1 \/ Succeeds(Top.acc)
      PROVE  turn + 1 \in 1 .. Len(run) /\ SameAs(Joined, run[turn + 1])
  <2>1. CASE turn = 1
    <3>1. 1 \in 1 .. Len(run)
      BY <1>6, <1>7
    <3> QED
      BY <1>1, <1>3, <1>5, <1>7, <2>1, <3>1, JoinedRun
  <2>2. CASE turn # 1
    <3>1. turn > 1 /\ Succeeds(Top.acc)
      BY <1>2, <1>7, <2>2
    <3>2. turn \in 1 .. Len(run) /\ Top.acc = run[turn]
      BY <1>6, <1>7, <3>1 DEF SameAs
    <3> QED
      BY <1>1, <1>3, <1>5, <1>7, <3>1, <3>2, JoinedRun
  <2> QED
    BY <2>1, <2>2
<1>8. /\ turn = 1 => Held = out /\ Joined = out
      /\ turn # 1 => Held = Top.acc
  BY DEF Held, Joined
<1> HIDE DEF says
<1>9. CASE ~Succeeds(Held) /\ Complete(FAILURE)
  <2> SUFFICES ASSUME Top.key # -1
               PROVE  SameAs(FAILURE, says)
    BY <1>1, <1>9, FrameReturns DEF says
  <2>1. \E n \in 1 .. Len(run) : ~Succeeds(run[n])
    <3>1. CASE turn = 1
      BY <1>7, <1>8, <1>9, <3>1 DEF SameAs
    <3>2. CASE turn # 1
      <4>1. turn > 1
        BY <1>2, <3>2
      <4> QED
        BY <1>6, <1>8, <1>9, <3>2, <4>1 DEF SameAs
    <3> QED
      BY <3>1, <3>2
  <2>2. ~Succeeds(run[Len(run)])
    BY <1>6, <2>1, RunGrows
  <2> QED
    BY <1>4, <2>2, FailureFails DEF SameAs, When
<1>10. CASE Succeeds(Held) /\ Last /\ Complete(Joined)
  <2> SUFFICES ASSUME Top.key # -1
               PROVE  SameAs(Joined, says)
    BY <1>1, <1>10, FrameReturns DEF says
  <2>1. turn = 1 \/ Succeeds(Top.acc)
    BY <1>8, <1>10
  <2>2. turn + 1 \in 1 .. Len(run) /\ SameAs(Joined, run[turn + 1])
    BY <1>7, <2>1
  <2>3. turn + 1 = Len(run)
    <3>1. ~Another(TopRule, turn + 1)
      BY <1>5, <1>10 DEF Last
    <3> QED
      BY <1>2, <1>6, <2>2, <3>1, RunGrows
  <2> QED
    BY <1>4, <2>2, <2>3, FailureFails DEF SameAs, When
<1>11. CASE Succeeds(Held) /\ Again(Kid(turn + 1), turn + 1, Joined, Joined.idx)
  <2>1. turn = 1 \/ Succeeds(Top.acc)
    BY <1>8, <1>11
  <2>2. Top.key # -1 =>
          turn + 1 <= Len(run) /\ SameAs(Joined, run[turn + 1])
    BY <1>7, <2>1
  <2>3. Top.key # -1 => Knows(turn + 1, Joined)
    BY <1>1, <1>2, <1>3, <2>2 DEF Knows, FrameMeans
  <2> QED
    BY <1>1, <1>11, <2>3, AgainMeans
<1> QED
  BY <1>9, <1>10, <1>11 DEF ResumeSequence

(* What a repeat counts.                                                   *)
LEMMA RepeatCounts ==
  ASSUME Sound, pc = "return", stack # <<>>, TopRule.kind = "Repeat"
  PROVE  /\ TopRule = lib.rules[Top.rule] /\ ChildRule(Top) = TopRule.kids[1]
         /\ \A n : ChildOf(TopRule, n) = ChildRule(Top)
         /\ \A n : Another(TopRule, n) <=> (TopRule.max > 0 => n <= TopRule.max + 1)
         /\ TopRule.min \in Nat /\ TopRule.max \in Nat
         /\ Needed = NeededBy(TopRule) /\ Needed \in Nat /\ Needed >= 1
         /\ TopRule.min > 0 => Needed = TopRule.min
         /\ TopRule.min = 0 => Needed = 1
         /\ TopRule.max > 0 => TopRule.min >= 1 /\ TopRule.min <= TopRule.max
         /\ Top.turn \in Nat /\ Top.turn >= 1
<1>1. TopRule \in Rule /\ Top.rule \in RuleIds
  BY TopType DEF Sound, TypeOK
<1>2. /\ TopRule.min \in Nat /\ TopRule.max \in Nat
      /\ TopRule = lib.rules[Top.rule]
  BY <1>1 DEF Rule, TopRule
<1>3. /\ ChildRule(Top) = TopRule.kids[1] /\ Top.turn \in Nat /\ Top.turn >= 1
  BY KidsOfTop DEF Unary
<1>4. TopRule.max > 0 => TopRule.min \in 1 .. TopRule.max
  BY <1>1, <1>2, ShapeAssumption DEF WellShaped, Sound, BaseOK
<1> QED
  BY <1>2, <1>3, <1>4 DEF ChildOf, Another, Needed, NeededBy, Greater

LEMMA RepeatNeededMeans ==
  ASSUME Sound, Sound', MeaningNow, ~Misled, Resumed("Repeat"), RepeatNeeded
  PROVE  MeaningNow'
<1> DEFINE i    == Top.at
           turn == Top.turn
           R    == TopRule
           says == Says(lib, text, popped, Top.rule, i)
<1>1. pc = "return" /\ stack # <<>> /\ R.kind = "Repeat" /\ turn <= Needed
  BY DEF Resumed, RepeatNeeded
<1>2. PICK run : run = Run(lib, text, popped, Top.rule, i)
  OBVIOUS
<1>3. /\ R = lib.rules[Top.rule] /\ turn \in Nat /\ turn >= 1
      /\ \A n : ChildOf(R, n) = ChildRule(Top)
      /\ \A n : Another(R, n) <=> (R.max > 0 => n <= R.max + 1)
      /\ R.min \in Nat /\ R.max \in Nat
      /\ Needed = NeededBy(R) /\ Needed \in Nat /\ Needed >= 1
      /\ R.min > 0 => Needed = R.min
      /\ R.min = 0 => Needed = 1
      /\ R.max > 0 => R.min >= 1 /\ R.min <= R.max
  BY <1>1, RepeatCounts
<1>4. says = When(/\ MatchesOf(run) >= R.min
                  /\ R.max > 0 => MatchesOf(run) <= R.max,
                  run[MatchesOf(run) + 1])
  BY <1>1, <1>2, <1>3 DEF Says, Equation
<1> HIDE DEF says, R
<1>5. Another(R, turn)
  BY <1>1, <1>3
<1>6. ASSUME Top.key # -1
      PROVE  /\ IsRun(lib, text, popped, Top.rule, i, run) /\ Len(run) \in Nat
             /\ Len(run) >= 1 /\ run[1] = ReachedAt(i)
             /\ turn > 1 => turn \in 1 .. Len(run) /\ SameAs(Top.acc, run[turn])
  <2>1. IsRun(lib, text, popped, Top.rule, i, run) /\ FrameMeans(Top)
    BY <1>1, <1>2, <1>3, <1>6, ResumedMeans, Solved
  <2>2. turn > 1 => turn <= Len(run) /\ SameAs(Top.acc, run[turn])
    BY <1>1, <1>2, <1>3, <2>1 DEF FrameMeans
  <2> QED
    BY <1>3, <2>1, <2>2 DEF IsRun
<1>7. ASSUME Top.key # -1, turn = 1 \/ Succeeds(Top.acc)
      PROVE  turn + 1 \in 1 .. Len(run) /\ SameAs(Joined, run[turn + 1])
  <2>1. CASE turn = 1
    <3>1. 1 \in 1 .. Len(run)
      BY <1>6, <1>7
    <3> QED
      BY <1>1, <1>2, <1>3, <1>5, <1>7, <2>1, <3>1, JoinedRun DEF R
  <2>2. CASE turn # 1
    <3>1. turn > 1 /\ Succeeds(Top.acc)
      BY <1>3, <1>7, <2>2
    <3>2. turn \in 1 .. Len(run) /\ Top.acc = run[turn]
      BY <1>6, <1>7, <3>1 DEF SameAs
    <3> QED
      BY <1>1, <1>2, <1>3, <1>5, <1>7, <3>1, <3>2, JoinedRun DEF R
  <2> QED
    BY <2>1, <2>2
<1>8. /\ turn = 1 => Held = out /\ Joined = out
      /\ turn # 1 => Held = Top.acc
  BY DEF Held, Joined
(* A child that is needed is missing.                                      *)
<1>9. CASE /\ ~Succeeds(Held)
           /\ Complete(IF R.min > 0 THEN FAILURE ELSE ReachedAt(i))
  <2> SUFFICES ASSUME Top.key # -1
               PROVE  SameAs(IF R.min > 0 THEN FAILURE ELSE ReachedAt(i), says)
    BY <1>1, <1>9, FrameReturns DEF says, R
  <2>1. CASE turn = 1
    <3>1. 2 \in 1 .. Len(run) /\ ~Succeeds(run[2])
      BY <1>7, <1>8, <1>9, <2>1 DEF SameAs
    <3>2. Len(run) = 2
      <4>1. \A n \in 1 .. Len(run) : ~Succeeds(run[n]) => n = Len(run)
        BY <1>6, RunGrows
      <4> QED
        BY <3>1, <4>1
    <3>3. MatchesOf(run) = 0
      BY <3>1, <3>2 DEF MatchesOf
    <3> QED
      BY <1>3, <1>4, <1>6, <3>3, FailureFails DEF SameAs, When
  <2>2. CASE turn # 1
    <3>1. turn > 1 /\ ~Succeeds(Top.acc)
      BY <1>3, <1>8, <1>9, <2>2
    <3>2. turn \in 1 .. Len(run) /\ ~Succeeds(run[turn])
      BY <1>6, <3>1 DEF SameAs
    <3>3. Len(run) = turn
      BY <1>6, <3>2, RunGrows
    <3>4. MatchesOf(run) = turn - 2
      BY <3>2, <3>3 DEF MatchesOf
    <3>5. R.min > 0 /\ ~(MatchesOf(run) >= R.min)
      BY <1>1, <1>3, <3>1, <3>4
    <3> QED
      BY <1>4, <3>5, FailureFails DEF SameAs, When
  <2> QED
    BY <2>1, <2>2
<1>10. CASE /\ Succeeds(Held)
            /\ Again(Kid(1), turn + 1, Joined, Joined.idx)
  <2>1. turn = 1 \/ Succeeds(Top.acc)
    BY <1>8, <1>10
  <2>2. Top.key # -1 =>
          turn + 1 \in 1 .. Len(run) /\ SameAs(Joined, run[turn + 1])
    BY <1>7, <2>1
  <2>3. ASSUME Top.key # -1
        PROVE  Knows(turn + 1, Joined)
    <3>1. CASE turn + 1 <= Needed
      <4>1. turn + 1 <= Len(run) /\ SameAs(Joined, run[turn + 1])
        BY <2>2, <2>3
      <4> QED
        BY <1>1, <1>2, <1>3, <3>1, <4>1 DEF Knows, FrameMeans
    <3>2. CASE ~(turn + 1 <= Needed)
      <4>1. turn = Needed /\ (R.max > 0 => turn + 1 <= R.max + 1)
        BY <1>1, <1>3, <3>2
      <4>2. CASE Succeeds(run[turn + 1])
        <5>1. Joined = run[turn + 1] /\ turn + 1 \in NeededBy(R) + 1 .. Len(run)
          BY <1>3, <1>6, <2>2, <2>3, <4>1, <4>2 DEF SameAs
        <5>2. Steady(R, turn + 1, Joined, run)
          BY <4>2, <5>1 DEF Steady
        <5> QED
          BY <1>1, <1>2, <1>3, <3>2, <4>1, <5>2 DEF Knows, FrameMeans
      <4>3. CASE ~Succeeds(run[turn + 1])
        <5>1. ~Succeeds(Joined)
          BY <2>2, <2>3, <4>3 DEF SameAs
        <5>2. Len(run) = turn + 1
          BY <1>6, <2>2, <2>3, <4>3, RunGrows
        <5>3. turn # 1
          BY <1>8, <1>10, <5>1
        <5>4. KeyOf(Joined.idx) = -1
          BY <5>1 DEF KeyOf, Present, Succeeds
        <5>5. Lost(R, Joined, run)
          <6>1. NeededBy(R) >= 2 /\ Len(run) = NeededBy(R) + 1
            BY <1>3, <4>1, <5>2, <5>3
          <6> QED
            BY <4>3, <5>1, <5>2, <5>4, <6>1 DEF Lost
        <5> QED
          BY <1>1, <1>2, <1>3, <3>2, <4>1, <5>5 DEF Knows, FrameMeans
      <4> QED
        BY <4>2, <4>3
    <3> QED
      BY <3>1, <3>2
  <2> QED
    BY <1>1, <1>10, <2>3, AgainMeans
<1>11. ~(turn = Needed /\ R.max > 0 /\ Allowed <= 0)
  BY <1>3 DEF Allowed, R
<1> QED
  BY <1>9, <1>10, <1>11 DEF RepeatNeeded, R

LEMMA RepeatMoreMeans ==
  ASSUME Sound, Sound', MeaningNow, ~Misled, Resumed("Repeat"), RepeatMore
  PROVE  MeaningNow'
<1> DEFINE i    == Top.at
           turn == Top.turn
           R    == TopRule
           says == Says(lib, text, popped, Top.rule, i)
<1>1. pc = "return" /\ stack # <<>> /\ R.kind = "Repeat" /\ turn > Needed
  BY DEF Resumed, RepeatMore
<1>2. PICK run : run = Run(lib, text, popped, Top.rule, i)
  OBVIOUS
<1>3. /\ R = lib.rules[Top.rule] /\ turn \in Nat /\ turn > 1
      /\ \A n : ChildOf(R, n) = ChildRule(Top)
      /\ \A n : Another(R, n) <=> (R.max > 0 => n <= R.max + 1)
      /\ R.min \in Nat /\ R.max \in Nat
      /\ Needed = NeededBy(R) /\ Needed \in Nat /\ Needed >= 1
      /\ R.min > 0 => Needed = R.min
      /\ R.min = 0 => Needed = 1
      /\ R.max > 0 => R.min >= 1 /\ R.min <= R.max
      /\ Allowed = R.max + 1 - R.min
  BY <1>1, RepeatCounts DEF Allowed
<1>4. says = When(/\ MatchesOf(run) >= R.min
                  /\ R.max > 0 => MatchesOf(run) <= R.max,
                  run[MatchesOf(run) + 1])
  BY <1>1, <1>2, <1>3 DEF Says, Equation
<1> HIDE DEF says, R
<1>5. ASSUME Top.key # -1
      PROVE  /\ IsRun(lib, text, popped, Top.rule, i, run) /\ Len(run) \in Nat
             /\ R.max > 0 => turn <= R.max + 1
             /\ Steady(R, turn, Top.acc, run) \/ Lost(R, Top.acc, run)
  <2>1. IsRun(lib, text, popped, Top.rule, i, run) /\ FrameMeans(Top)
    BY <1>1, <1>2, <1>3, <1>5, ResumedMeans, Solved
  <2>2. /\ R.max > 0 => turn <= R.max + 1
        /\ Steady(R, turn, Top.acc, run) \/ Lost(R, Top.acc, run)
    BY <1>1, <1>2, <1>3, <2>1 DEF FrameMeans
  <2> QED
    BY <2>1, <2>2 DEF IsRun
<1>6. Joined = joinOutputs(Top.acc, out) /\ Joined.idx = out.idx
  BY <1>3 DEF Joined, joinOutputs
(* Each child so far has matched, and the next is joined to the run.       *)
<1>7. ASSUME Top.key # -1, Steady(R, turn, Top.acc, run)
      PROVE  \E n \in NeededBy(R) + 1 .. Len(run) :
               /\ Top.acc = run[n] /\ (R.max > 0 => n = turn) /\ Another(R, n)
               /\ n + 1 \in 1 .. Len(run) /\ SameAs(Joined, run[n + 1])
  <2>1. PICK n \in NeededBy(R) + 1 .. Len(run) :
          /\ Succeeds(run[n]) /\ Top.acc = run[n] /\ (R.max > 0 => n = turn)
    BY <1>7 DEF Steady
  <2>2. n \in 1 .. Len(run) /\ Another(R, n)
    BY <1>3, <1>5, <1>7, <2>1
  <2>3. n + 1 \in 1 .. Len(run) /\ SameAs(Joined, run[n + 1])
    BY <1>1, <1>2, <1>3, <1>7, <2>1, <2>2, JoinedRun DEF R
  <2> QED
    BY <2>1, <2>2, <2>3
(* A child that was needed is missing, and the rest is at index -1.        *)
<1>8. ASSUME Top.key # -1, Lost(R, Top.acc, run)
      PROVE  /\ says = FAILURE
             /\ Succeeds(Top.acc) => Succeeds(out)
             /\ Succeeds(out) => Lost(R, Joined, run)
  <2>1. /\ NeededBy(R) >= 2 /\ Len(run) = NeededBy(R) + 1
        /\ ~Succeeds(run[Len(run)]) /\ KeyOf(Top.acc.idx) = -1
        /\ Succeeds(Top.acc) => Recorded(R.kids[1], -1)
    BY <1>8 DEF Lost
  <2>2. says = FAILURE
    <3>1. MatchesOf(run) = NeededBy(R) - 1
      BY <1>3, <2>1 DEF MatchesOf
    <3>2. ~(MatchesOf(run) >= R.min)
      BY <1>3, <2>1, <3>1
    <3> QED
      BY <1>4, <3>2 DEF When
  <2>3. ChildAt(Top) = Top.acc.idx /\ ChildRule(Top) = R.kids[1]
    BY <1>1, <1>3, RepeatCounts DEF ChildAt, R
  <2>4. Succeeds(out) <=> Recorded(R.kids[1], -1)
    <3>1. CalledRule(Len(stack)) = R.kids[1] /\ KeyOf(CalledAt(Len(stack))) = -1
      <4>1. Len(stack) # 0
        BY <1>1, TopType DEF Sound, TypeOK
      <4> QED
        BY <2>1, <2>3, <4>1 DEF CalledRule, CalledAt, Top
    <3>2. PICK k : k = <<R.kids[1], -1>>
      OBVIOUS
    <3>3. \/ k \in Completed /\ out.idx = history[k].out.idx
          \/ k \notin Completed /\ out = FAILURE
      <4>1. \A r, j, o : Wrapped(r, j, o).idx = o.idx
        BY DEF Wrapped, Under
      <4> QED
        BY <1>1, <3>1, <3>2, <4>1 DEF Sound, FromMemo, Completed
    <3> QED
      BY <3>2, <3>3, FailureFails DEF Recorded, Succeeds
  <2>5. Succeeds(Top.acc) => Succeeds(out)
    BY <2>1, <2>4
  <2>6. Succeeds(out) => Lost(R, Joined, run)
    <3> SUFFICES ASSUME Succeeds(out)
                 PROVE  Lost(R, Joined, run)
      OBVIOUS
    <3>1. popped + out.idx = Len(text)
      BY <1>1, <2>1, <2>3 DEF Sound, OrderOK, Nested, Fits
    <3>2. KeyOf(Joined.idx) = -1
      <4>1. Len(text) \in Nat /\ ~(popped + out.idx < Len(text))
        BY <3>1, TextType DEF Sound, TypeOK
      <4> QED
        BY <1>6, <4>1 DEF KeyOf, Present
    <3>3. Recorded(R.kids[1], -1)
      BY <2>4
    <3> QED
      BY <2>1, <3>2, <3>3 DEF Lost
  <2> QED
    BY <2>2, <2>5, <2>6
<1>9. CASE ~Succeeds(out) /\ Complete(Top.acc)
  <2> SUFFICES ASSUME Top.key # -1
               PROVE  SameAs(Top.acc, says)
    BY <1>1, <1>9, FrameReturns DEF says, R
  <2>1. CASE Steady(R, turn, Top.acc, run)
    <3>1. PICK n \in NeededBy(R) + 1 .. Len(run) :
            /\ Top.acc = run[n] /\ (R.max > 0 => n = turn) /\ Another(R, n)
            /\ n + 1 \in 1 .. Len(run) /\ SameAs(Joined, run[n + 1])
      BY <1>7, <2>1
    <3>2. ~Succeeds(run[n + 1])
      BY <1>6, <1>9, <3>1 DEF SameAs, Succeeds
    <3>3. Len(run) = n + 1
      BY <1>5, <3>1, <3>2, RunGrows
    <3>4. MatchesOf(run) = n - 1 /\ n - 1 + 1 = n
      BY <1>3, <3>2, <3>3 DEF MatchesOf
    <3>5. n - 1 >= R.min /\ (R.max > 0 => n - 1 <= R.max)
      BY <1>3, <1>5, <3>1
    <3>6. says = Top.acc
      BY <1>4, <3>1, <3>4, <3>5 DEF When
    <3> QED
      BY <3>6 DEF SameAs
  <2>2. CASE Lost(R, Top.acc, run)
    BY <1>8, <1>9, <2>2, FailureFails DEF SameAs
  <2> QED
    BY <1>5, <2>1, <2>2
<1>10. CASE /\ Succeeds(out) /\ R.max > 0 /\ turn - Needed >= Allowed
            /\ Complete(FAILURE)
  <2> SUFFICES ASSUME Top.key # -1
               PROVE  SameAs(FAILURE, says)
    BY <1>1, <1>10, FrameReturns DEF says, R
  <2>1. CASE Steady(R, turn, Top.acc, run)
    <3>1. PICK n \in NeededBy(R) + 1 .. Len(run) :
            /\ Top.acc = run[n] /\ (R.max > 0 => n = turn) /\ Another(R, n)
            /\ n + 1 \in 1 .. Len(run) /\ SameAs(Joined, run[n + 1])
      BY <1>7, <2>1
    <3>2. n = R.max + 1
      <4>1. /\ n = turn /\ turn <= R.max + 1
            /\ turn - Needed >= Allowed /\ Needed = R.min
            /\ turn \in Nat /\ R.min \in Nat /\ R.max \in Nat
        BY <1>3, <1>5, <1>10, <3>1
      <4>2. Allowed = R.max + 1 - R.min
        BY <1>3
      <4> QED
        BY <4>1, <4>2
    <3>3. Succeeds(run[n + 1])
      BY <1>6, <1>10, <3>1 DEF SameAs, Succeeds
    <3>4. Len(run) = n + 1
      <4>1. ~Another(R, n + 1)
        BY <1>3, <1>10, <3>2
      <4>2. IsRun(lib, text, popped, Top.rule, i, run)
        BY <1>5
      <4>3. PICK m \in 1 .. Len(run) : m = n + 1
        BY <3>1
      <4> QED
        BY <1>3, <4>1, <4>2, <4>3, RunGrows
    <3>5. MatchesOf(run) = n
      BY <1>3, <3>2, <3>3, <3>4 DEF MatchesOf
    <3>6. ~(MatchesOf(run) <= R.max)
      BY <1>3, <3>2, <3>5
    <3> QED
      BY <1>4, <1>10, <3>6 DEF When, SameAs
  <2>2. CASE Lost(R, Top.acc, run)
    BY <1>8, <2>2 DEF SameAs
  <2> QED
    BY <1>5, <2>1, <2>2
(* The repeat goes on.                                                     *)
<1>11. ASSUME Succeeds(out), NEW next \in Nat, next >= turn,
              R.max > 0 => next = turn + 1 /\ next <= R.max + 1,
              Again(Kid(1), next, Joined, Joined.idx)
       PROVE  MeaningNow'
  <2>1. ASSUME Top.key # -1
        PROVE  Steady(R, next, Joined, run) \/ Lost(R, Joined, run)
    <3>1. CASE Steady(R, turn, Top.acc, run)
      <4>1. PICK n \in NeededBy(R) + 1 .. Len(run) :
              /\ Top.acc = run[n] /\ (R.max > 0 => n = turn) /\ Another(R, n)
              /\ n + 1 \in 1 .. Len(run) /\ SameAs(Joined, run[n + 1])
        BY <1>7, <2>1, <3>1
      <4>2. Succeeds(run[n + 1]) /\ Joined = run[n + 1]
        BY <1>6, <1>11, <4>1 DEF SameAs, Succeeds
      <4>3. n + 1 \in NeededBy(R) + 1 .. Len(run) /\ (R.max > 0 => n + 1 = next)
        BY <1>3, <1>11, <4>1
      <4> QED
        BY <4>2, <4>3 DEF Steady
    <3>2. CASE Lost(R, Top.acc, run)
      BY <1>8, <1>11, <2>1, <3>2
    <3> QED
      BY <1>5, <2>1, <3>1, <3>2
  <2>2. Top.key # -1 => Knows(next, Joined)
    <3>1. ~(next <= NeededBy(R)) /\ (R.max > 0 => next <= R.max + 1)
      BY <1>1, <1>3, <1>11
    <3> QED
      BY <1>1, <1>2, <1>3, <2>1, <3>1 DEF Knows, FrameMeans
  <2> QED
    BY <1>1, <1>11, <2>2, AgainMeans
<1>12. CASE /\ Succeeds(out) /\ R.max > 0 /\ turn - Needed < Allowed
            /\ Again(Kid(1), turn + 1, Joined, Joined.idx)
  <2>1. turn + 1 \in Nat /\ turn + 1 >= turn /\ turn + 1 <= R.max + 1
    BY <1>3, <1>12
  <2> QED
    BY <1>11, <1>12, <2>1
<1>13. CASE /\ Succeeds(out) /\ R.max = 0
            /\ Again(Kid(1), turn, Joined, Joined.idx)
  BY <1>3, <1>11, <1>13
<1> QED
  BY <1>9, <1>10, <1>12, <1>13 DEF RepeatMore, R

-----------------------------------------------------------------------------
(* The library loop.                                                       *)

(* No stack, and no visit under way.                                       *)
LEMMA LoopMeans ==
  ASSUME Sound, MeaningNow, UNCHANGED <<text, popped, lib, history>>,
         stack' = <<>>, pc' # "return", BestSoFar'
  PROVE  MeaningNow'
<1>1. Len(stack') = 0
  OBVIOUS
<1>2. MemoMeans'
  BY DEF MeaningNow, MemoMeans, Completed, Holds, Wrapped, Wraps, RangeBetween
<1>3. FramesMean' /\ Climbing' /\ ReturnMeans'
  BY <1>1 DEF FramesMean, Climbing, ReturnMeans
<1> QED
  BY <1>2, <1>3 DEF MeaningNow

(* What the visit of a symbol has returned is what the symbol means.       *)
LEMMA SymbolMeans ==
  ASSUME Sound, MeaningNow, ~Misled, pc = "return", stack = <<>>
  PROVE  SameAs(out, Meant(lib, text, popped, lib.symbol[lib.symbols[tried + 1]], 0))
<1>1. SameAs(out, Means(Resolve(lib, lib.symbols[tried + 1]), 0))
  <2>1. Len(stack) = 0
    OBVIOUS
  <2> QED
    BY <2>1, AnswerMeant DEF CalledRule, CalledAt
<1>2. Place(0) = 0
  BY TextType DEF Place, Left, Present, Sound, BaseOK, TypeOK
<1>3. tried + 1 \in 1 .. Len(lib.symbols)
  BY DEF Sound, TypeOK, ControlOK
<1>4. Resolve(lib, lib.symbols[tried + 1]) = lib.symbol[lib.symbols[tried + 1]]
  BY <1>3 DEF Resolve, Sound, TypeOK, LibraryOK, WellBuilt
<1> QED
  BY <1>1, <1>2, <1>4 DEF Means

LEMMA TakeMeans ==
  ASSUME Sound, MeaningNow, ~Misled, TakeResult
  PROVE  MeaningNow'
<1> DEFINE Of(n) == Meant(lib, text, popped, lib.symbol[lib.symbols[n]], 0)
           next  == tried + 1
<1>1. /\ pc = "return" /\ stack = <<>> /\ stack' = <<>> /\ pc' = "symbols"
      /\ UNCHANGED <<text, popped, lib, history>> /\ tried' = next
      /\ \/ out.idx > best.idx /\ best' = out /\ winner' = lib.symbols[next]
         \/ ~(out.idx > best.idx) /\ best' = best /\ winner' = winner
  BY DEF TakeResult
<1>2. SameAs(out, Of(next))
  BY <1>1, SymbolMeans
<1>3. /\ tried \in Nat /\ next \in Nat /\ out.idx \in Index /\ best.idx \in Index
      /\ \A n \in 1 .. next : n \in 1 .. tried \/ n = next
      /\ \A n \in 1 .. tried : n \in 1 .. next /\ n < next
      /\ next \in 1 .. next
  BY DEF Sound, TypeOK, ControlOK, ResultOK, Output
<1>4. BestSoFar' <=>
        \/ best'.idx = -1 /\ \A n \in 1 .. next : ~Succeeds(Of(n))
        \/ \E n \in 1 .. next :
             /\ Succeeds(Of(n))
             /\ best' = Of(n)
             /\ winner' = lib.symbols[n]
             /\ \A m \in 1 .. next : Succeeds(Of(m)) =>
                  /\ Of(m).idx \in Nat
                  /\ Of(m).idx <= Of(n).idx
                  /\ m < n => Of(m).idx < Of(n).idx
  BY <1>1 DEF BestSoFar
<1>5. BestSoFar <=>
        \/ best.idx = -1 /\ \A n \in 1 .. tried : ~Succeeds(Of(n))
        \/ \E n \in 1 .. tried :
             /\ Succeeds(Of(n))
             /\ best = Of(n)
             /\ winner = lib.symbols[n]
             /\ \A m \in 1 .. tried : Succeeds(Of(m)) =>
                  /\ Of(m).idx \in Nat
                  /\ Of(m).idx <= Of(n).idx
                  /\ m < n => Of(m).idx < Of(n).idx
  BY DEF BestSoFar
<1>6. /\ Succeeds(Of(next)) => out = Of(next) /\ Of(next).idx \in Nat
      /\ ~Succeeds(Of(next)) => out.idx = -1
  BY <1>2, <1>3 DEF SameAs, Succeeds, Index
<1> HIDE DEF Of, next
<1>7. BestSoFar'
  <2>1. CASE best.idx = -1 /\ \A n \in 1 .. tried : ~Succeeds(Of(n))
    <3>1. CASE Succeeds(Of(next))
      <4>1. out.idx > best.idx /\ best' = Of(next) /\ winner' = lib.symbols[next]
        BY <1>1, <1>6, <2>1, <3>1
      <4>2. \A m \in 1 .. next : Succeeds(Of(m)) => m = next
        BY <1>3, <2>1
      <4> QED
        BY <1>3, <1>4, <1>6, <3>1, <4>1, <4>2
    <3>2. CASE ~Succeeds(Of(next))
      <4>1. best' = best
        BY <1>1, <1>6, <2>1, <3>2
      <4> QED
        BY <1>3, <1>4, <2>1, <3>2, <4>1
    <3> QED
      BY <3>1, <3>2
  <2>2. CASE \E n \in 1 .. tried :
               /\ Succeeds(Of(n))
               /\ best = Of(n)
               /\ winner = lib.symbols[n]
               /\ \A m \in 1 .. tried : Succeeds(Of(m)) =>
                    /\ Of(m).idx \in Nat
                    /\ Of(m).idx <= Of(n).idx
                    /\ m < n => Of(m).idx < Of(n).idx
    <3>1. PICK n \in 1 .. tried :
            /\ Succeeds(Of(n))
            /\ best = Of(n)
            /\ winner = lib.symbols[n]
            /\ \A m \in 1 .. tried : Succeeds(Of(m)) =>
                 /\ Of(m).idx \in Nat
                 /\ Of(m).idx <= Of(n).idx
                 /\ m < n => Of(m).idx < Of(n).idx
      BY <2>2
    <3>2. Of(n).idx \in Nat /\ n \in 1 .. next /\ n < next /\ n \in Nat
      BY <1>3, <3>1
    <3>3. CASE out.idx > best.idx
      <4>1. Succeeds(Of(next)) /\ best' = Of(next) /\ winner' = lib.symbols[next]
            /\ Of(next).idx > Of(n).idx
        BY <1>1, <1>6, <3>1, <3>2, <3>3
      <4>2. \A m \in 1 .. next : Succeeds(Of(m)) =>
              /\ Of(m).idx \in Nat
              /\ Of(m).idx <= Of(next).idx
              /\ m < next => Of(m).idx < Of(next).idx
        <5> SUFFICES ASSUME NEW m \in 1 .. next, Succeeds(Of(m))
                     PROVE  /\ Of(m).idx \in Nat
                            /\ Of(m).idx <= Of(next).idx
                            /\ m < next => Of(m).idx < Of(next).idx
          OBVIOUS
        <5>1. CASE m = next
          BY <1>3, <1>6, <5>1
        <5>2. CASE m \in 1 .. tried
          BY <1>6, <3>1, <3>2, <4>1, <5>2
        <5> QED
          BY <1>3, <5>1, <5>2
      <4> QED
        BY <1>3, <1>4, <4>1, <4>2
    <3>4. CASE ~(out.idx > best.idx)
      <4>1. best' = Of(n) /\ winner' = lib.symbols[n]
        BY <1>1, <3>1, <3>4
      <4>2. Succeeds(Of(next)) => Of(next).idx \in Nat /\ Of(next).idx <= Of(n).idx
        BY <1>6, <3>1, <3>2, <3>4
      <4>3. \A m \in 1 .. next : Succeeds(Of(m)) =>
              /\ Of(m).idx \in Nat
              /\ Of(m).idx <= Of(n).idx
              /\ m < n => Of(m).idx < Of(n).idx
        <5> SUFFICES ASSUME NEW m \in 1 .. next, Succeeds(Of(m))
                     PROVE  /\ Of(m).idx \in Nat
                            /\ Of(m).idx <= Of(n).idx
                            /\ m < n => Of(m).idx < Of(n).idx
          OBVIOUS
        <5>1. CASE m = next
          BY <1>3, <3>2, <4>2, <5>1
        <5>2. CASE m \in 1 .. tried
          BY <3>1, <5>2
        <5> QED
          BY <1>3, <5>1, <5>2
      <4> QED
        BY <1>4, <3>1, <3>2, <4>1, <4>3
    <3> QED
      BY <3>3, <3>4
  <2> QED
    BY <1>5, <2>1, <2>2 DEF MeaningNow
<1> QED
  BY <1>1, <1>7, LoopMeans

LEMMA LibraryMeans ==
  ASSUME Sound, MeaningNow, ~Misled, LibraryStep, pc' # "found"
  PROVE  MeaningNow'
<1>1. CASE TrySymbol \/ NothingFound
  <2>1. /\ UNCHANGED <<text, popped, lib, history, stack, tried, best, winner>>
        /\ pc' # "return" /\ pc = "symbols"
    BY <1>1 DEF TrySymbol, NothingFound, Visit, LibraryUnchanged
  <2>2. stack = <<>>
    BY <2>1 DEF Sound, CallsNested
  <2>3. BestSoFar'
    BY <2>1 DEF MeaningNow, BestSoFar
  <2> QED
    BY <2>1, <2>2, <2>3, LoopMeans
<1> QED
  BY <1>1, TakeMeans DEF LibraryStep, Found

-----------------------------------------------------------------------------
(* Every step.                                                             *)

LEMMA StutterMeans ==
  ASSUME MeaningNow, UNCHANGED vars
  PROVE  MeaningNow'
<1> USE DEF MeaningNow, vars, evalVars
<1>1. MemoMeans'
  BY DEF MemoMeans, Completed, Holds, Wrapped, Wraps, RangeBetween, Present
<1>2. FramesMean'
  <2>1. MemoKept
    BY DEF MemoKept, Completed
  <2> QED
    BY <2>1, FrameKept DEF FramesMean
<1>3. Climbing'
  BY DEF Climbing, Climbs, KeyOf, Present
<1>4. ReturnMeans'
  <2>1. /\ CalledRule(Len(stack))' = CalledRule(Len(stack))
        /\ CalledAt(Len(stack))' = CalledAt(Len(stack))
    BY DEF CalledRule, CalledAt, ChildRule, ChildAt
  <2> QED
    BY <2>1 DEF ReturnMeans, Top, Means, Place, Left, KeyOf, Present
<1>5. BestSoFar'
  BY DEF BestSoFar
<1> QED
  BY <1>1, <1>2, <1>3, <1>4, <1>5

LEMMA MeaningStep ==
  ASSUME Sound, Sound', MeaningNow, ~Misled, pc' # "found", [Next]_vars
  PROVE  MeaningNow'
<1>1. CASE CacheStep
  BY <1>1, CacheAnswerMeans, DescendMeans, AnswerMeans DEF CacheStep
<1>2. CASE TerminalStep
  BY <1>2, AnswerMeans
<1>3. CASE ResumeStep
  BY <1>3, UnaryMeans, OrMeans, AndMeans, XOrMeans, SequenceMeans,
     RepeatNeededMeans, RepeatMoreMeans DEF ResumeStep, ResumeRepeat
<1>4. CASE LibraryStep
  BY <1>4, LibraryMeans
<1>5. CASE UNCHANGED vars
  BY <1>5, StutterMeans
<1> QED
  BY <1>1, <1>2, <1>3, <1>4, <1>5 DEF Next, Step

(* What is known until begin returns, if nothing was poisoned.             *)
LEMMA MeaningOKStep ==
  ASSUME Sound, Sound', MeaningOK, [Next]_vars
  PROVE  MeaningOK'
<1> SUFFICES ASSUME pc' # "found", ~Poisoned'
             PROVE  MeaningNow'
  BY DEF MeaningOK
<1>1. pc # "found"
  BY NothingElsePops DEF Sound, vars, evalVars
<1>2. MeaningNow /\ ~Misled
  BY <1>1, PoisonedStays, MisledIsPoisoned DEF MeaningOK
<1> QED
  BY <1>2, MeaningStep

LEMMA MeaningIsKept == Spec => []MeaningOK
<1>1. Init => MeaningOK
  <2> SUFFICES ASSUME Init
               PROVE  MeaningNow
    BY DEF MeaningOK
  <2>1. history = <<>> /\ stack = <<>> /\ pc = "symbols" /\ tried = 0
        /\ best = FAILURE
    BY DEF Init, Begin
  <2>2. DOMAIN history = {} /\ Len(stack) = 0 /\ best.idx = -1
    BY <2>1 DEF FAILURE, ReachedAt
  <2> QED
    BY <2>1, <2>2 DEF MeaningNow, MemoMeans, Completed, FramesMean, Climbing,
                      ReturnMeans, BestSoFar
<1>2. Sound /\ Sound' /\ MeaningOK /\ [Next]_vars => MeaningOK'
  BY MeaningOKStep
<1> QED
  BY <1>1, <1>2, CallIsSound, PTL DEF Spec

-----------------------------------------------------------------------------
LEMMA FaithfulMemo ==
  ASSUME Sound, MeaningOK
  PROVE  MemoFaithful
<1> SUFFICES ASSUME pc = "symbols", ~Poisoned, NEW k \in Completed
             PROVE  RecordMeans(k, (IF k[2] = -1 THEN Len(text) ELSE k[2]) - popped)
  BY DEF MemoFaithful
<1>1. CASE k[2] = -1
  BY <1>1 DEF Poisoned, Base
<1>2. CASE k[2] # -1
  BY <1>2 DEF MeaningOK, MeaningNow, MemoMeans, Holds, RecordMeans, Base
<1> QED
  BY <1>1, <1>2

(* While nothing has poisoned the key of the end of input, the memo that   *)
(* the strategies of RuleHistory.h share answers for every rule, at every  *)
(* position, what the rule means there: for any library and text, whatever *)
(* symbol or parent the rule was first visited for.                        *)
THEOREM MemoIsFaithful == Spec => []MemoFaithful
<1>1. Sound /\ MeaningOK => MemoFaithful
  BY FaithfulMemo
<1> QED
  BY <1>1, CallIsSound, MeaningIsKept, PTL

(* Once every symbol has been tried, what the library loop holds is the    *)
(* first of the longest matches.                                           *)
LEMMA LongestIsBest ==
  ASSUME Sound, BestSoFar, tried = Len(lib.symbols),
         NEW meant, meant = Candidates(lib, text, popped)
  PROVE  /\ best.idx = -1 => LongestOf(meant) = {}
         /\ Succeeds(best) => /\ LongestOf(meant) # {}
                              /\ best = meant[First(LongestOf(meant))]
                              /\ winner = lib.symbols[First(LongestOf(meant))]
<1> DEFINE Of(n)   == Meant(lib, text, popped, lib.symbol[lib.symbols[n]], 0)
           longest == LongestOf(meant)
<1>1. tried \in Nat /\ DOMAIN lib.symbols = 1 .. tried
  BY LenProperties DEF Sound, TypeOK, ControlOK, LibraryOK, Library
<1>2. DOMAIN meant = 1 .. tried /\ \A n \in 1 .. tried : meant[n] = Of(n)
  BY <1>1 DEF Candidates
<1>3. \A n : n \in longest <=>
        /\ n \in 1 .. tried
        /\ Succeeds(Of(n))
        /\ \A m \in 1 .. tried : Succeeds(Of(m)) => Of(m).idx <= Of(n).idx
  BY <1>2 DEF LongestOf
<1>4. \/ best.idx = -1 /\ \A n \in 1 .. tried : ~Succeeds(Of(n))
      \/ \E n \in 1 .. tried :
           /\ Succeeds(Of(n))
           /\ best = Of(n)
           /\ winner = lib.symbols[n]
           /\ \A m \in 1 .. tried : Succeeds(Of(m)) =>
                /\ Of(m).idx \in Nat
                /\ Of(m).idx <= Of(n).idx
                /\ m < n => Of(m).idx < Of(n).idx
  BY DEF BestSoFar
<1> HIDE DEF Of, longest
<1>5. CASE best.idx = -1 /\ \A n \in 1 .. tried : ~Succeeds(Of(n))
  <2>1. longest = {} /\ ~Succeeds(best)
    BY <1>3, <1>5 DEF Succeeds
  <2> QED
    BY <2>1 DEF longest
<1>6. CASE \E n \in 1 .. tried :
             /\ Succeeds(Of(n))
             /\ best = Of(n)
             /\ winner = lib.symbols[n]
             /\ \A m \in 1 .. tried : Succeeds(Of(m)) =>
                  /\ Of(m).idx \in Nat
                  /\ Of(m).idx <= Of(n).idx
                  /\ m < n => Of(m).idx < Of(n).idx
  <2>1. PICK n \in 1 .. tried :
          /\ Succeeds(Of(n))
          /\ best = Of(n)
          /\ winner = lib.symbols[n]
          /\ \A m \in 1 .. tried : Succeeds(Of(m)) =>
               /\ Of(m).idx \in Nat
               /\ Of(m).idx <= Of(n).idx
               /\ m < n => Of(m).idx < Of(n).idx
    BY <1>6
  <2>2. n \in longest /\ best.idx # -1
    BY <1>3, <2>1
  <2>3. ASSUME NEW m \in longest
        PROVE  n <= m
    <3>1. m \in 1 .. tried /\ Succeeds(Of(m)) /\ Of(n).idx <= Of(m).idx
      BY <1>3, <2>1
    <3>2. Of(m).idx \in Nat /\ Of(n).idx \in Nat /\ (m < n => Of(m).idx < Of(n).idx)
      BY <2>1, <3>1
    <3> QED
      BY <1>1, <3>1, <3>2
  <2>4. First(longest) = n
    <3>1. longest \subseteq Int
      BY <1>1, <1>3
    <3> QED
      BY <2>2, <2>3, <3>1, FirstIs
  <2> QED
    BY <1>2, <2>1, <2>2, <2>4 DEF longest
<1> QED
  BY <1>4, <1>5, <1>6

(* A call that has tried every symbol ends with the longest match.         *)
LEMMA LongestStep ==
  ASSUME Sound, MeaningNow, Found \/ NothingFound, NEW p, p = popped
  PROVE  ReturnsLongest(p)'
<1> DEFINE meant == Candidates(lib, text, p)
<1>1. /\ UNCHANGED <<text, lib, best, winner>>
      /\ pc = "symbols" /\ tried = Len(lib.symbols)
  BY DEF Found, NothingFound, LibraryUnchanged
<1>2. /\ best.idx = -1 => LongestOf(meant) = {}
      /\ Succeeds(best) => /\ LongestOf(meant) # {}
                           /\ best = meant[First(LongestOf(meant))]
                           /\ winner = lib.symbols[First(LongestOf(meant))]
  BY <1>1, LongestIsBest DEF MeaningNow
<1>3. Candidates(lib, text, p)' = meant
  BY <1>1 DEF Candidates
<1>4. CASE Found
  <2>1. pc' = "found" /\ Succeeds(best) /\ popped' = p + best.idx
    BY <1>4, MatchIsPopped DEF Found, Sound
  <2> HIDE DEF meant
  <2> QED
    BY <1>1, <1>2, <1>3, <2>1 DEF ReturnsLongest
<1>5. CASE NothingFound
  <2>1. pc' = "failed" /\ best.idx = -1
    BY <1>5 DEF NothingFound, Succeeds, Sound, TypeOK, ResultOK, Output, Index
  <2> HIDE DEF meant
  <2> QED
    BY <1>1, <1>2, <1>3, <2>1 DEF ReturnsLongest
<1> QED
  BY <1>4, <1>5

LEMMA EndsOnce ==
  ASSUME [Next]_vars, Done'
  PROVE  Found \/ NothingFound \/ (Done /\ UNCHANGED vars)
BY DEF Done, Next, Step, CacheStep, TerminalStep, ResumeStep, LibraryStep,
     VisitCompleted, VisitCycle, Descend, MissingAlias, AcceptAny, AcceptEnd,
     AcceptCharRange, AcceptValues, Answer, Visit, Return, Again, Complete,
     ResumeAlias, ResumeOptional, ResumeNot, ResumeAnyBut, ResumeOr, ResumeAnd,
     ResumeXOr, ResumeSequence, ResumeRepeat, RepeatNeeded, RepeatMore,
     TrySymbol, TakeResult, vars, evalVars

LEMMA ResultStays ==
  ASSUME UNCHANGED vars, NEW p, ReturnsLongest(p)
  PROVE  ReturnsLongest(p)'
BY DEF ReturnsLongest, Candidates, vars, evalVars

LEMMA LongestBehindStep ==
  ASSUME Sound, Sound', MeaningOK, NEW p, Base = p, LongestBehind(p), [Next]_vars
  PROVE  LongestBehind(p)'
<1> SUFFICES ASSUME Done', ~Poisoned'
             PROVE  ReturnsLongest(p)'
  BY DEF LongestBehind
<1>1. ~Poisoned
  BY PoisonedStays
<1>2. CASE Found \/ NothingFound
  <2>1. pc = "symbols"
    BY <1>2 DEF Found, NothingFound
  <2>2. MeaningNow /\ p = popped
    BY <1>1, <2>1 DEF MeaningOK, Base
  <2> QED
    BY <1>2, <2>2, LongestStep
<1>3. CASE Done /\ UNCHANGED vars
  BY <1>1, <1>3, ResultStays DEF LongestBehind
<1> QED
  BY <1>2, <1>3, EndsOnce

(* EvaluationLibraryStrategy::accept is said to find the longest match:    *)
(* while nothing has poisoned the key of the end of input, begin returns   *)
(* the longest match of a symbol, of several the first one's, and pops     *)
(* just that match; it fails only if no symbol matches.  For any library   *)
(* and text of PlainGrammars.tla.                                          *)
THEOREM LongestIsFound == Spec => []LongestFirst
<1>1. Init => Base = 0 /\ LongestFirst
  BY DEF Init, Begin, WindowInit, LongestFirst, LongestBehind, Done, Base
<1>2. Sound /\ [Next]_vars /\ Base = 0 => (Base = 0)'
  BY BaseOKStep DEF Sound
<1>3. Sound /\ Sound' /\ MeaningOK /\ Base = 0 /\ LongestFirst /\ [Next]_vars
        => LongestFirst'
  BY LongestBehindStep DEF LongestFirst
<1> QED
  BY <1>1, <1>2, <1>3, CallIsSound, MeaningIsKept, PTL DEF Spec

=============================================================================
