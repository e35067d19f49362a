-------------------------- MODULE DerivationProofs --------------------------
(***************************************************************************)
(* The evaluator makes no match up: for every library, left-recursive ones *)
(* included, and every text, what the memo has of a match the grammar      *)
(* derives (Derivations.tla).                                              *)
(*                                                                         *)
(* The invariant says so of every record, and of each frame that what its  *)
(* strategy holds was derived of the children before its turn.  There is   *)
(* one exception: a REP that has missed a child it needs visits it again   *)
(* where there is no character, and may be given a match of the end of     *)
(* input.  It then never comes to an end, or fails.                        *)
(***************************************************************************)
EXTENDS Derivations, SourceEvaluationProofs

(* What is known of a call of begin already, and that it is the first.     *)
Sound == /\ TypeOK
         /\ WithinFetched
         /\ OrderOK
         /\ StackMatchesHistory
         /\ CallsNested
         /\ FromMemo
         /\ lib \in Libraries
         /\ pc # "found" => popped = 0

D == Derivation(lib, text)

(* A match of rule r at a key is one the grammar derives there.            *)
EndsAt(r, key)     == Ends(D, r, PositionOf(key))
Derives(r, key, o) == Succeeds(o) => o.idx \in EndsAt(r, key)

(* What a sequence or repeat holds was derived of n children.              *)
Behind(frame, n, o) ==
  Succeeds(o) => o.idx \in After(D, frame.rule, PositionOf(frame.key), n)

(* A repeat that has been given a match of the end of input will be given  *)
(* the same one again and again.                                           *)
Endless(r, o) ==
  \E k \in DOMAIN history : /\ k = <<r, -1>>
                            /\ history[k].state = "Completed"
                            /\ Succeeds(history[k].out)
                            /\ KeyOf(o.idx) = -1

NeededBy(R) == Greater(1, R.min)

FrameDerives(frame) ==
  LET R    == lib.rules[frame.rule]
      turn == frame.turn
  IN
    turn > 1 =>
      /\ R.kind = "And" => \A n \in 1 .. turn - 1 : EndsAt(R.kids[n], frame.key) # {}
      /\ R.kind \in {"And", "XOr"} => Derives(R.kids[1], frame.key, frame.acc)
      /\ R.kind = "Sequence" => Behind(frame, turn - 1, frame.acc)
      /\ R.kind = "Repeat" => IF turn <= NeededBy(R)
                              THEN Behind(frame, turn - 1, frame.acc)
                              ELSE /\ Possible(R)
                                   /\ \/ Behind(frame, R.min, frame.acc)
                                      \/ Endless(R.kids[1], frame.acc)

MemoDerives   == \A k \in DOMAIN history : Derives(k[1], k[2], history[k].out)
FramesDerive  == \A n \in 1 .. Len(stack) : FrameDerives(stack[n])

Derivable == MemoDerives /\ (pc # "found" => FramesDerive)

-----------------------------------------------------------------------------
(* Positions, and what the constructors derive there.                      *)

LEMMA PositionFacts ==
  ASSUME WindowTypeOK, popped = 0, NEW i \in Index, i <= Len(text)
  PROVE  /\ Len(text) \in Nat
         /\ PositionOf(KeyOf(i)) \in 0 .. Len(text)
         /\ i >= 0 => PositionOf(KeyOf(i)) = i
         /\ Present(i) => i >= 0 /\ i + 1 <= Len(text)
         /\ KeyOf(i) = -1 => PositionOf(KeyOf(i)) = Len(text)
BY TextType DEF PositionOf, KeyOf, Present, Index

LEMMA ClosedNow ==
  ASSUME Sound
  PROVE  Closed(D, lib, text)
BY DerivationAssumption DEF Sound, TypeOK, WindowTypeOK, D

LEMMA BuiltTerminals ==
  ASSUME Sound, NEW r \in RuleIds, NEW i \in 0 .. Len(text),
         NEW R, R = lib.rules[r]
  PROVE  /\ R.kind = "Any" /\ i + 1 <= Len(text) => i + 1 \in Ends(D, r, i)
         /\ R.kind = "End" /\ i = Len(text) => i \in Ends(D, r, i)
         /\ R.kind \in {"EqualChar", "EqualString"} =>
              \A n \in DOMAIN R.values : Occurs(text, i, R.values[n]) =>
                i + Len(R.values[n]) \in Ends(D, r, i)
         /\ /\ R.kind = "CharRange" /\ i + 1 <= Len(text)
            /\ text[i + 1] \in R.values[1][1] .. R.values[2][1]
            => i + 1 \in Ends(D, r, i)
<1>1. Constructed(D, lib, text, r, i) \subseteq Ends(D, r, i)
  BY ClosedNow DEF Closed
<1>2. Len(text) \in Nat /\ i \in Nat
  BY TextType DEF Sound, TypeOK
<1>3. i + 1 <= Len(text) => i + 1 \in {i + 1} \cap 0 .. Len(text)
  BY <1>2
<1>4. CASE R.kind = "Any"
  BY <1>1, <1>3, <1>4 DEF Constructed
<1>5. CASE R.kind = "End"
  BY <1>1, <1>5 DEF Constructed
<1>6. CASE R.kind \in {"EqualChar", "EqualString"}
  <2>1. Constructed(D, lib, text, r, i)
          = {i + Len(R.values[n]) :
               n \in {m \in DOMAIN R.values : Occurs(text, i, R.values[m])}}
    BY <1>6 DEF Constructed
  <2> QED
    BY <1>1, <1>6, <2>1
<1>7. CASE R.kind = "CharRange"
  <2>1. Constructed(D, lib, text, r, i)
          = {j \in {i + 1} \cap 0 .. Len(text) :
               text[j] \in R.values[1][1] .. R.values[2][1]}
    BY <1>7 DEF Constructed
  <2> QED
    BY <1>1, <1>3, <1>7, <2>1
<1> QED
  BY <1>4, <1>5, <1>6, <1>7

LEMMA BuiltOthers ==
  ASSUME Sound, NEW r \in RuleIds, NEW i \in 0 .. Len(text),
         NEW R, R = lib.rules[r]
  PROVE  /\ R.kind = "Alias" /\ Resolve(lib, R.name) # NoRule =>
              Ends(D, Resolve(lib, R.name), i) \subseteq Ends(D, r, i)
         /\ R.kind \in {"Or", "XOr", "Optional"} =>
              \A n \in DOMAIN R.kids : Ends(D, R.kids[n], i) \subseteq Ends(D, r, i)
         /\ R.kind = "And" /\ (\A n \in DOMAIN R.kids : Ends(D, R.kids[n], i) # {}) =>
              Ends(D, R.kids[1], i) \subseteq Ends(D, r, i)
         /\ R.kind \in {"Optional", "Not"} => i \in Ends(D, r, i)
         /\ R.kind = "AnyBut" /\ i + 1 <= Len(text) => i + 1 \in Ends(D, r, i)
<1> DEFINE kids == {R.kids[n] : n \in DOMAIN R.kids}
           any  == UNION {Ends(D, k, i) : k \in kids}
<1>1. Constructed(D, lib, text, r, i) \subseteq Ends(D, r, i)
  BY ClosedNow DEF Closed
<1>2. Len(text) \in Nat /\ i \in Nat
  BY TextType DEF Sound, TypeOK
<1>3. \A n \in DOMAIN R.kids : Ends(D, R.kids[n], i) \subseteq any
  OBVIOUS
<1>4. CASE R.kind = "Alias"
  BY <1>1, <1>4 DEF Constructed
<1>5. CASE R.kind \in {"Or", "XOr"}
  <2>1. Constructed(D, lib, text, r, i) = any
    BY <1>5 DEF Constructed
  <2> QED
    BY <1>1, <1>3, <1>5, <2>1
<1>6. CASE R.kind = "Optional"
  <2>1. Constructed(D, lib, text, r, i) = any \cup {i}
    BY <1>6 DEF Constructed
  <2> QED
    BY <1>1, <1>3, <1>6, <2>1
<1>7. CASE R.kind = "And"
  <2>1. Constructed(D, lib, text, r, i)
          = IF \A k \in kids : Ends(D, k, i) # {} THEN Ends(D, R.kids[1], i) ELSE {}
    BY <1>7 DEF Constructed
  <2> QED
    BY <1>1, <1>7, <2>1
<1>8. CASE R.kind = "Not"
  BY <1>1, <1>8 DEF Constructed
<1>9. CASE R.kind = "AnyBut"
  <2>1. i + 1 <= Len(text) => i + 1 \in {i + 1} \cap 0 .. Len(text)
    BY <1>2
  <2> QED
    BY <1>1, <1>9, <2>1 DEF Constructed
<1> QED
  BY <1>4, <1>5, <1>6, <1>7, <1>8, <1>9

(* A child that follows n others takes what they have reached further.     *)
LEMMA TakesOn ==
  ASSUME Sound, NEW r \in RuleIds, NEW i \in 0 .. Len(text),
         NEW R, R = lib.rules[r]
  PROVE  /\ R.kind \in {"Sequence", "Repeat"} =>
              /\ i \in After(D, r, i, 0)
              /\ \A n \in 0 .. Whole(R) - 1 : Takes(D, R, r, i, n, n + 1)
              /\ Possible(R) => After(D, r, i, Whole(R)) \subseteq Ends(D, r, i)
         /\ R.kind = "Repeat" => Takes(D, R, r, i, Whole(R), Whole(R))
BY ClosedNow DEF Closed

-----------------------------------------------------------------------------
(* The memo and the frames.                                                *)

LEMMA MemoKeeps ==
  ASSUME UNCHANGED <<text, lib>>, MemoDerives,
         NEW record, NEW state, NEW o, Remember(record, state, o),
         Derives(record[1], record[2], o)
  PROVE  MemoDerives'
<1> SUFFICES ASSUME NEW k \in DOMAIN history'
             PROVE  Derives(k[1], k[2], history[k].out)'
  BY DEF MemoDerives
<1>1. CASE k = record
  <2>1. history'[k] = [state |-> state, out |-> o]
    BY <1>1 DEF Remember
  <2>2. history'[k].out = o
    BY <2>1
  <2>3. Derives(k[1], k[2], o)
    BY <1>1
  <2> QED
    BY <2>2, <2>3 DEF Derives, EndsAt, D, PositionOf
<1>2. CASE k # record
  <2>1. k \in DOMAIN history /\ history'[k] = history[k]
    BY <1>2 DEF Remember
  <2>2. Derives(k[1], k[2], history[k].out)
    BY <2>1 DEF MemoDerives
  <2> QED
    BY <2>1, <2>2 DEF Derives, EndsAt, D, PositionOf
<1> QED
  BY <1>1, <1>2

LEMMA MemoSame ==
  ASSUME UNCHANGED <<text, lib, history>>, MemoDerives
  PROVE  MemoDerives'
BY DEF MemoDerives, Derives, EndsAt, D, PositionOf

RecordsStay == \A k \in DOMAIN history :
                 history[k].state = "Completed" =>
                   k \in DOMAIN history' /\ history'[k] = history[k]

LEMMA FrameKeeps ==
  ASSUME UNCHANGED <<text, popped, lib>>,
         RecordsStay,
         NEW f, FrameDerives(f)
  PROVE  FrameDerives(f)'
<1>1. /\ \A r, key, u : Derives(r, key, u)' <=> Derives(r, key, u)
      /\ \A r, key : EndsAt(r, key)' = EndsAt(r, key)
      /\ \A n, u : Behind(f, n, u)' <=> Behind(f, n, u)
  BY DEF Derives, EndsAt, D, PositionOf, Behind
<1>2. \A r, u : Endless(r, u) => Endless(r, u)'
  BY DEF Endless, KeyOf, Present, RecordsStay
<1> QED
  BY <1>1, <1>2 DEF FrameDerives

(* What a visit has returned is derived where it was visited.              *)
LEMMA ReturnDerives ==
  ASSUME Sound, MemoDerives, pc = "return"
  PROVE  LET r == CalledRule(Len(stack))
             i == CalledAt(Len(stack))
         IN  r \in RuleIds /\ Derives(r, KeyOf(i), out)
<1> DEFINE r == CalledRule(Len(stack))
           i == CalledAt(Len(stack))
<1>1. PICK k : k = <<r, KeyOf(i)>>
  OBVIOUS
<1>2. /\ k \in DOMAIN history
      /\ \/ history[k].state = "Completed" /\ out = Wrapped(r, i, history[k].out)
         \/ history[k].state = "Cyclic" /\ out = FAILURE
  BY <1>1 DEF Sound, FromMemo
<1>3. k[1] = r /\ k[2] = KeyOf(i)
  BY <1>1
<1>4. k[1] \in RuleIds
  BY <1>2 DEF Sound, TypeOK, HistoryOK
<1>5. \A o : Wrapped(r, i, o).idx = o.idx
  BY DEF Wrapped, Under
<1>6. Derives(r, KeyOf(i), history[k].out)
  BY <1>2, <1>3 DEF MemoDerives
<1> HIDE DEF r, i
<1>7. Derives(r, KeyOf(i), out)
  <2>1. CASE out = Wrapped(r, i, history[k].out)
    BY <1>5, <1>6, <2>1 DEF Derives, Succeeds
  <2>2. CASE out = FAILURE
    BY <2>2 DEF Derives, Succeeds, FAILURE, ReachedAt
  <2> QED
    BY <1>2, <2>1, <2>2
<1> QED
  BY <1>3, <1>4, <1>7 DEF r, i

-----------------------------------------------------------------------------
(* Visits that are answered.                                               *)

LEMMA VisitPosition ==
  ASSUME Sound, pc = "visit"
  PROVE  /\ popped = 0 /\ rule \in RuleIds /\ at \in Index /\ at <= Len(text)
         /\ LibraryOK /\ Len(text) \in Nat
         /\ PositionOf(KeyOf(at)) \in 0 .. Len(text)
         /\ at >= 0 => EndsAt(rule, KeyOf(at)) = Ends(D, rule, at)
         /\ Present(at) => at >= 0 /\ at + 1 <= Len(text)
<1>1. popped = 0 /\ rule \in RuleIds /\ at \in Index /\ WindowTypeOK /\ LibraryOK
  BY VisitType DEF Sound, TypeOK
<1>2. at <= Len(text)
  <2>1. popped + at <= fetched
    BY DEF Sound, WithinFetched, InStore
  <2> QED
    BY <1>1, <2>1, TextType DEF Index
<1> QED
  BY <1>1, <1>2, PositionFacts DEF EndsAt

LEMMA ReachedDerives ==
  ASSUME NEW r, NEW key, NEW i, i >= 0 => i \in EndsAt(r, key)
  PROVE  Derives(r, key, ReachedAt(i))
BY DEF Derives, ReachedAt, Succeeds

LEMMA FailureDerives ==
  ASSUME NEW r, NEW key
  PROVE  Derives(r, key, FAILURE)
BY DEF Derives, FAILURE, ReachedAt, Succeeds

LEMMA ValuesDerive ==
  ASSUME Sound, AcceptValues
  PROVE  \E o : Answer(o) /\ Derives(rule, KeyOf(at), o)
<1> DEFINE R == lib.rules[rule]
<1>1. pc = "visit" /\ R.kind \in {"EqualChar", "EqualString"}
  BY DEF AcceptValues, Fresh
<1>2. /\ popped = 0 /\ rule \in RuleIds /\ at \in Index /\ at <= Len(text)
      /\ LibraryOK /\ WindowTypeOK
      /\ at >= 0 => EndsAt(rule, KeyOf(at)) = Ends(D, rule, at)
  BY <1>1, VisitPosition DEF Sound, TypeOK
<1>3. R.values \in Seq(Seq(Nat))
  BY <1>2, RuleType DEF Rule
<1>4. CASE Answer(FAILURE)
  BY <1>4, FailureDerives
<1>5. ASSUME NEW n \in 1 .. Len(R.values), Matches(R.values[n], at),
             Answer(ReachedAt(at + Len(R.values[n])))
      PROVE  Derives(rule, KeyOf(at), ReachedAt(at + Len(R.values[n])))
  <2>1. PICK v : v = R.values[n]
    OBVIOUS
  <2>2. v \in Seq(Nat) /\ n \in DOMAIN R.values
    BY <1>3, <1>5, <2>1, ElementOfSeq
  <2>3. at \in Nat /\ Len(v) \in Nat /\ at + Len(v) <= Len(text)
    <3>1. at \in Nat /\ Len(v) \in Nat /\ popped + at + Len(v) <= Len(text)
      BY <1>2, <1>5, <2>1, <2>2, MatchesBounds
    <3> QED
      BY <1>2, <3>1
  <2>4. Occurs(text, at, v)
    <3>1. ASSUME NEW m \in 1 .. Len(v)
          PROVE  text[at + m] = v[m]
      <4>1. text[popped + at + m] = v[m]
        BY <1>5, <2>1 DEF Matches
      <4>2. popped + at + m = at + m
        BY <1>2, <2>3
      <4> QED
        BY <4>1, <4>2
    <3>2. v # <<>>
      BY <1>5, <2>1 DEF Matches
    <3> QED
      BY <2>3, <3>1, <3>2 DEF Occurs
  <2>5. at + Len(v) \in Ends(D, rule, at)
    <3>1. at \in 0 .. Len(text)
      BY <1>2, <2>3
    <3> QED
      BY <1>1, <1>2, <2>1, <2>2, <2>4, <3>1, BuiltTerminals
  <2> QED
    BY <1>2, <2>1, <2>3, <2>5, ReachedDerives
<1>6. \/ Answer(FAILURE)
      \/ \E n \in 1 .. Len(R.values) : /\ Matches(R.values[n], at)
                                       /\ Answer(ReachedAt(at + Len(R.values[n])))
  BY DEF AcceptValues
<1> QED
  BY <1>4, <1>5, <1>6

LEMMA AnswerDerives ==
  ASSUME Sound, TerminalStep \/ MissingAlias
  PROVE  \E o : Answer(o) /\ Derives(rule, KeyOf(at), o)
<1> DEFINE R == lib.rules[rule]
<1>1. pc = "visit"
  BY DEF TerminalStep, AcceptAny, AcceptEnd, AcceptCharRange, AcceptValues,
         MissingAlias, Fresh
<1>2. /\ popped = 0 /\ rule \in RuleIds /\ at \in Index /\ at <= Len(text)
      /\ LibraryOK /\ Len(text) \in Nat
      /\ at >= 0 => EndsAt(rule, KeyOf(at)) = Ends(D, rule, at)
      /\ Present(at) => at >= 0 /\ at + 1 <= Len(text)
  BY <1>1, VisitPosition
<1>3. at >= 0 => at \in 0 .. Len(text)
  BY <1>2 DEF Index
<1>4. CASE MissingAlias
  BY <1>4, FailureDerives DEF MissingAlias
<1>5. CASE AcceptAny
  <2>1. R.kind = "Any" /\ Answer(IF Present(at) THEN ReachedAt(at + 1) ELSE FAILURE)
    BY <1>5 DEF AcceptAny, Fresh
  <2>2. Present(at) => at + 1 \in EndsAt(rule, KeyOf(at))
    BY <1>2, <1>3, <2>1, BuiltTerminals
  <2> QED
    BY <2>1, <2>2, ReachedDerives, FailureDerives
<1>6. CASE AcceptEnd
  <2>1. R.kind = "End" /\ Answer(IF Present(at) THEN FAILURE ELSE ReachedAt(at))
    BY <1>6 DEF AcceptEnd, Fresh
  <2>2. ~Present(at) /\ at >= 0 => at \in EndsAt(rule, KeyOf(at))
    <3>1. ~Present(at) /\ at >= 0 => at = Len(text)
      BY <1>2 DEF Present, Index
    <3> QED
      BY <1>2, <1>3, <2>1, <3>1, BuiltTerminals
  <2> QED
    BY <2>1, <2>2, ReachedDerives, FailureDerives
<1>7. CASE AcceptCharRange
  <2> DEFINE fits == /\ Present(at)
                     /\ R.values[1][1] <= text[popped + at + 1]
                     /\ text[popped + at + 1] <= R.values[2][1]
  <2>1. R.kind = "CharRange" /\ Answer(IF fits THEN ReachedAt(at + 1) ELSE FAILURE)
    BY <1>7 DEF AcceptCharRange, Fresh
  <2>2. fits => at + 1 \in EndsAt(rule, KeyOf(at))
    <3> SUFFICES ASSUME fits
                 PROVE  at + 1 \in EndsAt(rule, KeyOf(at))
      OBVIOUS
    <3>1. at >= 0 /\ at + 1 <= Len(text) /\ at \in 0 .. Len(text)
          /\ popped + at + 1 = at + 1 /\ at + 1 \in 1 .. Len(text)
      BY <1>2, <1>3
    <3>2. text[at + 1] \in Nat
      BY <3>1, TextType, ElementOfSeq DEF Sound, TypeOK
    <3>3. R.values[1][1] \in Nat /\ R.values[2][1] \in Nat
      <4>1. R.values \in Seq(Seq(Nat)) /\ Len(R.values) = 2
            /\ Len(R.values[1]) = 1 /\ Len(R.values[2]) = 1
        BY <1>2, <2>1, RuleType DEF Rule, LibraryOK, WellBuilt
      <4>2. R.values[1] \in Seq(Nat) /\ R.values[2] \in Seq(Nat)
        BY <4>1, ElementOfSeq
      <4> QED
        BY <4>1, <4>2, ElementOfSeq
    <3>4. text[at + 1] \in R.values[1][1] .. R.values[2][1]
      BY <3>1, <3>2, <3>3
    <3> QED
      BY <1>2, <2>1, <3>1, <3>4, BuiltTerminals
  <2> HIDE DEF fits
  <2> QED
    BY <2>1, <2>2, ReachedDerives, FailureDerives
<1>8. CASE AcceptValues
  BY <1>8, ValuesDerive
<1> QED
  BY <1>4, <1>5, <1>6, <1>7, <1>8 DEF TerminalStep

(* A visit that returns without a frame of its own.                        *)
LEMMA VisitDerives ==
  ASSUME Sound, Derivable, VisitCompleted \/ VisitCycle \/ MissingAlias \/ TerminalStep,
         RecordsStay
  PROVE  Derivable'
<1>1. pc = "visit" /\ UNCHANGED <<text, popped, lib, stack>>
  BY DEF VisitCompleted, VisitCycle, MissingAlias, TerminalStep, AcceptAny,
         AcceptEnd, AcceptCharRange, AcceptValues, Fresh, Answer, LibraryUnchanged
<1>2. FramesDerive'
  BY <1>1, FrameKeeps DEF Derivable, FramesDerive
<1>3. MemoDerives'
  <2>1. CASE VisitCompleted
    BY <1>1, <2>1, MemoSame DEF VisitCompleted, Derivable
  <2>2. CASE VisitCycle
    BY <1>1, <2>2, MemoKeeps, FailureDerives DEF VisitCycle, Derivable
  <2>3. CASE MissingAlias \/ TerminalStep
    <3>1. PICK o : Answer(o) /\ Derives(rule, KeyOf(at), o)
      BY <2>3, AnswerDerives
    <3>2. Record[1] = rule /\ Record[2] = KeyOf(at)
      BY DEF Record
    <3> QED
      BY <1>1, <3>1, <3>2, MemoKeeps DEF Answer, Derivable
  <2> QED
    BY <2>1, <2>2, <2>3
<1> QED
  BY <1>2, <1>3 DEF Derivable

LEMMA DescendDerives ==
  ASSUME Sound, Derivable, Descend,
         RecordsStay
  PROVE  Derivable'
<1> DEFINE frame == [rule |-> rule, at |-> at, key |-> KeyOf(at),
                     turn |-> 1, acc |-> FAILURE]
<1>1. /\ pc = "visit" /\ UNCHANGED <<text, popped, lib>>
      /\ Remember(Record, "Processing", FAILURE)
      /\ stack' = Append(stack, frame)
  BY DEF Descend, Fresh, LibraryUnchanged
<1>2. /\ Len(stack) \in Nat /\ Len(stack') = Len(stack) + 1
      /\ \A n \in 1 .. Len(stack) : stack'[n] = stack[n]
      /\ stack'[Len(stack')] = frame /\ frame.turn = 1
  BY <1>1 DEF Sound, TypeOK, StackOK
<1> HIDE DEF frame
<1>3. MemoDerives'
  BY <1>1, MemoKeeps, FailureDerives DEF Derivable
<1>4. FramesDerive'
  <2> SUFFICES ASSUME NEW n \in 1 .. Len(stack')
               PROVE  FrameDerives(stack[n])'
    BY DEF FramesDerive
  <2>1. CASE n \in 1 .. Len(stack)
    <3>1. PICK f : f = stack[n] /\ f = stack'[n]
      BY <1>2, <2>1
    <3>2. FrameDerives(f)'
      BY <1>1, <2>1, <3>1, FrameKeeps DEF Derivable, FramesDerive
    <3> QED
      BY <3>1, <3>2 DEF FrameDerives
  <2>2. CASE n = Len(stack')
    BY <1>2, <2>2 DEF FrameDerives
  <2> QED
    BY <1>2, <2>1, <2>2
<1> QED
  BY <1>3, <1>4 DEF Derivable

-----------------------------------------------------------------------------
(* A frame that is resumed.                                                *)

LEMMA Resuming ==
  ASSUME Sound, Derivable, pc = "return", stack # <<>>
  PROVE  /\ popped = 0 /\ Len(text) \in Nat /\ LibraryOK
         /\ Top.rule \in RuleIds /\ TopRule = lib.rules[Top.rule] /\ TopRule \in Rule
         /\ Top.turn \in Nat /\ Top.turn >= 1
         /\ Top.at \in Index /\ Top.key = KeyOf(Top.at)
         /\ PositionOf(Top.key) \in 0 .. Len(text)
         /\ Top.at >= 0 => Top.at = PositionOf(Top.key)
         /\ Present(Top.at) => /\ Top.at = PositionOf(Top.key)
                               /\ Top.at + 1 <= Len(text)
         /\ FrameDerives(Top)
         /\ ChildRule(Top) \in RuleIds
         /\ Derives(ChildRule(Top), KeyOf(ChildAt(Top)), out)
         /\ Len(stack) \in 1 .. Len(stack) /\ Len(stack) \in Nat
<1>1. /\ popped = 0 /\ LibraryOK /\ StackOK /\ WindowTypeOK /\ Len(text) \in Nat
  BY TextType DEF Sound, TypeOK
<1>2. /\ Len(stack) \in 1 .. Len(stack) /\ Len(stack) \in Nat /\ Len(stack) # 0
      /\ Top.rule \in RuleIds /\ Top.at \in Index
      /\ Top.turn \in Nat /\ Top.turn >= 1 /\ TopRule \in Rule
  BY <1>1, TopType
<1>3. Top.key = KeyOf(Top.at)
  BY <1>2 DEF Sound, OrderOK, FrameFits, Top
<1>4. Top.at <= Len(text)
  <2>1. popped + Top.at <= fetched
    BY <1>2 DEF Sound, WithinFetched, WaitsInStore, InStore, Top
  <2> QED
    BY <1>1, <1>2, <2>1, TextType DEF Index
<1>5. /\ PositionOf(Top.key) \in 0 .. Len(text)
      /\ Top.at >= 0 => Top.at = PositionOf(Top.key)
      /\ Present(Top.at) => Top.at = PositionOf(Top.key) /\ Top.at + 1 <= Len(text)
  BY <1>1, <1>2, <1>3, <1>4, PositionFacts
<1>6. FrameDerives(Top)
  BY <1>2 DEF Derivable, FramesDerive, Top
<1>7. CalledRule(Len(stack)) = ChildRule(Top) /\ CalledAt(Len(stack)) = ChildAt(Top)
  BY <1>2 DEF CalledRule, CalledAt, Top
<1>8. ChildRule(Top) \in RuleIds /\ Derives(ChildRule(Top), KeyOf(ChildAt(Top)), out)
  BY <1>7, ReturnDerives DEF Derivable
<1> QED
  BY <1>1, <1>2, <1>3, <1>5, <1>6, <1>8 DEF TopRule

LEMMA CompleteDerives ==
  ASSUME Sound, Derivable, pc = "return", stack # <<>>,
         RecordsStay,
         NEW o, Complete(o), Derives(Top.rule, Top.key, o)
  PROVE  Derivable'
<1>1. /\ UNCHANGED <<text, popped, lib>>
      /\ Remember(<<Top.rule, Top.key>>, "Completed", o)
  BY DEF Complete, LibraryUnchanged
<1>2. /\ Len(stack') = Len(stack) - 1
      /\ \A n \in 1 .. Len(stack') : n \in 1 .. Len(stack) /\ stack'[n] = stack[n]
  <2>1. Len(stack) \in Nat /\ stack \in Seq(Frame)
    BY Resuming DEF Sound, TypeOK, StackOK
  <2> QED
    BY <2>1, WithoutLast DEF Complete
<1>3. MemoDerives'
  <2>1. PICK k : k = <<Top.rule, Top.key>>
    OBVIOUS
  <2>2. k[1] = Top.rule /\ k[2] = Top.key
    BY <2>1
  <2> QED
    BY <1>1, <2>1, <2>2, MemoKeeps DEF Derivable
<1>4. FramesDerive'
  <2> SUFFICES ASSUME NEW n \in 1 .. Len(stack')
               PROVE  FrameDerives(stack[n])'
    BY DEF FramesDerive
  <2>1. PICK f : f = stack[n] /\ f = stack'[n] /\ n \in 1 .. Len(stack)
    BY <1>2
  <2>2. FrameDerives(f)'
    BY <1>1, <2>1, FrameKeeps DEF Derivable, FramesDerive
  <2> QED
    BY <2>1, <2>2 DEF FrameDerives
<1> QED
  BY <1>3, <1>4 DEF Derivable

(* What the strategy of the top frame may hold at its next turn.           *)
Holds(turn, o) ==
  \A f \in Frame : /\ f.rule = Top.rule
                   /\ f.key = Top.key
                   /\ f.turn = turn
                   /\ f.acc = o
                   => FrameDerives(f)

LEMMA AgainDerives ==
  ASSUME Sound, Sound', Derivable, pc = "return", stack # <<>>,
         NEW kid, NEW turn, NEW o, NEW i, Again(kid, turn, o, i),
         Holds(turn, o)
  PROVE  Derivable'
<1>1. UNCHANGED <<text, popped, lib, history>>
  BY DEF Again, LibraryUnchanged
<1>2. /\ Len(stack') = Len(stack) /\ Len(stack) \in 1 .. Len(stack)
      /\ \A n \in 1 .. Len(stack) :
           /\ stack'[n].rule = stack[n].rule
           /\ stack'[n].key = stack[n].key
           /\ n # Len(stack) => stack'[n] = stack[n]
      /\ stack'[Len(stack)].turn = turn
      /\ stack'[Len(stack)].acc = o
  BY AgainStack, TopType DEF Again, Sound, TypeOK, RecordOf
<1>3. MemoDerives'
  BY <1>1, MemoSame DEF Derivable
<1>4. FramesDerive'
  <2> SUFFICES ASSUME NEW n \in 1 .. Len(stack')
               PROVE  FrameDerives(stack[n])'
    BY DEF FramesDerive
  <2>1. PICK f : f = stack'[n]
    OBVIOUS
  <2>2. FrameDerives(f)
    <3>1. CASE n = Len(stack)
      <4>1. f \in Frame
        BY <2>1, ElementOfSeq DEF Sound, TypeOK, StackOK
      <4> QED
        BY <1>2, <2>1, <3>1, <4>1 DEF Holds, Top
    <3>2. CASE n # Len(stack)
      BY <1>2, <2>1, <3>2 DEF Derivable, FramesDerive
    <3> QED
      BY <3>1, <3>2
  <2>3. FrameDerives(f)'
    <3>1. RecordsStay
      BY <1>1 DEF RecordsStay
    <3> QED
      BY <1>1, <2>2, <3>1, FrameKeeps
  <2> QED
    BY <2>1, <2>3 DEF FrameDerives
<1> QED
  BY <1>3, <1>4 DEF Derivable

(* The children of the rule of the top frame.                              *)
LEMMA KidsOfTop ==
  ASSUME Sound, Derivable, pc = "return", stack # <<>>
  PROVE  /\ Len(TopRule.kids) \in Nat /\ DOMAIN TopRule.kids = 1 .. Len(TopRule.kids)
         /\ TopRule.kind \in Collections =>
              /\ Len(TopRule.kids) >= 1
              /\ Top.turn \in 1 .. Len(TopRule.kids)
              /\ ChildRule(Top) = TopRule.kids[Top.turn]
         /\ TopRule.kind \in Unary =>
              1 \in DOMAIN TopRule.kids /\ ChildRule(Top) = TopRule.kids[1]
<1>1. /\ Top.turn \in Nat /\ Top.turn >= 1 /\ FrameOK(Top) /\ Top.rule \in RuleIds
      /\ LibraryOK
  BY TopType DEF Sound, TypeOK
<1>2. /\ TopRule.kids \in Seq(RuleIds) /\ Len(TopRule.kids) \in Nat
      /\ TopRule.kind \in Unary \cup Collections => Len(TopRule.kids) >= 1
  BY <1>1, RuleType DEF TopRule
<1>3. DOMAIN TopRule.kids = 1 .. Len(TopRule.kids)
  BY <1>2, LenProperties
<1> QED
  BY <1>1, <1>2, <1>3 DEF FrameOK, ChildRule, TopRule, Collections, Unary

(* ... which are visited where it is itself, but in a sequence or repeat.  *)
LEMMA KidDerives ==
  ASSUME Sound, Derivable, pc = "return", stack # <<>>,
         TopRule.kind \notin {"Sequence", "Repeat"}
  PROVE  Derives(ChildRule(Top), Top.key, out)
<1>1. ChildAt(Top) = Top.at
  BY DEF ChildAt, TopRule
<1> QED
  BY <1>1, Resuming

LEMMA UnaryDerives ==
  ASSUME Sound, Derivable, RecordsStay,
         ResumeAlias \/ ResumeOptional \/ ResumeNot \/ ResumeAnyBut
  PROVE  Derivable'
<1> DEFINE i == PositionOf(Top.key)
<1>1. pc = "return" /\ stack # <<>>
  BY DEF ResumeAlias, ResumeOptional, ResumeNot, ResumeAnyBut, Resumed
<1>2. /\ Top.rule \in RuleIds /\ TopRule = lib.rules[Top.rule]
      /\ i \in 0 .. Len(text)
      /\ Top.at >= 0 => Top.at = i
      /\ Present(Top.at) => Top.at = i /\ Top.at + 1 <= Len(text)
      /\ ChildRule(Top) \in RuleIds
  BY <1>1, Resuming
<1>3. /\ TopRule.kind \notin {"Sequence", "Repeat"} =>
           Derives(ChildRule(Top), Top.key, out)
      /\ TopRule.kind \in Unary =>
           1 \in DOMAIN TopRule.kids /\ ChildRule(Top) = TopRule.kids[1]
  BY <1>1, KidDerives, KidsOfTop
<1>4. \A o : Complete(o) /\ Derives(Top.rule, Top.key, o) => Derivable'
  BY <1>1, CompleteDerives
<1>5. CASE ResumeAlias
  <2>1. TopRule.kind = "Alias" /\ Complete(out)
    BY <1>5 DEF ResumeAlias, Resumed
  <2>2. ChildRule(Top) = Resolve(lib, TopRule.name) /\ ChildRule(Top) # NoRule
    BY <1>2, <2>1, LibrariesAssumption DEF ChildRule, TopRule
  <2>3. Ends(D, ChildRule(Top), i) \subseteq Ends(D, Top.rule, i)
    BY <1>2, <2>1, <2>2, BuiltOthers
  <2> QED
    BY <1>3, <1>4, <2>1, <2>3 DEF Derives, EndsAt
<1>6. CASE ResumeOptional
  <2>1. /\ TopRule.kind = "Optional"
        /\ Complete(IF Succeeds(out) THEN out ELSE ReachedAt(Top.at))
    BY <1>6 DEF ResumeOptional, Resumed
  <2>2. Ends(D, ChildRule(Top), i) \subseteq Ends(D, Top.rule, i)
        /\ i \in Ends(D, Top.rule, i)
    BY <1>2, <1>3, <2>1, BuiltOthers DEF Unary
  <2>3. Derives(Top.rule, Top.key, ReachedAt(Top.at))
    BY <1>2, <2>2, ReachedDerives DEF EndsAt
  <2>4. Derives(Top.rule, Top.key, out)
    BY <1>3, <2>1, <2>2 DEF Derives, EndsAt
  <2> QED
    BY <1>4, <2>1, <2>3, <2>4
<1>7. CASE ResumeNot
  <2>1. /\ TopRule.kind = "Not"
        /\ Complete(IF Succeeds(out) THEN FAILURE ELSE ReachedAt(Top.at))
    BY <1>7 DEF ResumeNot, Resumed
  <2>2. Derives(Top.rule, Top.key, ReachedAt(Top.at))
    <3>1. i \in Ends(D, Top.rule, i)
      BY <1>2, <2>1, BuiltOthers
    <3> QED
      BY <1>2, <3>1, ReachedDerives DEF EndsAt
  <2> QED
    BY <1>4, <2>1, <2>2, FailureDerives
<1>8. CASE ResumeAnyBut
  <2>1. /\ TopRule.kind = "AnyBut"
        /\ Complete(IF Succeeds(out) \/ ~Present(Top.at)
                    THEN FAILURE ELSE ReachedAt(Top.at + 1))
    BY <1>8 DEF ResumeAnyBut, Resumed
  <2>2. Present(Top.at) => Derives(Top.rule, Top.key, ReachedAt(Top.at + 1))
    <3>1. Present(Top.at) => Top.at + 1 \in Ends(D, Top.rule, i)
      BY <1>2, <2>1, BuiltOthers
    <3> QED
      BY <3>1, ReachedDerives DEF EndsAt
  <2> QED
    BY <1>4, <2>1, <2>2, FailureDerives
<1> QED
  BY <1>5, <1>6, <1>7, <1>8

LEMMA OrDerives ==
  ASSUME Sound, Sound', Derivable, RecordsStay, ResumeOr
  PROVE  Derivable'
<1> DEFINE i == PositionOf(Top.key)
<1>1. pc = "return" /\ stack # <<>> /\ TopRule.kind = "Or"
  BY DEF ResumeOr, Resumed
<1>2. /\ Top.rule \in RuleIds /\ TopRule = lib.rules[Top.rule]
      /\ i \in 0 .. Len(text)
  BY <1>1, Resuming
<1>3. Derives(Top.rule, Top.key, out)
  <2>1. Top.turn \in DOMAIN TopRule.kids /\ ChildRule(Top) = TopRule.kids[Top.turn]
    BY <1>1, KidsOfTop DEF Collections
  <2>2. Ends(D, ChildRule(Top), i) \subseteq Ends(D, Top.rule, i)
    BY <1>1, <1>2, <2>1, BuiltOthers
  <2> QED
    BY <1>1, <2>2, KidDerives DEF Derives, EndsAt
<1>4. CASE Complete(out) \/ Complete(FAILURE)
  BY <1>1, <1>3, <1>4, CompleteDerives, FailureDerives
<1>5. CASE Again(Kid(Top.turn + 1), Top.turn + 1, FAILURE, Top.at)
  <2>1. Holds(Top.turn + 1, FAILURE)
    BY <1>1, <1>2 DEF Holds, FrameDerives
  <2> QED
    BY <1>1, <1>5, <2>1, AgainDerives
<1> QED
  BY <1>4, <1>5 DEF ResumeOr

(* What the strategy of AND or XOR holds is derived of the first child.    *)
LEMMA HeldDerives ==
  ASSUME Sound, Derivable, pc = "return", stack # <<>>, TopRule.kind \in {"And", "XOr"}
  PROVE  Derives(TopRule.kids[1], Top.key, Held)
<1>1. CASE Top.turn = 1
  BY <1>1, KidDerives, KidsOfTop DEF Held, Collections
<1>2. CASE Top.turn # 1
  <2>1. Top.turn > 1 /\ FrameDerives(Top) /\ TopRule = lib.rules[Top.rule]
    BY <1>2, Resuming
  <2> QED
    BY <1>2, <2>1 DEF Held, FrameDerives
<1> QED
  BY <1>1, <1>2

LEMMA AndDerives ==
  ASSUME Sound, Sound', Derivable, RecordsStay, ResumeAnd
  PROVE  Derivable'
<1> DEFINE i == PositionOf(Top.key)
<1>1. pc = "return" /\ stack # <<>> /\ TopRule.kind = "And"
  BY DEF ResumeAnd, Resumed
<1>2. /\ Top.rule \in RuleIds /\ TopRule = lib.rules[Top.rule]
      /\ i \in 0 .. Len(text) /\ Top.turn \in Nat /\ Top.turn >= 1
      /\ FrameDerives(Top)
  BY <1>1, Resuming
<1>3. /\ Top.turn \in 1 .. Len(TopRule.kids) /\ DOMAIN TopRule.kids = 1 .. Len(TopRule.kids)
      /\ ChildRule(Top) = TopRule.kids[Top.turn] /\ Len(TopRule.kids) \in Nat
      /\ 1 \in DOMAIN TopRule.kids
  BY <1>1, KidsOfTop DEF Collections
<1>4. Derives(TopRule.kids[1], Top.key, Held)
  BY <1>1, HeldDerives
<1>5. Succeeds(out) => \A n \in 1 .. Top.turn : EndsAt(TopRule.kids[n], Top.key) # {}
  <2> SUFFICES ASSUME Succeeds(out), NEW n \in 1 .. Top.turn
               PROVE  EndsAt(TopRule.kids[n], Top.key) # {}
    OBVIOUS
  <2>1. CASE n = Top.turn
    BY <1>1, <1>3, <2>1, KidDerives DEF Derives
  <2>2. CASE n # Top.turn
    <3>1. n \in 1 .. Top.turn - 1 /\ Top.turn > 1
      BY <1>2, <2>2
    <3> QED
      BY <1>1, <1>2, <3>1 DEF FrameDerives
  <2> QED
    BY <2>1, <2>2
<1>6. CASE ~Succeeds(out) /\ Complete(FAILURE)
  BY <1>1, <1>6, CompleteDerives, FailureDerives
<1>7. CASE Succeeds(out) /\ Last /\ Complete(Held)
  <2>1. \A n \in DOMAIN TopRule.kids : Ends(D, TopRule.kids[n], i) # {}
    BY <1>3, <1>5, <1>7 DEF Last, EndsAt
  <2>2. Ends(D, TopRule.kids[1], i) \subseteq Ends(D, Top.rule, i)
    BY <1>1, <1>2, <2>1, BuiltOthers
  <2>3. Derives(Top.rule, Top.key, Held)
    BY <1>4, <2>2 DEF Derives, EndsAt
  <2> QED
    BY <1>1, <1>7, <2>3, CompleteDerives
<1>8. CASE Succeeds(out) /\ Again(Kid(Top.turn + 1), Top.turn + 1, Held, Top.at)
  <2>1. Top.turn + 1 - 1 = Top.turn
    BY <1>2
  <2>2. Holds(Top.turn + 1, Held)
    BY <1>1, <1>2, <1>4, <1>5, <1>8, <2>1 DEF Holds, FrameDerives
  <2> QED
    BY <1>1, <1>8, <2>2, AgainDerives
<1> QED
  BY <1>6, <1>7, <1>8 DEF ResumeAnd

LEMMA XOrDerives ==
  ASSUME Sound, Sound', Derivable, RecordsStay, ResumeXOr
  PROVE  Derivable'
<1> DEFINE i == PositionOf(Top.key)
<1>1. pc = "return" /\ stack # <<>> /\ TopRule.kind = "XOr"
  BY DEF ResumeXOr, Resumed
<1>2. /\ Top.rule \in RuleIds /\ TopRule = lib.rules[Top.rule]
      /\ i \in 0 .. Len(text)
  BY <1>1, Resuming
<1>3. /\ Top.turn \in DOMAIN TopRule.kids /\ 1 \in DOMAIN TopRule.kids
      /\ ChildRule(Top) = TopRule.kids[Top.turn]
  BY <1>1, KidsOfTop DEF Collections
<1>4. Derives(TopRule.kids[1], Top.key, Held)
  BY <1>1, HeldDerives
<1>5. Derives(Top.rule, Top.key, out) /\ Derives(Top.rule, Top.key, Held)
  <2>1. \A n \in DOMAIN TopRule.kids :
          Ends(D, TopRule.kids[n], i) \subseteq Ends(D, Top.rule, i)
    BY <1>1, <1>2, BuiltOthers
  <2>2. Derives(ChildRule(Top), Top.key, out)
    BY <1>1, KidDerives
  <2> QED
    BY <1>3, <1>4, <2>1, <2>2 DEF Derives, EndsAt
<1>6. CASE Complete(out) \/ Complete(FAILURE) \/ Complete(Held)
  BY <1>1, <1>5, <1>6, CompleteDerives, FailureDerives
<1>7. CASE Again(Kid(Top.turn + 1), Top.turn + 1, Held, Top.at)
  <2>1. Holds(Top.turn + 1, Held)
    BY <1>1, <1>2, <1>4 DEF Holds, FrameDerives
  <2> QED
    BY <1>1, <1>7, <2>1, AgainDerives
<1> QED
  BY <1>6, <1>7 DEF ResumeXOr

-----------------------------------------------------------------------------
(* Sequences and repeats.                                                  *)

(* One more child is derived behind n others.                              *)
LEMMA JoinedDerives ==
  ASSUME Sound, Derivable, pc = "return", stack # <<>>,
         TopRule.kind \in {"Sequence", "Repeat"}, NEW n \in Nat, NEW m,
         Takes(D, TopRule, Top.rule, PositionOf(Top.key), n, m),
         Nth(TopRule, n + 1) = ChildRule(Top),
         Top.turn = 1 => n = 0,
         Top.turn > 1 => Succeeds(Top.acc) /\ Behind(Top, n, Top.acc)
  PROVE  Behind(Top, m, Joined)
<1> DEFINE i == PositionOf(Top.key)
           c == ChildRule(Top)
<1>1. /\ popped = 0 /\ Top.rule \in RuleIds /\ TopRule = lib.rules[Top.rule]
      /\ Top.turn \in Nat /\ Top.turn >= 1 /\ i \in 0 .. Len(text)
      /\ Top.key = KeyOf(Top.at) /\ Len(stack) \in 1 .. Len(stack)
      /\ Derives(c, KeyOf(ChildAt(Top)), out)
  BY Resuming
<1>2. \A j \in After(D, Top.rule, i, n) : Ends(D, c, j) \subseteq After(D, Top.rule, i, m)
  BY DEF Takes
<1>3. CASE Top.turn = 1
  <2>1. i \in After(D, Top.rule, i, n)
    BY <1>1, <1>3, TakesOn
  <2>2. Derives(c, Top.key, out) /\ Joined = out
    BY <1>1, <1>3 DEF ChildAt, Joined
  <2> HIDE DEF c
  <2> QED
    BY <1>2, <2>1, <2>2 DEF Derives, EndsAt, Behind
<1>4. CASE Top.turn # 1
  <2>1. Top.turn > 1 /\ Succeeds(Top.acc) /\ Top.acc.idx \in After(D, Top.rule, i, n)
    BY <1>1, <1>4 DEF Behind
  <2>2. Top.acc \in Output /\ Top.acc.idx \in Index /\ Top.acc.idx >= 0
    BY <2>1, ResumedType DEF Sound, Output, Succeeds
  <2>3. Top.acc.idx <= Len(text)
    <3>1. popped + Top.acc.idx <= fetched
      BY <1>1 DEF Sound, WithinFetched, WaitsInStore, InStore, Top
    <3> QED
      BY <1>1, <2>2, <3>1, TextType DEF Sound, TypeOK, Index
  <2>4. PositionOf(KeyOf(Top.acc.idx)) = Top.acc.idx
    BY <1>1, <2>2, <2>3, PositionFacts DEF Sound, TypeOK
  <2>5. ChildAt(Top) = Top.acc.idx
    BY <1>1, <2>1 DEF ChildAt
  <2>6. Succeeds(out) => out.idx \in Ends(D, c, Top.acc.idx)
    BY <1>1, <2>4, <2>5 DEF Derives, EndsAt
  <2>7. Joined.idx = out.idx
    BY <1>4 DEF Joined, joinOutputs
  <2> HIDE DEF c
  <2> QED
    BY <1>2, <2>1, <2>6, <2>7 DEF Behind, Succeeds
<1> QED
  BY <1>3, <1>4

LEMMA SequenceDerives ==
  ASSUME Sound, Sound', Derivable, RecordsStay, ResumeSequence
  PROVE  Derivable'
<1> DEFINE i == PositionOf(Top.key)
<1>1. pc = "return" /\ stack # <<>> /\ TopRule.kind = "Sequence"
  BY DEF ResumeSequence, Resumed
<1>2. /\ Top.rule \in RuleIds /\ TopRule = lib.rules[Top.rule]
      /\ i \in 0 .. Len(text) /\ Top.turn \in Nat /\ Top.turn >= 1
      /\ FrameDerives(Top)
  BY <1>1, Resuming
<1>3. /\ Top.turn \in 1 .. Len(TopRule.kids) /\ Len(TopRule.kids) \in Nat
      /\ ChildRule(Top) = TopRule.kids[Top.turn]
  BY <1>1, KidsOfTop DEF Collections
<1>4. Succeeds(Held) => Behind(Top, Top.turn, Joined)
  <2> SUFFICES ASSUME Succeeds(Held)
               PROVE  Behind(Top, Top.turn, Joined)
    OBVIOUS
  <2>1. PICK n \in Nat : n = Top.turn - 1
    BY <1>2
  <2>2. n \in 0 .. Whole(TopRule) - 1 /\ n + 1 = Top.turn
    BY <1>1, <1>2, <1>3, <2>1 DEF Whole
  <2>3. Takes(D, TopRule, Top.rule, i, n, Top.turn)
    BY <1>1, <1>2, <2>2, TakesOn
  <2>4. Nth(TopRule, n + 1) = ChildRule(Top)
    BY <1>1, <1>3, <2>2 DEF Nth
  <2>5. Top.turn > 1 => Succeeds(Top.acc) /\ Behind(Top, n, Top.acc)
    BY <1>1, <1>2, <2>1 DEF Held, FrameDerives
  <2> QED
    BY <1>1, <2>1, <2>3, <2>4, <2>5, JoinedDerives
<1>5. CASE Complete(FAILURE)
  BY <1>1, <1>5, CompleteDerives, FailureDerives
<1>6. CASE Succeeds(Held) /\ Last /\ Complete(Joined)
  <2>1. After(D, Top.rule, i, Whole(TopRule)) \subseteq Ends(D, Top.rule, i)
    BY <1>1, <1>2, TakesOn DEF Possible
  <2>2. Whole(TopRule) = Top.turn
    BY <1>1, <1>6 DEF Whole, Last
  <2>3. Derives(Top.rule, Top.key, Joined)
    BY <1>4, <1>6, <2>1, <2>2 DEF Behind, Derives, EndsAt
  <2> QED
    BY <1>1, <1>6, <2>3, CompleteDerives
<1>7. CASE Succeeds(Held) /\ Again(Kid(Top.turn + 1), Top.turn + 1, Joined, Joined.idx)
  <2>1. Top.turn + 1 - 1 = Top.turn
    BY <1>2
  <2>2. Holds(Top.turn + 1, Joined)
    BY <1>1, <1>2, <1>4, <1>7, <2>1 DEF Holds, FrameDerives, Behind
  <2> QED
    BY <1>1, <1>7, <2>2, AgainDerives
<1> QED
  BY <1>5, <1>6, <1>7 DEF ResumeSequence

LEMMA RepeatFacts ==
  ASSUME Sound, Derivable, pc = "return", stack # <<>>, TopRule.kind = "Repeat"
  PROVE  /\ ChildRule(Top) = TopRule.kids[1]
         /\ \A n : Nth(TopRule, n) = ChildRule(Top)
         /\ Whole(TopRule) = TopRule.min /\ TopRule.min \in Nat
         /\ Needed = NeededBy(TopRule) /\ Needed \in Nat /\ Needed >= 1
         /\ TopRule.min > 0 => Needed = TopRule.min
         /\ TopRule.min = 0 => Needed = 1
         /\ TopRule.min = 0 => Possible(TopRule)
         /\ ~(TopRule.max > 0 /\ Allowed <= 0) => Possible(TopRule)
<1>1. TopRule.min \in Nat /\ TopRule.max \in Nat
  BY Resuming DEF Rule
<1>2. ChildRule(Top) = TopRule.kids[1]
  BY KidsOfTop DEF Unary
<1>3. /\ TopRule.min = 0 => Possible(TopRule)
      /\ ~(TopRule.max > 0 /\ Allowed <= 0) => Possible(TopRule)
  BY <1>1 DEF Possible, Allowed
<1> QED
  BY <1>1, <1>2, <1>3 DEF Nth, Whole, Needed, NeededBy, Greater

LEMMA RepeatNeededDerives ==
  ASSUME Sound, Sound', Derivable, RecordsStay, Resumed("Repeat"), RepeatNeeded
  PROVE  Derivable'
<1> DEFINE i   == PositionOf(Top.key)
           min == TopRule.min
<1>1. pc = "return" /\ stack # <<>> /\ TopRule.kind = "Repeat" /\ Top.turn <= Needed
  BY DEF Resumed, RepeatNeeded
<1>2. /\ Top.rule \in RuleIds /\ TopRule = lib.rules[Top.rule]
      /\ i \in 0 .. Len(text) /\ Top.turn \in Nat /\ Top.turn >= 1
      /\ Top.at >= 0 => Top.at = i
      /\ FrameDerives(Top)
  BY <1>1, Resuming
<1>3. /\ \A n : Nth(TopRule, n) = ChildRule(Top)
      /\ Whole(TopRule) = min /\ min \in Nat
      /\ Needed = NeededBy(TopRule) /\ Needed \in Nat /\ Needed >= 1
      /\ min > 0 => Needed = min
      /\ min = 0 => Needed = 1 /\ Possible(TopRule)
      /\ ~(TopRule.max > 0 /\ Allowed <= 0) => Possible(TopRule)
  BY <1>1, RepeatFacts
<1>4. PICK m \in Nat : m = IF min = 0 THEN 0 ELSE Top.turn
  BY <1>2
<1>5. Succeeds(Held) => Behind(Top, m, Joined)
  <2> SUFFICES ASSUME Succeeds(Held)
               PROVE  Behind(Top, m, Joined)
    OBVIOUS
  <2>1. PICK n \in Nat : n = Top.turn - 1
    BY <1>2
  <2>2. Takes(D, TopRule, Top.rule, i, n, m)
    <3>1. CASE min = 0
      <4>1. n = Whole(TopRule) /\ m = Whole(TopRule)
        BY <1>1, <1>2, <1>3, <1>4, <2>1, <3>1
      <4> QED
        BY <1>1, <1>2, <4>1, TakesOn
    <3>2. CASE min # 0
      <4>1. n \in 0 .. Whole(TopRule) - 1 /\ m = n + 1
        BY <1>1, <1>2, <1>3, <1>4, <2>1, <3>2
      <4> QED
        BY <1>1, <1>2, <4>1, TakesOn
    <3> QED
      BY <3>1, <3>2
  <2>3. Top.turn > 1 => Succeeds(Top.acc) /\ Behind(Top, n, Top.acc)
    BY <1>1, <1>2, <1>3, <2>1 DEF Held, FrameDerives
  <2>4. Top.turn = 1 => n = 0
    BY <2>1
  <2> QED
    BY <1>1, <1>3, <2>2, <2>3, <2>4, JoinedDerives
<1>6. CASE Complete(IF min > 0 THEN FAILURE ELSE ReachedAt(Top.at))
  <2>1. ~(min > 0) => i \in Ends(D, Top.rule, i)
    <3>1. ~(min > 0) => Whole(TopRule) = 0 /\ Possible(TopRule)
      BY <1>3
    <3> QED
      BY <1>1, <1>2, <3>1, TakesOn
  <2>2. ~(min > 0) => Derives(Top.rule, Top.key, ReachedAt(Top.at))
    BY <1>2, <2>1, ReachedDerives DEF EndsAt
  <2> QED
    BY <1>1, <1>6, <2>2, CompleteDerives, FailureDerives
<1>7. CASE Complete(FAILURE)
  BY <1>1, <1>7, CompleteDerives, FailureDerives
<1>8. CASE /\ Succeeds(Held)
           /\ ~(Top.turn = Needed /\ TopRule.max > 0 /\ Allowed <= 0)
           /\ Again(Kid(1), Top.turn + 1, Joined, Joined.idx)
  <2>1. /\ Top.turn + 1 - 1 = Top.turn
        /\ Top.turn + 1 <= NeededBy(TopRule) => m = Top.turn
        /\ ~(Top.turn + 1 <= NeededBy(TopRule)) =>
             m = min /\ Top.turn = Needed
    BY <1>1, <1>2, <1>3, <1>4
  <2>2. Holds(Top.turn + 1, Joined)
    BY <1>1, <1>2, <1>3, <1>5, <1>8, <2>1 DEF Holds, FrameDerives, Behind
  <2> QED
    BY <1>1, <1>8, <2>2, AgainDerives
<1> QED
  BY <1>6, <1>7, <1>8 DEF RepeatNeeded

(* A child visited where there is no character: it matches the end of      *)
(* input or nothing, and what it has matched once it matches again.        *)
LEMMA NoCharacter ==
  ASSUME Sound, Derivable, pc = "return", stack # <<>>, Top.turn > 1,
         TopRule.kind = "Repeat", KeyOf(Top.acc.idx) = -1
  PROVE  /\ Succeeds(out) => Endless(ChildRule(Top), Joined)
         /\ Endless(ChildRule(Top), Top.acc) => Succeeds(out)
<1> DEFINE c == ChildRule(Top)
<1>1. /\ popped = 0 /\ Len(text) \in Nat /\ Len(stack) \in 1 .. Len(stack)
      /\ TopRule = lib.rules[Top.rule] /\ Top.turn \in Nat
      /\ WindowTypeOK /\ out \in Output
  BY Resuming, ResumedType DEF Sound, TypeOK
<1>2. ChildAt(Top) = Top.acc.idx
  BY <1>1 DEF ChildAt
<1>3. CalledRule(Len(stack)) = c /\ CalledAt(Len(stack)) = Top.acc.idx
  BY <1>1, <1>2 DEF CalledRule, CalledAt, Top
<1> HIDE DEF c
<1>4. PICK k : k = <<c, -1>>
  OBVIOUS
<1>5. /\ k \in DOMAIN history
      /\ \/ /\ history[k].state = "Completed"
            /\ out = Wrapped(c, Top.acc.idx, history[k].out)
         \/ history[k].state = "Cyclic" /\ out = FAILURE
  BY <1>3, <1>4 DEF Sound, FromMemo
<1>6. \A i, o : Succeeds(Wrapped(c, i, o)) <=> Succeeds(o)
  BY DEF Wrapped, Under, Succeeds
<1>7. ~Succeeds(FAILURE)
  BY DEF FAILURE, ReachedAt, Succeeds
<1>8. ASSUME Succeeds(out)
      PROVE  Endless(c, Joined)
  <2>1. history[k].state = "Completed" /\ Succeeds(history[k].out)
    BY <1>5, <1>6, <1>7, <1>8
  <2>2. out.idx = Len(text)
    <3>1. Fits(out, KeyOf(ChildAt(Top)))
      BY DEF Sound, OrderOK, Nested
    <3>2. popped + out.idx = Len(text) /\ out.idx \in Int
      BY <1>2, <1>8, <1>1, <3>1 DEF Fits, Output, Index
    <3> QED
      BY <1>1, <3>2
  <2>3. Joined.idx = Len(text)
    BY <1>1, <2>2 DEF Joined, joinOutputs
  <2>4. KeyOf(Joined.idx) = -1
    BY <1>1, <2>3 DEF KeyOf, Present
  <2> QED
    BY <1>4, <1>5, <2>1, <2>4 DEF Endless
<1>9. ASSUME Endless(c, Top.acc)
      PROVE  Succeeds(out)
  <2>1. history[k].state = "Completed" /\ Succeeds(history[k].out)
    BY <1>4, <1>9 DEF Endless
  <2> QED
    BY <1>5, <1>6, <2>1
<1> QED
  BY <1>8, <1>9 DEF c

LEMMA RepeatMoreDerives ==
  ASSUME Sound, Sound', Derivable, RecordsStay, Resumed("Repeat"), RepeatMore
  PROVE  Derivable'
<1> DEFINE i   == PositionOf(Top.key)
           min == TopRule.min
<1>1. pc = "return" /\ stack # <<>> /\ TopRule.kind = "Repeat" /\ Top.turn > Needed
  BY DEF Resumed, RepeatMore
<1>2. /\ Top.rule \in RuleIds /\ TopRule = lib.rules[Top.rule]
      /\ i \in 0 .. Len(text) /\ Top.turn \in Nat
      /\ FrameDerives(Top) /\ WindowTypeOK /\ Top.acc \in Output /\ out \in Output
  BY <1>1, Resuming, ResumedType DEF Sound, TypeOK
<1>3. /\ ChildRule(Top) = TopRule.kids[1]
      /\ \A n : Nth(TopRule, n) = ChildRule(Top)
      /\ Whole(TopRule) = min /\ min \in Nat
      /\ Needed = NeededBy(TopRule) /\ Needed \in Nat /\ Needed >= 1
  BY <1>1, RepeatFacts
<1>4. Top.turn > 1 /\ Top.turn > NeededBy(TopRule)
  BY <1>1, <1>2, <1>3
<1>5. /\ Possible(TopRule)
      /\ Behind(Top, min, Top.acc) \/ Endless(ChildRule(Top), Top.acc)
  BY <1>1, <1>2, <1>3, <1>4 DEF FrameDerives
<1>6. ~Succeeds(Top.acc) => KeyOf(Top.acc.idx) = -1
  BY <1>2 DEF Succeeds, KeyOf, Present
<1>7. Endless(ChildRule(Top), Top.acc) => KeyOf(Top.acc.idx) = -1
  BY DEF Endless
(* What it holds when a child is missing was derived.                      *)
<1>8. ~Succeeds(out) => Derives(Top.rule, Top.key, Top.acc)
  <2> SUFFICES ASSUME ~Succeeds(out)
               PROVE  Derives(Top.rule, Top.key, Top.acc)
    OBVIOUS
  <2>1. Behind(Top, min, Top.acc)
    BY <1>1, <1>4, <1>5, <1>7, NoCharacter
  <2>2. After(D, Top.rule, i, min) \subseteq Ends(D, Top.rule, i)
    BY <1>1, <1>2, <1>3, <1>5, TakesOn
  <2> QED
    BY <2>1, <2>2 DEF Behind, Derives, EndsAt
(* What it holds with one child more is derived, or it is endless.         *)
<1>9. Succeeds(out) => Behind(Top, min, Joined) \/ Endless(ChildRule(Top), Joined)
  <2>1. CASE KeyOf(Top.acc.idx) = -1
    BY <1>1, <1>4, <2>1, NoCharacter
  <2>2. CASE Succeeds(Top.acc) /\ Behind(Top, min, Top.acc)
    <3>1. Takes(D, TopRule, Top.rule, i, min, min)
      BY <1>1, <1>2, <1>3, TakesOn
    <3> QED
      BY <1>1, <1>3, <1>4, <2>2, <3>1, JoinedDerives
  <2> QED
    BY <1>5, <1>6, <1>7, <2>1, <2>2
<1>10. CASE ~Succeeds(out) /\ Complete(Top.acc)
  BY <1>1, <1>8, <1>10, CompleteDerives
<1>11. CASE Complete(FAILURE)
  BY <1>1, <1>11, CompleteDerives, FailureDerives
<1>12. ASSUME Succeeds(out), NEW turn \in {Top.turn, Top.turn + 1},
              Again(Kid(1), turn, Joined, Joined.idx)
       PROVE  Derivable'
  <2>1. ~(turn <= NeededBy(TopRule)) /\ NeededBy(TopRule) \in Nat
    BY <1>2, <1>3, <1>4, <1>12
  <2>2. Holds(turn, Joined)
    BY <1>1, <1>2, <1>3, <1>5, <1>9, <1>12, <2>1 DEF Holds, FrameDerives, Behind
  <2> QED
    BY <1>1, <1>12, <2>2, AgainDerives
<1> QED
  BY <1>10, <1>11, <1>12 DEF RepeatMore

-----------------------------------------------------------------------------
(* Every step.                                                             *)

LEMMA LibraryDerives ==
  ASSUME Sound, Sound', Derivable, LibraryStep
  PROVE  Derivable'
<1>1. UNCHANGED <<text, lib, history>>
  BY DEF LibraryStep, TrySymbol, TakeResult, Found, NothingFound, LibraryUnchanged
<1>2. pc' = "found" \/ stack' = <<>>
  BY DEF LibraryStep, TrySymbol, TakeResult, Found, NothingFound, Visit, Sound, CallsNested
<1>3. MemoDerives'
  BY <1>1, MemoSame DEF Derivable
<1>4. pc' # "found" => FramesDerive'
  <2>1. Len(<<>>) = 0
    OBVIOUS
  <2> QED
    BY <1>2, <2>1 DEF FramesDerive
<1> QED
  BY <1>3, <1>4 DEF Derivable

LEMMA StutterDerives ==
  ASSUME Derivable, UNCHANGED vars
  PROVE  Derivable'
<1>1. UNCHANGED <<text, popped, lib, history, stack, pc>>
  BY DEF vars, evalVars
<1>2. MemoDerives'
  BY <1>1, MemoSame DEF Derivable
<1>3. FramesDerive => FramesDerive'
  <2>1. RecordsStay
    BY <1>1 DEF RecordsStay
  <2> QED
    BY <1>1, <2>1, FrameKeeps DEF FramesDerive
<1> QED
  BY <1>1, <1>2, <1>3 DEF Derivable

LEMMA DerivableStep ==
  ASSUME Sound, Sound', Derivable, [Next]_vars
  PROVE  Derivable'
<1>1. RecordsStay
  BY CompletedStays DEF Sound, RecordsStay
<1>2. CASE CacheStep \/ TerminalStep
  BY <1>1, <1>2, VisitDerives, DescendDerives DEF CacheStep
<1>3. CASE ResumeStep
  BY <1>1, <1>3, UnaryDerives, OrDerives, AndDerives, XOrDerives, SequenceDerives,
     RepeatNeededDerives, RepeatMoreDerives
  DEF ResumeStep, ResumeRepeat
<1>4. CASE LibraryStep
  BY <1>4, LibraryDerives
<1>5. CASE UNCHANGED vars
  BY <1>5, StutterDerives
<1> QED
  BY <1>2, <1>3, <1>4, <1>5 DEF Next, Step

(* begin pops nothing before it has found a match, and keeps its library.  *)
LEMMA FirstCall == Spec => [](lib \in Libraries /\ (pc # "found" => popped = 0))
<1> DEFINE First == lib \in Libraries /\ (pc # "found" => popped = 0)
<1>1. Init => First
  BY DEF Init, WindowInit
<1>2. First /\ [Next]_vars => First'
  <2> SUFFICES ASSUME First, [Next]_vars
               PROVE  First'
    OBVIOUS
  <2>1. CASE CacheStep
    BY <2>1 DEF CacheStep, VisitCompleted, VisitCycle, Descend, MissingAlias, Answer,
                Fresh, LibraryUnchanged
  <2>2. CASE TerminalStep
    BY <2>2 DEF TerminalStep, AcceptAny, AcceptEnd, AcceptCharRange, AcceptValues,
                Answer, Fresh, LibraryUnchanged
  <2>3. CASE ResumeStep
    <3>1. pc = "return"
      BY <2>3
      DEF ResumeStep, ResumeAlias, ResumeOptional, ResumeNot, ResumeAnyBut,
          ResumeOr, ResumeAnd, ResumeXOr, ResumeSequence, ResumeRepeat, Resumed
    <3>2. UNCHANGED <<popped, lib>>
      BY <2>3, ResumeShape DEF Complete, Again, LibraryUnchanged
    <3> QED
      BY <3>1, <3>2
  <2>4. CASE LibraryStep
    BY <2>4 DEF LibraryStep, TrySymbol, TakeResult, Found, NothingFound, LibraryUnchanged
  <2>5. CASE UNCHANGED vars
    BY <2>5 DEF vars, evalVars
  <2>6. CASE Done /\ UNCHANGED vars
    BY <2>6 DEF vars, evalVars
  <2> QED
    BY <2>1, <2>2, <2>3, <2>4, <2>5, <2>6 DEF Next, Step
<1> QED
  BY <1>1, <1>2, PTL DEF Spec

(* The evaluator makes no match up: for every library and every text, what *)
(* the memo has of a match when begin returns, the grammar derives there.  *)
(* That a rule fails where it is already being evaluated                   *)
(* (RuleHistory.h:164), and that a sequence visits a child behind one that *)
(* has failed, can only lose matches.                                      *)
THEOREM MatchesAreDerivable == Spec => []MatchDerivable
<1>1. Spec => []Sound
  BY TypeCorrect, FetchedFirst, OutputsFit, OpenRecordsAreCalls, CallsAreNested,
     ReturnsAreRemembered, FirstCall, PTL
  DEF Sound
<1>2. Init => Derivable
  <2> SUFFICES ASSUME Init
               PROVE  Derivable
    OBVIOUS
  <2>1. history = <<>> /\ stack = <<>> /\ DOMAIN <<>> = {} /\ Len(<<>>) = 0
    BY DEF Init, Begin
  <2> QED
    BY <2>1 DEF Derivable, MemoDerives, FramesDerive
<1>3. Sound /\ Sound' /\ Derivable /\ [Next]_vars => Derivable'
  BY DerivableStep
<1>4. Derivable => MatchDerivable
  BY DEF Derivable, MemoDerives, MatchDerivable, Derives, EndsAt, D
<1> QED
  BY <1>1, <1>2, <1>3, <1>4, PTL DEF Spec

=============================================================================
