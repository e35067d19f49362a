----------------------- MODULE LocationSupplierProofs -----------------------
(***************************************************************************)
(* What holds of the token supplier for every text and every call: it      *)
(* implements the window, each location knows where it is, and each call   *)
(* is answered as the window says.                                         *)
(*                                                                         *)
(* Whatever the operation, a step does one of four things to the deque;    *)
(* StepShape says which, and the rest is shown of these four.              *)
(***************************************************************************)
EXTENDS LocationSupplier, SequenceTheorems, FiniteSetTheorems, TLAPS

-----------------------------------------------------------------------------
(* The four things.                                                        *)

(* The first k locations are erased.                                       *)
Dropped(k) == /\ store' = SubSeq(store, k + 1, Len(store))
              /\ UNCHANGED <<text, read>>
              /\ \/ previous' = previous
                 \/ previous' = NoLocation /\ AtEnd

Added == Supply /\ store' = Append(store, previous')

(* A location is popped without having been stored.                        *)
Passed == Supply /\ store = <<>> /\ store' = <<>>

Cleared == Restart /\ store' = <<>> /\ previous' = NoLocation

(* How far a call has got: an index behind the first one is polled only    *)
(* when those before it have been found.                                   *)
Progress == busy => \/ call.next = call.from
                    \/ /\ call.from >= 0
                       /\ call.next \in call.from + 1 .. Len(store)

Inv == TypeOK /\ Progress

-----------------------------------------------------------------------------
LEMMA TextType ==
  ASSUME SourceTypeOK
  PROVE  /\ text \in Seq(Nat)
         /\ Len(text) \in Nat
         /\ read \in Nat /\ read <= Len(text)
         /\ ~AtEnd => read < Len(text) /\ NextChar \in Nat
<1>1. text \in Seq(Nat)
  BY TextsAssumption DEF SourceTypeOK
<1>2. Len(text) \in Nat
  BY <1>1, LenProperties
<1>3. read \in Nat /\ read <= Len(text)
  BY <1>2 DEF SourceTypeOK
<1>4. ASSUME ~AtEnd
      PROVE  read < Len(text) /\ NextChar \in Nat
  <2>1. read < Len(text)
    BY <1>2, <1>3, <1>4 DEF AtEnd
  <2>2. read + 1 \in 1 .. Len(text)
    BY <1>2, <1>3, <2>1
  <2> QED
    BY <1>1, <2>1, <2>2, ElementOfSeq DEF NextChar
<1> QED
  BY <1>1, <1>2, <1>3, <1>4

LEMMA NextType ==
  ASSUME NEW last \in Location \cup {NoLocation}, NEW c \in Nat
  PROVE  next(last, c) \in Location
<1>1. CASE last = NoLocation
  BY <1>1 DEF next, Location
<1>2. CASE last # NoLocation
  BY <1>2 DEF next, Location
<1> QED
  BY <1>1, <1>2

LEMMA StoreType ==
  ASSUME TypeOK
  PROVE  /\ Len(store) \in Nat
         /\ Popped \in 0 .. read
         /\ \A n \in 1 .. Len(store) : store[n] \in Location
<1>1. store \in Seq(Location) /\ Len(store) <= read
  BY DEF TypeOK
<1>2. Len(store) \in Nat /\ \A n \in 1 .. Len(store) : store[n] \in Location
  BY <1>1, LenProperties, ElementOfSeq
<1> QED
  BY <1>1, <1>2, TextType DEF TypeOK, Popped

(* The end of a deque is a deque.                                          *)
LEMMA Suffix ==
  ASSUME TypeOK, NEW k \in 0 .. Len(store)
  PROVE  LET s == SubSeq(store, k + 1, Len(store)) IN
           /\ s \in Seq(Location)
           /\ Len(s) = Len(store) - k
           /\ \A n \in 1 .. Len(s) : s[n] = store[k + n]
<1>1. /\ Len(store) \in Nat
      /\ \A n \in 1 .. Len(store) : store[n] \in Location
  BY StoreType
<1>2. /\ k + 1 \in Int /\ Len(store) \in Int
      /\ \A n \in k + 1 .. Len(store) : store[n] \in Location
  BY <1>1
<1> DEFINE s == SubSeq(store, k + 1, Len(store))
<1>3. /\ s \in Seq(Location)
      /\ Len(s) = IF k + 1 <= Len(store) THEN Len(store) - (k + 1) + 1 ELSE 0
      /\ \A n \in 1 .. Len(store) - (k + 1) + 1 : s[n] = store[k + 1 + n - 1]
  BY <1>2, SubSeqProperties
<1> QED
  BY <1>1, <1>3

LEMMA ErasedShape ==
  ASSUME TypeOK
  PROVE  \E k \in 0 .. Len(store) :
           Erased(call) = SubSeq(store, k + 1, Len(store))
<1>1. /\ store \in Seq(Location) /\ Len(store) \in Nat
      /\ call.to \in Int
  BY StoreType DEF TypeOK, Call
<1>2. CASE call.op = "popRange" /\ call.to > 0
  <2>1. Smaller(call.to, Len(store)) \in 0 .. Len(store)
    BY <1>1, <1>2 DEF Smaller
  <2> QED
    BY <1>2, <2>1 DEF Erased
<1>3. CASE ~(call.op = "popRange" /\ call.to > 0)
  <2>1. 0 \in 0 .. Len(store) /\ 0 + 1 = 1
    BY <1>1
  <2>2. Erased(call) = SubSeq(store, 0 + 1, Len(store))
    BY <1>1, <1>3, <2>1, SubSeqFull DEF Erased
  <2> QED
    BY <2>1, <2>2
<1> QED
  BY <1>2, <1>3

(* Nothing is erased.                                                      *)
LEMMA Untouched ==
  ASSUME TypeOK, UNCHANGED <<text, read, store, previous>>
  PROVE  \E k \in 0 .. Len(store) : Dropped(k)
<1>1. store \in Seq(Location) /\ 0 \in 0 .. Len(store) /\ 0 + 1 = 1
  BY StoreType DEF TypeOK
<1>2. store' = SubSeq(store, 0 + 1, Len(store))
  BY <1>1, SubSeqFull
<1> QED
  BY <1>1, <1>2 DEF Dropped

LEMMA AnswerShape ==
  ASSUME TypeOK, NEW upto, Answer(upto), UNCHANGED <<text, read>>,
         previous' = previous \/ (previous' = NoLocation /\ AtEnd)
  PROVE  \E k \in 0 .. Len(store) : Dropped(k)
<1>1. PICK k \in 0 .. Len(store) :
        Erased(call) = SubSeq(store, k + 1, Len(store))
  BY ErasedShape
<1> QED
  BY <1>1 DEF Answer, Dropped

(* Every step does one of the four to the deque.                           *)
LEMMA StepShape ==
  ASSUME TypeOK, [Next]_supplierVars
  PROVE  \/ \E k \in 0 .. Len(store) : Dropped(k)
         \/ Added
         \/ Passed
         \/ Cleared
<1>1. CASE UNCHANGED supplierVars
  BY <1>1, Untouched DEF supplierVars
<1>2. CASE Request
  BY <1>2, Untouched DEF Request
<1>3. CASE PollNothing
  BY <1>3, AnswerShape DEF PollNothing
<1>4. CASE PollSupply
  BY <1>4 DEF PollSupply, Added
<1>5. CASE PollEnd
  BY <1>5, AnswerShape DEF PollEnd, SupplyEnd
<1>6. CASE PollOn
  BY <1>6, Untouched DEF PollOn
<1>7. CASE PollDone
  BY <1>7, AnswerShape DEF PollDone
<1>8. CASE PopStored
  <2>1. store \in Seq(Location) /\ store # <<>> /\ Len(store) \in Nat
    BY <1>8, StoreType DEF PopStored, TypeOK
  <2>2. Len(store) > 0
    BY <2>1, EmptySeq
  <2>3. store' = SubSeq(store, 2, Len(store)) /\ 1 \in 0 .. Len(store)
    BY <1>8, <2>1, <2>2, TailIsSubSeq DEF PopStored
  <2>4. 1 + 1 = 2
    OBVIOUS
  <2>5. store' = SubSeq(store, 1 + 1, Len(store))
    BY <2>3, <2>4
  <2> QED
    BY <1>8, <2>3, <2>5 DEF PopStored, Dropped
<1>9. CASE PopSupplied
  <2>1. CASE Supply
    BY <1>9, <2>1 DEF PopSupplied, Passed
  <2>2. CASE SupplyEnd
    <3>1. store \in Seq(Location) /\ 0 \in 0 .. Len(store) /\ 0 + 1 = 1
      BY StoreType DEF TypeOK
    <3>2. store' = SubSeq(store, 0 + 1, Len(store))
      BY <1>9, <3>1, SubSeqFull DEF PopSupplied
    <3> QED
      BY <1>9, <2>2, <3>1, <3>2 DEF PopSupplied, SupplyEnd, Dropped
  <2> QED
    BY <1>9, <2>1, <2>2 DEF PopSupplied
<1>10. CASE Clear
  BY <1>10 DEF Clear, Cleared
<1> QED
  BY <1>1, <1>2, <1>3, <1>4, <1>5, <1>6, <1>7, <1>8, <1>9, <1>10
  DEF Next, Poll

-----------------------------------------------------------------------------
(* Types.                                                                  *)

LEMMA InitType == Init => Inv
<1> SUFFICES ASSUME Init
             PROVE  Inv
  OBVIOUS
<1>1. SourceTypeOK
  <2>1. text \in Texts /\ text \in Seq(Nat)
    BY TextsAssumption DEF Init, SourceInit
  <2>2. Len(text) \in Nat
    BY <2>1, LenProperties
  <2> QED
    BY <2>1, <2>2 DEF Init, SourceInit, SourceTypeOK
<1>2. store \in Seq(Location) /\ Len(store) = 0 /\ reply \in Seq(Location)
  BY EmptySeq DEF Init
<1>3. call \in Call
  BY DEF Init, Call
<1>4. busy = FALSE /\ previous = NoLocation /\ Len(store) <= read
  BY <1>2 DEF Init, SourceInit
<1>5. TypeOK
  BY <1>1, <1>2, <1>3, <1>4 DEF TypeOK
<1>6. Progress
  BY <1>4 DEF Progress
<1> QED
  BY <1>5, <1>6 DEF Inv

(* The deque, and the text behind it.                                      *)
LEMMA DequeType ==
  ASSUME TypeOK, [Next]_supplierVars
  PROVE  /\ SourceTypeOK'
         /\ (store \in Seq(Location))'
         /\ (Len(store) <= read)'
         /\ (previous \in Location \cup {NoLocation})'
<1>0. /\ SourceTypeOK /\ store \in Seq(Location) /\ Len(store) \in Nat
      /\ Len(store) <= read /\ read \in Nat
      /\ previous \in Location \cup {NoLocation}
  BY StoreType, TextType DEF TypeOK
<1>1. ASSUME NEW k \in 0 .. Len(store), Dropped(k)
      PROVE  /\ SourceTypeOK'
             /\ (store \in Seq(Location))'
             /\ (Len(store) <= read)'
             /\ (previous \in Location \cup {NoLocation})'
  <2>1. store' \in Seq(Location) /\ Len(store') = Len(store) - k
    BY <1>1, Suffix DEF Dropped
  <2> QED
    BY <1>0, <1>1, <2>1 DEF Dropped, SourceTypeOK
<1>2. ASSUME Supply
      PROVE  /\ SourceTypeOK'
             /\ read' = read + 1
             /\ previous' \in Location
  <2>1. read < Len(text) /\ NextChar \in Nat /\ Len(text) \in Nat
    BY <1>0, <1>2, TextType DEF Supply, Take
  <2>2. previous' \in Location
    BY <1>0, <1>2, <2>1, NextType DEF Supply
  <2> QED
    BY <1>0, <1>2, <2>1, <2>2 DEF Supply, Take, SourceTypeOK
<1>3. CASE Added
  <2>1. Supply /\ store' = Append(store, previous')
    BY <1>3 DEF Added
  <2>2. store' \in Seq(Location) /\ Len(store') = Len(store) + 1
    BY <1>0, <1>2, <2>1, AppendProperties
  <2> QED
    BY <1>0, <1>2, <2>1, <2>2
<1>4. CASE Passed
  <2>1. store' = store /\ Supply
    BY <1>4 DEF Passed
  <2> QED
    BY <1>0, <1>2, <2>1
<1>5. CASE Cleared
  <2>1. text' \in Texts /\ text' \in Seq(Nat) /\ read' = 0
    BY <1>5, TextsAssumption DEF Cleared, Restart
  <2>2. Len(text') \in Nat
    BY <2>1, LenProperties
  <2>3. store' \in Seq(Location) /\ Len(store') = 0
    BY <1>5, EmptySeq DEF Cleared
  <2> QED
    BY <1>5, <2>1, <2>2, <2>3 DEF Cleared, SourceTypeOK
<1> QED
  BY <1>1, <1>3, <1>4, <1>5, StepShape

(* An answer is a part of the deque.                                       *)
LEMMA AnswerType ==
  ASSUME TypeOK, NEW upto \in Int, Answer(upto),
         \/ upto <= call.from
         \/ call.from >= 0 /\ upto <= Len(store)
  PROVE  reply' \in Seq(Location) /\ busy' = FALSE /\ call' \in Call
<1>1. /\ call \in Call /\ call.from \in Int /\ call.from + 1 \in Int
      /\ Len(store) \in Nat
      /\ \A n \in 1 .. Len(store) : store[n] \in Location
  BY StoreType DEF TypeOK, Call
<1>2. \A n \in call.from + 1 .. upto : store[n] \in Location
  BY <1>1
<1>3. SubSeq(store, call.from + 1, upto) \in Seq(Location)
  BY <1>1, <1>2, SubSeqProperties
<1> QED
  BY <1>1, <1>3 DEF Answer

(* The call, its answer and how far it has got.                            *)
LEMMA CallType ==
  ASSUME Inv, [Next]_supplierVars
  PROVE  /\ busy' \in BOOLEAN
         /\ call' \in Call
         /\ reply' \in Seq(Location)
         /\ Progress'
<1>0. /\ call \in Call /\ busy \in BOOLEAN /\ reply \in Seq(Location)
      /\ store \in Seq(Location) /\ Len(store) \in Nat
      /\ Popped \in Nat /\ read \in Nat
      /\ call.from \in Int /\ call.to \in Int /\ call.next \in Int
      /\ TypeOK
  BY StoreType, TextType DEF Inv, TypeOK, Call
<1>1. CASE UNCHANGED supplierVars
  BY <1>0, <1>1 DEF supplierVars, Inv, Progress
<1>2. CASE Request
  <2>1. PICK c \in Calls :
          call' = [op |-> c[1], from |-> c[2], to |-> c[3], next |-> c[2],
                   base |-> Popped, had |-> read]
    BY <1>2 DEF Request
  <2>2. /\ c[1] \in {"poll", "range", "popRange"}
        /\ c[2] \in Int /\ c[3] \in Int
    BY CallsAssumption
  <2>3. call' \in Call /\ call'.next = call'.from
    BY <1>0, <2>1, <2>2 DEF Call
  <2> QED
    BY <1>0, <1>2, <2>3 DEF Request, Progress
<1>3. CASE PollNothing
  <2>1. Answer(call.from) /\ call.from <= call.from
    BY <1>0, <1>3 DEF PollNothing
  <2>2. reply' \in Seq(Location) /\ busy' = FALSE /\ call' \in Call
    BY <1>0, <2>1, AnswerType
  <2> QED
    BY <2>2 DEF Progress
<1>4. CASE PollSupply
  <2>1. /\ Len(store') = Len(store) + 1
        /\ UNCHANGED <<busy, call, reply>>
    BY <1>0, <1>4, AppendProperties DEF PollSupply, Supply
  <2> QED
    BY <1>0, <2>1 DEF Inv, Progress
<1>5. CASE PollEnd
  <2>1. busy /\ (call.next <= call.from \/
                   (call.from >= 0 /\ call.next <= Len(store)))
    BY <1>0, <1>5 DEF PollEnd, Inv, Progress
  <2>2. reply' \in Seq(Location) /\ busy' = FALSE /\ call' \in Call
    BY <1>0, <1>5, <2>1, AnswerType DEF PollEnd
  <2> QED
    BY <2>2 DEF Progress
<1>6. CASE PollOn
  <2>1. /\ busy /\ call.next \in 0 .. Len(store) - 1
        /\ call' = [call EXCEPT !.next = call.next + 1]
        /\ UNCHANGED <<store, busy, reply>>
    BY <1>6 DEF PollOn
  <2>2. call' \in Call /\ call'.from = call.from /\ call'.next = call.next + 1
    BY <1>0, <2>1 DEF Call
  <2>3. call.from >= 0 /\ call.next >= call.from
    BY <1>0, <2>1 DEF Inv, Progress
  <2>4. Progress'
    BY <1>0, <2>1, <2>2, <2>3 DEF Progress
  <2> QED
    BY <1>0, <2>1, <2>2, <2>4
<1>7. CASE PollDone
  <2>1. busy /\ call.next \in 0 .. Len(store) - 1 /\ Answer(call.next + 1)
    BY <1>7 DEF PollDone
  <2>2. call.from >= 0 /\ call.next + 1 \in Int /\ call.next + 1 <= Len(store)
    BY <1>0, <2>1 DEF Inv, Progress
  <2>3. reply' \in Seq(Location) /\ busy' = FALSE /\ call' \in Call
    BY <1>0, <2>1, <2>2, AnswerType
  <2> QED
    BY <2>3 DEF Progress
<1>8. ASSUME ~busy, UNCHANGED busy,
             call' = [op |-> "pop", from |-> 0, to |-> 1, next |-> 0,
                      base |-> Popped, had |-> read],
             reply' \in Seq(Location)
      PROVE  /\ busy' \in BOOLEAN
             /\ call' \in Call
             /\ reply' \in Seq(Location)
             /\ Progress'
  <2>1. call' \in Call
    BY <1>0, <1>8 DEF Call
  <2> QED
    BY <1>0, <1>8, <2>1 DEF Progress
<1>9. CASE PopStored
  <2>1. store # <<>>
    BY <1>9 DEF PopStored
  <2>2. Head(store) \in Location
    BY <1>0, <2>1, HeadTailProperties
  <2>3. <<Head(store)>> \in Seq(Location)
    BY <2>2
  <2> QED
    BY <1>8, <1>9, <2>3 DEF PopStored
<1>10. CASE PopSupplied
  <2>1. CASE Supply /\ reply' = <<previous'>>
    <3>1. ~AtEnd /\ previous' = next(previous, NextChar)
      BY <2>1 DEF Supply, Take
    <3>2. NextChar \in Nat /\ previous \in Location \cup {NoLocation}
      BY <1>0, <3>1, TextType DEF TypeOK
    <3>3. previous' \in Location
      BY <3>1, <3>2, NextType
    <3>4. reply' \in Seq(Location)
      BY <2>1, <3>3
    <3> QED
      BY <1>8, <1>10, <3>4 DEF PopSupplied
  <2>2. CASE SupplyEnd /\ reply' = <<>>
    <3>1. reply' \in Seq(Location)
      BY <2>2, EmptySeq
    <3> QED
      BY <1>8, <1>10, <3>1 DEF PopSupplied
  <2> QED
    BY <1>10, <2>1, <2>2 DEF PopSupplied
<1>11. CASE Clear
  <2>1. call' \in Call
    BY <1>11 DEF Clear, Call
  <2>2. reply' \in Seq(Location)
    BY <1>11, EmptySeq DEF Clear
  <2>3. ~busy /\ UNCHANGED busy
    BY <1>11 DEF Clear
  <2> QED
    BY <1>0, <2>1, <2>2, <2>3 DEF Progress
<1> QED
  BY <1>1, <1>2, <1>3, <1>4, <1>5, <1>6, <1>7, <1>9, <1>10, <1>11
  DEF Next, Poll

LEMMA InvStep ==
  ASSUME Inv, [Next]_supplierVars
  PROVE  Inv'
<1>1. TypeOK
  BY DEF Inv
<1> QED
  BY <1>1, DequeType, CallType DEF Inv, TypeOK

(* Every variable stays in its type, and the deque never holds more than   *)
(* the console has been asked for; no answer reaches beyond the deque.     *)
THEOREM SupplierTypeCorrect == Spec => [](TypeOK /\ Progress)
<1>1. Init => Inv
  BY InitType
<1>2. Inv /\ [Next]_supplierVars => Inv'
  BY InvStep
<1> QED
  BY <1>1, <1>2, PTL DEF Spec, Inv

-----------------------------------------------------------------------------
(* The window.                                                             *)

(* The deque over the text implements the window: whatever the calls, it   *)
(* only moves forward over the text, and only a clear starts another one.  *)
THEOREM SupplierImplementsWindow == Spec => ImplementsWindow
<1>1. Init => Window!WindowInit
  <2> SUFFICES ASSUME Init
               PROVE  Window!WindowInit
    OBVIOUS
  <2>1. Len(store) = 0 /\ read = 0 /\ text \in Texts
    BY EmptySeq DEF Init, SourceInit
  <2> QED
    BY <2>1 DEF Window!WindowInit, Popped
<1>2. ASSUME TypeOK, [Next]_supplierVars
      PROVE  [Window!WindowNext]_<<text, Popped, read>>
  <2>0. /\ store \in Seq(Location) /\ Len(store) \in Nat
        /\ Popped \in 0 .. read /\ Popped = read - Len(store)
        /\ read \in Nat /\ read <= Len(text) /\ Len(text) \in Nat
    BY <1>2, StoreType, TextType DEF TypeOK, Popped
  <2>1. ASSUME NEW k \in 0 .. Len(store), Dropped(k)
        PROVE  Window!Advance
    <3>1. Len(store') = Len(store) - k
      BY <1>2, <2>1, Suffix DEF Dropped
    <3>2. read' = read /\ text' = text
      BY <2>1 DEF Dropped
    <3>3. Popped' \in Popped .. read'
      BY <2>0, <3>1, <3>2 DEF Popped
    <3> QED
      BY <2>0, <3>2, <3>3 DEF Window!Advance
  <2>2. ASSUME Supply, Len(store') \in {Len(store), Len(store) + 1},
               Len(store') <= read'
        PROVE  Window!Advance
    <3>1. read < Len(text) /\ read' = read + 1 /\ text' = text
      BY <1>2, <2>2, TextType DEF Supply, Take, TypeOK
    <3>2. Popped' \in Popped .. read'
      BY <2>0, <2>2, <3>1 DEF Popped
    <3> QED
      BY <2>0, <3>1, <3>2 DEF Window!Advance
  <2>3. Len(store') <= read'
    BY <1>2, DequeType
  <2>4. ASSUME Added
        PROVE  Window!Advance
    <3>1. Supply /\ store' = Append(store, previous')
      BY <2>4 DEF Added
    <3>2. Len(store') = Len(store) + 1
      BY <2>0, <3>1, AppendProperties
    <3> QED
      BY <2>2, <2>3, <3>1, <3>2
  <2>5. ASSUME Passed
        PROVE  Window!Advance
    <3>1. Supply /\ store' = store
      BY <2>5 DEF Passed
    <3> QED
      BY <2>2, <2>3, <3>1
  <2>6. CASE Cleared
    <3>1. Len(store') = 0 /\ read' = 0 /\ text' \in Texts
      BY <2>6, EmptySeq DEF Cleared, Restart
    <3> QED
      BY <3>1 DEF Window!Restart, Window!WindowNext, Popped
  <2> QED
    BY <1>2, <2>1, <2>4, <2>5, <2>6, StepShape DEF Window!WindowNext
<1> QED
  BY <1>1, <1>2, SupplierTypeCorrect, PTL
  DEF Spec, ImplementsWindow, Window!WindowSpec, Window!windowVars

-----------------------------------------------------------------------------
(* Lines and columns.                                                      *)

LEMMA NewLinesStep ==
  ASSUME NEW t \in Seq(Nat), NEW p \in Nat
  PROVE  /\ IsFiniteSet(NewLines(t, p))
         /\ Cardinality(NewLines(t, p)) \in Nat
         /\ NewLines(t, 0) = {}
         /\ p > 0 /\ ~isNewLine(t[p]) => NewLines(t, p) = NewLines(t, p - 1)
         /\ p > 0 /\ isNewLine(t[p]) =>
              NewLines(t, p) = NewLines(t, p - 1) \cup {p}
         /\ \A q \in NewLines(t, p) : q \in 1 .. p
<1>1. IsFiniteSet(1 .. p) /\ NewLines(t, p) \in SUBSET (1 .. p)
  BY FS_Interval DEF NewLines
<1>2. IsFiniteSet(NewLines(t, p))
  BY <1>1, FS_Subset
<1>3. Cardinality(NewLines(t, p)) \in Nat
  BY <1>2, FS_CardinalityType
<1>4. NewLines(t, 0) = {}
  BY DEF NewLines
<1>5. p > 0 /\ ~isNewLine(t[p]) => NewLines(t, p) = NewLines(t, p - 1)
  BY DEF NewLines
<1>6. p > 0 /\ isNewLine(t[p]) =>
        NewLines(t, p) = NewLines(t, p - 1) \cup {p}
  BY DEF NewLines
<1> QED
  BY <1>1, <1>2, <1>3, <1>4, <1>5, <1>6

(* Location::next counts lines and columns on.                             *)
LEMMA NextIsLocation ==
  ASSUME NEW t \in Seq(Nat), NEW p \in Nat,
         NEW last \in Location \cup {NoLocation},
         IF last = NoLocation THEN p = 0
                              ELSE p > 0 /\ IsLocation(t, last, p - 1)
  PROVE  IsLocation(t, next(last, t[p + 1]), p)
<1> DEFINE l == next(last, t[p + 1])
<1>1. CASE last = NoLocation
  <2>1. p = 0 /\ NewLines(t, p) = {} /\ Cardinality(NewLines(t, p)) = 0
    BY <1>1, NewLinesStep, FS_EmptySet
  <2>2. /\ l.position = 0 /\ l.character = t[p + 1]
        /\ l.line = 1 /\ l.column = 1
    BY <1>1, <2>1 DEF next
  <2>3. /\ 0 \in NewLines(t, p) \cup {0}
        /\ \A q \in NewLines(t, p) : q <= 0
        /\ l.column = p + 1 - 0
    BY <2>1, <2>2
  <2>4. l.position = p /\ l.line = 1 + Cardinality(NewLines(t, p))
    BY <2>1, <2>2
  <2> QED
    BY <2>2, <2>3, <2>4 DEF IsLocation
<1>2. CASE last # NoLocation
  <2>0. /\ last \in Location /\ p > 0 /\ p - 1 \in Nat
        /\ IsLocation(t, last, p - 1)
    BY <1>2
  <2>1. /\ last.position = p - 1 /\ last.character = t[p]
        /\ last.line = 1 + Cardinality(NewLines(t, p - 1))
        /\ last.line \in Nat /\ last.column \in Nat
    BY <2>0 DEF IsLocation, Location
  <2>2. CASE isNewLine(t[p])
    <3>1. /\ l.position = p /\ l.character = t[p + 1]
          /\ l.line = last.line + 1 /\ l.column = 1
      BY <1>2, <2>0, <2>1, <2>2 DEF next
    <3>2. NewLines(t, p) = NewLines(t, p - 1) \cup {p}
      BY <2>0, <2>2, NewLinesStep
    <3>3. /\ IsFiniteSet(NewLines(t, p - 1)) /\ p \notin NewLines(t, p - 1)
          /\ Cardinality(NewLines(t, p - 1)) \in Nat
      BY <2>0, NewLinesStep
    <3>4. Cardinality(NewLines(t, p)) = Cardinality(NewLines(t, p - 1)) + 1
      BY <3>2, <3>3, FS_AddElement
    <3>5. p \in NewLines(t, p) /\ \A q \in NewLines(t, p) : q <= p
      BY <3>2, NewLinesStep
    <3> QED
      BY <2>1, <3>1, <3>3, <3>4, <3>5 DEF IsLocation
  <2>3. CASE ~isNewLine(t[p])
    <3>1. /\ l.position = p /\ l.character = t[p + 1]
          /\ l.line = last.line /\ l.column = last.column + 1
      BY <1>2, <2>0, <2>1, <2>3 DEF next
    <3>2. NewLines(t, p) = NewLines(t, p - 1)
      BY <2>0, <2>3, NewLinesStep
    <3>3. PICK s \in NewLines(t, p - 1) \cup {0} :
            /\ \A q \in NewLines(t, p - 1) : q <= s
            /\ last.column = (p - 1) + 1 - s
      BY <2>0 DEF IsLocation
    <3>4. s \in Nat
      BY <2>0, <3>3, NewLinesStep
    <3>5. l.column = p + 1 - s
      BY <2>0, <3>1, <3>3, <3>4
    <3> QED
      BY <2>1, <3>1, <3>2, <3>3, <3>5 DEF IsLocation
  <2> QED
    BY <2>2, <2>3
<1> QED
  BY <1>1, <1>2

LEMMA StoreIsTextStep ==
  ASSUME TypeOK, StoreIsText, [Next]_supplierVars
  PROVE  StoreIsText'
<1>0. /\ text \in Seq(Nat) /\ read \in Nat /\ read <= Len(text)
      /\ store \in Seq(Location) /\ Len(store) \in Nat
      /\ Popped \in 0 .. read /\ Popped = read - Len(store)
      /\ previous \in Location \cup {NoLocation}
  BY StoreType, TextType DEF TypeOK, Popped
<1>1. ASSUME NEW k \in 0 .. Len(store), Dropped(k)
      PROVE  StoreIsText'
  <2>1. /\ text' = text /\ read' = read
        /\ previous' = previous \/ (previous' = NoLocation /\ AtEnd)
        /\ Len(store') = Len(store) - k
        /\ \A n \in 1 .. Len(store') : store'[n] = store[k + n]
    BY <1>1, Suffix DEF Dropped
  <2>2. Popped' = Popped + k
    BY <1>0, <2>1 DEF Popped
  <2>3. ASSUME NEW n \in 1 .. Len(store')
        PROVE  IsLocation(text', store'[n], Popped' + n - 1)
    <3>1. k + n \in 1 .. Len(store) /\ Popped' + n - 1 = Popped + (k + n) - 1
      BY <1>0, <2>1, <2>2
    <3> QED
      BY <2>1, <3>1 DEF StoreIsText
  <2> QED
    BY <2>1, <2>3 DEF StoreIsText, AtEnd
<1>2. ASSUME Supply
      PROVE  /\ text' = text /\ read' = read + 1
             /\ previous' \in Location
             /\ IsLocation(text, previous', read)
  <2>1. /\ text' = text /\ read' = read + 1 /\ ~AtEnd
        /\ previous' = next(previous, NextChar)
    BY <1>2 DEF Supply, Take
  <2>2. NextChar \in Nat
    BY <2>1, TextType DEF TypeOK
  <2>3. IF previous = NoLocation
        THEN read = 0
        ELSE read > 0 /\ IsLocation(text, previous, read - 1)
    BY <2>1 DEF StoreIsText
  <2>4. IsLocation(text, previous', read)
    BY <1>0, <2>1, <2>3, NextIsLocation DEF NextChar
  <2> QED
    BY <1>0, <2>1, <2>2, <2>4, NextType
<1>3. CASE Added
  <2>1. Supply /\ store' = Append(store, previous')
    BY <1>3 DEF Added
  <2>2. /\ Len(store') = Len(store) + 1
        /\ \A n \in 1 .. Len(store) : store'[n] = store[n]
        /\ store'[Len(store) + 1] = previous'
    BY <1>0, <1>2, <2>1, AppendProperties
  <2>3. Popped' = Popped
    BY <1>0, <1>2, <2>1, <2>2 DEF Popped
  <2>4. ASSUME NEW n \in 1 .. Len(store')
        PROVE  IsLocation(text', store'[n], Popped' + n - 1)
    <3>1. CASE n \in 1 .. Len(store)
      BY <1>2, <2>1, <2>2, <2>3, <3>1 DEF StoreIsText
    <3>2. CASE n = Len(store) + 1
      <4>1. Popped' + n - 1 = read
        BY <1>0, <2>3, <3>2
      <4> QED
        BY <1>2, <2>1, <2>2, <3>2, <4>1
    <3> QED
      BY <1>0, <2>2, <3>1, <3>2
  <2>5. /\ previous' # NoLocation /\ read' > 0
        /\ IsLocation(text', previous', read' - 1)
    BY <1>0, <1>2, <2>1, NoLocationAssumption
  <2> QED
    BY <2>4, <2>5 DEF StoreIsText
<1>4. CASE Passed
  <2>1. Supply /\ Len(store') = 0
    BY <1>4, EmptySeq DEF Passed
  <2>2. /\ previous' # NoLocation /\ read' > 0
        /\ IsLocation(text', previous', read' - 1)
    BY <1>0, <1>2, <2>1, NoLocationAssumption
  <2> QED
    BY <2>1, <2>2 DEF StoreIsText
<1>5. CASE Cleared
  <2>1. Len(store') = 0 /\ read' = 0 /\ previous' = NoLocation
    BY <1>5, EmptySeq DEF Cleared, Restart
  <2> QED
    BY <2>1 DEF StoreIsText
<1> QED
  BY <1>1, <1>3, <1>4, <1>5, StepShape

(* Every location in the deque knows the line, the column and the position *)
(* of its character, whatever was popped, polled or cleared before.        *)
THEOREM LocationsAreRight == Spec => []StoreIsText
<1>1. Init => StoreIsText
  <2> SUFFICES ASSUME Init
               PROVE  StoreIsText
    OBVIOUS
  <2>1. Len(store) = 0 /\ read = 0 /\ previous = NoLocation
    BY EmptySeq DEF Init, SourceInit
  <2> QED
    BY <2>1 DEF StoreIsText
<1>2. TypeOK /\ StoreIsText /\ [Next]_supplierVars => StoreIsText'
  BY StoreIsTextStep
<1> QED
  BY <1>1, <1>2, SupplierTypeCorrect, PTL DEF Spec

-----------------------------------------------------------------------------
(* Whatever was polled, popped or cleared before, the supplier answers     *)
(* each call with what the window over the text says, and asks the console *)
(* for no character more than the call needs.  A call is several steps, so *)
(* what it answers in the end is related to what there was when it was     *)
(* made by an invariant of the steps between.                              *)

(* While a call is under way nothing is popped, and either no character    *)
(* has been asked for or only those up to the index that is polled.        *)
Asking ==
  busy =>
    /\ call.op \in {"poll", "range", "popRange"}
    /\ call.op = "popRange" => call.from = 0 /\ call.to >= 0
    /\ call.base = Popped
    /\ call.had \in call.base .. read
    /\ call.next = call.from \/ call.next < call.to
    /\ read = call.had \/ read <= call.base + call.next + 1

AnswerInv == Inv /\ StoreIsText /\ Asking /\ AnswersAsWindow

-----------------------------------------------------------------------------
LEMMA Numbers ==
  ASSUME Inv
  PROVE  /\ TypeOK
         /\ text \in Seq(Nat) /\ Len(text) \in Nat
         /\ read \in Nat /\ read <= Len(text)
         /\ store \in Seq(Location) /\ Len(store) \in Nat
         /\ Popped \in Nat /\ Popped <= read
         /\ Popped = read - Len(store)
         /\ call.from \in Int /\ call.to \in Int /\ call.next \in Int
         /\ call.base \in Nat /\ call.had \in Nat
         /\ busy \in BOOLEAN
<1>1. TypeOK
  BY DEF Inv
<1>2. Popped \in 0 .. read /\ Len(store) \in Nat
  BY <1>1, StoreType
<1>3. /\ call.from \in Int /\ call.to \in Int /\ call.next \in Int
      /\ call.base \in Nat /\ call.had \in Nat
  BY <1>1 DEF TypeOK, Call
<1> QED
  BY <1>1, <1>2, <1>3, TextType DEF TypeOK, Popped

(* What the locations from `from' up to `upto' span.                       *)
LEMMA SpannedRange ==
  ASSUME Inv, StoreIsText, NEW from \in Nat, NEW upto \in Nat,
         from < upto, upto <= Len(store)
  PROVE  Spanned(SubSeq(store, from + 1, upto)) =
           [first |-> Popped + from, last |-> Popped + upto - 1]
<1> DEFINE s == SubSeq(store, from + 1, upto)
<1>0. /\ store \in Seq(Location) /\ Len(store) \in Nat /\ Popped \in Nat
      /\ \A n \in 1 .. Len(store) : store[n] \in Location
  BY Numbers, StoreType
<1>1. \A n \in from + 1 .. upto : store[n] \in Location
  BY <1>0
<1>2. /\ s \in Seq(Location)
      /\ Len(s) = upto - from
      /\ \A n \in 1 .. upto - from : s[n] = store[from + n]
  <2>1. /\ s \in Seq(Location)
        /\ Len(s) = IF from + 1 <= upto THEN upto - (from + 1) + 1 ELSE 0
        /\ \A n \in 1 .. upto - (from + 1) + 1 : s[n] = store[from + 1 + n - 1]
    BY <1>0, <1>1, SubSeqProperties
  <2> QED
    BY <2>1
<1>3. /\ s[1] = store[from + 1]
      /\ s[Len(s)] = store[upto]
      /\ s # <<>>
  BY <1>2, EmptySeq
<1>4. /\ store[from + 1].position = Popped + from
      /\ store[upto].position = Popped + upto - 1
  BY <1>0 DEF StoreIsText, IsLocation
<1> QED
  BY <1>3, <1>4 DEF Spanned

LEMMA SpannedNothing ==
  ASSUME Inv, NEW from \in Int, NEW upto \in Int, upto <= from
  PROVE  Spanned(SubSeq(store, from + 1, upto)) = Window!NoRange
<1>1. SubSeq(store, from + 1, upto) = <<>>
  BY Numbers, SubSeqProperties, EmptySeq
<1> QED
  BY <1>1 DEF Spanned

(* What a call that ends at index upto leaves and answers.                 *)
LEMMA Answered ==
  ASSUME AnswerInv, busy, NEW upto \in Int, Answer(upto),
         UNCHANGED <<text, read>>
  PROVE  /\ call' = call
         /\ Popped' = IF call.op \in {"pop", "popRange"}
                      THEN call.base + Smaller(call.to, read - call.base)
                      ELSE call.base
         /\ upto <= call.from => Spanned(reply') = Window!NoRange
         /\ call.from >= 0 /\ call.from < upto /\ upto <= Len(store) =>
              Spanned(reply') = [first |-> call.base + call.from,
                                 last  |-> call.base + upto - 1]
<1>0. /\ Inv /\ StoreIsText /\ Asking
      /\ call' = call
      /\ reply' = SubSeq(store, call.from + 1, upto)
      /\ store' = Erased(call)
  BY DEF AnswerInv, Answer
<1>1. /\ call.from \in Int /\ call.to \in Int /\ call.base = Popped
      /\ Popped = read - Len(store) /\ Len(store) \in Nat /\ read \in Nat
      /\ call.op \in {"poll", "range", "popRange"}
      /\ call.op = "popRange" => call.to >= 0
  BY <1>0, Numbers DEF Asking
<1>2. /\ upto <= call.from => Spanned(reply') = Window!NoRange
      /\ call.from >= 0 /\ call.from < upto /\ upto <= Len(store) =>
           Spanned(reply') = [first |-> call.base + call.from,
                              last  |-> call.base + upto - 1]
  <2>1. ASSUME upto <= call.from
        PROVE  Spanned(reply') = Window!NoRange
    BY <1>0, <1>1, <2>1, SpannedNothing
  <2>2. ASSUME call.from >= 0, call.from < upto, upto <= Len(store)
        PROVE  Spanned(reply') = [first |-> call.base + call.from,
                                  last  |-> call.base + upto - 1]
    <3>1. call.from \in Nat /\ upto \in Nat
      BY <1>1, <2>2
    <3> QED
      BY <1>0, <1>1, <2>2, <3>1, SpannedRange
  <2> QED
    BY <2>1, <2>2
<1>3. CASE call.op = "popRange" /\ call.to > 0
  <2>1. Smaller(call.to, Len(store)) \in 0 .. Len(store)
    BY <1>1, <1>3 DEF Smaller
  <2>2. store' = SubSeq(store, Smaller(call.to, Len(store)) + 1, Len(store))
    BY <1>0, <1>3 DEF Erased
  <2>3. Len(store') = Len(store) - Smaller(call.to, Len(store))
    BY <1>0, <2>1, <2>2, Numbers, Suffix
  <2>4. Popped' = call.base + Smaller(call.to, read - call.base)
    BY <1>1, <2>1, <2>3 DEF Popped
  <2> QED
    BY <1>0, <1>3, <1>2, <2>4
<1>4. CASE ~(call.op = "popRange" /\ call.to > 0)
  <2>1. store' = store
    BY <1>0, <1>4 DEF Erased
  <2>2. Popped' = Popped
    BY <2>1 DEF Popped
  <2>3. call.op = "popRange" => Smaller(call.to, read - call.base) = 0
    BY <1>1, <1>4 DEF Smaller
  <2> QED
    BY <1>0, <1>1, <1>2, <2>2, <2>3
<1> QED
  BY <1>3, <1>4

-----------------------------------------------------------------------------
LEMMA InitAnswers == Init => AnswerInv
<1> SUFFICES ASSUME Init
             PROVE  AnswerInv
  OBVIOUS
<1>1. Inv /\ StoreIsText
  <2>1. Len(store) = 0 /\ read = 0 /\ previous = NoLocation
    BY EmptySeq DEF Init, SourceInit
  <2> QED
    BY <2>1, InitType DEF StoreIsText
<1>2. ~busy /\ call.op = "clear"
  BY DEF Init
<1> QED
  BY <1>1, <1>2 DEF AnswerInv, Asking, AnswersAsWindow

LEMMA AskingStep ==
  ASSUME AnswerInv, [Next]_supplierVars
  PROVE  Asking'
<1>0. /\ Inv /\ Asking
      /\ read \in Nat /\ store \in Seq(Location) /\ Len(store) \in Nat
      /\ Popped \in Nat /\ Popped <= read /\ Popped = read - Len(store)
      /\ call.from \in Int /\ call.to \in Int /\ call.next \in Int
      /\ call.base \in Nat /\ call.had \in Nat
      /\ call \in Call
  BY Numbers DEF AnswerInv, Inv, TypeOK
<1>1. CASE UNCHANGED supplierVars
  BY <1>0, <1>1 DEF supplierVars, Asking, Popped
<1>2. CASE Request
  <2>1. PICK c \in Calls :
          call' = [op |-> c[1], from |-> c[2], to |-> c[3], next |-> c[2],
                   base |-> Popped, had |-> read]
    BY <1>2 DEF Request
  <2>2. /\ c[1] \in {"poll", "range", "popRange"}
        /\ c[1] = "popRange" => c[2] = 0 /\ c[3] >= 0
    BY CallsAssumption
  <2>3. Popped' = Popped /\ read' = read
    BY <1>2 DEF Request, Popped
  <2> QED
    BY <1>0, <2>1, <2>2, <2>3 DEF Asking
<1>3. CASE PollSupply
  <2>1. /\ busy /\ UNCHANGED <<busy, call>>
        /\ call.next >= Len(store)
        /\ read' = read + 1
        /\ store' = Append(store, previous')
    BY <1>3 DEF PollSupply, Supply, Take
  <2>2. Len(store') = Len(store) + 1
    BY <1>0, <2>1, DequeType, <1>3, AppendProperties DEF Inv
  <2>3. Popped' = Popped
    BY <1>0, <2>1, <2>2 DEF Popped
  <2> QED
    BY <1>0, <2>1, <2>3 DEF Asking
<1>4. CASE PollOn
  <2>1. /\ busy /\ UNCHANGED <<read, store, busy>>
        /\ call.next + 1 < call.to
        /\ call' = [call EXCEPT !.next = call.next + 1]
    BY <1>4 DEF PollOn
  <2>2. /\ call'.op = call.op /\ call'.from = call.from
        /\ call'.to = call.to /\ call'.next = call.next + 1
        /\ call'.base = call.base /\ call'.had = call.had
    BY <1>0, <2>1 DEF Call
  <2>3. Popped' = Popped
    BY <2>1 DEF Popped
  <2> QED
    BY <1>0, <2>1, <2>2, <2>3 DEF Asking
<1>5. CASE PollNothing \/ PollEnd \/ PollDone \/ PopStored \/ PopSupplied
             \/ Clear
  <2>1. ~busy'
    BY <1>5 DEF PollNothing, PollEnd, PollDone, PopStored, PopSupplied, Clear,
                Answer
  <2> QED
    BY <2>1 DEF Asking
<1> QED
  BY <1>1, <1>2, <1>3, <1>4, <1>5 DEF Next, Poll

-----------------------------------------------------------------------------
(* Each way a call can end.                                                *)

LEMMA NothingAnswers ==
  ASSUME AnswerInv, PollNothing
  PROVE  AnswersAsWindow'
<1>0. /\ Inv /\ Asking /\ busy /\ Progress /\ call.next < 0
      /\ Answer(call.from) /\ UNCHANGED <<text, read>>
  BY DEF AnswerInv, Inv, PollNothing
<1>1. /\ call.from \in Int /\ call.to \in Int /\ call.next \in Int
      /\ call.base \in Nat /\ call.had \in Nat /\ read \in Nat
  BY <1>0, Numbers
<1>2. call.from < 0
  BY <1>0, <1>1 DEF Progress
<1>3. /\ read = call.had /\ call.op \notin {"pop", "popRange"}
  BY <1>0, <1>1, <1>2 DEF Asking
<1>4. /\ call' = call /\ Popped' = call.base
      /\ Spanned(reply') = Window!NoRange
  BY <1>0, <1>1, <1>3, Answered
<1> QED
  BY <1>0, <1>1, <1>2, <1>3, <1>4
  DEF AnswersAsWindow, Window!RangeBetween, Window!Supplied

LEMMA EndAnswers ==
  ASSUME AnswerInv, PollEnd
  PROVE  AnswersAsWindow'
<1>0. /\ Inv /\ Asking /\ busy /\ Progress /\ call.next >= Len(store)
      /\ Answer(call.next) /\ UNCHANGED <<text, read>>
      /\ read = Len(text)
  BY DEF AnswerInv, Inv, PollEnd, SupplyEnd, AtEnd
<1>1. /\ call.from \in Int /\ call.to \in Int /\ call.next \in Int
      /\ call.base \in Nat /\ call.had \in Nat /\ read \in Nat
      /\ Len(store) \in Nat /\ call.had <= read
      /\ read = call.base + Len(store)
  BY <1>0, Numbers DEF Asking
<1>2. /\ call' = call
      /\ Popped' = IF call.op \in {"pop", "popRange"}
                   THEN call.base + Smaller(call.to, read - call.base)
                   ELSE call.base
      /\ call.next <= call.from => Spanned(reply') = Window!NoRange
      /\ call.from >= 0 /\ call.from < call.next /\ call.next <= Len(store) =>
           Spanned(reply') = [first |-> call.base + call.from,
                              last  |-> call.base + call.next - 1]
  BY <1>0, <1>1, Answered
<1>3. CASE call.next = call.from
  <2>1. Window!RangeBetween(call.base, call.from, call.to)' = Window!NoRange
    <3>1. ~(call.base + call.from < Len(text))
      BY <1>0, <1>1, <1>3
    <3>2. Window!RangeBetween(call.base, call.from, call.to) = Window!NoRange
      BY <3>1 DEF Window!RangeBetween
    <3> QED
      BY <1>0, <1>2, <3>2 DEF Window!RangeBetween
  <2>2. read = Window!Supplied(call.had, call.base, call.from, call.to)'
    BY <1>0, <1>1, <1>2, <1>3
    DEF Window!Supplied, Window!Greater, Window!Lesser
  <2> QED
    BY <1>0, <1>1, <1>2, <1>3, <2>1, <2>2 DEF AnswersAsWindow
<1>4. CASE call.next # call.from
  <2>1. /\ call.from >= 0 /\ call.from < call.next /\ call.next = Len(store)
        /\ call.next < call.to
    BY <1>0, <1>1, <1>4 DEF Progress, Asking
  <2>2. Window!RangeBetween(call.base, call.from, call.to)'
          = [first |-> call.base + call.from, last |-> call.base + call.next - 1]
    <3>1. /\ call.base + call.from < Len(text)
          /\ Window!Lesser(call.base + call.to, Len(text)) = Len(text)
          /\ Len(text) = call.base + call.next
      BY <1>0, <1>1, <2>1 DEF Window!Lesser
    <3>2. Window!Greater(call.base + call.from, Len(text) - 1) = Len(text) - 1
      BY <1>0, <1>1, <3>1 DEF Window!Greater
    <3>3. Window!RangeBetween(call.base, call.from, call.to)
            = [first |-> call.base + call.from,
               last  |-> call.base + call.next - 1]
      BY <1>1, <2>1, <3>1, <3>2 DEF Window!RangeBetween
    <3> QED
      BY <1>0, <1>2, <3>3 DEF Window!RangeBetween
  <2>3. read = Window!Supplied(call.had, call.base, call.from, call.to)'
    BY <1>0, <1>1, <1>2, <2>1
    DEF Window!Supplied, Window!Greater, Window!Lesser
  <2> QED
    BY <1>0, <1>1, <1>2, <2>1, <2>2, <2>3 DEF AnswersAsWindow
<1> QED
  BY <1>3, <1>4

LEMMA DoneAnswers ==
  ASSUME AnswerInv, PollDone
  PROVE  AnswersAsWindow'
<1>0. /\ Inv /\ Asking /\ busy /\ Progress
      /\ call.next \in 0 .. Len(store) - 1 /\ call.next + 1 >= call.to
      /\ Answer(call.next + 1) /\ UNCHANGED <<text, read>>
  BY DEF AnswerInv, Inv, PollDone
<1>1. /\ call.from \in Int /\ call.to \in Int /\ call.next \in Int
      /\ call.base \in Nat /\ call.had \in Nat /\ read \in Nat
      /\ Len(store) \in Nat /\ call.had <= read
      /\ read = call.base + Len(store)
      /\ Len(text) \in Nat /\ read <= Len(text)
  BY <1>0, Numbers DEF Asking
<1>2. /\ call.from >= 0 /\ call.from <= call.next
      /\ call.next = call.from \/ call.next + 1 = call.to
      /\ read = call.had \/ read <= call.base + call.next + 1
  BY <1>0, <1>1 DEF Progress, Asking
<1>3. /\ call' = call
      /\ Popped' = IF call.op \in {"pop", "popRange"}
                   THEN call.base + Smaller(call.to, read - call.base)
                   ELSE call.base
      /\ Spanned(reply') = [first |-> call.base + call.from,
                            last  |-> call.base + call.next]
  <2>1. call.next + 1 \in Int /\ call.from < call.next + 1
    BY <1>1, <1>2
  <2>2. call.next + 1 <= Len(store)
    BY <1>0, <1>1
  <2>3. call.base + (call.next + 1) - 1 = call.base + call.next
    BY <1>1
  <2>4. Spanned(reply') = [first |-> call.base + call.from,
                           last  |-> call.base + (call.next + 1) - 1]
    BY <1>0, <1>2, <2>1, <2>2, Answered
  <2> QED
    BY <1>0, <2>1, <2>3, <2>4, Answered
<1>4. Window!RangeBetween(call.base, call.from, call.to)'
        = [first |-> call.base + call.from, last |-> call.base + call.next]
  <2>1. /\ call.base + call.from < Len(text)
        /\ Window!Lesser(call.base + call.to, Len(text)) = call.base + call.to
    BY <1>0, <1>1, <1>2 DEF Window!Lesser
  <2>2. Window!Greater(call.base + call.from, call.base + call.to - 1)
          = call.base + call.next
    BY <1>0, <1>1, <1>2 DEF Window!Greater
  <2>3. Window!RangeBetween(call.base, call.from, call.to)
          = [first |-> call.base + call.from, last |-> call.base + call.next]
    BY <1>1, <1>2, <2>1, <2>2 DEF Window!RangeBetween
  <2> QED
    BY <1>0, <1>3, <2>3 DEF Window!RangeBetween
<1>5. read = Window!Supplied(call.had, call.base, call.from, call.to)'
  <2>1. /\ Window!Greater(call.to, call.from + 1) = call.next + 1
        /\ Window!Lesser(call.base + (call.next + 1), Len(text))
             = call.base + call.next + 1
    <3>1. /\ call.to \in Int /\ call.from \in Int /\ call.next \in Int
          /\ call.base \in Nat /\ Len(text) \in Nat
      BY <1>0, <1>1
    <3>2. /\ call.from <= call.next /\ call.next + 1 >= call.to
          /\ call.next = call.from \/ call.next + 1 = call.to
      BY <1>0, <1>2
    <3>3. call.base + call.next + 1 <= Len(text)
      BY <1>0, <1>1, <1>2
    <3>4. Window!Greater(call.to, call.from + 1) = call.next + 1
      BY <3>1, <3>2 DEF Window!Greater
    <3>5. Window!Lesser(call.base + (call.next + 1), Len(text))
            = call.base + call.next + 1
      BY <3>1, <3>3 DEF Window!Lesser
    <3> QED
      BY <3>4, <3>5
  <2>2. Window!Greater(call.had, call.base + call.next + 1) = read
    BY <1>0, <1>1, <1>2 DEF Window!Greater
  <2>3. read = Window!Supplied(call.had, call.base, call.from, call.to)
    BY <1>1, <1>2, <2>1, <2>2 DEF Window!Supplied
  <2> QED
    BY <1>0, <1>3, <2>3 DEF Window!Supplied
<1> QED
  BY <1>0, <1>3, <1>4, <1>5 DEF AnswersAsWindow

LEMMA PopAnswers ==
  ASSUME AnswerInv, PopStored \/ PopSupplied
  PROVE  AnswersAsWindow'
<1>0. /\ Inv /\ StoreIsText
      /\ call' = [op |-> "pop", from |-> 0, to |-> 1, next |-> 0,
                  base |-> Popped, had |-> read]
  BY DEF AnswerInv, PopStored, PopSupplied
<1>1. /\ text \in Seq(Nat) /\ Len(text) \in Nat
      /\ read \in Nat /\ read <= Len(text)
      /\ store \in Seq(Location) /\ Len(store) \in Nat
      /\ Popped \in Nat /\ Popped <= read /\ Popped = read - Len(store)
  BY <1>0, Numbers
<1>2. /\ call'.op = "pop" /\ call'.from = 0 /\ call'.to = 1
      /\ call'.base = Popped /\ call'.had = read
  BY <1>0
<1>3. CASE PopStored
  <2>1. /\ store # <<>> /\ Len(store) > 0
        /\ reply' = <<Head(store)>> /\ store' = Tail(store)
        /\ UNCHANGED <<text, read>>
    BY <1>1, <1>3, EmptySeq DEF PopStored
  <2>2. Head(store) = store[1] /\ Len(store') = Len(store) - 1
    BY <1>1, <2>1, HeadTailProperties
  <2>3. Head(store).position = Popped
    BY <1>0, <1>1, <2>1, <2>2 DEF StoreIsText, IsLocation
  <2>4. Spanned(reply') = [first |-> Popped, last |-> Popped]
    BY <2>1, <2>3 DEF Spanned
  <2>5. Popped' = Popped + 1
    BY <1>1, <2>1, <2>2 DEF Popped
  <2>6. Window!RangeBetween(call.base, call.from, call.to)'
          = [first |-> Popped, last |-> Popped]
    BY <1>1, <1>2, <2>1
    DEF Window!RangeBetween, Window!Greater, Window!Lesser
  <2>7. read = Window!Supplied(call.had, call.base, call.from, call.to)'
    BY <1>1, <1>2, <2>1
    DEF Window!Supplied, Window!Greater, Window!Lesser
  <2>8. Smaller(1, read - Popped) = 1
    BY <1>1, <2>1 DEF Smaller
  <2> QED
    BY <1>2, <2>1, <2>4, <2>5, <2>6, <2>7, <2>8 DEF AnswersAsWindow
<1>4. CASE PopSupplied
  <2>1. store = <<>> /\ store' = <<>> /\ Len(store) = 0 /\ Len(store') = 0
    BY <1>4, EmptySeq DEF PopSupplied
  <2>2. Popped = read
    BY <1>1, <2>1
  <2>3. CASE Supply /\ reply' = <<previous'>>
    <3>1. /\ read < Len(text) /\ read' = read + 1 /\ text' = text
          /\ StoreIsText' /\ previous' \in Location
      <4>1. TypeOK /\ [Next]_supplierVars
        BY <1>0, <1>4, Numbers DEF Next
      <4>2. /\ read < Len(text) /\ NextChar \in Nat
            /\ previous \in Location \cup {NoLocation}
        BY <1>1, <2>3, <4>1, TextType DEF Supply, Take, TypeOK
      <4> QED
        BY <1>0, <1>1, <2>3, <4>1, <4>2, StoreIsTextStep, NextType
        DEF Supply, Take
    <3>2. previous'.position = read
      BY <1>1, <3>1, NoLocationAssumption DEF StoreIsText, IsLocation
    <3>3. Spanned(reply') = [first |-> read, last |-> read]
      BY <2>3, <3>2 DEF Spanned
    <3>4. Popped' = read + 1
      BY <1>1, <2>1, <3>1 DEF Popped
    <3>5. Window!RangeBetween(call.base, call.from, call.to)'
            = [first |-> read, last |-> read]
      BY <1>1, <1>2, <2>2, <3>1
      DEF Window!RangeBetween, Window!Greater, Window!Lesser
    <3>6. read' = Window!Supplied(call.had, call.base, call.from, call.to)'
      BY <1>1, <1>2, <2>2, <3>1
      DEF Window!Supplied, Window!Greater, Window!Lesser
    <3>7. Smaller(1, read' - read) = 1
      BY <1>1, <3>1 DEF Smaller
    <3> QED
      BY <1>2, <2>2, <3>3, <3>4, <3>5, <3>6, <3>7 DEF AnswersAsWindow
  <2>4. CASE SupplyEnd /\ reply' = <<>>
    <3>1. read = Len(text) /\ UNCHANGED <<text, read>>
      BY <2>4 DEF SupplyEnd, AtEnd
    <3>2. Popped' = read
      BY <1>1, <2>1, <3>1 DEF Popped
    <3>3. Window!RangeBetween(call.base, call.from, call.to)' = Window!NoRange
      BY <1>1, <1>2, <2>2, <3>1 DEF Window!RangeBetween
    <3>4. read' = Window!Supplied(call.had, call.base, call.from, call.to)'
      BY <1>1, <1>2, <2>2, <3>1
      DEF Window!Supplied, Window!Greater, Window!Lesser
    <3>5. Smaller(1, read' - read) = 0
      BY <1>1, <3>1 DEF Smaller
    <3>6. Spanned(reply') = Window!NoRange
      BY <2>4 DEF Spanned
    <3> QED
      BY <1>1, <1>2, <2>2, <3>1, <3>2, <3>3, <3>4, <3>5, <3>6
      DEF AnswersAsWindow
  <2> QED
    BY <1>4, <2>3, <2>4 DEF PopSupplied
<1> QED
  BY <1>3, <1>4

-----------------------------------------------------------------------------
(* Every poll, range and pop answers with the locations of the characters  *)
(* it is asked for, cut by the end of the text, pops as many as it should  *)
(* and has asked the console for no more than it needs, for every text and *)
(* every series of calls.                                                  *)
THEOREM AnswersAreRight == Spec => []AnswersAsWindow
<1>1. Init => AnswerInv
  BY InitAnswers
<1>2. AnswerInv /\ [Next]_supplierVars => AnswerInv'
  <2> SUFFICES ASSUME AnswerInv, [Next]_supplierVars
               PROVE  AnswerInv'
    OBVIOUS
  <2>1. Inv' /\ StoreIsText' /\ Asking'
    BY InvStep, StoreIsTextStep, AskingStep DEF AnswerInv, Inv
  <2>2. AnswersAsWindow'
    <3>1. CASE PollNothing \/ PollEnd \/ PollDone \/ PopStored \/ PopSupplied
      BY <3>1, NothingAnswers, EndAnswers, DoneAnswers, PopAnswers
    <3>2. CASE Request \/ PollSupply \/ PollOn
      <4>1. busy'
        BY <3>2 DEF Request, PollSupply, PollOn
      <4> QED
        BY <4>1 DEF AnswersAsWindow
    <3>3. CASE Clear
      <4>1. call'.op = "clear"
        BY <3>3 DEF Clear
      <4> QED
        BY <4>1 DEF AnswersAsWindow
    <3>4. CASE UNCHANGED supplierVars
      BY <3>4 DEF AnswerInv, AnswersAsWindow, supplierVars, Popped,
                  Window!RangeBetween, Window!Supplied
    <3> QED
      BY <3>1, <3>2, <3>3, <3>4 DEF Next, Poll
  <2> QED
    BY <2>1, <2>2 DEF AnswerInv
<1>3. AnswerInv => AnswersAsWindow
  BY DEF AnswerInv
<1> QED
  BY <1>1, <1>2, <1>3, PTL DEF Spec

=============================================================================
