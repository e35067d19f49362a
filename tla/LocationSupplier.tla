-------------------------- MODULE LocationSupplier --------------------------
(***************************************************************************)
(* The token supplier in detail (CachedSupplier.h, LocationSupplier.h,     *)
(* Source.h): characters are asked for one by one, become locations and    *)
(* wait in a deque until they are popped.                                  *)
(*                                                                         *)
(* A call is one action, each character it has to ask for another, since   *)
(* this is where the program waits for the console.  While `busy', index   *)
(* `call.next' is being polled.                                            *)
(***************************************************************************)
EXTENDS CharSource, FiniteSets

CONSTANTS NoLocation,          \* nullptr
          Calls                \* <<operation, from, to>>, see CallsAssumption

Location == [line : Nat, column : Nat, position : Nat, character : Nat]

ASSUME NoLocationAssumption == NoLocation \notin Location

(* poll(i) is asked for from = i and to = i + 1; pollRange(n, i) is        *)
(* pollRangeBetween(i, i + n); popRange(n) polls from 0 to n.              *)
ASSUME CallsAssumption ==
  \A c \in Calls : \/ c[1] = "poll" /\ c[2] \in Int /\ c[3] = c[2] + 1
                   \/ c[1] = "range" /\ c[2] \in Int /\ c[3] \in Int
                   \/ c[1] = "popRange" /\ c[2] = 0 /\ c[3] \in Nat

VARIABLES
  store,                       \* the deque
  previous,                    \* the location supplied last
  busy, call,                  \* a call is under way; it, or the last one
  reply                        \* the locations it has answered with

supplierVars == <<text, read, store, previous, busy, call, reply>>

-----------------------------------------------------------------------------
NewLine == 10
Return  == 13

isNewLine(character) == character \in {NewLine, Return}

(* Mutant: the column is counted through the end of the line.              *)
Mutant_next(last, character) ==
  IF last = NoLocation
  THEN [line |-> 1, column |-> 1, position |-> 0, character |-> character]
  ELSE [line |-> last.line + (IF isNewLine(last.character) THEN 1 ELSE 0),
        column |-> last.column + 1,
        position |-> last.position + 1, character |-> character]

(* Location::next.                                                         *)
next(last, character) ==
  IF last = NoLocation
  THEN [line |-> 1, column |-> 1, position |-> 0, character |-> character]
  ELSE IF isNewLine(last.character)
  THEN [line |-> last.line + 1, column |-> 1,
        position |-> last.position + 1, character |-> character]
  ELSE [line |-> last.line, column |-> last.column + 1,
        position |-> last.position + 1, character |-> character]

Smaller(a, b) == IF a <= b THEN a ELSE b

(* How many characters have left the front of the deque, had none been     *)
(* lost; StoreIsText says that none is.                                    *)
Popped == read - Len(store)

-----------------------------------------------------------------------------
(* supply(): one more character, or the end of input, which also forgets   *)
(* where it was.                                                           *)
Supply == /\ Take
          /\ previous' = next(previous, NextChar)

SupplyEnd == /\ AtEnd
             /\ previous' = NoLocation
             /\ UNCHANGED <<text, read>>

(* Mutant: one character too many leaves the store.                        *)
Mutant_Erased(c) == IF c.op = "popRange" /\ c.to > 0
                    THEN SubSeq(store, Smaller(c.to + 1, Len(store)) + 1,
                                Len(store))
                    ELSE store

(* What a call leaves in the store once it has polled what it needs.       *)
Erased(c) == IF c.op = "popRange" /\ c.to > 0
             THEN SubSeq(store, Smaller(c.to, Len(store)) + 1, Len(store))
             ELSE store

(* Mutant: the range ends before the last character that was polled.       *)
Mutant_Answer(upto) ==
  /\ reply' = SubSeq(store, call.from + 1, upto - 1)
  /\ store' = Erased(call)
  /\ busy' = FALSE
  /\ UNCHANGED call

(* The call answers with the locations before index upto.                  *)
Answer(upto) ==
  /\ reply' = SubSeq(store, call.from + 1, upto)
  /\ store' = Erased(call)
  /\ busy' = FALSE
  /\ UNCHANGED call

-----------------------------------------------------------------------------
(* poll, pollRange, pollRangeBetween and popRange are called.  (`base' and *)
(* `had' only remember what was popped and read by then.)                  *)
Request ==
  /\ ~busy
  /\ \E c \in Calls :
       call' = [op |-> c[1], from |-> c[2], to |-> c[3], next |-> c[2],
                base |-> Popped, had |-> read]
  /\ busy' = TRUE
  /\ UNCHANGED <<text, read, store, previous, reply>>

(* poll: an index below 0 has no location.                                 *)
PollNothing ==
  /\ busy
  /\ call.next < 0
  /\ Answer(call.from)
  /\ UNCHANGED <<text, read, previous>>

(* poll: an index behind the store needs another character.                *)
PollSupply ==
  /\ busy
  /\ call.next >= Len(store)
  /\ Supply
  /\ store' = Append(store, previous')
  /\ UNCHANGED <<busy, call, reply>>

(* Mutant: the end of input is stored like a character.                    *)
Mutant_PollEnd ==
  /\ busy
  /\ call.next >= Len(store)
  /\ SupplyEnd
  /\ store' = Append(store, previous')
  /\ UNCHANGED <<busy, call, reply>>

(* poll: there is none, and the call ends where it has got to.             *)
PollEnd ==
  /\ busy
  /\ call.next >= Len(store)
  /\ SupplyEnd
  /\ Answer(call.next)

(* Mutant: the range polls the same index again.                           *)
Mutant_PollOn ==
  /\ busy
  /\ call.next \in 0 .. Len(store) - 1
  /\ call.next + 1 < call.to
  /\ UNCHANGED supplierVars

(* poll has found its location: the range goes on, or is complete.         *)
PollOn ==
  /\ busy
  /\ call.next \in 0 .. Len(store) - 1
  /\ call.next + 1 < call.to
  /\ call' = [call EXCEPT !.next = @ + 1]
  /\ UNCHANGED <<text, read, store, previous, busy, reply>>

PollDone ==
  /\ busy
  /\ call.next \in 0 .. Len(store) - 1
  /\ call.next + 1 >= call.to
  /\ Answer(call.next + 1)
  /\ UNCHANGED <<text, read, previous>>

(* pop takes the front of the store, or a character past it.               *)
PopStored ==
  /\ ~busy
  /\ store # <<>>
  /\ reply' = <<Head(store)>>
  /\ store' = Tail(store)
  /\ call' = [op |-> "pop", from |-> 0, to |-> 1, next |-> 0,
              base |-> Popped, had |-> read]
  /\ UNCHANGED <<text, read, previous, busy>>

PopSupplied ==
  /\ ~busy
  /\ store = <<>>
  /\ \/ Supply /\ reply' = <<previous'>>
     \/ SupplyEnd /\ reply' = <<>>
  /\ call' = [op |-> "pop", from |-> 0, to |-> 1, next |-> 0,
              base |-> Popped, had |-> read]
  /\ UNCHANGED <<store, busy>>

(* Mutant: what has been polled ahead outlives the clear.                  *)
Mutant_Clear ==
  /\ ~busy
  /\ Restart
  /\ previous' = NoLocation
  /\ call' = [op |-> "clear", from |-> 0, to |-> 0, next |-> 0,
              base |-> 0, had |-> 0]
  /\ reply' = <<>>
  /\ UNCHANGED <<busy, store>>

(* MainLoop clears the console and then this supplier.                     *)
Clear ==
  /\ ~busy
  /\ Restart
  /\ store' = <<>>
  /\ previous' = NoLocation
  /\ call' = [op |-> "clear", from |-> 0, to |-> 0, next |-> 0,
              base |-> 0, had |-> 0]
  /\ reply' = <<>>
  /\ UNCHANGED busy

-----------------------------------------------------------------------------
Init == /\ SourceInit
        /\ store = <<>>
        /\ previous = NoLocation
        /\ busy = FALSE
        /\ call = [op |-> "clear", from |-> 0, to |-> 0, next |-> 0,
                   base |-> 0, had |-> 0]
        /\ reply = <<>>

Poll == PollNothing \/ PollSupply \/ PollEnd \/ PollOn \/ PollDone

Next == Request \/ Poll \/ PopStored \/ PopSupplied \/ Clear

Spec     == Init /\ [][Next]_supplierVars
FairSpec == Spec /\ WF_supplierVars(Poll)

-----------------------------------------------------------------------------
(* Properties.                                                             *)

Call == [op : {"poll", "range", "popRange", "pop", "clear"},
         from : Int, to : Int, next : Int, base : Nat, had : Nat]

TypeOK == /\ SourceTypeOK
          /\ store \in Seq(Location)
          /\ Len(store) <= read
          /\ previous \in Location \cup {NoLocation}
          /\ busy \in BOOLEAN
          /\ call \in Call
          /\ reply \in Seq(Location)

(* l is where the character at position p of t is: its line is one more    *)
(* than the ends of line before it, its column is counted from the last of *)
(* these.                                                                  *)
NewLines(t, p) == {q \in 1 .. p : isNewLine(t[q])}

IsLocation(t, l, p) ==
  /\ l.position = p
  /\ l.character = t[p + 1]
  /\ l.line = 1 + Cardinality(NewLines(t, p))
  /\ \E s \in NewLines(t, p) \cup {0} : /\ \A q \in NewLines(t, p) : q <= s
                                        /\ l.column = p + 1 - s

(* The deque holds the characters behind those that have been popped, all  *)
(* of them and in order, and each knows where in the text it is; so does   *)
(* the location the next one is counted from.                              *)
StoreIsText ==
  /\ \A n \in 1 .. Len(store) : IsLocation(text, store[n], Popped + n - 1)
  /\ IF previous = NoLocation
     THEN read = 0 \/ AtEnd
     ELSE read > 0 /\ IsLocation(text, previous, read - 1)

(* Every call answers, pops and asks the console for what the abstract     *)
(* window says: this is the contract the evaluator is modelled against.    *)
Window == INSTANCE TokenWindow WITH popped <- Popped, fetched <- read

Spanned(locations) ==
  IF locations = <<>> THEN Window!NoRange
  ELSE [first |-> locations[1].position,
        last  |-> locations[Len(locations)].position]

AnswersAsWindow ==
  ~busy /\ call.op # "clear" =>
    /\ Spanned(reply) = Window!RangeBetween(call.base, call.from, call.to)
    /\ read = Window!Supplied(call.had, call.base, call.from, call.to)
    /\ Popped = IF call.op \in {"pop", "popRange"}
                THEN call.base + Smaller(call.to, read - call.base)
                ELSE call.base

(* The window over the text implements the abstract one.                   *)
ImplementsWindow == Window!WindowSpec

(* Every call returns, as long as the console supplies characters.         *)
CallsReturn == busy ~> ~busy

=============================================================================
