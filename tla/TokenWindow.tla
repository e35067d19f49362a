---------------------------- MODULE TokenWindow ----------------------------
(***************************************************************************)
(* What the token supplier (CachedSupplier.h, LocationSupplier.h) promises *)
(* to the evaluator, with the buffering abstracted away.  The characters   *)
(* of a session are one fixed text, closed by a sticky end of input.       *)
(*                                                                         *)
(*        1            popped            fetched           Len(text)       *)
(*        |--------------|------------------|------------------|           *)
(*           forgotten          store          not yet read                *)
(*                                                                         *)
(* The deque holds text[popped+1 .. fetched]; index i of the code is the   *)
(* i-th character of that window, counted from 0, and its absolute         *)
(* position is popped + i.  LocationSupplier.tla is shown to implement     *)
(* this window.                                                            *)
(***************************************************************************)
EXTENDS Integers, Sequences

CONSTANT Texts                 \* the texts a session may be given

ASSUME TextsAssumption == \A t \in Texts : t \in Seq(Nat)

VARIABLES
  text,                        \* every character up to the end of input
  popped,                      \* characters erased from the front (popRange)
  fetched                      \* characters supplied so far

windowVars == <<text, popped, fetched>>

Lesser(a, b)  == IF a <= b THEN a ELSE b
Greater(a, b) == IF a <= b THEN b ELSE a

-----------------------------------------------------------------------------
(* Queries.                                                                *)

Present(i) == i >= 0 /\ popped + i < Len(text)     \* poll(i) # nullptr

(* Mutant: the supplier does not stop at the end of input.                 *)
Mutant_Supplied(f, base, from, to) ==
  IF from < 0 THEN f ELSE Greater(f, base + Greater(to, from + 1))

(* Characters supplied once pollRangeBetween(from, to) has returned, for a *)
(* store that starts at base and had f supplied: the character at from is  *)
(* polled whatever `to' is, an index below 0 polls nothing.                *)
Supplied(f, base, from, to) ==
  IF from < 0 THEN f
              ELSE Greater(f, Lesser(base + Greater(to, from + 1), Len(text)))

ReachBetween(from, to) == Supplied(fetched, popped, from, to)
Reach(i) == ReachBetween(i, i + 1)                 \* ... once poll(i) has

(* The absolute position of index i.  There is none at the end of input,   *)
(* and the code answers -1 then; it answers -1 for index -1 as well.       *)
KeyOf(i) == IF Present(i) THEN popped + i ELSE -1

(* pollRangeBetween(from, to): a range starts with the character at from   *)
(* whatever `to' is, and is cut short by the end of input.                 *)
NoRange == [first |-> -1, last |-> -1]

RangeBetween(base, from, to) ==
  IF from >= 0 /\ base + from < Len(text)
  THEN [first |-> base + from,
        last  |-> Greater(base + from, Lesser(base + to, Len(text)) - 1)]
  ELSE NoRange

-----------------------------------------------------------------------------
WindowInit == /\ text \in Texts
              /\ popped = 0
              /\ fetched = 0

(* The reader moves on: more may be fetched, some of it may be released.   *)
Advance == /\ text' = text
           /\ fetched' \in fetched .. Len(text)
           /\ popped' \in popped .. fetched'

(* Both suppliers are cleared and the console starts on another text.      *)
Restart == /\ text' \in Texts
           /\ popped' = 0
           /\ fetched' = 0

WindowNext == Advance \/ Restart

WindowSpec == WindowInit /\ [][WindowNext]_windowVars

WindowTypeOK == /\ text \in Texts
                /\ fetched \in 0 .. Len(text)
                /\ popped \in 0 .. fetched

=============================================================================
