----------------------------- MODULE CharSource -----------------------------
(***************************************************************************)
(* What a Supplier<int> (Supplier.h) promises to the token supplier: the   *)
(* characters of one text, in order, then the end of input for as long as  *)
(* it is not cleared; after a clear, those of another text.                *)
(***************************************************************************)
EXTENDS Integers, Sequences

CONSTANT Texts                 \* the texts the console may be given

ASSUME TextsAssumption == \A t \in Texts : t \in Seq(Nat)

VARIABLES
  text,                        \* every character up to the end of input
  read                         \* how many of them have been supplied

sourceVars == <<text, read>>

AtEnd    == read = Len(text)                \* supply() would answer EOF
NextChar == text[read + 1]

SourceInit == /\ text \in Texts
              /\ read = 0

Take == /\ ~AtEnd
        /\ read' = read + 1
        /\ UNCHANGED text

Restart == /\ text' \in Texts
           /\ read' = 0

SourceNext == Take \/ Restart

SourceSpec == SourceInit /\ [][SourceNext]_sourceVars

SourceTypeOK == /\ text \in Texts
                /\ read \in 0 .. Len(text)

=============================================================================
