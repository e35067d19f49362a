------------------------ MODULE ConsoleCharSupplier ------------------------
(***************************************************************************)
(* The characters of the console (ConsoleCharSupplier.h): lines are taken  *)
(* from the standard input and supplied character by character, each with  *)
(* a newline behind it, up to an empty line.  That is the end of input     *)
(* until the supplier is cleared.                                          *)
(*                                                                         *)
(* The standard input is external: some lines, the last of which may be    *)
(* torn, that is, lack its newline.                                        *)
(***************************************************************************)
EXTENDS Integers, SequencesExt, FiniteSetsExt

CONSTANTS Inputs,              \* what the standard input may hold
          MaxGiven             \* bound on the characters between two clears

ASSUME InputsAssumption == /\ \A i \in Inputs : i \in Seq(Seq(Nat))
                           /\ MaxGiven \in Nat

VARIABLES
  stdin, torn,                 \* the lines getline has not reached; see above
  good,                        \* it has not met the end of the stream
  line, pos, size,
  inputComplete,               \* supply() answers EOF from now on
  given                        \* what was supplied since the last clear

consoleVars == <<stdin, torn, good, line, pos, size, inputComplete, given>>

NewLine == 10
end     == <<>>                \* the line that ends the input

-----------------------------------------------------------------------------
(* getline: a stream that has ended before leaves its argument alone, one  *)
(* that ends now empties it.                                               *)
Getline == CASE ~good                   -> line
             [] good /\ stdin = <<>>    -> <<>>
             [] good /\ stdin # <<>>    -> Head(stdin)

StillGood == good /\ (Len(stdin) > 1 \/ (Len(stdin) = 1 /\ ~torn))

(* Mutant: the line is left before its newline has been supplied.          *)
Mutant_NeedsLine == pos >= size

NeedsLine == pos > size

NextLine ==
  IF NeedsLine
  THEN /\ line' = Getline
       /\ size' = Len(line')
       /\ good' = StillGood
       /\ stdin' = IF good /\ stdin # <<>> THEN Tail(stdin) ELSE stdin
  ELSE UNCHANGED <<line, size, good, stdin>>

(* Mutant: a new line is read from where the last one was left.            *)
Mutant_From == pos

(* The position in the line that NextLine leaves.                          *)
From == IF NeedsLine THEN 0 ELSE pos

(* Mutant: the position stays at the newline behind the line.              *)
Mutant_Supply ==
  /\ ~inputComplete
  /\ Len(given) < MaxGiven
  /\ NextLine
  /\ IF line' = end
     THEN /\ inputComplete' = TRUE
          /\ pos' = From
          /\ UNCHANGED given
     ELSE /\ given' = Append(given, IF From < size' THEN line'[From + 1]
                                                    ELSE NewLine)
          /\ pos' = IF From < size' THEN From + 1 ELSE From
          /\ UNCHANGED inputComplete
  /\ UNCHANGED torn

(* supply() before the end of input.                                       *)
Supply ==
  /\ ~inputComplete
  /\ Len(given) < MaxGiven
  /\ NextLine
  /\ IF line' = end
     THEN /\ inputComplete' = TRUE
          /\ pos' = From
          /\ UNCHANGED given
     ELSE /\ given' = Append(given, IF From < size' THEN line'[From + 1]
                                                    ELSE NewLine)
          /\ pos' = From + 1
          /\ UNCHANGED inputComplete
  /\ UNCHANGED torn

(* The end of input stays the end of input.                                *)
SupplyEOF == /\ inputComplete
             /\ UNCHANGED consoleVars

(* Mutant: the size of the line that is forgotten is kept.                 *)
Mutant_clear == /\ inputComplete' = FALSE
                /\ line' = <<>>
                /\ pos' = 0
                /\ given' = <<>>
                /\ UNCHANGED <<stdin, torn, good, size>>

clear == /\ inputComplete' = FALSE
         /\ line' = <<>>
         /\ pos' = 0
         /\ size' = -1
         /\ given' = <<>>
         /\ UNCHANGED <<stdin, torn, good>>

-----------------------------------------------------------------------------
Init == /\ stdin \in Inputs
        /\ torn \in BOOLEAN
        /\ torn => stdin # <<>> /\ Last(stdin) # <<>>
        /\ good = TRUE
        /\ line = <<>>
        /\ pos = 0
        /\ size = -1
        /\ inputComplete = FALSE
        /\ given = <<>>

Next == Supply \/ SupplyEOF \/ clear

Spec     == Init /\ [][Next]_consoleVars
FairSpec == Spec /\ WF_consoleVars(Supply)

-----------------------------------------------------------------------------
(* Properties.                                                             *)

(* A position is one of the line, or one behind it; so line.at(pos) never  *)
(* throws.                                                                 *)
TypeOK == /\ stdin \in Seq(Seq(Nat))
          /\ {torn, good, inputComplete} \subseteq BOOLEAN
          /\ line \in Seq(Nat) /\ given \in Seq(Nat)
          /\ size = -1 => line = end
          /\ size \in {-1, Len(line)}
          /\ pos \in 0 .. size + 1

(* What lines supply up to the end of input.                               *)
BlockOf(lines) ==
  LET ends == {n \in DOMAIN lines : lines[n] = end}
      upto == IF ends = {} THEN Len(lines) ELSE Min(ends) - 1
  IN  FlattenSeq([n \in 1 .. upto |-> Append(lines[n], NewLine)])

(* What will be supplied if nothing is cleared.                            *)
Coming == IF inputComplete \/ (line = end /\ ~NeedsLine) THEN <<>>
          ELSE IF NeedsLine THEN BlockOf(stdin)
          ELSE SubSeq(line, pos + 1, size) \o <<NewLine>> \o BlockOf(stdin)

(* The stream ended in a torn line that is still being supplied: getline   *)
(* will leave it in `line', and it will be supplied again and again.       *)
Stuck == ~good /\ line # end

(* The console is a source of characters: those of its lines up to an      *)
(* empty one, then the end of input, which only a clear ends; but for a    *)
(* torn line.                                                              *)
Source == INSTANCE CharSource WITH text <- given \o Coming,
                                   read <- Len(given),
                                   Texts <- Seq(Nat)

ImplementsSource ==
  /\ Source!SourceInit
  /\ [][~Stuck => Source!SourceNext]_Source!sourceVars

(* A clear drops the rest of the line the console is at, and the next text *)
(* starts with the line behind it: no other line is lost, and none is      *)
(* supplied twice.                                                         *)
ClearDropsLine ==
  [][given # <<>> /\ given' = <<>> =>
       Coming' = (IF good THEN BlockOf(stdin) ELSE <<>>)]_consoleVars

(* Whoever goes on asking meets the end of input, unless he clears, or the *)
(* last line is torn.                                                      *)
InputEnds == (given # <<>> /\ ~inputComplete /\ ~Stuck) ~>
               (inputComplete \/ Stuck \/ given = <<>>)

=============================================================================
