------------------------------- MODULE Session -------------------------------
(***************************************************************************)
(* The main loop (FlockCompilerCpp.cpp): begin is called again and again,  *)
(* with its history cleared and over the same token supplier, so that a    *)
(* round goes on where the match before it has ended.  The first round     *)
(* that matches nothing ends the text: both suppliers are cleared and the  *)
(* console is given another one.                                           *)
(***************************************************************************)
EXTENDS SourceEvaluation

VARIABLE printed               \* what was FOUND in this text

sessionVars == <<vars, printed>>

(* The node of a match sits on those that were found within it.            *)
Printed == [symbol |-> out.nodes[1].type,
            from   |-> popped - out.idx,
            to     |-> popped,
            nodes  |-> Tail(out.nodes)]

-----------------------------------------------------------------------------
(* begin is called, with what is left of the history.                      *)
CallBegin(remembered) ==
  /\ history' = remembered
  /\ stack' = <<>>
  /\ pc' = "symbols"
  /\ rule' = NoRule
  /\ at' = 0
  /\ out' = FAILURE
  /\ tried' = 0
  /\ best' = FAILURE
  /\ winner' = NoName

(* Mutant: the history of the round before is kept.                        *)
Mutant_NextRound == /\ pc = "found"
                    /\ printed' = Append(printed, Printed)
                    /\ CallBegin(history)
                    /\ UNCHANGED <<text, popped, fetched, lib>>

(* A match has been found: it is printed and the next round begins.        *)
NextRound == /\ pc = "found"
             /\ printed' = Append(printed, Printed)
             /\ CallBegin(<<>>)
             /\ UNCHANGED <<text, popped, fetched, lib>>

(* Mutant: the token supplier is not cleared.                              *)
Mutant_NewText == /\ pc = "failed"
                  /\ printed' = <<>>
                  /\ text' \in Texts
                  /\ CallBegin(<<>>)
                  /\ UNCHANGED <<lib, popped, fetched>>

(* DONE: consoleSupplier->clear(), locationSupplier->clear().              *)
NewText == /\ pc = "failed"
           /\ printed' = <<>>
           /\ Restart
           /\ CallBegin(<<>>)
           /\ UNCHANGED lib

-----------------------------------------------------------------------------
SessionInit == Init /\ printed = <<>>

SessionNext == \/ Step /\ UNCHANGED printed
               \/ NextRound
               \/ NewText

SessionSpec     == SessionInit /\ [][SessionNext]_sessionVars
FairSessionSpec == SessionSpec /\ WF_sessionVars(SessionNext)

-----------------------------------------------------------------------------
(* Properties.                                                             *)

Token == [symbol : Names, from : Nat, to : Nat, nodes : Seq(Node)]

(* Where the last token that was printed ends.                             *)
Ending == IF printed = <<>> THEN 0 ELSE printed[Len(printed)].to

(* The types of a single call of begin hold in every round, and the tokens *)
(* are a partition of the text up to what the rounds have popped: nothing  *)
(* is lost between two rounds, and nothing is found twice.                 *)
SessionTypeOK ==
  /\ TypeOK
  /\ printed \in Seq(Token)
  /\ \A n \in 1 .. Len(printed) :
       printed[n].from = IF n = 1 THEN 0 ELSE printed[n - 1].to
  /\ popped = Ending + (IF pc = "found" THEN out.idx ELSE 0)

(* The prompt comes back: every text is used up or given up, if no symbol  *)
(* matches the empty text.                                                 *)
PromptReturns == []<>(pc = "failed")

=============================================================================
