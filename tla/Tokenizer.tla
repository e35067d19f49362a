------------------------------ MODULE Tokenizer ------------------------------
(***************************************************************************)
(* What the program promises to whoever types at its prompt: a text is cut *)
(* into tokens from its front, each the longest one any symbol matches,    *)
(* until none does; the rest is dropped and another text is awaited.       *)
(***************************************************************************)
EXTENDS Integers, Sequences

CONSTANTS Texts, Libraries,
          Longest(_, _, _),    \* the token of a library's, in a text, at a
                               \* position; NoToken if there is none
          NoToken

VARIABLES text, lib,
          tokens               \* of the text so far

tokenVars == <<text, lib, tokens>>

Position == IF tokens = <<>> THEN 0 ELSE tokens[Len(tokens)].to

LongestHere == Longest(lib, text, Position)

TokenInit == /\ text \in Texts
             /\ lib \in Libraries
             /\ tokens = <<>>

Cut == /\ LongestHere # NoToken
       /\ tokens' = Append(tokens, LongestHere)
       /\ UNCHANGED <<text, lib>>

Drop == /\ LongestHere = NoToken
        /\ tokens' = <<>>
        /\ text' \in Texts
        /\ UNCHANGED lib

(* (A stuttering step is told first: to know the longest token takes long.) *)
TokenNext == tokenVars' # tokenVars /\ (Cut \/ Drop)

TokenSpec == TokenInit /\ [][TokenNext]_tokenVars

=============================================================================
