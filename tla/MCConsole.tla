------------------------------ MODULE MCConsole ------------------------------
(***************************************************************************)
(* Every standard input of up to MaxLines lines of up to two characters.   *)
(***************************************************************************)
EXTENDS ConsoleCharSupplier

CONSTANT MaxLines                \* bound on the lines of the standard input

MCLines  == {<<>>, <<97>>, <<97, 98>>}
MCInputs == UNION {[1 .. n -> MCLines] : n \in 0 .. MaxLines}

=============================================================================
