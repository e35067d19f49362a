------------------------- MODULE MCLocationSupplier -------------------------
(***************************************************************************)
(* Texts of up to MaxLength characters with both ends of line, and every   *)
(* range that starts before, in or behind them.                            *)
(***************************************************************************)
EXTENDS LocationSupplier

CONSTANT MaxLength               \* bound on the length of a text

MCTexts == UNION {[1 .. n -> {97, NewLine, Return}] : n \in 0 .. MaxLength}

MCCalls == {<<"poll", i, i + 1>> : i \in -1 .. MaxLength}
             \cup {<<"range", i, j>> : i, j \in -1 .. MaxLength + 1}
             \cup {<<"popRange", 0, n>> : n \in 0 .. MaxLength + 1}

=============================================================================
