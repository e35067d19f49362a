--------------------------- MODULE MCRuleLibrary ---------------------------
(***************************************************************************)
(* One base that can be declared with marks, and the names derived of it.  *)
(***************************************************************************)
EXTENDS RuleLibrary

MCRuleIds   == 1 .. MaxRules
MCBases     == {"a"}
MCNames     == {"a", "a*", "a+", "a?", "a-"}
MCTerms     == {EQCHAR(<<97>>)}
MCLibraries == {}

=============================================================================
