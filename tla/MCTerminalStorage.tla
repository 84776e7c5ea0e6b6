------------------------- MODULE MCTerminalStorage -------------------------
(***************************************************************************)
(* Two tabs on one terminal, and one command.                              *)
(***************************************************************************)
EXTENDS TerminalStorage

CONSTANTS t1, t2, c1

MCTabs == {t1, t2}
MCCommands == {c1}
=============================================================================
