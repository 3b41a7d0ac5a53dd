------------------------------- MODULE MCTui --------------------------------
(***************************************************************************)
(* An instance of TuiManager for TLC.                                      *)
(***************************************************************************)
EXTENDS TuiManager

CONSTANTS proxy, upf1, upf2

TwoUpfs == <<upf1, upf2>>

\* States after a renaming, of which only TypeOK says something, are checked and
\* not gone on from.
UpToRenaming == ~ renamed

=============================================================================
