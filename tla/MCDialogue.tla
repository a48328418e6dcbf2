----------------------------- MODULE MCDialogue -----------------------------
(* Two rows are recalled: the window cuts turns in the middle.             *)
EXTENDS Dialogue
=============================================================================
