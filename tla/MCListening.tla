---------------------------- MODULE MCListening -----------------------------
(* Two frames of speech start an utterance, two of silence end it; the     *)
(* session times out after seven frames.                                   *)
EXTENDS Listening
=============================================================================
