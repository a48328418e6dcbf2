---------------------------- MODULE MCTurnStream ----------------------------
(* Answers with a tag and a tail, with the beginning of a tag, and with a  *)
(* point inside a number.  Everything may fail.                            *)
EXTENDS TurnStream

MCAnswers == { <<"[", "mood", "]", "w", ".", "w">>, <<"[", "mood", ".">>,
               <<"w", ".", "g">> }
MCFaults == {"supertonic", "gather", "text"} \X {"brain", "synth", "device"}
=============================================================================
