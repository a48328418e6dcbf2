-------------------------------- MODULE Turn --------------------------------
(***************************************************************************)
(* What a turn of conversation promises to the person who listens, with    *)
(* nothing about tokens, tasks, queues or devices: turns come one after    *)
(* the other; navi is heard only while her turn is open; she says its      *)
(* words in their order and none twice; cut off, she is silent at once and *)
(* for the rest of the turn, but for one sentence if it was on its way to  *)
(* the sound device; what she keeps of a turn is that turn; and every turn *)
(* ends.                                                                   *)
(***************************************************************************)
EXTENDS Naturals

VARIABLES number,    \* the turn under way, or the last one
          state,     \* closed, open, cut off, or last: cut off with a
                     \* sentence on its way
          said,      \* how far into the turn's words she has come
          sounding,  \* something is heard
          kept,      \* the turn whose words were kept last, 0 for none
          void       \* the promise no longer holds

turnVars == <<number, state, said, sounding, kept, void>>

TurnInit ==
    /\ number = 0 /\ state = "closed" /\ said = 0
    /\ ~sounding /\ kept = 0 /\ ~void

Begin ==
    /\ state = "closed"
    /\ number' = number + 1 /\ state' = "open" /\ said' = 0
    /\ UNCHANGED <<sounding, kept>>
Say ==
    /\ state = "open" /\ ~sounding
    /\ said' \in Nat /\ said' > said
    /\ sounding'
    /\ UNCHANGED <<number, state, kept>>
Pause ==
    /\ sounding /\ ~sounding'
    /\ UNCHANGED <<number, state, said, kept>>
Cut ==
    /\ state = "open"
    /\ state' \in {"cut", "last"} /\ ~sounding'
    /\ UNCHANGED <<number, said, kept>>
\* The sentence on its way comes after all, or does not.
Finish ==
    /\ state = "last" /\ state' = "cut"
    /\ \/ sounding' /\ said' \in Nat /\ said' > said
       \/ UNCHANGED <<sounding, said>>
    /\ UNCHANGED <<number, kept>>
End ==
    /\ state # "closed" /\ ~sounding
    /\ state' = "closed"
    /\ kept' \in {kept, number}
    /\ UNCHANGED <<number, said, sounding>>

TurnNext == void' \/ Begin \/ Say \/ Pause \/ Cut \/ Finish \/ End
TurnSafe == TurnInit /\ [][TurnNext]_turnVars
\* Every turn ends, whatever becomes of it.
TurnSpec == TurnSafe /\ (state # "closed" ~> state = "closed")
=============================================================================
