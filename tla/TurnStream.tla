----------------------------- MODULE TurnStream -----------------------------
(***************************************************************************)
(* One turn as it really runs: the brain streams tokens, peel_mood holds   *)
(* back the first ones until it knows whether they are a mood tag, _tee    *)
(* shows the rest, a worker cuts them into sentences and synthesises them, *)
(* a loop plays them, and the adapter's last_result is what the turn       *)
(* leaves for memory.  The brain, the synthesis and the sound device may   *)
(* fail, and interrupt() may come at any time.                             *)
(*                                                                         *)
(* Text is a sequence of units: "[", "mood" (mood:key) and "]" make a tag, *)
(* "w" is a word with the space before it, "g" a letter or digit without   *)
(* one, "." an ender that needs a space or the end of the buffer after it. *)
(* White space around a tag and full-width enders are left out.            *)
(***************************************************************************)
EXTENDS SequencesExt, FiniteSetsExt, Integers

CONSTANTS Mouths,     \* engines explored: "supertonic", "gather", "text"
          Brains,     \* "partial": gemini, echo; "whole": anthropic
          Answers,    \* what the model may say
          MaxToken,   \* bound: units in a token
          ScanLimit,  \* _SCAN_LIMIT, in units
          MaxTurns,   \* bound: turns
          Faults      \* what may fail: <<engine, "brain" | "synth" | "device">>

Units == {"[", "mood", "]", "w", "g", "."}
Tag == <<"[", "mood", "]">>
Glued == {"g", ".", "mood", "]"}

\* The limit leaves room for a tag.
ASSUME StreamAssumption ==
    /\ Mouths \subseteq {"supertonic", "gather", "text"}
    /\ Brains \subseteq {"partial", "whole"}
    /\ MaxToken \in Nat \ {0} /\ MaxTurns \in Nat
    /\ ScanLimit \in Nat /\ ScanLimit >= Len(Tag)
    /\ \A a \in Answers : a \in Seq(Units) /\ a # <<>>

VARIABLES mouth, brain, \* of this session
          turn,       \* turns begun
          phase,      \* run_turn: idle, peel, ready (voice chosen), speak
          stream,     \* per turn, generate_stream: what is left, what came,
                      \* and the tokens peel_mood took and gives back
          shown,      \* per turn, what _tee passed on, to screen and worker
          cut,        \* per turn, how much of it is cut into sentences
          queue,      \* per turn, audio_q
          worker,     \* per turn, the synthesis task
          player,     \* per turn, the play loop
          device,     \* the turn whose clip the sound device plays, or 0
          stopped, playing, \* the adapter's flags
          cancelled,  \* the brain's flag
          lastResult, \* the brain's
          heard,      \* per turn, the last clip that was started
          remembered, \* what run_turn returned last that was not None
          hurt,       \* per turn: it was cut off, or a sentence was given up
          abandoned   \* a task has outlived the turn it belongs to

sessionVars == <<mouth, brain>>
brainVars == <<stream, cancelled, lastResult>>
mouthVars == <<shown, cut, queue, worker, player, device, stopped, playing, heard>>
endVars == <<turn, remembered, hurt, abandoned>>
streamVars == <<sessionVars, brainVars, mouthVars, endVars, phase>>

Turns == 1..MaxTurns
NoResult == [of |-> 0, text |-> <<>>]
NoClip == [from |-> 0, to |-> 0]
Done == [from |-> 0, to |-> -1]
IdleStream == [state |-> "none", left |-> <<>>, parts |-> <<>>, back |-> <<>>]

StreamInit ==
    /\ mouth \in Mouths /\ brain \in Brains
    /\ turn = 0 /\ phase = "idle"
    /\ stream = [t \in Turns |-> IdleStream]
    /\ shown = [t \in Turns |-> <<>>] /\ cut = [t \in Turns |-> 0]
    /\ queue = [t \in Turns |-> <<>>]
    /\ worker = [t \in Turns |-> "off"] /\ player = [t \in Turns |-> "off"]
    /\ device = 0
    /\ stopped = FALSE /\ playing = FALSE /\ cancelled = FALSE
    /\ lastResult = NoResult /\ remembered = NoResult
    /\ heard = [t \in Turns |-> NoClip]
    /\ hurt = [t \in Turns |-> FALSE] /\ abandoned = FALSE

----------------------------------------------------------------------------
(* Text.                                                                   *)

IsTagged(text) == IsPrefix(Tag, text)
\* strip_mood_tag
Clean(text) == IF IsTagged(text) THEN SubSeq(text, 4, Len(text)) ELSE text
\* buf is still a prefix of "[mood:", or starts with it.
MayBeTag(text) == IsPrefix(SubSeq(text, 1, Min({2, Len(text)})), Tag)

\* SENTENCE_END: the units it takes from the front of the buffer, 0 if none.
Enders(text) ==
    { i \in DOMAIN text : /\ text[i] = "."
                          /\ i < Len(text) => text[i + 1] \notin Glued }
SentenceEnd(text) == IF Enders(text) = {} THEN 0 ELSE Min(Enders(text))

Buffer(t) == SubSeq(shown[t], cut[t] + 1, Len(shown[t]))

----------------------------------------------------------------------------
(* The brain: tokens of the turn's stream, one step for each.              *)

\* The next k units come; nothing else of the adapter changes.
Yields(t, k) ==
    /\ stream[t].state = "open" /\ ~cancelled
    /\ k \in 1..Min({MaxToken, Len(stream[t].left)})
Token(t, k) == SubSeq(stream[t].left, 1, k)
Advanced(t, k) ==
    [stream[t] EXCEPT !.left = SubSeq(@, k + 1, Len(@)), !.parts = @ \o Token(t, k)]

\* The stream is used up, or the cancel flag is seen: last_result is set.
Exhausts(t) ==
    /\ stream[t].state = "open"
    /\ cancelled \/ stream[t].left = <<>>
    /\ lastResult' = [of |-> t, text |-> IF brain = "whole"
                                         THEN stream[t].parts \o stream[t].left
                                         ELSE stream[t].parts]

MayFail(what) == <<mouth, what>> \in Faults

----------------------------------------------------------------------------
(* run_turn.                                                               *)

\* Up to the first await: generate_stream resets its result and its flag.
BeginTurn(answer) ==
    /\ phase = "idle" /\ turn < MaxTurns
    /\ turn' = turn + 1 /\ phase' = "peel"
    /\ stream' = [stream EXCEPT ![turn + 1] =
                    [IdleStream EXCEPT !.state = "open", !.left = answer]]
    /\ cancelled' = FALSE /\ lastResult' = NoResult
    /\ UNCHANGED <<sessionVars, mouthVars, remembered, hurt, abandoned>>

PeelsLosing(k) ==
    /\ phase = "peel" /\ Yields(turn, k)
    /\ LET head == FlattenSeq(stream[turn].back) \o Token(turn, k)
           rest == Clean(head)
           waits == ~IsTagged(head) /\ MayBeTag(head) /\ Len(head) < ScanLimit
       IN  /\ stream' = [stream EXCEPT ![turn] = [Advanced(turn, k) EXCEPT !.back =
                           IF waits THEN Append(@, Token(turn, k))
                           ELSE IF rest = <<>> \/ ~IsTagged(head) THEN <<>> ELSE <<rest>>]]
           /\ phase' = IF waits THEN "peel" ELSE "ready"
    /\ UNCHANGED <<sessionVars, mouthVars, endVars, cancelled, lastResult>>
Peels(k) ==
    /\ phase = "peel" /\ Yields(turn, k)
    /\ LET head == FlattenSeq(stream[turn].back) \o Token(turn, k)
           held == Append(stream[turn].back, Token(turn, k))
           rest == Clean(head)
       IN  /\ stream' = [stream EXCEPT ![turn] = [Advanced(turn, k) EXCEPT !.back =
                           IF ~IsTagged(head) THEN held
                           ELSE IF rest = <<>> THEN <<>> ELSE <<rest>>]]
           /\ phase' = IF ~IsTagged(head) /\ MayBeTag(head) /\ Len(head) < ScanLimit
                       THEN "peel" ELSE "ready"
    /\ UNCHANGED <<sessionVars, mouthVars, endVars, cancelled, lastResult>>
PeelsLast ==
    /\ phase = "peel" /\ Exhausts(turn)
    /\ stream' = [stream EXCEPT ![turn].state = "ended"]
    /\ phase' = "ready"
    /\ UNCHANGED <<sessionVars, mouthVars, endVars, cancelled>>
PeelFails ==
    /\ phase = "peel" /\ MayFail("brain")
    /\ stream' = [stream EXCEPT ![turn].state = "broken"]
    /\ phase' = "idle"
    /\ UNCHANGED <<sessionVars, mouthVars, endVars, cancelled, lastResult>>

\* speak_stream once the engine is there; without a mouth run_turn itself
\* drains the tokens.
SpeakStream ==
    /\ phase = "ready"
    /\ phase' = "speak"
    /\ worker' = [worker EXCEPT ![turn] = "pull"]
    /\ IF mouth = "text"
       THEN UNCHANGED <<player, stopped, playing>>
       ELSE /\ player' = [player EXCEPT ![turn] = "get"]
            /\ stopped' = FALSE /\ playing' = TRUE
    /\ UNCHANGED <<sessionVars, brainVars, endVars, shown, cut, queue, device, heard>>

----------------------------------------------------------------------------
(* The worker: _synth_worker, or the drain of a text session.              *)

Stops(t) == mouth # "text" /\ stopped
Puts(t, items) == queue' = [queue EXCEPT ![t] = @ \o items]

\* A token reaches the worker.
Takes(t, token, s) ==
    /\ stream' = [stream EXCEPT ![t] = s]
    /\ shown' = [shown EXCEPT ![t] = @ \o token]
    /\ IF Stops(t)
       THEN /\ worker' = [worker EXCEPT ![t] = "ended"] /\ Puts(t, <<Done>>)
       ELSE /\ worker' = [worker EXCEPT ![t] =
                 IF mouth # "text" /\ SentenceEnd(Buffer(t) \o token) > 0 THEN "synth" ELSE "pull"]
            /\ queue' = queue
WorkerTakesBack(t) ==
    /\ worker[t] = "pull" /\ stream[t].back # <<>>
    /\ Takes(t, Head(stream[t].back), [stream[t] EXCEPT !.back = Tail(@)])
    /\ UNCHANGED <<sessionVars, endVars, cancelled, lastResult, phase,
                   cut, player, device, stopped, playing, heard>>
WorkerTakes(t, k) ==
    /\ worker[t] = "pull" /\ stream[t].back = <<>> /\ Yields(t, k)
    /\ Takes(t, Token(t, k), Advanced(t, k))
    /\ UNCHANGED <<sessionVars, endVars, cancelled, lastResult, phase,
                   cut, player, device, stopped, playing, heard>>

\* No more tokens: the tail is synthesised too, then the end is marked.
DrainsNoTail(t) == worker' = [worker EXCEPT ![t] = "ended"] /\ Puts(t, <<Done>>)
Drains(t) ==
    IF mouth # "text" /\ Buffer(t) # <<>> /\ ~stopped
    THEN worker' = [worker EXCEPT ![t] = "tail"] /\ queue' = queue
    ELSE worker' = [worker EXCEPT ![t] = "ended"] /\ Puts(t, <<Done>>)
WorkerDrains(t) ==
    /\ worker[t] = "pull" /\ stream[t].back = <<>>
    /\ IF stream[t].state = "ended"
       THEN UNCHANGED <<stream, lastResult>>
       ELSE Exhausts(t) /\ stream' = [stream EXCEPT ![t].state = "ended"]
    /\ Drains(t)
    /\ UNCHANGED <<sessionVars, endVars, cancelled, phase,
                   shown, cut, player, device, stopped, playing, heard>>

\* The brain raises inside the worker: supertonic marks the end all the same.
WorkerFails(t) ==
    /\ worker[t] = "pull" /\ stream[t].back = <<>> /\ stream[t].state = "open"
    /\ MayFail("brain")
    /\ stream' = [stream EXCEPT ![t].state = "broken"]
    /\ worker' = [worker EXCEPT ![t] = "failed"]
    /\ IF mouth = "supertonic" THEN Puts(t, <<Done>>) ELSE queue' = queue
    /\ UNCHANGED <<sessionVars, endVars, cancelled, lastResult, phase,
                   shown, cut, player, device, stopped, playing, heard>>

\* The sentence the worker has in hand.
ClipEnd(t) ==
    IF worker[t] = "tail" THEN Len(shown[t]) ELSE cut[t] + SentenceEnd(Buffer(t))
Clip(t) == [from |-> cut[t] + 1, to |-> ClipEnd(t)]
AfterClip(t) ==
    LET rest == SubSeq(shown[t], ClipEnd(t) + 1, Len(shown[t]))
    IN  IF worker[t] = "tail" THEN "ended"
        ELSE IF ~stopped /\ SentenceEnd(rest) > 0 THEN "synth" ELSE "pull"
EndMark(t) == IF worker[t] = "tail" THEN <<Done>> ELSE <<>>

SynthDone(t) ==
    /\ worker[t] \in {"synth", "tail"}
    /\ cut' = [cut EXCEPT ![t] = ClipEnd(t)]
    /\ worker' = [worker EXCEPT ![t] = AfterClip(t)]
    /\ Puts(t, <<Clip(t)>> \o EndMark(t))
    /\ UNCHANGED <<sessionVars, brainVars, endVars, phase,
                   shown, player, device, stopped, playing, heard>>
\* The engine raises, or, gptsovits, gives silence three times: the sentence
\* is given up; with supertonic the worker ends.
SynthFails(t) ==
    /\ worker[t] \in {"synth", "tail"} /\ MayFail("synth")
    /\ cut' = [cut EXCEPT ![t] = ClipEnd(t)]
    /\ IF mouth = "supertonic"
       THEN worker' = [worker EXCEPT ![t] = "failed"] /\ Puts(t, <<Done>>)
       ELSE worker' = [worker EXCEPT ![t] = AfterClip(t)] /\ Puts(t, EndMark(t))
    /\ hurt' = [hurt EXCEPT ![t] = TRUE]
    /\ UNCHANGED <<sessionVars, brainVars, turn, remembered, abandoned, phase,
                   shown, player, device, stopped, playing, heard>>

----------------------------------------------------------------------------
(* The play loop and the thread it hands each clip to.  A second sd.play   *)
(* takes the device from the first.                                        *)

\* The loop looks at _stopped and hands the clip to a thread, or passes it
\* over.  A clip handed over is the head of its queue until it sounds.
PlayLoopDeaf(t) ==
    /\ player[t] = "get" /\ queue[t] # <<>>
    /\ IF Head(queue[t]) = Done
       THEN /\ player' = [player EXCEPT ![t] = "ended"]
            /\ queue' = [queue EXCEPT ![t] = Tail(@)]
       ELSE player' = [player EXCEPT ![t] = "due"] /\ queue' = queue
    /\ UNCHANGED <<sessionVars, brainVars, endVars, phase,
                   shown, cut, worker, device, stopped, playing, heard>>
PlayLoopGets(t) ==
    /\ player[t] = "get" /\ queue[t] # <<>>
    /\ IF Head(queue[t]) = Done \/ stopped
       THEN /\ queue' = [queue EXCEPT ![t] = Tail(@)]
            /\ player' = [player EXCEPT ![t] =
                 IF Head(queue[t]) = Done \/ mouth = "supertonic" THEN "ended" ELSE "get"]
       ELSE player' = [player EXCEPT ![t] = "due"] /\ queue' = queue
    /\ UNCHANGED <<sessionVars, brainVars, endVars, phase,
                   shown, cut, worker, device, stopped, playing, heard>>
\* sd.play, in the thread: nobody looks at _stopped again.
SoundStarts(t) ==
    /\ player[t] = "due"
    /\ player' = [player EXCEPT ![t] = "play"]
    /\ queue' = [queue EXCEPT ![t] = Tail(@)]
    /\ device' = t
    /\ heard' = [heard EXCEPT ![t] = Head(queue[t])]
    /\ UNCHANGED <<sessionVars, brainVars, endVars, phase, shown, cut, worker, stopped, playing>>
PlayEnds(t) ==
    /\ player[t] = "play"
    /\ player' = [player EXCEPT ![t] =
                    IF stopped /\ mouth = "supertonic" THEN "ended" ELSE "get"]
    /\ device' = IF device = t THEN 0 ELSE device
    /\ UNCHANGED <<sessionVars, brainVars, endVars, phase,
                   shown, cut, queue, worker, stopped, playing, heard>>
PlayFailsSounding(t) ==
    /\ player[t] \in {"due", "play"} /\ MayFail("device")
    /\ player' = [player EXCEPT ![t] = "failed"]
    /\ hurt' = [hurt EXCEPT ![t] = TRUE]
    /\ UNCHANGED <<sessionVars, brainVars, turn, remembered, abandoned, phase, device,
                   shown, cut, queue, worker, stopped, playing, heard>>
PlayFails(t) ==
    /\ player[t] \in {"due", "play"} /\ MayFail("device")
    /\ player' = [player EXCEPT ![t] = "failed"]
    /\ device' = IF device = t THEN 0 ELSE device
    /\ hurt' = [hurt EXCEPT ![t] = TRUE]
    /\ UNCHANGED <<sessionVars, brainVars, turn, remembered, abandoned, phase,
                   shown, cut, queue, worker, stopped, playing, heard>>

----------------------------------------------------------------------------
(* speak_stream ends, and run_turn with it.                                *)

Returns ==
    /\ phase' = "idle"
    /\ remembered' = IF lastResult = NoResult THEN remembered
                     ELSE [lastResult EXCEPT !.text = Clean(@)]
Raises == phase' = "idle" /\ remembered' = remembered

DrainEnds ==
    /\ mouth = "text" /\ phase = "speak" /\ worker[turn] \in {"ended", "failed"}
    /\ IF worker[turn] = "ended" THEN Returns ELSE Raises
    /\ UNCHANGED <<sessionVars, brainVars, mouthVars, turn, hurt, abandoned>>

\* The finally of supertonic: the worker is cancelled and awaited; if it
\* had failed its error comes out of the await, before the flag is lowered.
SupertonicEnds ==
    /\ mouth = "supertonic" /\ phase = "speak" /\ player[turn] \in {"ended", "failed"}
    /\ IF worker[turn] \in {"ended", "failed"}
       THEN UNCHANGED <<worker, stream>>
       ELSE /\ worker' = [worker EXCEPT ![turn] = "cancelled"]
            /\ stream' = [stream EXCEPT ![turn].state = "broken"]
    /\ playing' = (playing /\ worker[turn] = "failed")
    /\ IF player[turn] = "ended" /\ worker[turn] # "failed" THEN Returns ELSE Raises
    /\ UNCHANGED <<sessionVars, cancelled, lastResult, turn, hurt, abandoned,
                   shown, cut, queue, player, device, stopped, heard>>

\* gather of worker and loop: it waits for both, or raises with the first
\* that fails and leaves the other one running.
GatherEnds ==
    /\ mouth = "gather" /\ phase = "speak"
    /\ LET failed == "failed" \in {worker[turn], player[turn]}
       IN  /\ failed \/ (worker[turn] = "ended" /\ player[turn] = "ended")
           /\ IF failed THEN Raises ELSE Returns
           /\ abandoned' = (abandoned \/ (failed /\
                  ~({worker[turn], player[turn]} \subseteq {"ended", "failed"})))
    /\ playing' = FALSE
    /\ UNCHANGED <<sessionVars, brainVars, turn, hurt,
                   shown, cut, queue, worker, player, device, stopped, heard>>

\* interrupt(): mouth.stop() and brain.cancel(), whether a turn is on or not.
Interrupt ==
    /\ cancelled' = TRUE
    /\ IF mouth = "text"
       THEN UNCHANGED <<stopped, playing, device>>
       ELSE stopped' = TRUE /\ playing' = FALSE /\ device' = 0
    /\ hurt' = IF phase = "idle" THEN hurt ELSE [hurt EXCEPT ![turn] = TRUE]
    /\ UNCHANGED <<sessionVars, stream, lastResult, turn, remembered, abandoned, phase,
                   shown, cut, queue, worker, player, heard>>

StreamNext ==
    \/ \E answer \in Answers : BeginTurn(answer)
    \/ \E k \in 1..MaxToken : Peels(k)
    \/ PeelsLast \/ PeelFails \/ SpeakStream
    \/ \E t \in Turns :
          \/ WorkerTakesBack(t) \/ \E k \in 1..MaxToken : WorkerTakes(t, k)
          \/ WorkerDrains(t) \/ WorkerFails(t) \/ SynthDone(t) \/ SynthFails(t)
          \/ PlayLoopGets(t) \/ SoundStarts(t) \/ PlayEnds(t) \/ PlayFails(t)
    \/ DrainEnds \/ SupertonicEnds \/ GatherEnds
    \/ Interrupt

\* Streams go on or break off, engines and devices return: each task is
\* scheduled by the loop as soon as what it awaits is there.
StreamSpec ==
    /\ StreamInit /\ [][StreamNext]_streamVars
    /\ WF_streamVars(PeelsLast \/ (\E k \in 1..MaxToken : Peels(k)))
    /\ WF_streamVars(SpeakStream)
    /\ \A t \in Turns :
          /\ WF_streamVars(\/ WorkerTakesBack(t) \/ WorkerDrains(t)
                           \/ \E k \in 1..MaxToken : WorkerTakes(t, k))
          /\ WF_streamVars(SynthDone(t) \/ SynthFails(t))
          /\ WF_streamVars(PlayLoopGets(t))
          /\ WF_streamVars(SoundStarts(t) \/ PlayEnds(t) \/ PlayFails(t))
    /\ WF_streamVars(DrainEnds) /\ WF_streamVars(SupertonicEnds) /\ WF_streamVars(GatherEnds)

----------------------------------------------------------------------------
(* Properties.                                                             *)

\* Sound comes from a play loop, at most one, and a turn's stream, worker and
\* loop are where run_turn has brought them.
StreamTypeOK ==
    /\ phase \in {"idle", "peel", "ready", "speak"} /\ turn \in 0..MaxTurns
    /\ device # 0 => player[device] = "play"
    /\ \A t \in Turns :
          /\ t > turn => stream[t] = IdleStream
          /\ worker[t] \in {"off", "pull", "synth", "tail", "ended", "failed", "cancelled"}
          /\ player[t] \in {"off", "get", "due", "play", "ended", "failed"}
          /\ cut[t] <= Len(shown[t]) /\ heard[t].to <= cut[t]
          /\ worker[t] = "synth" => SentenceEnd(Buffer(t)) > 0
          /\ player[t] = "due" => queue[t] # <<>> /\ Head(queue[t]) # Done

\* Until a task outlives its turn (abandoned) the stream keeps the promise of
\* Turn: what is heard, cut off and kept; and every turn ends and frees the
\* lock, whatever fails and whoever interrupts.  A turn is cut when interrupt comes
\* while the mouth speaks; one that comes before is forgotten by speak_stream.
\* One that comes between the loop's look at _stopped and the thread's sd.play
\* stops nothing: that sentence is the one Turn lets her say.
Promise == INSTANCE Turn WITH
    number <- turn,
    state <- IF phase = "idle" THEN "closed"
             ELSE IF phase = "speak" /\ mouth # "text" /\ stopped
             THEN IF player[turn] = "due" THEN "last" ELSE "cut"
             ELSE "open",
    said <- IF turn = 0 THEN 0 ELSE heard[turn].to,
    sounding <- device # 0,
    kept <- remembered.of,
    void <- abandoned
KeepsPromise == Promise!TurnSpec

\* However the tag is cut into tokens and wherever the stream breaks: what is
\* passed on is the model's text without its leading tag, nothing lost.
BodyWhole ==
    \A t \in Turns : t = turn /\ phase \in {"ready", "speak"} =>
        shown[t] \o FlattenSeq(stream[t].back) = Clean(stream[t].parts)

\* A turn that returned and was not hurt was shown, spoken to its last unit
\* and kept, all three the same text.
OneText ==
    phase = "idle" /\ ~abandoned /\ remembered.of = turn /\ turn # 0 /\ ~hurt[turn] =>
        /\ remembered.text = shown[turn]
        /\ mouth # "text" => cut[turn] = Len(shown[turn]) /\ heard[turn].to = cut[turn]

\* "speak_stream waits for the end of play": after the turn nothing plays,
\* and the adapter does not say it does.
QuietAfterTurn == phase = "idle" => ~playing /\ device = 0
=============================================================================
