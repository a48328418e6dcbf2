----------------------------- MODULE Listening ------------------------------
(***************************************************************************)
(* The listening axis: ListenSession opens on the wake word, its           *)
(* Endpointer cuts utterances out of the frames, and it closes on a        *)
(* timeout or on the sleep command.  Its events reach the core through the *)
(* bus; the core recognises an utterance for a while and may then ask the  *)
(* session, which has gone on in the meantime, to sleep.                   *)
(*                                                                         *)
(* Time is counted in frames.  Buffers are counted, not stored.            *)
(***************************************************************************)
EXTENDS EventBus, Integers

CONSTANTS StartFrames,    \* _start_frames: speech needed to start
          EndFrames,      \* _endpoint_frames: silence needed to end
          PrerollFrames,  \* maxlen of the preroll
          Timeout,        \* active_timeout_ms
          MaxLag,         \* bound: a frame comes at most so much later than the last
          CoreMax,        \* size of the core's queue
          LastSession     \* bound: number of wakes

ASSUME ListeningAssumption ==
    /\ StartFrames \in Nat \ {0} /\ EndFrames \in Nat \ {0}
    /\ PrerollFrames \in Nat /\ PrerollFrames >= StartFrames  \* equal in config.yaml
    /\ Timeout \in Nat \ {0} /\ MaxLag \in Nat \ {0}
    /\ CoreMax \in Nat \ {0} /\ LastSession \in Nat

VARIABLES awake,      \* the session's state
          request,    \* _sleep_requested
          idle,       \* now() - last_activity, no further than Timeout
          ep,         \* the Endpointer
          queue,      \* the core's queue
          core,       \* what _dispatch is doing
          shown,      \* DaemonState.listening_mode
          session,    \* how often the session woke
          asked,      \* the newest session when the core made its last request
          onset,      \* frames since the present run of speech began
          overflowed  \* the queue has lost an event

listenVars == <<awake, request, idle, ep, queue, core, shown, session, asked, onset, overflowed>>

----------------------------------------------------------------------------
(* Endpointer.push.                                                        *)

NewEndpointer == [speaking |-> FALSE, speech |-> 0, silence |-> 0, preroll |-> 0, buf |-> 0]

\* The preroll keeps the newest frames only; the frame that completes the
\* run of speech makes the preroll the start of the utterance.
PushWhileQuietNoPreroll(e, speech) ==
    IF speech /\ e.speech + 1 >= StartFrames
    THEN [NewEndpointer EXCEPT !.speaking = TRUE, !.speech = e.speech + 1]
    ELSE [e EXCEPT !.speech = IF speech THEN e.speech + 1 ELSE 0]
PushWhileQuiet(e, speech) ==
    LET kept == IF e.preroll < PrerollFrames THEN e.preroll + 1 ELSE PrerollFrames
        run == IF speech THEN e.speech + 1 ELSE 0
    IN  IF run >= StartFrames
        THEN [NewEndpointer EXCEPT !.speaking = TRUE, !.speech = run, !.buf = kept]
        ELSE [e EXCEPT !.preroll = kept, !.speech = run]

PushWhileSpeaking(e, speech) ==
    [e EXCEPT !.buf = @ + 1, !.silence = IF speech THEN 0 ELSE @ + 1]

Ends(e, speech) == e.speaking /\ ~speech /\ e.silence + 1 >= EndFrames
PushKeepingBuffer(e, speech) ==
    CASE Ends(e, speech) -> [e EXCEPT !.speaking = FALSE]
      [] e.speaking /\ ~Ends(e, speech) -> PushWhileSpeaking(e, speech)
      [] OTHER -> PushWhileQuiet(e, speech)
Push(e, speech) ==
    CASE Ends(e, speech) -> NewEndpointer
      [] e.speaking /\ ~Ends(e, speech) -> PushWhileSpeaking(e, speech)
      [] OTHER -> PushWhileQuiet(e, speech)

----------------------------------------------------------------------------
(* ListenSession.run, one frame at a time; _ear_loop publishes what it     *)
(* yields in the same step.                                                *)

ListenInit ==
    /\ awake = FALSE /\ request = FALSE /\ idle = 0
    /\ ep = NewEndpointer
    /\ queue = <<>> /\ core = "idle" /\ shown = "sleep"
    /\ session = 0 /\ asked = 0 /\ onset = 0 /\ overflowed = FALSE

Tell(kind) ==
    /\ queue' = Put(queue, CoreMax, kind)
    /\ overflowed' = (overflowed \/ Len(queue) = CoreMax)

Later(lag) == IF idle + lag < Timeout THEN idle + lag ELSE Timeout

WakeKeepingRequest ==
    /\ ~awake /\ session < LastSession
    /\ awake' = TRUE
    /\ ep' = NewEndpointer /\ onset' = 0
    /\ idle' = 0
    /\ session' = session + 1
    /\ Tell("WAKE")
    /\ UNCHANGED <<request, core, shown, asked>>
WakeWordHeard ==
    /\ ~awake /\ session < LastSession
    /\ awake' = TRUE
    /\ request' = FALSE
    /\ ep' = NewEndpointer /\ onset' = 0
    /\ idle' = 0
    /\ session' = session + 1
    /\ Tell("WAKE")
    /\ UNCHANGED <<core, shown, asked>>

SleepByCommand ==
    /\ awake /\ request
    /\ awake' = FALSE /\ request' = FALSE
    /\ Tell("SLEEP")
    /\ UNCHANGED <<idle, ep, core, shown, session, asked, onset>>

\* A frame of an open session; lag is the time since the frame before.
Frame(speech, lag) ==
    /\ awake /\ ~request
    /\ ep' = Push(ep, speech)
    /\ onset' = IF ep.speaking THEN (IF Ends(ep, speech) THEN 0 ELSE onset + 1)
                ELSE IF speech THEN onset + 1 ELSE 0
    /\ IF Ends(ep, speech) THEN awake' = TRUE /\ idle' = 0 /\ Tell("UTTERANCE")
       ELSE IF Later(lag) = Timeout
            THEN awake' = FALSE /\ idle' = Timeout /\ Tell("SLEEP")
            ELSE awake' = TRUE /\ idle' = Later(lag) /\ UNCHANGED <<queue, overflowed>>
    /\ UNCHANGED <<request, core, shown, session, asked>>

----------------------------------------------------------------------------
(* _dispatch: record(), then the handler.  The other events the core gets, *)
(* TICKs among them, stand for themselves: they fill the queue.            *)

Tick ==
    /\ Tell("TICK")
    /\ UNCHANGED <<awake, request, idle, ep, core, shown, session, asked, onset>>

Recorded(view, kind) ==
    CASE kind = "WAKE" -> "active" [] kind = "SLEEP" -> "sleep" [] OTHER -> view
RecordedWakesOnly(view, kind) == IF kind = "WAKE" THEN "active" ELSE view
Record(view, kind) == Recorded(view, kind)

Dispatch ==
    /\ core = "idle" /\ queue # <<>>
    /\ queue' = Tail(queue)
    /\ shown' = Record(shown, Head(queue))
    /\ core' = IF Head(queue) = "UTTERANCE" THEN "stt" ELSE "idle"
    /\ UNCHANGED <<awake, request, idle, ep, session, asked, onset, overflowed>>

\* transcribe() returned: the sleep command, or anything else (other gates,
\* a turn, nothing) that leaves the session alone.  The request goes to the
\* ListenSession object, so to whatever session is open by now: the one the
\* command was spoken in may have timed out and another have woken.
GateSleep ==
    /\ core = "stt"
    /\ core' = "idle"
    /\ request' = TRUE /\ asked' = session
    /\ UNCHANGED <<awake, idle, ep, queue, shown, session, onset, overflowed>>
GateOther ==
    /\ core = "stt"
    /\ core' = "idle"
    /\ UNCHANGED <<awake, request, idle, ep, queue, shown, session, asked, onset, overflowed>>

Ear ==
    \/ WakeWordHeard
    \/ SleepByCommand
    \/ \E speech \in BOOLEAN, lag \in 1 .. MaxLag : Frame(speech, lag)
Core == Tick \/ Dispatch \/ GateSleep \/ GateOther

ListenNext == Ear \/ Core

\* Frames keep coming from an open microphone; STT answers; the core takes
\* its queue in order.
ListenSpec ==
    /\ ListenInit /\ [][ListenNext]_listenVars
    /\ WF_listenVars(SleepByCommand \/ \E speech \in BOOLEAN, lag \in 1 .. MaxLag : Frame(speech, lag))
    /\ WF_listenVars(Dispatch)
    /\ WF_listenVars(GateSleep \/ GateOther)

----------------------------------------------------------------------------
(* Properties.                                                             *)

Kinds == {"WAKE", "UTTERANCE", "SLEEP", "TICK"}

\* The variables hold what the session, the endpointer and the core put in
\* them; a quiet endpointer holds no utterance, a speaking one no preroll,
\* and the buffer, which has no bound of its own, never outgrows the preroll
\* and one timeout's worth of frames.
ListenTypeOK ==
    /\ awake \in BOOLEAN /\ request \in BOOLEAN /\ overflowed \in BOOLEAN
    /\ idle \in 0 .. Timeout
    /\ ep.speaking \in BOOLEAN
    /\ ep.speech \in 0 .. StartFrames /\ ep.silence \in 0 .. EndFrames - 1
    /\ ep.preroll \in 0 .. PrerollFrames /\ ep.buf \in 0 .. PrerollFrames + Timeout
    /\ ep.speaking => ep.preroll = 0
    /\ ~ep.speaking => ep.buf = 0 /\ ep.speech < StartFrames
    /\ queue \in Seq(Kinds) /\ Len(queue) <= CoreMax
    /\ core \in {"idle", "stt"} /\ shown \in {"active", "sleep"}
    /\ session \in 0 .. LastSession /\ asked \in 0 .. session
    /\ onset \in Nat

\* "so that the onset is not cut off": the buffer of a speaking endpointer
\* reaches back to the first frame of the run of speech that started it.
OnsetKept == ep.speaking => ep.buf >= onset

\* What the core shows, once it has handled all that is queued, is the
\* session's state, unless the queue has overflowed.
Turns == {i \in DOMAIN queue : queue[i] \in {"WAKE", "SLEEP"}}
ViewAtLast ==
    IF Turns = {} THEN shown
    ELSE Recorded(shown, queue[CHOOSE i \in Turns : \A j \in Turns : j <= i])
ViewFollows ==
    ~overflowed => ViewAtLast = (IF awake THEN "active" ELSE "sleep")

\* A request made while the microphone sleeps is spent: it never ends the
\* session that the next wake word opens.  What a request ends is the session
\* that was open when the core made it, not always the one it was spoken in.
NoRequestCarriesOver ==
    [][ awake /\ request /\ ~awake' => asked = session ]_listenVars
\* And a request made to an open session is obeyed in the end.
RequestEndsOpenSession ==
    /\ NoRequestCarriesOver
    /\ awake /\ request ~> ~awake
=============================================================================
