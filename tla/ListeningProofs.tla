-------------------------- MODULE ListeningProofs ---------------------------
(* Theorems about the listening axis: for every length of the endpointer's *)
(* runs, of the preroll and of the timeout, and every size of the queue.   *)
EXTENDS Listening, SequenceTheorems, TLAPS

----------------------------------------------------------------------------
(* The endpointer.  A quiet one has counted the present run of speech and  *)
(* has all of it in the preroll; a speaking one has it in the buffer.      *)

Endpointers == [speaking : BOOLEAN, speech : Nat, silence : Nat, preroll : Nat, buf : Nat]

\* e has heard a run of speech that began n frames ago.
Hears(e, n) ==
    /\ e \in Endpointers /\ n \in Nat
    /\ e.speech <= StartFrames /\ e.silence <= EndFrames - 1 /\ e.preroll <= PrerollFrames
    /\ e.speaking => e.preroll = 0 /\ e.buf >= n
    /\ ~e.speaking => /\ e.buf = 0 /\ e.speech < StartFrames
                      /\ n = e.speech /\ e.preroll >= e.speech

LEMMA NewHears == Hears(NewEndpointer, 0)
BY ListeningAssumption DEF Hears, NewEndpointer, Endpointers

LEMMA QuietHears ==
    ASSUME NEW e, NEW n, NEW speech \in BOOLEAN, Hears(e, n), ~e.speaking
    PROVE  /\ Hears(PushWhileQuiet(e, speech), IF speech THEN n + 1 ELSE 0)
           /\ PushWhileQuiet(e, speech).buf <= PrerollFrames
<1> DEFINE kept == IF e.preroll < PrerollFrames THEN e.preroll + 1 ELSE PrerollFrames
           run == IF speech THEN e.speech + 1 ELSE 0
           p == PushWhileQuiet(e, speech)
<1>1. /\ e \in Endpointers /\ e.speech \in Nat /\ e.preroll \in Nat /\ e.silence \in Nat
      /\ e.silence <= EndFrames - 1 /\ n = e.speech /\ e.speech < StartFrames
      /\ e.preroll >= e.speech /\ e.preroll <= PrerollFrames /\ e.buf = 0 /\ ~e.speaking
      /\ StartFrames \in Nat \ {0} /\ PrerollFrames \in Nat /\ PrerollFrames >= StartFrames
      /\ EndFrames \in Nat \ {0}
  BY ListeningAssumption DEF Hears, Endpointers
<1>2. /\ kept \in Nat /\ kept <= PrerollFrames /\ run \in Nat /\ run <= StartFrames
      /\ run <= kept /\ run = IF speech THEN n + 1 ELSE 0
  BY <1>1
<1>3. CASE run >= StartFrames
  <2>1. p = [speaking |-> TRUE, speech |-> run, silence |-> 0, preroll |-> 0, buf |-> kept]
    BY <1>3 DEF PushWhileQuiet, NewEndpointer
  <2> QED BY <1>1, <1>2, <2>1 DEF Hears, Endpointers
<1>4. CASE ~(run >= StartFrames)
  <2>1. p = [e EXCEPT !.preroll = kept, !.speech = run]
    BY <1>4 DEF PushWhileQuiet
  <2>2. /\ p \in Endpointers /\ p.speaking = e.speaking /\ p.speech = run /\ p.silence = e.silence
        /\ p.preroll = kept /\ p.buf = e.buf
    BY <1>1, <1>2, <2>1 DEF Endpointers
  <2> QED BY <1>1, <1>2, <1>4, <2>2 DEF Hears
<1> QED BY <1>3, <1>4

LEMMA SpeakingHears ==
    ASSUME NEW e, NEW n, NEW speech \in BOOLEAN, Hears(e, n), e.speaking, ~Ends(e, speech)
    PROVE  /\ Hears(PushWhileSpeaking(e, speech), n + 1)
           /\ PushWhileSpeaking(e, speech).buf = e.buf + 1
<1> DEFINE silence == IF speech THEN 0 ELSE e.silence + 1
           p == PushWhileSpeaking(e, speech)
<1>1. /\ e \in Endpointers /\ e.silence \in Nat /\ e.buf \in Nat /\ e.buf >= n /\ n \in Nat
      /\ e.silence <= EndFrames - 1 /\ EndFrames \in Nat \ {0}
  BY ListeningAssumption DEF Hears, Endpointers
<1>2. p = [e EXCEPT !.buf = e.buf + 1, !.silence = silence]
  BY <1>1 DEF PushWhileSpeaking, Endpointers
<1>3. silence \in Nat /\ silence <= EndFrames - 1
  <2>1. CASE speech
    BY <1>1, <2>1
  <2>2. CASE ~speech
    <3>1. ~(e.silence + 1 >= EndFrames)
      BY <2>2 DEF Ends
    <3> QED BY <1>1, <2>2, <3>1
  <2> QED BY <2>1, <2>2
<1> HIDE DEF silence, p
<1>4. p = [speaking |-> TRUE, speech |-> e.speech, silence |-> silence,
           preroll |-> e.preroll, buf |-> e.buf + 1]
  <2>1. e = [speaking |-> TRUE, speech |-> e.speech, silence |-> e.silence,
             preroll |-> e.preroll, buf |-> e.buf]
    BY <1>1 DEF Endpointers
  <2> QED BY <1>2, <2>1
<1>5. e.speech \in Nat /\ e.preroll \in Nat
  BY <1>1 DEF Endpointers
<1>6. p \in Endpointers
  BY <1>1, <1>3, <1>4, <1>5 DEF Endpointers
<1> QED BY <1>1, <1>3, <1>4, <1>6 DEF Hears, p

----------------------------------------------------------------------------
(* The session, its endpointer and what was asked of it.  The buffer grows *)
(* with the time since the last activity, which ends the session.          *)

SessionInv ==
    /\ awake \in BOOLEAN /\ request \in BOOLEAN
    /\ idle \in 0 .. Timeout /\ (awake => idle < Timeout)
    /\ Hears(ep, onset) /\ ep.buf <= PrerollFrames + idle
    /\ session \in 0 .. LastSession /\ asked \in 0 .. session
    /\ awake /\ request => asked = session

LEMMA FrameComes ==
    ASSUME SessionInv, NEW speech \in BOOLEAN, NEW lag \in 1 .. MaxLag, Frame(speech, lag)
    PROVE  SessionInv'
<1>1. /\ awake /\ ~request /\ idle \in Nat /\ idle < Timeout /\ Timeout \in Nat \ {0}
      /\ Hears(ep, onset) /\ ep.buf <= PrerollFrames + idle /\ ep.buf \in Nat
      /\ PrerollFrames \in Nat /\ lag \in Nat \ {0}
      /\ UNCHANGED <<request, session, asked>> /\ ep.speaking \in BOOLEAN
  BY ListeningAssumption DEF SessionInv, Frame, Hears, Endpointers
<1>2. SUFFICES /\ Hears(ep', onset') /\ ep'.buf <= PrerollFrames + idle'
               /\ awake' \in BOOLEAN /\ idle' \in 0 .. Timeout /\ (awake' => idle' < Timeout)
  BY <1>1 DEF SessionInv
<1>3. CASE Ends(ep, speech)
  <2>1. ep' = NewEndpointer /\ onset' = 0 /\ idle' = 0 /\ awake' = TRUE
    BY <1>3 DEF Frame, Push, Ends
  <2> QED BY <1>1, <2>1, NewHears DEF NewEndpointer
<1>4. CASE ~Ends(ep, speech)
  <2>0. Later(lag) \in 0 .. Timeout /\ Later(lag) >= idle + 1
    BY <1>1 DEF Later
  <2>1. idle' = Later(lag) /\ awake' \in BOOLEAN /\ (awake' => idle' < Timeout)
    <3>1. CASE Later(lag) = Timeout
      BY <1>4, <3>1 DEF Frame
    <3>2. CASE Later(lag) # Timeout
      <4>1. idle' = Later(lag) /\ awake' = TRUE
        BY <1>4, <3>2 DEF Frame
      <4> QED BY <1>1, <2>0, <3>2, <4>1
    <3> QED BY <3>1, <3>2
  <2>2. CASE ep.speaking
    <3>1. ep' = PushWhileSpeaking(ep, speech) /\ onset' = onset + 1
      BY <1>4, <2>2 DEF Frame, Push
    <3>2. Hears(ep', onset') /\ ep'.buf = ep.buf + 1
      BY <1>1, <1>4, <2>2, <3>1, SpeakingHears
    <3> QED BY <1>1, <2>0, <2>1, <3>2
  <2>3. CASE ~ep.speaking
    <3>1. ep' = PushWhileQuiet(ep, speech) /\ onset' = IF speech THEN onset + 1 ELSE 0
      BY <1>4, <2>3 DEF Frame, Push
    <3>2. Hears(ep', onset') /\ ep'.buf <= PrerollFrames
      BY <1>1, <2>3, <3>1, QuietHears
    <3>3. ep'.buf \in Nat
      BY <3>2 DEF Hears, Endpointers
    <3> QED BY <1>1, <2>0, <2>1, <3>2, <3>3
  <2> QED BY <2>2, <2>3
<1> QED BY <1>3, <1>4

LEMMA SessionKept ==
    ASSUME SessionInv, [ListenNext]_listenVars
    PROVE  SessionInv'
<1>1. CASE WakeWordHeard
  <2>1. /\ awake' = TRUE /\ request' = FALSE /\ ep' = NewEndpointer /\ onset' = 0 /\ idle' = 0
        /\ session' = session + 1 /\ session < LastSession /\ asked' = asked
    BY <1>1 DEF WakeWordHeard
  <2>2. ep'.buf = 0 /\ Hears(ep', onset')
    BY <2>1, NewHears DEF NewEndpointer
  <2>3. session' \in 0 .. LastSession /\ asked' \in 0 .. session' /\ idle' \in 0 .. Timeout
        /\ idle' < Timeout /\ PrerollFrames + idle' \in Nat
    BY <2>1, ListeningAssumption DEF SessionInv
  <2>4. ep'.buf <= PrerollFrames + idle'
    BY <2>2, <2>3
  <2> QED BY <2>1, <2>2, <2>3, <2>4 DEF SessionInv
<1>2. CASE SleepByCommand
  BY <1>2 DEF SleepByCommand, SessionInv
<1>3. ASSUME NEW speech \in BOOLEAN, NEW lag \in 1 .. MaxLag, Frame(speech, lag) PROVE SessionInv'
  BY <1>3, FrameComes
<1>4. CASE Tick \/ Dispatch \/ GateOther \/ UNCHANGED listenVars
  BY <1>4 DEF Tick, Dispatch, GateOther, listenVars, SessionInv
<1>5. CASE GateSleep
  <2>1. /\ request' = TRUE /\ asked' = session /\ UNCHANGED <<awake, idle, ep, session, onset>>
    BY <1>5 DEF GateSleep
  <2>2. asked' \in 0 .. session
    BY <2>1, ListeningAssumption DEF SessionInv
  <2> QED BY <2>1, <2>2 DEF SessionInv
<1> QED BY <1>1, <1>2, <1>3, <1>4, <1>5 DEF ListenNext, Ear, Core
----------------------------------------------------------------------------
(* What the core shows.  As long as nothing is lost, the last wake or      *)
(* sleep in the queue, or what is shown if there is none, is the state of  *)
(* the session.                                                            *)

Switches == {"WAKE", "SLEEP"}
Mode == IF awake THEN "active" ELSE "sleep"

\* Handling what is queued ends with the view v.
ComesTo(v) ==
    \/ v = shown /\ \A i \in 1 .. Len(queue) : queue[i] \notin Switches
    \/ \E i \in 1 .. Len(queue) :
          /\ queue[i] \in Switches /\ v = Recorded(shown, queue[i])
          /\ \A j \in 1 .. Len(queue) : j > i => queue[j] \notin Switches

ViewInv ==
    /\ queue \in Seq(Kinds) /\ Len(queue) <= CoreMax /\ overflowed \in BOOLEAN
    /\ core \in {"idle", "stt"} /\ shown \in {"active", "sleep"}
    /\ ~overflowed => ComesTo(Mode)

LEMMA ComesToLast ==
    ASSUME queue \in Seq(Kinds), NEW v, ComesTo(v)
    PROVE  ViewAtLast = v
<1>1. Len(queue) \in Nat /\ DOMAIN queue = 1 .. Len(queue)
  BY LenProperties
<1>2. Turns = {i \in 1 .. Len(queue) : queue[i] \in Switches}
  BY <1>1 DEF Turns, Switches
<1>3. CASE v = shown /\ \A i \in 1 .. Len(queue) : queue[i] \notin Switches
  <2>1. Turns = {}
    BY <1>2, <1>3
  <2> QED BY <1>3, <2>1 DEF ViewAtLast
<1>4. ASSUME NEW i \in 1 .. Len(queue), queue[i] \in Switches, v = Recorded(shown, queue[i]),
             \A j \in 1 .. Len(queue) : j > i => queue[j] \notin Switches
      PROVE  ViewAtLast = v
  <2>1. i \in Turns /\ \A j \in Turns : j \in Nat /\ j <= i
    BY <1>1, <1>2, <1>4
  <2> DEFINE k == CHOOSE k \in Turns : \A j \in Turns : j <= k
  <2>2. k \in Turns /\ \A j \in Turns : j <= k
    BY <2>1
  <2>3. ViewAtLast = Recorded(shown, queue[k])
    BY <2>1 DEF ViewAtLast
  <2> HIDE DEF k
  <2>4. k = i
    <3>1. i \in Nat /\ k \in Nat /\ i <= k /\ k <= i
      BY <2>1, <2>2
    <3> QED BY <3>1
  <2> QED BY <1>4, <2>3, <2>4
<1> QED BY <1>3, <1>4 DEF ComesTo

\* An event joins the queue: a wake or a sleep with the session it tells of,
\* any other with the session as it was.
LEMMA Told ==
    ASSUME ViewInv, NEW kind \in Kinds, Tell(kind), UNCHANGED <<core, shown>>,
           kind \in Switches => Recorded(shown, kind) = Mode',
           kind \notin Switches => awake' = awake
    PROVE  ViewInv'
<1> DEFINE n == Len(queue)
<1>1. /\ queue \in Seq(Kinds) /\ n \in Nat /\ n <= CoreMax /\ CoreMax \in Nat \ {0}
      /\ overflowed \in BOOLEAN
  BY ListeningAssumption DEF ViewInv
<1>2. overflowed' \in BOOLEAN /\ (~overflowed' => ~overflowed /\ n < CoreMax)
  <2>1. overflowed' = (overflowed \/ n = CoreMax)
    BY DEF Tell
  <2>2. ~overflowed' => ~overflowed /\ n # CoreMax
    BY <2>1
  <2> QED BY <1>1, <2>1, <2>2
<1>3. queue' \in Seq(Kinds) /\ Len(queue') <= CoreMax
  <2>1. CASE n < CoreMax
    <3>1. queue' = Append(queue, kind)
      BY <2>1 DEF Tell, Put
    <3> QED BY <1>1, <2>1, <3>1, AppendProperties
  <2>2. CASE n = CoreMax
    <3>1. queue' = Append(Tail(queue), kind) /\ queue # <<>>
      BY <1>1, <2>2 DEF Tell, Put
    <3>2. Tail(queue) \in Seq(Kinds) /\ Len(Tail(queue)) = n - 1
      BY <1>1, <3>1, HeadTailProperties
    <3> QED BY <1>1, <2>2, <3>1, <3>2, AppendProperties
  <2> QED BY <1>1, <2>1, <2>2
<1>4. ASSUME ~overflowed' PROVE ComesTo(Mode)'
  <2>1. ComesTo(Mode) /\ n < CoreMax
    BY <1>2, <1>4 DEF ViewInv
  <2>2. queue' = Append(queue, kind)
    BY <2>1 DEF Tell, Put
  <2>3. /\ Len(queue') = n + 1 /\ queue'[n + 1] = kind /\ n + 1 \in 1 .. n + 1
        /\ \A j \in 1 .. n : queue'[j] = queue[j] /\ j \in 1 .. n + 1
        /\ \A j \in 1 .. n + 1 : j \in 1 .. n \/ j = n + 1
    BY <1>1, <2>2, AppendProperties
  <2> HIDE DEF n
  <2>4. CASE kind \in Switches
    <3>1. \A j \in 1 .. n + 1 : ~(j > n + 1)
      BY <1>1
    <3> QED BY <2>3, <2>4, <3>1 DEF ComesTo
  <2>5. CASE kind \notin Switches
    <3>1. Mode' = Mode /\ shown' = shown
      BY <2>5 DEF Mode
    <3>2. CASE Mode = shown /\ \A i \in 1 .. n : queue[i] \notin Switches
      BY <2>3, <2>5, <3>1, <3>2 DEF ComesTo
    <3>3. CASE \E i \in 1 .. n : /\ queue[i] \in Switches /\ Mode = Recorded(shown, queue[i])
                                 /\ \A j \in 1 .. n : j > i => queue[j] \notin Switches
      BY <2>3, <2>5, <3>1, <3>3 DEF ComesTo
    <3> QED BY <2>1, <3>2, <3>3 DEF ComesTo, n
  <2> QED BY <2>4, <2>5
<1> QED BY <1>1, <1>2, <1>3, <1>4 DEF ViewInv

LEMMA Dispatched ==
    ASSUME ViewInv, Dispatch
    PROVE  ViewInv'
<1> DEFINE n == Len(queue)
<1>1. /\ queue \in Seq(Kinds) /\ queue # <<>> /\ n \in Nat \ {0} /\ n <= CoreMax
      /\ queue' = Tail(queue) /\ shown' = Recorded(shown, queue[1])
      /\ UNCHANGED <<awake, overflowed>> /\ core' \in {"idle", "stt"} /\ CoreMax \in Nat
  BY ListeningAssumption, EmptySeq DEF ViewInv, Dispatch, Record
<1>2. /\ queue' \in Seq(Kinds) /\ Len(queue') = n - 1
      /\ \A i \in 1 .. n - 1 : queue'[i] = queue[i + 1]
  BY <1>1, HeadTailProperties
<1>3. shown \in {"active", "sleep"} /\ shown' \in {"active", "sleep"}
  BY <1>1 DEF ViewInv, Recorded
<1> HIDE DEF n
<1>4. ASSUME ~overflowed PROVE ComesTo(Mode)'
  <2>1. Mode' = Mode /\ ComesTo(Mode)
    BY <1>1, <1>4 DEF Mode, ViewInv
  <2>2. \A i \in 1 .. n - 1 : i + 1 \in 1 .. n
    BY <1>1
  <2>3. CASE Mode = shown /\ \A i \in 1 .. n : queue[i] \notin Switches
    <3>1. 1 \in 1 .. n
      BY <1>1
    <3>2. shown' = shown
      BY <1>1, <2>3, <3>1 DEF Recorded, Switches
    <3> QED BY <1>2, <2>1, <2>2, <2>3, <3>2 DEF ComesTo
  <2>4. ASSUME NEW i \in 1 .. n, queue[i] \in Switches, Mode = Recorded(shown, queue[i]),
               \A j \in 1 .. n : j > i => queue[j] \notin Switches
        PROVE  ComesTo(Mode)'
    <3>1. CASE i = 1
      <4>1. \A k \in 1 .. n - 1 : k + 1 > 1
        BY <1>1
      <4>2. \A k \in 1 .. n - 1 : queue'[k] \notin Switches
        BY <1>2, <2>2, <2>4, <3>1, <4>1
      <4> QED BY <1>1, <1>2, <2>1, <2>4, <3>1, <4>2 DEF ComesTo
    <3>2. CASE i # 1
      <4>1. i - 1 \in 1 .. n - 1 /\ (i - 1) + 1 = i
        BY <1>1, <3>2
      <4>2. queue'[i - 1] = queue[i]
        BY <1>2, <4>1
      <4>3. Recorded(shown', queue[i]) = Mode'
        BY <2>1, <2>4 DEF Recorded, Switches
      <4>4. \A k \in 1 .. n - 1 : k > i - 1 => queue'[k] \notin Switches
        <5> SUFFICES ASSUME NEW k \in 1 .. n - 1, k > i - 1 PROVE queue'[k] \notin Switches
          OBVIOUS
        <5>1. k + 1 \in 1 .. n /\ k + 1 > i
          BY <1>1
        <5> QED BY <1>2, <2>4, <5>1
      <4> QED BY <1>2, <2>4, <4>1, <4>2, <4>3, <4>4 DEF ComesTo
    <3> QED BY <3>1, <3>2
  <2> QED BY <2>1, <2>3, <2>4 DEF ComesTo, n
<1>5. Len(queue') <= CoreMax
  BY <1>1, <1>2
<1> QED BY <1>1, <1>2, <1>3, <1>4, <1>5 DEF ViewInv

LEMMA ViewStays ==
    ASSUME ViewInv, UNCHANGED <<awake, queue, overflowed, shown>>, core' \in {core, "idle"}
    PROVE  ViewInv'
BY DEF ViewInv, ComesTo, Mode

LEMMA ViewKept ==
    ASSUME SessionInv, ViewInv, [ListenNext]_listenVars
    PROVE  ViewInv'
<1>1. CASE WakeWordHeard
  BY <1>1, Told DEF WakeWordHeard, Recorded, Mode, Switches, Kinds
<1>2. CASE SleepByCommand
  BY <1>2, Told DEF SleepByCommand, Recorded, Mode, Switches, Kinds
<1>3. ASSUME NEW speech \in BOOLEAN, NEW lag \in 1 .. MaxLag, Frame(speech, lag) PROVE ViewInv'
  <2>0. awake = TRUE /\ UNCHANGED <<core, shown>>
    BY <1>3 DEF Frame, SessionInv
  <2>1. CASE awake' = TRUE /\ Tell("UTTERANCE")
    BY <2>0, <2>1, Told DEF Switches, Kinds
  <2>2. CASE awake' = FALSE /\ Tell("SLEEP")
    BY <2>0, <2>2, Told DEF Recorded, Mode, Switches, Kinds
  <2>3. CASE awake' = TRUE /\ UNCHANGED <<queue, overflowed>>
    BY <2>0, <2>3, ViewStays
  <2> QED BY <1>3, <2>1, <2>2, <2>3 DEF Frame
<1>4. CASE Tick
  BY <1>4, Told DEF Tick, Switches, Kinds
<1>5. CASE Dispatch
  BY <1>5, Dispatched
<1>6. CASE GateSleep \/ GateOther \/ UNCHANGED listenVars
  BY <1>6, ViewStays DEF GateSleep, GateOther, listenVars
<1> QED BY <1>1, <1>2, <1>3, <1>4, <1>5, <1>6 DEF ListenNext, Ear, Core

LEMMA ListenInvariant == ListenSpec => [](SessionInv /\ ViewInv)
<1>1. ListenInit => SessionInv /\ ViewInv
  <2> SUFFICES ASSUME ListenInit PROVE SessionInv /\ ViewInv
    OBVIOUS
  <2>1. ep.buf = 0 /\ Hears(ep, onset)
    BY NewHears DEF ListenInit, NewEndpointer
  <2>2. SessionInv
    <3>1. /\ awake = FALSE /\ request = FALSE /\ idle = 0 /\ session = 0 /\ asked = 0
          /\ 0 \in 0 .. Timeout /\ 0 \in 0 .. LastSession /\ 0 \in 0 .. 0 /\ 0 <= PrerollFrames + 0
      BY ListeningAssumption DEF ListenInit
    <3> QED BY <2>1, <3>1 DEF SessionInv
  <2>3. ViewInv
    <3>1. /\ queue = <<>> /\ Len(queue) = 0 /\ 0 <= CoreMax /\ queue \in Seq(Kinds)
          /\ core = "idle" /\ shown = "sleep" /\ awake = FALSE /\ overflowed = FALSE
      BY ListeningAssumption DEF ListenInit
    <3>2. ComesTo(Mode)
      BY <3>1 DEF ComesTo, Mode
    <3> QED BY <3>1, <3>2 DEF ViewInv
  <2> QED BY <2>2, <2>3
<1>2. (SessionInv /\ ViewInv) /\ [ListenNext]_listenVars => (SessionInv /\ ViewInv)'
  BY SessionKept, ViewKept
<1> QED BY <1>1, <1>2, PTL DEF ListenSpec

----------------------------------------------------------------------------
(* The theorems.                                                           *)

\* Type correctness, and with it the bound the code does not write down: an
\* utterance is never longer than the preroll and one timeout of frames.
THEOREM ListenTypes == ListenSpec => []ListenTypeOK
<1>1. SessionInv /\ ViewInv => ListenTypeOK
  <2> SUFFICES ASSUME SessionInv, ViewInv PROVE ListenTypeOK
    OBVIOUS
  <2>1. /\ ep \in Endpointers /\ onset \in Nat /\ idle \in 0 .. Timeout
        /\ ep.speech <= StartFrames /\ ep.silence <= EndFrames - 1 /\ ep.preroll <= PrerollFrames
        /\ ep.buf <= PrerollFrames + idle
        /\ ep.speaking => ep.preroll = 0
        /\ ~ep.speaking => ep.buf = 0 /\ ep.speech < StartFrames
    BY DEF SessionInv, Hears
  <2>2. /\ ep.speaking \in BOOLEAN /\ ep.speech \in Nat /\ ep.silence \in Nat
        /\ ep.preroll \in Nat /\ ep.buf \in Nat
    BY <2>1 DEF Endpointers
  <2>3. /\ ep.speech \in 0 .. StartFrames /\ ep.silence \in 0 .. EndFrames - 1
        /\ ep.preroll \in 0 .. PrerollFrames /\ ep.buf \in 0 .. PrerollFrames + Timeout
    BY <2>1, <2>2, ListeningAssumption
  <2> QED BY <2>1, <2>2, <2>3 DEF SessionInv, ViewInv, ListenTypeOK
<1> QED BY <1>1, ListenInvariant, PTL

\* The buffer of an utterance reaches back to the first frame of the run of
\* speech that started it, for every preroll no shorter than that run.
THEOREM OnsetIsKept == ListenSpec => []OnsetKept
<1>1. SessionInv => OnsetKept
  BY DEF SessionInv, Hears, OnsetKept
<1> QED BY <1>1, ListenInvariant, PTL

\* The core's view comes to the session's state, unless an event was lost.
THEOREM ViewIsRight == ListenSpec => []ViewFollows
<1>1. ViewInv => ViewFollows
  BY ComesToLast DEF ViewInv, ViewFollows, Mode
<1> QED BY <1>1, ListenInvariant, PTL

\* A request to sleep ends no session that woke after it was made.
THEOREM RequestsStayPut == ListenSpec => NoRequestCarriesOver
<1>1. SessionInv /\ [ListenNext]_listenVars
        => [awake /\ request /\ ~awake' => asked = session]_listenVars
  BY DEF SessionInv
<1> QED BY <1>1, ListenInvariant, PTL DEF ListenSpec, NoRequestCarriesOver
=============================================================================
