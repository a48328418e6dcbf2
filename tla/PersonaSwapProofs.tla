------------------------- MODULE PersonaSwapProofs -------------------------
(* Theorems about who navi is: for every set of personas, whatever their   *)
(* weights and tones, and for any number of requests in flight.            *)
EXTENDS PersonaSwap, SequenceTheorems, TLAPS

----------------------------------------------------------------------------
(* The invariant.  Who waits will load a persona that has tones; and as    *)
(* long as no load has broken off, the engine has the voice's weights even *)
(* while another load is under way, because a load that returns changes    *)
(* engine and voice at once and one that is refused changes neither.       *)

\* Engine e has the weights c, and a language that they allow.
Whole(e, c) ==
    /\ e.sovits = c /\ e.gpt = c
    /\ Blank \notin Declared(c) => e.lang \in Declared(c)

SwapInv ==
    /\ SwapTypeOK
    /\ \A r \in Requests : swap[r].phase # "none" => TonesOf[swap[r].to] # {}
    /\ turn.phase \in {"brain", "speaking"} => turn.as = card
    /\ ~damaged => loaded = CkptOf[voice.owner] /\ Whole(engine, loaded)

Swap == [phase : {"none", "waiting", "loading"}, to : Personas]
Turn == [phase : {"none", "waiting", "brain", "speaking"}, as : Personas]

LEMMA NamesDiffer ==
    ASSUME NEW r \in Requests
    PROVE  r # "turn" /\ r # "free"
BY SwapAssumption

LEMMA WeightsType ==
    ASSUME NEW p \in Personas
    PROVE  /\ CkptOf[p] \in Ckpts
           /\ TonesOf[p] # {} => "base" \in TonesOf[p]
BY SwapAssumption

Engine == [lang : Langs, sovits : Ckpts, gpt : Ckpts]

\* A bundle that is loaded leaves the engine whole: her language is set if she
\* declares one, and if she does not the weights allow any.
LEMMA LoadedWhole ==
    ASSUME NEW p \in Personas, TonesOf[p] # {}, NEW present \in Langs,
           NEW e, e = [lang |-> LangGiven(p, present), sovits |-> CkptOf[p], gpt |-> CkptOf[p]]
    PROVE  e \in Engine /\ Whole(e, CkptOf[p])
<1>1. CkptOf[p] \in Ckpts /\ LangGiven(p, present) \in Langs
  BY SwapAssumption DEF LangGiven
<1>2. LangOf[p] \in Declared(CkptOf[p])
  BY DEF Declared
<1>3. LangOf[p] # Blank => LangGiven(p, present) = LangOf[p]
  BY DEF LangGiven
<1>4. e.sovits = CkptOf[p] /\ e.gpt = CkptOf[p] /\ e.lang = LangGiven(p, present)
  OBVIOUS
<1>5. Blank \notin Declared(CkptOf[p]) => e.lang \in Declared(CkptOf[p])
  BY <1>2, <1>3, <1>4
<1> QED BY <1>1, <1>4, <1>5 DEF Whole, Engine

\* A request moves on, and no other does.
LEMMA RequestMoves ==
    ASSUME SwapTypeOK, NEW r \in Requests, NEW s \in Swap, swap' = [swap EXCEPT ![r] = s]
    PROVE  /\ swap' \in [Requests -> Swap]
           /\ swap'[r] = s
           /\ \A q \in Requests \ {r} : swap'[q] = swap[q]
BY DEF SwapTypeOK, Swap

----------------------------------------------------------------------------
(* One lemma for each kind of step.                                        *)

LEMMA TurnSteps ==
    ASSUME SwapInv, TurnArrives \/ TurnGetsLock \/ TurnSpeaks \/ TurnEnds
    PROVE  SwapInv'
<1>1. ASSUME UNCHANGED <<card, voice, loaded, engine, swap, damaged>>, turn' \in Turn,
             holder' \in {holder, "turn", "free"},
             holder' # holder => {holder, holder'} = {"turn", "free"},
             holder' = "turn" <=> turn'.phase \in {"brain", "speaking"},
             turn'.phase \in {"brain", "speaking"} => turn'.as = card
      PROVE  SwapInv'
  BY <1>1, NamesDiffer DEF SwapInv, SwapTypeOK, Turn
<1>2. CASE TurnArrives
  <2>1. CASE FreeForAll
    <3>1. turn' = [phase |-> "brain", as |-> card] /\ holder = "free" /\ holder' = "turn"
      BY <1>2, <2>1 DEF TurnArrives, FreeForAll
    <3>2. turn' \in Turn
      BY <3>1 DEF Turn, SwapInv, SwapTypeOK
    <3> QED BY <1>1, <1>2, <3>1, <3>2 DEF TurnArrives
  <2>2. CASE ~FreeForAll
    <3>1. turn' = [phase |-> "waiting", as |-> card] /\ holder' = holder /\ turn.phase = "none"
      BY <1>2, <2>2 DEF TurnArrives
    <3>2. turn' \in Turn /\ holder # "turn"
      BY <3>1 DEF Turn, SwapInv, SwapTypeOK
    <3> QED BY <1>1, <1>2, <3>1, <3>2 DEF TurnArrives
  <2> QED BY <2>1, <2>2
<1>3. CASE TurnGetsLock
  <2>1. turn' = [phase |-> "brain", as |-> card] /\ holder = "free" /\ holder' = "turn"
    BY <1>3 DEF TurnGetsLock
  <2>2. turn' \in Turn
    BY <2>1 DEF Turn, SwapInv, SwapTypeOK
  <2> QED BY <1>1, <1>3, <2>1, <2>2 DEF TurnGetsLock
<1>4. CASE TurnSpeaks
  <2>1. turn' \in Turn /\ turn'.phase = "speaking" /\ turn'.as = turn.as /\ turn.phase = "brain"
    BY <1>4 DEF TurnSpeaks, Turn, SwapInv, SwapTypeOK
  <2>2. turn.as = card /\ holder = "turn" /\ holder' = holder
    BY <1>4, <2>1 DEF TurnSpeaks, SwapInv, SwapTypeOK
  <2> QED BY <1>1, <1>4, <2>1, <2>2 DEF TurnSpeaks
<1>5. CASE TurnEnds
  <2>1. turn' \in Turn /\ turn'.phase = "none" /\ holder = "turn" /\ holder' = "free"
    BY <1>5, SwapAssumption DEF TurnEnds, NoTurn, Turn, SwapInv, SwapTypeOK
  <2> QED BY <1>1, <1>5, <2>1 DEF TurnEnds
<1> QED BY <1>2, <1>3, <1>4, <1>5

\* A swap comes only when the lock is free, so that no turn is under way.
LEMMA SwapComes ==
    ASSUME SwapInv, NEW r \in Requests, NEW p \in Personas, SwapPersona(r, p)
    PROVE  SwapInv'
<1>0. /\ holder = "free" /\ swap[r].phase = "none" /\ card' = p
      /\ UNCHANGED <<loaded, engine, turn, damaged>>
      /\ turn.phase \notin {"brain", "speaking"}
  BY DEF SwapPersona, IsPlaying, SwapInv, SwapTypeOK
<1>1. CASE TonesOf[p] = {}
  BY <1>0, <1>1, NamesDiffer DEF SwapPersona, SwapInv, SwapTypeOK
<1>2. CASE TonesOf[p] # {} /\ CkptOf[p] = loaded
  <2>1. voice' = [owner |-> p, tone |-> "base"] /\ UNCHANGED <<holder, waiters, swap>>
    BY <1>2 DEF SwapPersona, VoiceOf, DefaultVoice
  <2> QED BY <1>0, <1>2, <2>1, WeightsType DEF SwapInv, SwapTypeOK
<1>3. CASE TonesOf[p] # {} /\ CkptOf[p] # loaded
  <2>1. voice' = voice
    BY <1>3 DEF SwapPersona
  <2>2. CASE FreeForAll
    <3>1. holder' = r /\ swap' = [swap EXCEPT ![r] = [phase |-> "loading", to |-> p]]
      BY <1>3, <2>2 DEF SwapPersona
    <3>2. /\ swap' \in [Requests -> Swap] /\ swap'[r] = [phase |-> "loading", to |-> p]
          /\ \A q \in Requests \ {r} : swap'[q] = swap[q]
      BY <3>1, RequestMoves DEF Swap, SwapInv
    <3> QED BY <1>0, <1>3, <2>1, <3>1, <3>2, NamesDiffer DEF SwapInv, SwapTypeOK, Swap
  <2>3. CASE ~FreeForAll
    <3>1. holder' = holder /\ swap' = [swap EXCEPT ![r] = [phase |-> "waiting", to |-> p]]
      BY <1>3, <2>3 DEF SwapPersona
    <3>2. /\ swap' \in [Requests -> Swap] /\ swap'[r] = [phase |-> "waiting", to |-> p]
          /\ \A q \in Requests \ {r} : swap'[q] = swap[q]
      BY <3>1, RequestMoves DEF Swap, SwapInv
    <3> QED BY <1>0, <1>3, <2>1, <3>1, <3>2, NamesDiffer DEF SwapInv, SwapTypeOK, Swap
  <2> QED BY <2>2, <2>3
<1> QED BY <1>1, <1>2, <1>3

----------------------------------------------------------------------------
(* The queue of the lock holds whoever waits for it, each once.  So the     *)
(* request that is woken is one that waited, with a persona to load.       *)

Waiting == {w \in Requests \cup {"turn"} :
               IF w = "turn" THEN turn.phase = "waiting" ELSE swap[w].phase = "waiting"}

QueueInv ==
    /\ waiters \in Seq(Waiting)
    /\ \A i, j \in 1 .. Len(waiters) : waiters[i] = waiters[j] => i = j
    /\ \A w \in Waiting : \E i \in 1 .. Len(waiters) : waiters[i] = w

LEMMA SeqOfElements ==
    ASSUME NEW S, NEW T, NEW s \in Seq(S), \A i \in 1 .. Len(s) : s[i] \in T
    PROVE  s \in Seq(T)
<1>1. Len(s) \in Nat /\ s \in [1 .. Len(s) -> S]
  BY LenProperties
<1>2. s \in [1 .. Len(s) -> T]
  BY <1>1
<1> QED BY <1>1, <1>2, SeqDef

LEMMA SameQueue ==
    ASSUME QueueInv, waiters' = waiters, Waiting' = Waiting
    PROVE  QueueInv'
BY DEF QueueInv

LEMMA JoinsQueue ==
    ASSUME QueueInv, NEW w, waiters' = Append(waiters, w), w \notin Waiting,
           Waiting' = Waiting \cup {w}
    PROVE  QueueInv'
<1> DEFINE n == Len(waiters)
<1>1. n \in Nat /\ Len(waiters') = n + 1 /\ waiters'[n + 1] = w
      /\ \A i \in 1 .. n : waiters'[i] = waiters[i] /\ waiters[i] \in Waiting
  BY DEF QueueInv
<1>2. waiters' \in Seq(Waiting')
  BY DEF QueueInv
<1>3. \A i \in 1 .. Len(waiters') : i \in 1 .. n \/ i = n + 1
  BY <1>1
<1>4. \A i, j \in 1 .. Len(waiters') : waiters'[i] = waiters'[j] => i = j
  <2>1. \A i, j \in 1 .. n : waiters'[i] = waiters'[j] => i = j
    BY <1>1 DEF QueueInv
  <2>2. \A i \in 1 .. n : waiters'[i] # waiters'[n + 1]
    BY <1>1
  <2> SUFFICES ASSUME NEW i \in 1 .. Len(waiters'), NEW j \in 1 .. Len(waiters'),
                      waiters'[i] = waiters'[j]
               PROVE  i = j
    OBVIOUS
  <2>3. CASE i \in 1 .. n /\ j \in 1 .. n
    BY <2>1, <2>3
  <2>4. CASE i = n + 1 \/ j = n + 1
    BY <1>3, <2>2, <2>4
  <2> QED BY <1>3, <2>3, <2>4
<1>5. \A v \in Waiting' : \E i \in 1 .. Len(waiters') : waiters'[i] = v
  <2> SUFFICES ASSUME NEW v \in Waiting' PROVE \E i \in 1 .. Len(waiters') : waiters'[i] = v
    OBVIOUS
  <2>1. CASE v = w
    BY <1>1, <2>1
  <2>2. CASE v \in Waiting
    <3>1. PICK i \in 1 .. n : waiters[i] = v
      BY <2>2 DEF QueueInv
    <3> QED BY <1>1, <3>1
  <2> QED BY <2>1, <2>2
<1> QED BY <1>2, <1>4, <1>5 DEF QueueInv

LEMMA LeavesQueue ==
    ASSUME QueueInv, waiters # <<>>, waiters' = Tail(waiters),
           Waiting' = Waiting \ {Head(waiters)}
    PROVE  QueueInv'
<1> DEFINE n == Len(waiters)
<1>1. n \in Nat \ {0} /\ Len(waiters') = n - 1 /\ Head(waiters) = waiters[1]
      /\ \A i \in 1 .. n - 1 : waiters'[i] = waiters[i + 1]
  BY DEF QueueInv
<1>2. \A i \in 1 .. n - 1 : waiters'[i] \in Waiting'
  <2> SUFFICES ASSUME NEW i \in 1 .. n - 1 PROVE waiters'[i] \in Waiting'
    OBVIOUS
  <2>1. i + 1 \in 1 .. n /\ 1 \in 1 .. n /\ i + 1 # 1
    BY <1>1
  <2>2. waiters[i + 1] \in Waiting /\ waiters[i + 1] # waiters[1]
    BY <2>1 DEF QueueInv
  <2> QED BY <1>1, <2>2
<1>3. waiters' \in Seq(Waiting')
  <2>1. waiters' \in Seq(Waiting)
    BY DEF QueueInv
  <2> QED BY <1>1, <1>2, <2>1, SeqOfElements
<1>4. \A i, j \in 1 .. Len(waiters') : waiters'[i] = waiters'[j] => i = j
  <2> SUFFICES ASSUME NEW i \in 1 .. n - 1, NEW j \in 1 .. n - 1, waiters'[i] = waiters'[j] PROVE i = j
    BY <1>1
  <2>1. i + 1 \in 1 .. n /\ j + 1 \in 1 .. n /\ waiters[i + 1] = waiters[j + 1]
    BY <1>1
  <2>2. i + 1 = j + 1
    BY <2>1 DEF QueueInv
  <2> QED BY <2>2
<1>5. \A v \in Waiting' : \E i \in 1 .. Len(waiters') : waiters'[i] = v
  <2> SUFFICES ASSUME NEW v \in Waiting' PROVE \E i \in 1 .. Len(waiters') : waiters'[i] = v
    OBVIOUS
  <2>1. PICK i \in 1 .. n : waiters[i] = v
    BY DEF QueueInv
  <2>2. i # 1
    BY <1>1, <2>1
  <2>3. i - 1 \in 1 .. n - 1 /\ (i - 1) + 1 = i
    BY <1>1, <2>2
  <2> QED BY <1>1, <2>1, <2>3
<1> QED BY <1>3, <1>4, <1>5 DEF QueueInv

LEMMA WokenWaited ==
    ASSUME QueueInv, NEW r \in Requests, SwapGetsLock(r)
    PROVE  swap[r].phase = "waiting"
<1>1. r \in Waiting
  BY DEF QueueInv, SwapGetsLock
<1> QED BY <1>1, NamesDiffer DEF Waiting

LEMMA SwapWoken ==
    ASSUME SwapInv, QueueInv, NEW r \in Requests, SwapGetsLock(r)
    PROVE  SwapInv'
<1>1. /\ holder = "free" /\ holder' = r /\ UNCHANGED <<card, voice, loaded, engine, turn, damaged>>
      /\ swap' = [swap EXCEPT ![r] = [swap[r] EXCEPT !.phase = "loading"]]
      /\ swap[r].phase # "none"
  BY WokenWaited DEF SwapGetsLock
<1>2. [swap[r] EXCEPT !.phase = "loading"] \in Swap
      /\ [swap[r] EXCEPT !.phase = "loading"].phase = "loading"
      /\ [swap[r] EXCEPT !.phase = "loading"].to = swap[r].to
  BY DEF SwapInv, SwapTypeOK, Swap
<1>3. /\ swap' \in [Requests -> Swap] /\ swap'[r].phase = "loading" /\ swap'[r].to = swap[r].to
      /\ \A q \in Requests \ {r} : swap'[q] = swap[q]
  BY <1>1, <1>2, RequestMoves DEF SwapInv
<1> QED BY <1>1, <1>3, NamesDiffer DEF SwapInv, SwapTypeOK, Swap

\* A load that ends, well or badly, frees the lock and its request.
LEMMA LoadEnds ==
    ASSUME SwapInv, NEW r \in Requests, swap[r].phase = "loading", holder' = "free",
           swap' = [swap EXCEPT ![r] = NoSwap]
    PROVE  /\ swap' \in [Requests -> Swap] /\ swap'[r] = NoSwap
           /\ \A q \in Requests \ {r} : swap'[q] = swap[q]
           /\ \A q \in Requests : swap'[q].phase # "loading" /\ holder' # q
           /\ holder = r /\ turn.phase \notin {"brain", "speaking"}
<1>1. NoSwap \in Swap
  BY SwapAssumption DEF NoSwap, Swap
<1>2. /\ swap' \in [Requests -> Swap] /\ swap'[r] = NoSwap
      /\ \A q \in Requests \ {r} : swap'[q] = swap[q]
  BY <1>1, RequestMoves DEF SwapInv
<1>3. holder = r
  BY DEF SwapInv, SwapTypeOK
<1>4. \A q \in Requests \ {r} : swap[q].phase # "loading"
  BY <1>3 DEF SwapInv, SwapTypeOK
<1>5. turn.phase \notin {"brain", "speaking"}
  BY <1>3, NamesDiffer DEF SwapInv, SwapTypeOK
<1> QED BY <1>2, <1>3, <1>4, <1>5, NamesDiffer DEF NoSwap

LEMMA SwapEnds ==
    ASSUME SwapInv, NEW r \in Requests, SwapLoads(r) \/ SwapFails(r)
    PROVE  SwapInv'
<1>1. /\ swap[r].phase = "loading" /\ holder' = "free" /\ UNCHANGED <<card, turn>>
      /\ swap' = [swap EXCEPT ![r] = NoSwap]
  BY DEF SwapLoads, SwapFails
<1>2. /\ swap' \in [Requests -> Swap] /\ swap'[r] = NoSwap
      /\ \A q \in Requests \ {r} : swap'[q] = swap[q]
      /\ \A q \in Requests : swap'[q].phase # "loading" /\ holder' # q
      /\ holder = r /\ turn.phase \notin {"brain", "speaking"}
  BY <1>1, LoadEnds
<1>3. PICK p \in Personas : p = swap[r].to /\ TonesOf[p] # {}
  BY <1>1 DEF SwapInv, SwapTypeOK
<1>4. CASE SwapLoads(r)
  <2>1. /\ engine' = [lang |-> LangGiven(p, engine.lang), sovits |-> CkptOf[p], gpt |-> CkptOf[p]]
        /\ loaded' = CkptOf[p] /\ damaged' = FALSE
        /\ voice' = [owner |-> p, tone |-> "base"]
    BY <1>3, <1>4 DEF SwapLoads, VoiceOf, DefaultVoice
  <2>2. engine.lang \in Langs
    BY DEF SwapInv, SwapTypeOK
  <2>3. engine' \in Engine /\ Whole(engine', loaded')
    BY <1>3, <2>1, <2>2, LoadedWhole
  <2>4. SwapTypeOK'
    BY <1>1, <1>2, <1>3, <2>1, <2>3, WeightsType DEF SwapInv, SwapTypeOK, Swap, Engine
  <2> QED BY <1>1, <1>2, <2>1, <2>3, <2>4 DEF SwapInv, NoSwap
<1>5. CASE SwapFails(r)
  <2>0. engine \in Engine
    BY DEF SwapInv, SwapTypeOK, Engine
  <2>1. UNCHANGED <<voice, loaded>>
    BY <1>5 DEF SwapFails
  <2>2. CASE engine' = engine /\ damaged' = damaged
    BY <1>1, <1>2, <2>1, <2>2 DEF SwapInv, SwapTypeOK, NoSwap, Swap
  <2>3. CASE engine' \in Engine /\ damaged' = TRUE
    BY <1>1, <1>2, <2>1, <2>3 DEF SwapInv, SwapTypeOK, NoSwap, Swap, Engine
  <2> DEFINE relanguaged == [engine EXCEPT !.lang = LangGiven(p, engine.lang)]
  <2>4. relanguaged \in Engine
    BY <2>0, SwapAssumption DEF LangGiven, Engine
  <2>5. [relanguaged EXCEPT !.sovits = CkptOf[p]] \in Engine
    BY <2>4, WeightsType DEF Engine
  <2> QED BY <1>3, <1>5, <2>2, <2>3, <2>4, <2>5 DEF SwapFails
<1> QED BY <1>4, <1>5

LEMMA VoiceSet ==
    ASSUME SwapInv, NEW tone \in ToneNames, SetVoice(tone)
    PROVE  SwapInv'
<1>1. /\ UNCHANGED <<card, loaded, engine, holder, turn, swap, damaged>>
      /\ tone \in TonesOf[voice.owner] /\ voice' = [voice EXCEPT !.tone = tone]
  BY DEF SetVoice
<1> QED BY <1>1 DEF SwapInv, SwapTypeOK

LEMMA IdleSwap ==
    ASSUME SwapInv, UNCHANGED idVars
    PROVE  SwapInv'
BY DEF SwapInv, SwapTypeOK, idVars

LEMMA QueueKept ==
    ASSUME SwapInv, QueueInv, [SwapNext]_idVars
    PROVE  QueueInv'
<1>1. ASSUME waiters' = waiters, swap' = swap,
             turn.phase = "waiting" <=> turn'.phase = "waiting"
      PROVE  QueueInv'
  <2>1. Waiting' = Waiting
    BY <1>1 DEF Waiting
  <2> QED BY <1>1, <2>1, SameQueue
<1>2. ASSUME NEW r \in Requests, waiters' = waiters, turn' = turn,
             swap[r].phase = "waiting" <=> swap'[r].phase = "waiting",
             \A q \in Requests \ {r} : swap'[q] = swap[q]
      PROVE  QueueInv'
  <2>1. Waiting' = Waiting
    BY <1>2 DEF Waiting
  <2> QED BY <1>2, <2>1, SameQueue
<1>3. CASE TurnArrives
  <2>1. CASE FreeForAll
    BY <1>1, <1>3, <2>1 DEF TurnArrives
  <2>2. CASE ~FreeForAll
    <3>1. /\ turn.phase = "none" /\ turn'.phase = "waiting" /\ swap' = swap
          /\ waiters' = Append(waiters, "turn")
      BY <1>3, <2>2 DEF TurnArrives
    <3>2. "turn" \notin Waiting /\ Waiting' = Waiting \cup {"turn"}
      BY <3>1 DEF Waiting
    <3> QED BY <3>1, <3>2, JoinsQueue
  <2> QED BY <2>1, <2>2
<1>4. CASE TurnGetsLock
  <2>1. /\ waiters # <<>> /\ Head(waiters) = "turn" /\ waiters' = Tail(waiters)
        /\ turn'.phase = "brain" /\ swap' = swap
    BY <1>4 DEF TurnGetsLock
  <2>2. Waiting' = Waiting \ {"turn"}
    BY <2>1 DEF Waiting
  <2> QED BY <2>1, <2>2, LeavesQueue
<1>5. CASE TurnSpeaks \/ TurnEnds
  <2>1. turn.phase # "waiting" /\ turn'.phase # "waiting"
    BY <1>5 DEF TurnSpeaks, TurnEnds, NoTurn, SwapInv, SwapTypeOK
  <2> QED BY <1>1, <1>5, <2>1 DEF TurnSpeaks, TurnEnds
<1>6. ASSUME NEW r \in Requests, NEW p \in Personas, SwapPersona(r, p)
      PROVE  QueueInv'
  <2>1. swap[r].phase = "none" /\ turn' = turn
    BY <1>6 DEF SwapPersona
  <2>2. CASE UNCHANGED <<waiters, swap>>
    BY <1>1, <2>1, <2>2
  <2>3. CASE waiters' = waiters /\ swap' = [swap EXCEPT ![r] = [phase |-> "loading", to |-> p]]
    <3>1. swap'[r].phase = "loading" /\ \A q \in Requests \ {r} : swap'[q] = swap[q]
      BY <2>3, RequestMoves DEF Swap, SwapInv
    <3> QED BY <1>2, <2>1, <2>3, <3>1
  <2>4. CASE /\ waiters' = Append(waiters, r)
             /\ swap' = [swap EXCEPT ![r] = [phase |-> "waiting", to |-> p]]
    <3>1. swap'[r].phase = "waiting" /\ \A q \in Requests \ {r} : swap'[q] = swap[q]
      BY <2>4, RequestMoves DEF Swap, SwapInv
    <3>2. r \notin Waiting /\ Waiting' = Waiting \cup {r}
      BY <2>1, <3>1, NamesDiffer DEF Waiting
    <3> QED BY <2>4, <3>2, JoinsQueue
  <2> QED BY <1>6, <2>2, <2>3, <2>4 DEF SwapPersona
<1>7. ASSUME NEW r \in Requests, SwapGetsLock(r)
      PROVE  QueueInv'
  <2>1. /\ waiters # <<>> /\ Head(waiters) = r /\ waiters' = Tail(waiters) /\ turn' = turn
        /\ swap' = [swap EXCEPT ![r] = [swap[r] EXCEPT !.phase = "loading"]]
    BY <1>7 DEF SwapGetsLock
  <2>2. swap'[r].phase = "loading" /\ \A q \in Requests \ {r} : swap'[q] = swap[q]
    BY <2>1 DEF SwapInv, SwapTypeOK
  <2>3. Waiting' = Waiting \ {r}
    BY <2>1, <2>2, NamesDiffer DEF Waiting
  <2> QED BY <2>1, <2>3, LeavesQueue
<1>8. ASSUME NEW r \in Requests, SwapLoads(r) \/ SwapFails(r)
      PROVE  QueueInv'
  <2>1. /\ swap[r].phase = "loading" /\ holder' = "free" /\ UNCHANGED <<waiters, turn>>
        /\ swap' = [swap EXCEPT ![r] = NoSwap]
    BY <1>8 DEF SwapLoads, SwapFails
  <2>2. swap'[r] = NoSwap /\ \A q \in Requests \ {r} : swap'[q] = swap[q]
    BY <2>1, LoadEnds
  <2> QED BY <1>2, <2>1, <2>2 DEF NoSwap
<1>9. ASSUME NEW tone \in ToneNames, SetVoice(tone)
      PROVE  QueueInv'
  BY <1>1, <1>9 DEF SetVoice
<1>10. CASE UNCHANGED idVars
  BY <1>1, <1>10 DEF idVars
<1> QED BY <1>3, <1>4, <1>5, <1>6, <1>7, <1>8, <1>9, <1>10 DEF SwapNext

LEMMA SwapInvariant == SwapSpec => [](SwapInv /\ QueueInv)
<1>1. SwapInit => SwapInv /\ QueueInv
  <2> SUFFICES ASSUME SwapInit PROVE SwapInv /\ QueueInv
    OBVIOUS
  <2>1. \A r \in Requests : swap[r] = NoSwap
    BY DEF SwapInit
  <2>2. engine \in Engine /\ Whole(engine, loaded)
    BY SwapAssumption, LoadedWhole DEF SwapInit
  <2>4. SwapInv
    BY <2>1, <2>2, SwapAssumption, NamesDiffer, WeightsType
       DEF SwapInit, SwapInv, SwapTypeOK, NoTurn, NoSwap, Engine
  <2>3. Waiting = {} /\ waiters = <<>>
    BY <2>1 DEF SwapInit, Waiting, NoTurn, NoSwap
  <2> QED BY <2>3, <2>4 DEF QueueInv
<1>2. SwapInv /\ QueueInv /\ [SwapNext]_idVars => SwapInv' /\ QueueInv'
  <2> SUFFICES ASSUME SwapInv, QueueInv, [SwapNext]_idVars PROVE SwapInv' /\ QueueInv'
    OBVIOUS
  <2>1. SwapInv'
    <3>1. CASE TurnArrives \/ TurnGetsLock \/ TurnSpeaks \/ TurnEnds
      BY <3>1, TurnSteps
    <3>2. ASSUME NEW r \in Requests, NEW p \in Personas, SwapPersona(r, p) PROVE SwapInv'
      BY <3>2, SwapComes
    <3>3. ASSUME NEW r \in Requests, SwapGetsLock(r) PROVE SwapInv'
      BY <3>3, SwapWoken
    <3>4. ASSUME NEW r \in Requests, SwapLoads(r) \/ SwapFails(r) PROVE SwapInv'
      BY <3>4, SwapEnds
    <3>5. ASSUME NEW tone \in ToneNames, SetVoice(tone) PROVE SwapInv'
      BY <3>5, VoiceSet
    <3>6. CASE UNCHANGED idVars
      BY <3>6, IdleSwap
    <3> QED BY <3>1, <3>2, <3>3, <3>4, <3>5, <3>6 DEF SwapNext
  <2> QED BY <2>1, QueueKept
<1> QED BY <1>1, <1>2, PTL DEF SwapSpec

----------------------------------------------------------------------------
(* The theorems.                                                           *)

\* Type correctness: the voice is always a tone of its owner's bundle, and the
\* turn lock is held by the turn or the load that is at work under it.
THEOREM SwapTypes == SwapSpec => []SwapTypeOK
<1>1. SwapInv => SwapTypeOK
  BY DEF SwapInv
<1> QED BY <1>1, SwapInvariant, PTL

\* However swaps and turns are queued and interleaved, a turn speaks with the
\* card it was asked for with, voice and weights go together, and the language
\* is one declared for these weights, where each bundle that has them declares
\* one.
THEOREM IdentityKept == SwapSpec => []OneIdentity
<1>1. SwapInv => OneIdentity
  BY DEF SwapInv, OneIdentity, Whole
<1> QED BY <1>1, SwapInvariant, PTL

\* No step changes card, voice or weights under a turn.
THEOREM TurnsUndisturbed == SwapSpec => TurnUndisturbed
<1>1. SwapInv /\ [SwapNext]_idVars
         => [holder = "turn" /\ holder' = "turn" => UNCHANGED <<card, voice, engine>>]_idVars
  <2> SUFFICES ASSUME SwapInv, SwapNext, holder = "turn", holder' = "turn"
               PROVE  UNCHANGED <<card, voice, engine>>
    OBVIOUS
  <2>1. ASSUME NEW r \in Requests, SwapLoads(r) \/ SwapFails(r) PROVE FALSE
    BY <2>1, NamesDiffer DEF SwapLoads, SwapFails, SwapInv, SwapTypeOK
  <2>2. ASSUME NEW r \in Requests, NEW p \in Personas, SwapPersona(r, p) PROVE FALSE
    BY <2>2 DEF SwapPersona, IsPlaying
  <2>3. ASSUME NEW tone \in ToneNames, SetVoice(tone) PROVE FALSE
    BY <2>3 DEF SetVoice, IsPlaying
  <2> QED BY <2>1, <2>2, <2>3
          DEF SwapNext, TurnArrives, TurnGetsLock, TurnSpeaks, TurnEnds, SwapGetsLock
<1> QED BY <1>1, SwapInvariant, PTL DEF SwapSpec, TurnUndisturbed
=============================================================================
