---------------------------- MODULE PersonaSwap -----------------------------
(***************************************************************************)
(* Who navi is while she runs: the character card, the voice (a tone of a  *)
(* persona's bundle) and the weights in the engine, swapped from the GUI   *)
(* while turns come and go.  A turn and the loading of weights hold the    *)
(* turn lock, an asyncio.Lock: release frees it at once, and a waiter gets *)
(* it one round of the loop later, so other handlers can run in between    *)
(* and see it unlocked.                                                    *)
(*                                                                         *)
(* This is a session with the gptsovits engine, which can swap weights.    *)
(* Requests that are refused (404, 409, 422) change nothing and are left   *)
(* out.                                                                    *)
(***************************************************************************)
EXTENDS Sequences, Naturals

CONSTANTS Personas, Boot,   \* the cards, and the one of this session's start
          Ckpts, CkptOf,    \* checkpoint pairs, and each bundle's
          Langs, LangOf,    \* languages, and each bundle's (ref_lang and gen_lang alike)
          Blank,            \* a bundle that declares no language
          ConfigLang,       \* the language of config.yaml
          ToneNames, TonesOf, \* tones, and each bundle's: the first one is "base"
          Requests          \* POST /persona requests that may be in flight

ASSUME SwapAssumption ==
    /\ Boot \in Personas
    /\ CkptOf \in [Personas -> Ckpts]
    /\ Blank \notin Langs /\ ConfigLang \in Langs
    /\ LangOf \in [Personas -> Langs \cup {Blank}]
    /\ TonesOf \in [Personas -> SUBSET ToneNames]
    /\ \A p \in Personas : TonesOf[p] # {} => "base" \in TonesOf[p]
    /\ "base" \in TonesOf[Boot]
    /\ {"turn", "free"} \cap Requests = {}

VARIABLES card,     \* Conductor._card and SwapRuntime._persona_id
          voice,    \* _voice_persona_id and TurnPipeline._voice
          loaded,   \* SwapRuntime._loaded_ckpts
          engine,   \* what the engine has: language, SoVITS and GPT weights
          holder,   \* who holds the turn lock
          waiters,  \* who waits for it
          turn,     \* the core's turn
          swap,     \* the requests in flight
          damaged   \* a load broke off and none has succeeded since

idVars == <<card, voice, loaded, engine, holder, waiters, turn, swap, damaged>>

\* "A blank language keeps the present one", at the boot that of config.yaml.
LangGiven(p, present) == IF LangOf[p] = Blank THEN present ELSE LangOf[p]

NoTurn == [phase |-> "none", as |-> Boot]
NoSwap == [phase |-> "none", to |-> Boot]

SwapInit ==
    /\ card = Boot
    /\ voice = [owner |-> Boot, tone |-> "base"]
    /\ loaded = CkptOf[Boot]
    /\ engine = [lang |-> LangGiven(Boot, ConfigLang), sovits |-> CkptOf[Boot], gpt |-> CkptOf[Boot]]
    /\ holder = "free" /\ waiters = <<>>
    /\ turn = NoTurn
    /\ swap = [r \in Requests |-> NoSwap]
    /\ damaged = FALSE

----------------------------------------------------------------------------
(* The lock, and the guard that looks at it.                               *)

FreeForAll == holder = "free" /\ waiters = <<>>

MouthPlays == turn.phase = "speaking"
IsPlayingMouth == MouthPlays
IsPlaying == MouthPlays \/ holder # "free"

----------------------------------------------------------------------------
(* TurnPipeline.run_turn: the request is built with the card of the moment *)
(* the lock is taken; the voice is chosen after the brain's first tokens.  *)

TurnArrives ==
    /\ turn.phase = "none"
    /\ IF FreeForAll
       THEN /\ holder' = "turn" /\ waiters' = waiters
            /\ turn' = [phase |-> "brain", as |-> card]
       ELSE /\ holder' = holder /\ waiters' = Append(waiters, "turn")
            /\ turn' = [phase |-> "waiting", as |-> card]
    /\ UNCHANGED <<card, voice, loaded, engine, swap, damaged>>
TurnBuiltEarly ==
    /\ holder = "free" /\ waiters # <<>> /\ Head(waiters) = "turn"
    /\ holder' = "turn" /\ waiters' = Tail(waiters)
    /\ turn' = [turn EXCEPT !.phase = "brain"]
    /\ UNCHANGED <<card, voice, loaded, engine, swap, damaged>>
TurnGetsLock ==
    /\ holder = "free" /\ waiters # <<>> /\ Head(waiters) = "turn"
    /\ holder' = "turn" /\ waiters' = Tail(waiters)
    /\ turn' = [phase |-> "brain", as |-> card]
    /\ UNCHANGED <<card, voice, loaded, engine, swap, damaged>>
TurnSpeaks ==
    /\ turn.phase = "brain"
    /\ turn' = [turn EXCEPT !.phase = "speaking"]
    /\ UNCHANGED <<card, voice, loaded, engine, holder, waiters, swap, damaged>>
TurnEnds ==
    /\ turn.phase \in {"brain", "speaking"}
    /\ turn' = NoTurn
    /\ holder' = "free"
    /\ UNCHANGED <<card, voice, loaded, engine, waiters, swap, damaged>>

----------------------------------------------------------------------------
(* SwapRuntime.swap_persona for an available persona.  The card changes at *)
(* once; the voice follows at once too if the weights are the ones loaded  *)
(* (whatever languages the bundle declares: the engine is not told), after *)
(* the load if they are not, and never if the bundle has no tone.          *)

DefaultVoice(p) == [owner |-> p, tone |-> "base"]
OwnerOnly(p) == [voice EXCEPT !.owner = p]
VoiceOf(p) == DefaultVoice(p)

SwapPersona(r, p) ==
    /\ swap[r].phase = "none" /\ ~IsPlaying
    /\ card' = p
    /\ \/ /\ TonesOf[p] = {}
          /\ UNCHANGED <<voice, holder, waiters, swap>>
       \/ /\ TonesOf[p] # {} /\ CkptOf[p] = loaded
          /\ voice' = VoiceOf(p)
          /\ UNCHANGED <<holder, waiters, swap>>
       \/ /\ TonesOf[p] # {} /\ CkptOf[p] # loaded
          /\ voice' = voice
          /\ IF FreeForAll
             THEN /\ holder' = r /\ waiters' = waiters
                  /\ swap' = [swap EXCEPT ![r] = [phase |-> "loading", to |-> p]]
             ELSE /\ holder' = holder /\ waiters' = Append(waiters, r)
                  /\ swap' = [swap EXCEPT ![r] = [phase |-> "waiting", to |-> p]]
    /\ UNCHANGED <<loaded, engine, turn, damaged>>

SwapGetsLock(r) ==
    /\ holder = "free" /\ waiters # <<>> /\ Head(waiters) = r
    /\ holder' = r /\ waiters' = Tail(waiters)
    /\ swap' = [swap EXCEPT ![r].phase = "loading"]
    /\ UNCHANGED <<card, voice, loaded, engine, turn, damaged>>

\* set_weights in its thread, then the rest of swap_persona without an await.
SwapLoads(r) ==
    /\ swap[r].phase = "loading"
    /\ LET p == swap[r].to
       IN  /\ engine' = [lang |-> LangGiven(p, engine.lang), sovits |-> CkptOf[p], gpt |-> CkptOf[p]]
           /\ loaded' = CkptOf[p]
           /\ voice' = VoiceOf(p)
    /\ holder' = "free" /\ damaged' = FALSE
    /\ swap' = [swap EXCEPT ![r] = NoSwap]
    /\ UNCHANGED <<card, waiters, turn>>

\* set_weights raises: before anything changed (a file is gone by now, or the
\* language is one the engine does not know), with the new languages set, or
\* with the new SoVITS weights loaded as well.
RefusedHoldingLock(r) ==
    /\ swap[r].phase = "loading"
    /\ swap' = [swap EXCEPT ![r] = NoSwap]
    /\ UNCHANGED <<card, voice, loaded, engine, holder, waiters, turn, damaged>>
SwapFails(r) ==
    /\ swap[r].phase = "loading"
    /\ holder' = "free"
    /\ swap' = [swap EXCEPT ![r] = NoSwap]
    /\ LET p == swap[r].to
           relanguaged == [engine EXCEPT !.lang = LangGiven(p, @)]
       IN  \/ engine' = engine /\ damaged' = damaged
           \/ engine' = relanguaged /\ damaged' = TRUE
           \/ engine' = [relanguaged EXCEPT !.sovits = CkptOf[p]] /\ damaged' = TRUE
    /\ UNCHANGED <<card, voice, loaded, waiters, turn>>

\* POST /voice: another tone of the voice's owner.
SetVoice(tone) ==
    /\ ~IsPlaying
    /\ tone \in TonesOf[voice.owner]
    /\ voice' = [voice EXCEPT !.tone = tone]
    /\ UNCHANGED <<card, loaded, engine, holder, waiters, turn, swap, damaged>>

SwapNext ==
    \/ TurnArrives \/ TurnGetsLock \/ TurnSpeaks \/ TurnEnds
    \/ \E r \in Requests :
          \/ \E p \in Personas : SwapPersona(r, p)
          \/ SwapGetsLock(r) \/ SwapLoads(r) \/ SwapFails(r)
    \/ \E tone \in ToneNames : SetVoice(tone)

\* Turns end and loads return, one way or the other; a waiter that is woken
\* runs.
SwapSpec ==
    /\ SwapInit /\ [][SwapNext]_idVars
    /\ WF_idVars(TurnGetsLock) /\ WF_idVars(TurnEnds)
    /\ \A r \in Requests : WF_idVars(SwapGetsLock(r)) /\ WF_idVars(SwapLoads(r) \/ SwapFails(r))

----------------------------------------------------------------------------
(* Properties.                                                             *)

\* The variables hold what they should, the voice is a tone of its owner's
\* bundle, and the lock is held by whoever is at work under it.
SwapTypeOK ==
    /\ card \in Personas /\ loaded \in Ckpts /\ damaged \in BOOLEAN
    /\ voice.owner \in Personas /\ voice.tone \in TonesOf[voice.owner]
    /\ engine \in [lang : Langs, sovits : Ckpts, gpt : Ckpts]
    /\ turn \in [phase : {"none", "waiting", "brain", "speaking"}, as : Personas]
    /\ swap \in [Requests -> [phase : {"none", "waiting", "loading"}, to : Personas]]
    /\ holder = "turn" <=> turn.phase \in {"brain", "speaking"}
    /\ \A r \in Requests : holder = r <=> swap[r].phase = "loading"

\* While a turn runs nobody changes who navi is: neither the card her words
\* were asked for with, nor her voice, nor the weights it is made with.
TurnUndisturbed ==
    [][ holder = "turn" /\ holder' = "turn" => UNCHANGED <<card, voice, engine>> ]_idVars

\* One identity, whatever swaps were queued and interleaved: the words of a
\* turn were asked for with the card navi has while she speaks them, however
\* long it waited for the lock; and voice and weights go together (principle of
\* voice continuity): once no load is under way the engine has the weights of
\* the voice's bundle, unless a load has broken off half-way since the last
\* that succeeded.  Its language is one that the bundles with these weights
\* declare, if all of them do: the owner's own when they agree, but when they
\* do not, or one is blank, it may be that of a persona before her.
Declared(c) == {LangOf[p] : p \in {q \in Personas : CkptOf[q] = c /\ TonesOf[q] # {}}}
OneIdentity ==
    /\ turn.phase \in {"brain", "speaking"} => turn.as = card
    /\ ~damaged =>
         /\ loaded = CkptOf[voice.owner]
         /\ (\A r \in Requests : swap[r].phase # "loading")
               => /\ engine.sovits = loaded /\ engine.gpt = loaded
                  /\ Blank \notin Declared(loaded) => engine.lang \in Declared(loaded)

\* A turn that waits for a swap gets its turn, whether the swap succeeds or
\* fails, and so does a swap that waits.
WaitersServed ==
    /\ turn.phase = "waiting" ~> turn.phase # "waiting"
    /\ \A r \in Requests : swap[r].phase = "waiting" ~> swap[r].phase # "waiting"
=============================================================================
