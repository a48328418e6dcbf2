----------------------------- MODULE Preflight ------------------------------
(***************************************************************************)
(* What a machine can start, twice over: as preflight.py judges it for the *)
(* launcher's chips and as run_navi.ps1, load_config and the boot of the   *)
(* daemon find it.  Nothing here has state: a machine is a record of what  *)
(* is installed and configured.                                            *)
(*                                                                         *)
(* A card is broken (CharacterCard.load raises) or declares the vendors of *)
(* its voice in order, <<>> if it has no voice, with the two weights and   *)
(* the languages of its gptsovits section.  A section may have any name:   *)
(* "other" is one that no engine is registered under.  Weights are "none"  *)
(* (not named), "here" or "gone" (named, but there is no file); a language *)
(* is "none" (not named), "known" to the engine or "unknown".              *)
(***************************************************************************)
EXTENDS Sequences, Integers, FiniteSets

Vendors == {"gptsovits", "supertonic", "fake"}
Sections == Vendors \union {"other"}
Weights == {"none", "here", "gone"}
Card == [broken : BOOLEAN, vendors : {<<>>} \union {<<v>> : v \in Sections} \union (Sections \X Sections),
         gpt : Weights, sovits : Weights, lang : {"none", "known", "unknown"}]

\* keys: of .env; models: the vendors brain.models names; vendor, gpt, sovits,
\* lang: mouth of config.yaml; summarizer: "off" when the feed is; base: the
\* repo's zero-shot weights; cards: in the order of their names; default:
\* card_path.
Machine(cards) ==
    [venv : BOOLEAN, voiceVenv : BOOLEAN, keys : SUBSET {"anthropic", "gemini"},
     models : SUBSET {"echo", "anthropic", "gemini"},
     summarizer : {"off", "echo", "anthropic", "gemini", "other"}, wake : BOOLEAN,
     vendor : Sections, gpt : Weights, sovits : Weights, lang : {"known", "unknown"},
     repo : BOOLEAN, base : BOOLEAN, cards : [cards -> Card], default : cards]

Declared(card) == {card.vendors[i] : i \in DOMAIN card.vendors}

----------------------------------------------------------------------------
(* load_config.                                                            *)

\* select_vendor by way of _vendor_from_card: the config decides if the card
\* declares its vendor or none, or cannot be read.
EngineOf(m, c) ==
    IF m.cards[c].broken \/ m.cards[c].vendors = <<>> \/ m.vendor \in Declared(m.cards[c])
    THEN m.vendor
    ELSE m.cards[c].vendors[1]

\* card.voice.vendor(engine) is there.
OwnsVoice(m, c) == EngineOf(m, c) \in Declared(m.cards[c])

----------------------------------------------------------------------------
(* preflight.evaluate.                                                     *)

CardsOf(m, engine) == {c \in DOMAIN m.cards : ~m.cards[c].broken /\ EngineOf(m, c) = engine}
Engines(m) == {EngineOf(m, c) : c \in {d \in DOMAIN m.cards : ~m.cards[d].broken}}

AnyBrain(m) == m.keys # {}

\* missing_assets looks at what the card itself names.
MissingWeights(m, c) ==
    OwnsVoice(m, c) /\ EngineOf(m, c) = "gptsovits" /\ "gone" \in {m.cards[c].gpt, m.cards[c].sovits}

DeclaresFinetune(m, c) == OwnsVoice(m, c) /\ "none" \notin {m.cards[c].gpt, m.cards[c].sovits}

\* _evaluate_card and _gptsovits_blockers.
CardBootable(m, c) ==
    /\ ~m.cards[c].broken
    /\ ~MissingWeights(m, c)
    /\ EngineOf(m, c) = "gptsovits" => m.repo /\ (DeclaresFinetune(m, c) \/ m.base)

ChipBootable(m, engine) ==
    /\ AnyBrain(m)
    /\ IF engine = "none" THEN m.venv
       ELSE m.voiceVenv /\ \E c \in CardsOf(m, engine) : CardBootable(m, c)

Chips(m) == Engines(m) \union {"none"}

\* _pick_launch_persona: the default card, or the first in order.
LaunchPersona(m, engine) ==
    LET able == {c \in CardsOf(m, engine) : CardBootable(m, c)}
    IN  IF m.default \in able THEN m.default ELSE CHOOSE c \in able : \A d \in able : c <= d

----------------------------------------------------------------------------
(* The start as it goes.                                                   *)

\* build_launch_argv: no persona for the chip without voice.
Argv(m, engine) == IF engine = "none" THEN [mode |-> "text", card |-> m.default]
                   ELSE [mode |-> "voice", card |-> LaunchPersona(m, engine)]

\* create_brain, and model_for, which only the summarizer's start asks.
HasKey(m, vendor) == vendor \in {"off", "echo"} \/ vendor \in m.keys
HasModel(m, vendor) == vendor = "off" \/ vendor \in m.models

\* run_navi.ps1: -Brain is anthropic unless it is given.
ScriptRuns(m, argv) ==
    /\ IF argv.mode = "voice" THEN m.voiceVenv ELSE m.venv
    /\ HasKey(m, "anthropic")

\* mouth_options: the weights of a card that owns its voice, even where it
\* names none, else those of the config.
WeightsFallingBack(m, c) ==
    LET Or(own, conf) == IF OwnsVoice(m, c) /\ own # "none" THEN own ELSE conf
    IN  {Or(m.cards[c].gpt, m.gpt), Or(m.cards[c].sovits, m.sovits)}
WeightsOf(m, c) ==
    IF OwnsVoice(m, c) THEN {m.cards[c].gpt, m.cards[c].sovits} ELSE {m.gpt, m.sovits}

\* A language the card does not name stays that of the config.
LangOf(m, c) ==
    IF OwnsVoice(m, c) /\ m.cards[c].lang # "none" THEN m.cards[c].lang ELSE m.lang

\* create_mouth: the registry and the constructor.
MouthBuilds(m, c) ==
    /\ EngineOf(m, c) \in Vendors
    /\ EngineOf(m, c) = "gptsovits" => LangOf(m, c) = "known"

\* warmup: _require_ckpt_files, _resolve_base_ckpts, the import from the repo.
MouthWarms(m, c) ==
    EngineOf(m, c) = "gptsovits" =>
        /\ "gone" \notin WeightsOf(m, c)
        /\ m.repo
        /\ "none" \in WeightsOf(m, c) => m.base

\* Where _run ends up: the wake word is asked for with every voice, and if
\* it is not ready _run says so and returns.
BootFate(m, argv) ==
    IF m.cards[argv.card].broken THEN "no card"
    ELSE IF ~HasKey(m, "anthropic") THEN "no brain"
    ELSE IF ~HasKey(m, m.summarizer) \/ ~HasModel(m, m.summarizer) THEN "no summarizer"
    ELSE IF argv.mode = "voice" /\ ~(MouthBuilds(m, argv.card) /\ MouthWarms(m, argv.card))
      THEN "no mouth"
    ELSE IF argv.mode = "voice" /\ ~m.wake THEN "no ear"
    ELSE "up"

----------------------------------------------------------------------------
(* Properties of a machine.                                                *)

\* What preflight does not look at: the brain and the summarizer that will
\* be used, the wake word, whether the engine a voice names exists and knows
\* its language, and the weights a card without a voice gets from the config;
\* and whether the default card can be read when no voice is wanted.
Covered(m, argv) ==
    /\ HasKey(m, "anthropic") /\ HasKey(m, m.summarizer) /\ HasModel(m, m.summarizer)
    /\ argv.mode = "voice" => m.wake /\ OwnsVoice(m, argv.card) /\ MouthBuilds(m, argv.card)
    /\ argv.mode = "text" => ~m.cards[argv.card].broken

\* But for that, a chip that may be pressed starts the engine it names, with a
\* card that was judged fit; and a card with a voice of its own that was judged
\* unfit would not have come up, whatever else the machine has or lacks
\* (preflight.py:18-31).
VerdictExact(m) ==
    /\ \A engine \in Chips(m) :
         ChipBootable(m, engine) /\ Covered(m, Argv(m, engine)) =>
           /\ ScriptRuns(m, Argv(m, engine)) /\ BootFate(m, Argv(m, engine)) = "up"
           /\ engine # "none" => EngineOf(m, LaunchPersona(m, engine)) = engine
    /\ \A c \in DOMAIN m.cards : ~CardBootable(m, c) /\ (OwnsVoice(m, c) \/ m.cards[c].broken) =>
         BootFate(m, [mode |-> "voice", card |-> c]) # "up"
=============================================================================
