--------------------------- MODULE MCPersonaSwap ----------------------------
(* Five personas: two share weights and differ in language, one of them    *)
(* with a second tone; one has weights of its own; one declares no         *)
(* language, and one no tone at all.                                       *)
EXTENDS PersonaSwap

MCCkptOf == [p \in Personas |->
    CASE p \in {"aris", "twin"} -> "w1" [] p = "guest" -> "w3" [] OTHER -> "w2"]
MCLangOf == [p \in Personas |->
    CASE p = "aris" -> "ja" [] p = "twin" -> "ko" [] p = "ian" -> "en" [] OTHER -> "blank"]
MCTonesOf == [p \in Personas |->
    CASE p = "mute" -> {} [] p = "aris" -> {"base", "calm"} [] OTHER -> {"base"}]
=============================================================================
