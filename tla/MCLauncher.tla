----------------------------- MODULE MCLauncher -----------------------------
(* Two cards.  A machine that has everything, those that lack one thing or *)
(* two of it, and those whose cards or weights are of another kind.        *)
EXTENDS Launcher

Plain(vendors, gpt, sovits) ==
    [broken |-> FALSE, vendors |-> vendors, gpt |-> gpt, sovits |-> sovits, lang |-> "known"]
Tuned == Plain(<<"gptsovits">>, "here", "here")
Good == [venv |-> TRUE, voiceVenv |-> TRUE, keys |-> {"anthropic", "gemini"},
         models |-> {"echo", "anthropic", "gemini"}, summarizer |-> "anthropic", wake |-> TRUE,
         vendor |-> "supertonic", gpt |-> "none", sovits |-> "none", lang |-> "known", repo |-> TRUE, base |-> TRUE,
         cards |-> <<Tuned, Plain(<<>>, "none", "none")>>, default |-> 2]

Kinds == { Plain(<<"gptsovits">>, "none", "none"), Plain(<<"gptsovits">>, "here", "none"),
           Plain(<<"gptsovits">>, "gone", "here"), Plain(<<"supertonic", "gptsovits">>, "none", "none"),
           [Tuned EXCEPT !.broken = TRUE], Tuned,
           [Tuned EXCEPT !.lang = "unknown"], Plain(<<"other">>, "none", "none") }

MCMachines ==
    {Good, [Good EXCEPT !.venv = FALSE], [Good EXCEPT !.voiceVenv = FALSE], [Good EXCEPT !.wake = FALSE],
     [Good EXCEPT !.keys = {"gemini"}, !.summarizer = "gemini"], [Good EXCEPT !.keys = {"anthropic"}, !.summarizer = "gemini"]}
    \union {[Good EXCEPT !.models = {"anthropic"}, !.summarizer = v] : v \in {"gemini", "other"}}
    \union {[Good EXCEPT !.cards[1].lang = l, !.lang = "unknown"] : l \in {"none", "known"}}
    \union {[Good EXCEPT !.vendor = "other"]}
    \union {[Good EXCEPT !.cards[1] = k, !.base = b, !.repo = r, !.vendor = v] :
              k \in Kinds, b \in BOOLEAN, r \in {TRUE}, v \in {"gptsovits", "supertonic"}}
    \union {[Good EXCEPT !.cards[1] = k, !.vendor = "gptsovits", !.gpt = w, !.sovits = w, !.default = 1] :
              k \in Kinds, w \in {"here", "gone"}}
FewMachines == {Good, [Good EXCEPT !.cards[1] = [Tuned EXCEPT !.gpt = "gone"], !.wake = FALSE]}
AllMachines == MCMachines \union FewMachines
GeminiMachines == {[Good EXCEPT !.keys = {"gemini"}, !.summarizer = "gemini"]}
MCProcesses(m) == IF m \in FewMachines \union GeminiMachines THEN MaxPid ELSE 1
=============================================================================
