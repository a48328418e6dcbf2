----------------------------- MODULE Initiative -----------------------------
(***************************************************************************)
(* The daemon's core as it speaks first: DaemonCore._dispatch handles one  *)
(* event at a time and awaits the recogniser, the turn and the opening;    *)
(* while it waits, GUI handlers run, the feed stocks candidates and the    *)
(* clock moves.  The proactive axis (machine, shown, saved) is the one of  *)
(* ProactiveMode and every step here is a step of that module or leaves    *)
(* it alone.                                                               *)
(*                                                                         *)
(* interaction_log keeps two facts apart that the properties need: when    *)
(* each opening was logged, and how many outcome rows followed.            *)
(***************************************************************************)
EXTENDS ProactiveMode, Sequences, FiniteSets

CONSTANTS Candidates,      \* feed candidates, by dedup_key
          Hint,            \* pick_topic's fixed time-of-day hint
          MinGap,          \* proactive.min_gap_s
          ResponseWindow,  \* response_window_s
          DailyCap         \* proactive.daily_cap

ASSUME InitiativeAssumption ==
    /\ Hint \notin Candidates
    /\ MinGap \in Nat /\ ResponseWindow \in Nat /\ DailyCap \in Nat

VARIABLES core,       \* what _dispatch is doing
          last,       \* _last_interaction_at
          pending,    \* _pending_initiation
          topic,      \* the topic of the opening under way
          initiated,  \* ts of the "initiated" rows of interaction_log
          outcomes,   \* number of user_responded/_ignored/_overrode rows
          candidate,  \* table topic_candidate
          voiced      \* how often a candidate was given to the voice

coreVars == <<core, last, pending, topic, initiated, outcomes, candidate, voiced>>
daemonVars == <<vars, coreVars>>

Now == Instant(clock)

DaemonInit ==
    /\ Init
    /\ core = "idle"
    /\ last = NoTime
    /\ pending = NoTime
    /\ topic = Hint
    /\ initiated = <<>>
    /\ outcomes = 0
    /\ candidate = [c \in Candidates |-> "absent"]
    /\ voiced = [c \in Candidates |-> 0]

\* Code without an await between "the row is logged" and "the candidate is
\* marked": nothing else runs on the loop, but the process may still die.
LoopFree == core # "marking"

----------------------------------------------------------------------------
(* The gates of _maybe_initiate.                                           *)

InitiatedToday ==
    Cardinality({i \in DOMAIN initiated : initiated[i] >= clock.midnight})
AtMostCap == InitiatedToday <= DailyCap
UnderCap == InitiatedToday < DailyCap

\* should_initiate: never inside min_gap, otherwise the dice decide.
QuietSinceOpening == IF pending = NoTime THEN TRUE ELSE Now - pending >= MinGap
QuietLongEnough == Now - last >= MinGap

\* _settle_pending and _resolve_pending.
OverdueWhenActive ==
    /\ pending # NoTime /\ Now - pending >= ResponseWindow
    /\ Effective(machine, clock) = "ACTIVE"
NeverOverdue == FALSE
Overdue == pending # NoTime /\ Now - pending >= ResponseWindow
Answered == pending # NoTime
ResolveKeepingPending ==
    /\ outcomes' = IF Answered THEN outcomes + 1 ELSE outcomes
    /\ pending' = pending
Resolve ==
    /\ outcomes' = IF Answered THEN outcomes + 1 ELSE outcomes
    /\ pending' = NoTime

\* get_fresh_topics and pick_topic: a fresh candidate if there is one.
Fresh == {c \in Candidates : candidate[c] = "fresh"}
Topics == IF Fresh = {} THEN {Hint} ELSE Fresh

\* A TICK that ends in silence: a gate is closed or the dice said no.
TickInSilence ==
    /\ core = "idle"
    /\ TickHandler
    /\ IF Overdue THEN Resolve ELSE UNCHANGED <<pending, outcomes>>
    /\ UNCHANGED <<core, last, topic, initiated, candidate, voiced>>

\* A TICK that opens: settled, gated, then logged.
TickAndOpen(t) ==
    /\ core = "idle" /\ t \in Topics
    /\ TickHandler
    /\ Effective(machine', clock) = "ACTIVE" /\ UnderCap /\ QuietLongEnough
    /\ outcomes' = IF Overdue THEN outcomes + 1 ELSE outcomes
    /\ initiated' = Append(initiated, Now)
    /\ last' = Now
    /\ pending' = Now
    /\ topic' = t
    /\ core' = "marking"
    /\ UNCHANGED <<candidate, voiced>>

\* mark_used, a commit of its own; then the await of run_initiation begins.
MarkLater ==
    /\ core = "marking"
    /\ core' = "opening"
    /\ UNCHANGED <<vars, last, pending, topic, initiated, outcomes, candidate, voiced>>
MarkUsed ==
    /\ core = "marking"
    /\ core' = "opening"
    /\ candidate' = [c \in Candidates |-> IF c = topic THEN "used" ELSE candidate[c]]
    /\ UNCHANGED <<vars, last, pending, topic, initiated, outcomes, voiced>>

\* run_initiation: turn lock and brain first, then the voice; any failure is
\* swallowed and _dispatch goes on.
StartVoice ==
    /\ core = "opening"
    /\ core' = "voicing"
    /\ voiced' = [c \in Candidates |-> IF c = topic THEN voiced[c] + 1 ELSE voiced[c]]
    /\ UNCHANGED <<vars, last, pending, topic, initiated, outcomes, candidate>>
EndOpening ==
    /\ core \in {"opening", "voicing"}
    /\ core' = "idle"
    /\ UNCHANGED <<vars, last, pending, topic, initiated, outcomes, candidate, voiced>>

----------------------------------------------------------------------------
(* _handle_utterance.                                                      *)

HearUtterance ==
    /\ proc = "up" /\ core = "idle"
    /\ core' = "stt"
    /\ UNCHANGED <<vars, last, pending, topic, initiated, outcomes, candidate, voiced>>

NothingHeard ==
    /\ core = "stt"
    /\ core' = "idle"
    /\ UNCHANGED <<vars, last, pending, topic, initiated, outcomes, candidate, voiced>>

CommandInMemory(cmd) ==
    /\ core = "stt"
    /\ core' = "idle"
    /\ last' = Now
    /\ Resolve
    /\ machine' = Command(machine, cmd, clock)
    /\ shown' = Effective(machine', clock)
    /\ UNCHANGED <<clock, proc, saved, topic, initiated, candidate, voiced>>
HeardCommand(cmd) ==
    /\ core = "stt"
    /\ core' = "idle"
    /\ last' = Now
    /\ Resolve
    /\ CommandMode(cmd)
    /\ UNCHANGED <<topic, initiated, candidate, voiced>>

HeardTalk ==
    /\ core = "stt"
    /\ core' = "turn"
    /\ last' = Now
    /\ Resolve
    /\ UNCHANGED <<vars, topic, initiated, candidate, voiced>>

\* run_turn: answered or failed, _dispatch goes on.
EndTurn ==
    /\ core = "turn"
    /\ core' = "idle"
    /\ UNCHANGED <<vars, last, pending, topic, initiated, outcomes, candidate, voiced>>

----------------------------------------------------------------------------
(* What runs while the core waits, and the process itself.                 *)

GuiCommand(cmd) == LoopFree /\ CommandMode(cmd) /\ UNCHANGED coreVars
GuiWindow(w) == LoopFree /\ SetSleepWindow(w) /\ UNCHANGED coreVars

\* The feed's batch inserts a candidate; its TTL ends.
StockCandidate(c) ==
    /\ proc = "up" /\ LoopFree
    /\ candidate[c] = "absent"
    /\ candidate' = [candidate EXCEPT ![c] = "fresh"]
    /\ UNCHANGED <<vars, core, last, pending, topic, initiated, outcomes, voiced>>
CandidateExpires(c) ==
    /\ candidate[c] = "fresh"
    /\ c # topic \/ core # "marking"
    /\ candidate' = [candidate EXCEPT ![c] = "expired"]
    /\ UNCHANGED <<vars, core, last, pending, topic, initiated, outcomes, voiced>>

BootDaemon == Boot /\ UNCHANGED coreVars

\* Start-up counts as an interaction: no opening on a cold start.
ReadyUntimed ==
    /\ CoreReady
    /\ UNCHANGED coreVars
ReadyDaemon ==
    /\ CoreReady
    /\ last' = Now
    /\ UNCHANGED <<core, pending, topic, initiated, outcomes, candidate, voiced>>

\* What was only in memory is gone; the tables stay.
HaltDaemon ==
    /\ Halt
    /\ core' = "idle"
    /\ last' = NoTime
    /\ pending' = NoTime
    /\ topic' = Hint
    /\ UNCHANGED <<initiated, outcomes, candidate, voiced>>

ClockMoves == TimePasses /\ UNCHANGED coreVars

CoreStep ==
    \/ TickInSilence
    \/ \E t \in Candidates \cup {Hint} : TickAndOpen(t)
    \/ MarkUsed
    \/ StartVoice
    \/ EndOpening
    \/ HearUtterance
    \/ NothingHeard
    \/ \E cmd \in ModeCommand : HeardCommand(cmd)
    \/ HeardTalk
    \/ EndTurn

AroundCore ==
    \/ \E cmd \in ModeCommand : GuiCommand(cmd)
    \/ \E w \in Windows : GuiWindow(w)
    \/ \E c \in Candidates : StockCandidate(c) \/ CandidateExpires(c)
    \/ BootDaemon
    \/ ReadyDaemon
    \/ HaltDaemon
    \/ ClockMoves

DaemonNext == CoreStep \/ AroundCore
DaemonSpec == DaemonInit /\ [][DaemonNext]_daemonVars

\* The recogniser, the brain and the voice answer or fail in the end, and a
\* TICK waits in the core's queue for its turn, however many utterances are
\* handled before it.
FairDaemon ==
    /\ DaemonSpec
    /\ WF_daemonVars(MarkUsed)
    /\ WF_daemonVars(EndOpening)
    /\ WF_daemonVars(NothingHeard \/ HeardTalk \/ \E cmd \in ModeCommand : HeardCommand(cmd))
    /\ WF_daemonVars(EndTurn)
    /\ SF_daemonVars(TickInSilence \/ \E t \in Candidates \cup {Hint} : TickAndOpen(t))

----------------------------------------------------------------------------
(* Properties.                                                             *)

\* The variables hold what DaemonCore and the tables hold.  A running daemon
\* always has a last interaction: timing.py forbids opening without one.
CoreTypeOK ==
    /\ core \in {"idle", "stt", "turn", "marking", "opening", "voicing"}
    /\ core # "idle" => proc = "up"
    /\ last \in Int \cup {NoTime}
    /\ proc = "up" => last \in Int
    /\ pending \in Int \cup {NoTime}
    /\ topic \in Candidates \cup {Hint}
    /\ initiated \in Seq(Int)
    /\ outcomes \in Nat
    /\ candidate \in [Candidates -> {"absent", "fresh", "used", "expired"}]
    /\ voiced \in [Candidates -> Nat]

\* daily_cap bounds the openings logged in any one calendar day, restarts
\* and crashes included, because the count is read from the table.
WithinDailyCap ==
    \A day \in {m \in 0 .. clock.midnight : m % DayLen = 0} :
        Cardinality({i \in DOMAIN initiated : initiated[i] \in day .. day + DayLen - 1})
            <= DailyCap

\* min_gap is a hard floor between any two openings, though what it is
\* measured from lives in memory only and is set anew at every start.
MinGapBetween ==
    \A i, j \in DOMAIN initiated : i < j => initiated[j] - initiated[i] >= MinGap

\* "so that the same candidate is not retried for ever": no candidate is
\* spoken twice, over failed openings, crashes and restarts.
VoicedAtMostOnce ==
    \A c \in Candidates : voiced[c] <= 1 /\ (voiced[c] = 1 => candidate[c] = "used")

\* interaction_log supports the response rate: every opening gets at most one
\* outcome row, and the one awaited belongs to the newest opening.
OneOutcomeEach ==
    /\ pending = NoTime => outcomes <= Len(initiated)
    /\ pending # NoTime =>
          outcomes < Len(initiated) /\ pending = initiated[Len(initiated)]

\* An opening replaces one whose fate is still open only after min_gap and
\* within its response window; later than that the old one is recorded in
\* the same step.  With response_window_s <= min_gap_s, as in config.yaml, no
\* fate is ever lost; the loader takes any two values.
Unanswered == pending # NoTime /\ Now - pending >= ResponseWindow
FateBeforeNext ==
    [][ initiated' # initiated /\ pending # NoTime =>
            /\ Now - pending >= MinGap
            /\ Unanswered => outcomes' = outcomes + 1 ]_daemonVars

\* An opening nobody answers is in the end recorded as ignored, in whatever
\* mode the daemon is by then.
PendingSettles == Unanswered ~> ~Unanswered

\* "In SLEEP, DND and SNOOZE no proactive speech": when the voice of an
\* opening starts, the proactive mode is ACTIVE.
SpeaksOnlyWhenActive ==
    [][ core = "opening" /\ core' = "voicing" => Effective(machine, clock) = "ACTIVE" ]_daemonVars
=============================================================================
