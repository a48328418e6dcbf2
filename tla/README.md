# A verification project for companion-navi

companion-navi is a voice companion that stays resident on a PC: a daemon that
listens for its wake word, answers, and sometimes speaks first. One asyncio
event loop runs nearly everything; model loads, synthesis, playback and HTTP
fetches are pushed to threads, and a GUI talks to the daemon over HTTP and a
WebSocket. The modules here model that program in TLA+, TLC checks them on
small instances, and TLAPS proves the facts that matter most for every value of
the constants.

`PROJECT.json` lists the runs, the mutants that show each property can fail,
the source lines behind each definition, the hazards, the findings and the
theorems. Run anything with `tlc -config X.cfg MCModule` or `tlapm XProofs.tla`.

## 1. Inventory of the system

| Part | State it keeps | Operations | Interacts with |
|---|---|---|---|
| Proactive mode machine (`heartbeat/mode.py`) | override mode and its end, "was in the window", the sleep window | `tick`, `command`, `set_window`, `export_state`, `restore_state`, `current_mode` | the daemon core calls it; its row goes to the store |
| Daemon core (`daemon.py`, `DaemonCore`) | last interaction, pending opening, shown mode, ring of events, the collect task | `_dispatch` of TICK, UTTERANCE, SHUTDOWN; `command_mode`, `set_sleep_window`; `_maybe_initiate`, `_settle_pending`, `_handle_utterance`; `_stop_watch` | everything |
| Timing and topic (`heartbeat/timing.py`, `topic.py`) | none | when to open, and about what | called by the core on a TICK |
| Store (`memory/store.py`) | SQLite tables `mode_state`, `interaction_log`, `topic_candidate`, `feed_meta`, `user`, `conversation_turn`, `usage` | one commit per call | all that survives a crash; daemon and CLI share the file |
| Event bus (`bus.py`) | a bounded queue per subscriber | `publish` (drops the oldest), `subscribe`, `unsubscribe` | ear, clock, stop watch and pipeline publish; core, console and windows read |
| Control server (`control/server.py`) | none | mode, window, persona, voice, shutdown; `/events` socket with replay | core, bus, swap runtime |
| Swap runtime (`control/runtime.py`) | card's owner, voice's owner, checkpoints thought loaded | `swap_persona`, `set_voice`, the mood's tone, `availability` | conductor, pipeline |
| Turn pipeline (`pipeline.py`, `conductor.py`) | turn lock, default voice, card | `run_turn`, `swap_weights`, `is_playing`, `interrupt` | brain, mouth |
| GPT-SoVITS mouth (`mouth/gptsovits.py`) | languages, weights, stopped and playing flags | `speak_stream` (worker and play loop), `set_weights`, `stop` | threads, the sound device |
| Other mouths, mood tag, sentences (`mouth/`) | stopped and playing flags | `speak_stream`, `stop`; `peel_mood`, `strip_mood_tag`, `SENTENCE_END` | pipeline, the sound device |
| Brains (`brain/`) | `last_result`, the cancel flag | `generate_stream`, `cancel`, `_normalize` | a service outside |
| Listening session and endpointer (`ear/`) | awake, sleep request, last activity; preroll, buffer, runs of speech and silence | one step per audio frame | publishes WAKE, UTTERANCE, SLEEP |
| Gatekeeper (`gatekeeper.py`) | none | text to a command or "pass" | called by the core |
| Feed (`feed/`) | collecting flag, retry time; tables | `maybe_collect`, `collect`, `get_fresh_topics`, `mark_used` | RSS, summariser, store |
| Life cycle (`daemon.py`: `main`, `cmd_stop`; `run_navi.ps1`) | pid file, stop file | start guard, boot, stop command, release | other processes |
| GUI (`gui/`) | launch time, polling flag, page | `launch`, poller, return to the launcher | preflight, control server |
| Configuration, persona bundles, preflight (`config.py`, `persona/`, `preflight.py`) | none | `load_config`, `select_vendor`, `missing_assets`, `evaluate` | the launcher before the boot, the daemon in it |
| CLI (`cli.py`) | its session | typed, file, microphone and wake-word input; a turn | brain, mouth, the same store |
| Microphone, VAD, wake word, recogniser | see "Not modelled" | | |

### What is hard here

- **Handlers that await.** `_dispatch` takes one event at a time, but GUI
  handlers, the feed's batch and the ear run during its awaits. What it read
  before an await may be stale after it: the gate before an opening, the session
  an utterance came from, the persona a load was started for.
- **Facts split between memory and tables.** The pending opening, the last
  interaction, the GUI's sleep window and the feed's backoff live in memory; the
  override, the log of openings, used candidates and the last collection are on
  disk, one commit at a time. A crash falls between any two of them.
- **A bus that forgets.** A full queue drops its oldest event, whatever it is.
- **An asyncio.Lock.** Between `release` and the woken waiter's turn the lock
  looks free; a handler that only looks at it is let through.
- **Partial failure.** Weights load in two steps, feeds and summaries fail one
  by one, the database may raise in the middle of a batch.
- **Tasks that feed each other.** In a turn, brain, tag parser, worker, play loop
  and sound device run at once; each may fail, and a barge-in may fall anywhere.
- **Processes that share files.** Daemons, stop commands and the window know each
  other only by a pid file, a sentinel file and a port; the daemon and the CLI
  share the database.
- **The same question answered twice.** Preflight and the boot look at the same
  machine by different code.
- **Wall-clock arithmetic.** Windows wrap past midnight, overrides end at the
  next occurrence of a time of day, the cap is per calendar day.

The full list, with lines and covering properties, is `hazards` in `PROJECT.json`.

## 2. The modules and the code

### ModeMachine, ProactiveMode

`ModeMachine` has `mode.py` as pure operators on a record `[mode, until, wasIn,
window]`. A clock reading is `[midnight, tod]`, so `datetime.combine(date, end)`
is `midnight + end` and nothing divides. `Contains` and `NextEnd` are the two
methods of `SleepWindow`, `Effective` is `_effective`, `Tick` and `Command` the
two transitions; `Command` ends with a `Tick`, as the code does.

`ProactiveMode` runs the machine as the daemon does: `TickHandler`,
`CommandMode`, `SetSleepWindow`, a boot in two steps (the machine is restored and
ticked before the speech models load, the core that shows the mode is built
after), `Halt` for a crash or a shutdown, `TimePasses`. `saved` is the row of
`mode_state`, `shown` is `DaemonState.proactive_mode`, `ApplyMode` is
`_apply_mode` with its rule for when to write.

Correct means: overrides end as their mode says and never last longer than a
day (`OverrideEnds`, `LiveUntilWindowEnd`); a crash loses no command: each, DND_CLEAR
included, is on disk in the step that obeys it, and the row falls behind the machine
only where nightfall erases a DND or SNOOZE under a mode shown as SLEEP already
(`CommandsSurviveCrash`); a tick never opens or shuts the gate by itself and a
quieting command always shuts it (`GateOpensByHand`); the GUI's copy catches up
(`ShownCatchesUp`).

### Initiative

Extends `ProactiveMode` with the core: `core` is where `_dispatch` is waiting.
`TickAndOpen` is a TICK that passes every gate, up to the commit of the
"initiated" row; `MarkUsed` is the next commit (only a crash can come between:
no await); `StartVoice` and `EndOpening` are the awaited `run_initiation`.
`HearUtterance`, `NothingHeard`, `HeardCommand`, `HeardTalk`, `EndTurn` are
`_handle_utterance`. `GuiCommand`, `GuiWindow`, `StockCandidate` and the clock run
whenever the core awaits. The dice of `should_initiate` are a nondeterministic
choice above the hard floor. `initiated` and `outcomes` are what
`interaction_log` holds, `voiced` counts what the voice was given.

`DaemonSpec` implements `ProactiveMode!Spec`: checked by TLC (the property
`Spec` of the run) and proved.

The loader takes any two values for the response window and the minimal gap, and so
does the model; the run has a window longer than the gap, where an opening replaces
one whose fate is still open. `FateBeforeNext` says when it may and what is recorded.

### EventBus, EventFlow, Listening

`EventBus` has the bus as operators on a function from subscribers to queues.

`EventFlow` composes it with the publishers, the core (waiting, busy in a
handler, stopped), the stop watch, `POST /shutdown` and the `/events` sockets
(subscribe, replay of the ring one send at a time, live stream, disconnect at
any point). Events are numbered in the order of publication.

`Listening` composes the bus with `ListenSession` and `Endpointer`, frame by
frame, and with the core that recognises an utterance for a while and may then
request sleep. Buffers are counted, not stored: `preroll` and `buf` are lengths,
`onset` counts the frames since the run of speech began. A request to sleep goes to
whatever session is open when the recogniser answers, as in the code: it may have been
spoken in an earlier one (a finding). What holds is that it ends the session that was
open when it was made (`RequestEndsOpenSession`) and no later one (`NoRequestCarriesOver`).

### PersonaSwap

The card, the voice (owner and tone), the checkpoints the runtime thinks are
loaded, what the engine really has (language, SoVITS and GPT weights apart),
the turn lock with its queue of waiters, one turn and the persona requests in
flight. The lock is the one of asyncio: releasing frees it, a waiter takes it in
a step of its own, a newcomer is granted it only if nobody waits; the guard
`IsPlaying` looks at "locked" only. `SwapFails` has the points at which
`set_weights` can raise. A bundle's language is apart from its checkpoints, as in
`VendorVoice`: equal checkpoints skip the engine whatever language they come with, and a
blank one leaves what was there. So `OneIdentity` promises weights that go with the voice,
and a language only where the bundles with these weights agree (a finding). The session's engine is gptsovits; with an engine that
cannot swap weights only the card changes.

### FeedCollect

One batch: the gates, the contributors in order (callbacks first), the dedup
keys, the summaries one by one, the verdict of `_is_healthy`, the two ends, and
the ways out the code does not plan (a statement that raises: `Abort`; a crash).
`healthyAt` and `sickAt` are history variables of `Spaced`. Source failures come
in the two forms the code has: an exception, and the empty list into which
`RssSource.fetch` turns every failure.

### Turn, TurnStream

`Turn` is what a turn promises to the person who listens, with nothing about
tokens and tasks: turns one after the other, words in their order and none
twice, silence when cut off (but for one sentence already on its way), the words kept are this turn's, every turn
ends. `TurnStream` is how it is done, and implements it (`KeepsPromise`, an
`INSTANCE Turn WITH` a mapping of its variables).

Text is a sequence of units: the three parts of a mood tag, a word with the
space before it, a letter glued to what precedes it, an ender. That is as much
as `peel_mood`, `strip_mood_tag` and `SENTENCE_END` tell apart; white space
around a tag and full-width enders are left out.

| Actions | Code |
|---|---|
| `BeginTurn`, `Peels`, `PeelsLast`, `PeelFails` | `run_turn` up to the choice of the voice; `peel_mood` |
| `SpeakStream` | `speak_stream` up to its tasks; it resets the stop flag |
| `WorkerTakesBack`, `WorkerTakes`, `WorkerDrains`, `WorkerFails` | `_synth_worker` pulling through `_tee` and the peeled stream, or the drain of a session without a mouth |
| `SynthDone`, `SynthFails` | synthesis in a thread, the sentence queued or given up |
| `PlayLoopGets`, `SoundStarts`, `PlayEnds`, `PlayFails` | the play loop: the look at the stop flag, `sd.play` in the thread it then awaits, the device |
| `DrainEnds`, `SupertonicEnds`, `GatherEnds` | the end of `speak_stream` and of `run_turn`: supertonic's `finally`, the `gather` of gptsovits |
| `Interrupt` | `interrupt()`: `mouth.stop()` and `brain.cancel()`, at any moment and as often as wanted |

`mouth` is "supertonic", "gather" or "text"; cosyvoice and f5tts, retired from
the registry, have the structure of gptsovits, "gather". An interrupt between the look at
the flag and `sd.play` stops nothing: the sentence on its way is played whole (a finding).
`Turn` has a state for that ("last"), and promises silence after it. `brain` says whether
`last_result` holds what came ("partial": gemini, echo) or what the service had
in store ("whole": anthropic). `interrupt()` is the interface for barge-in; in
the daemon its only caller today is the shutdown. A turn whose `gather` leaves
a task behind sets `abandoned`: the promise is void from there (a finding), but
the model goes on, so that what the orphan does is explored.

### Dialogue

The daemon and the CLI as two processes on one database: `ensure_user` (SELECT,
then INSERT), the assembly of a request (`RowsOf`, `Recall`, `Assembled`, `Normalize`), the
two commits of a turn (`RememberQuestion`, `RememberAnswer`), a turn that fails,
a remark of navi's own accord whose material is not stored, the CLI's four ways
of input and its ways to end, and the death of either process at any point. A
saying is `[turn, what]`; its words do not matter.

### Preflight, Launcher

`Preflight` has no state. A machine is a record of what is installed and
configured; one half of the module is `preflight.evaluate` with the launcher's
choice of persona, the other half `build_launch_argv`, `run_navi.ps1`,
`load_config` and the boot in `_run`. `VerdictExact` says that they agree where
preflight looks at all: a lit chip comes up if what `Covered` lists is there too, and a
card with a voice of its own that was judged unfit does not come up. What preflight does
not look at, and `Covered` therefore has:

- the brain that will be used, the summarizer's key and its entry in `brain.models`;
- the wake word;
- whether an engine is registered under the name a voice gives, and whether gptsovits
  knows its language (`MouthBuilds`);
- the weights a card without a voice of its own gets from the config;
- with the chip without voice, whether the default card can be read.

A broken card stands also for a voice section that cannot be read; the two languages of a
section (`ref_lang`, `gen_lang`) are one, "known" if both are.

`Launcher` is everything that starts and stops a daemon: processes with their
place in `main` (`CheckPid`, `WritePid`, `SweepStop`, `Boot`, `SeeStop`, `Close`,
`ReleasePid`, `ReleaseStop`), `cmd_stop` (`StopReads`, `StopTouches`,
`StopCleansUp`, `StopReturns`), kills, and the window: `Press` on a chip, the
poller, the shutdown button and `_resume_after_shutdown`. Any command may come between
any two steps of another on the two files. The history variable `raced` is set when one
writes or unlinks while the pid file names somebody who was not there when it looked
(`Stale`), and cleared by a start that finds nobody left: nothing in the code prevents such a race (a
finding), and `SingleDaemon` and `StopReaches` promise what holds but for it.

## 3. The runs

Every passing run has one mutant per property in `PROJECT.json`: a plausible
slip in the code (a dropped guard, a missing reset, a wrong order) under which
TLC finds that property violated.

| Run | Question | Bounds and why they suffice | States |
|---|---|---|---|
| `mode` | do overrides and the row on disk behave over commands, windows, restarts? | a day of 6 instants, over three days; a window that wraps midnight, a nap, an empty one; so every order of entry, exit, expiry and command occurs | 7 thousand |
| `initiative` | are openings capped, spaced, spoken once, settled? and is the daemon a `ProactiveMode`? | one candidate and the hint, a day of 6 instants, a clock that runs past midnight from any time of day, a cap of 1, a gap of 2 and a response window of 3: openings on both sides of midnight and of a restart, with every command and both windows | 308 thousand |
| `listening` | are onsets kept, requests heeded, and does the view follow? | starts and ends of 2 frames, a timeout of 7 that can strike in mid-speech, frames up to 2 late, a core queue of 4 that overflows, three sessions | 216 thousand |
| `event_flow` | do order, freshness and stopping survive saturation and reconnects? | one window that reconnects, queues of 3 and 2, a ring of 2, five events: each of them overflows | 82 thousand |
| `persona_swap` | do turns, voice and weights stay together when requests race? | five personas (weights shared with another language and with none, others, a card without tones), three requests in flight, one turn at a time as the core has it | 422 thousand |
| `feed_collect` | does the batch keep its interval, backoff and bounds? | two sources, three articles, a callback label, an interval of 4 and a backoff of 2 within 8 instants: two batches a whole interval apart | 96 thousand |
| `turn_stream` | is a turn what it promises, whatever fails and whoever interrupts? | two turns (the second meets what the first left behind), every cut of the answers into tokens of one or two units, three structures of a mouth and two of a brain, answers with a tag, half a tag, an ender in mid-word and a tail without one, each fault the structure can have, interrupts at any moment | 956 thousand |
| `dialogue` | is every request acceptable and complete, over crashes and a second process? | a window of two rows, so that it begins in the middle of a turn; three requests and three starts over two processes: a torn turn followed by another, a remark first, a second user | 380 thousand |
| `launcher` | does the verdict hold, is there one daemon, does a stop reach it, does the window follow? | two cards, some fifty machines: a complete one and those that lack one thing or have it in another form; on the complete one and on one whose boot fails there are two processes (a predecessor and its successor), on the others one, enough for the verdict; their steps interleave freely, with the stop command in between | 471 thousand |

`event_flow`, `dialogue`, `turn_stream` and `launcher` turn deadlock checking off,
because there the system really stops: a daemon is down, a session is over, all
turns have been had, all processes are gone.

Three runs show a sentence of the repository the code does not keep:

| Run | What it shows |
|---|---|
| `stale_gate` | "no proactive speech in SLEEP, DND, SNOOZE", but the gate is read before the awaits |
| `stuck_playing` | "whether it plays now", but with supertonic a failed turn leaves the flag up, and the control plane then refuses changes of persona |
| `lit_chip` | "what this machine can start now", but a chip lit by a gemini key starts a script that wants anthropic's |

More disagreements, without a run of their own, are among the `findings`: WAKE
replaces a stored DND; a DND given before the first tick of the night is erased;
a late answer may count as a response; the session's timeout strikes in
mid-speech; card and voice can stay apart; a swallowed network failure counts as
an answer; two first starts make two users; the launcher announces a failed
launch once only, and may fall back on a dying daemon; the pid file does not
exclude a second start; chips are lit for an engine or a language that does not
exist; a request to sleep may close a session it was not spoken in; a nightfall that is
not written brings a DND back; the language does not follow the voice where the weights
stay; a sentence on its way outlives an interrupt; a `gather` leaves its other task running; a decimal cut
between two tokens is cut in speech; a mood tag that is not in front is spoken.

### Fairness

- `ProactiveMode`: weak fairness of the tick of a daemon that stays up, since
  the loop publishes a TICK every interval.
- `Initiative`: the recogniser, the turn and the opening end (they answer or
  raise, and both are the same step); strong fairness of the TICK, because it
  waits in the core's FIFO queue while other events are handled, so it is
  enabled again and again, not continuously.
- `Listening`: the microphone keeps delivering frames and the core keeps handling events.
- `EventFlow`: handlers return, the core takes the next event, the stop watch polls.
- `PersonaSwap`: turns end, loads return or raise, a woken waiter runs.
- `FeedCollect`: fetches have a timeout, the summariser answers or raises.
- `TurnStream`: each task goes on once what it awaits is there: the stream yields,
  ends or raises, synthesis and playback return or raise. None of it is assumed of
  `Interrupt`, and none that a turn succeeds.
- `Launcher`: a daemon's main thread, the poller's and the resumer's thread and a
  stop command that has judged the pid file go on unless killed.
- `Dialogue` has safety properties only.

No fairness is assumed of users, of the clock, of crashes or of restarts.

## 4. The proofs

Eight modules hold theorems: `InitiativeProofs` (first of the proactive mode, then
of the daemon's core, which builds on it), `LauncherProofs`, `PersonaSwapProofs`,
`EventFlowProofs`, `ListeningProofs`, `TurnStreamProofs`, `FeedCollectProofs` and
`DialogueProofs`. A theorem holds for every value of the constants and any number of
steps: every length of day, set of windows, gap and cap, every set of personas,
requests, sources and articles, every size of queue, ring and buffer, every set of
answers and every cut of them into tokens, every length of the memory and any number
of sessions and turns. What is assumed of the constants is named in the module that declares them
(`ClockAssumption`, `WindowAssumption`, `InitiativeAssumption`,
`LauncherAssumption`, `SwapAssumption`, `FlowAssumption`, `ListeningAssumption`,
`StreamAssumption`, `FeedAssumption`, `DialogueAssumption`), and TLC evaluates it in the runs. Mostly it
says what is a number. What says more:

- `LauncherAssumption`: a machine's cards are numbered in the order of their names.
- `SwapAssumption`: a bundle with tones has a first one, called "base" here, and the
  persona the session starts with has a voice (a start without one is not modelled).
- `ListeningAssumption`: the preroll is no shorter than the run that starts an
  utterance. They are equal in `config.yaml`; with a shorter preroll `OnsetKept` is false.
- `StreamAssumption`: `peel_mood` looks at least as far as a whole tag is long; an
  answer is not empty.
- `FeedAssumption`: what is listed or extracted is finite, and no source is called
  "memory", the name callbacks have.
- `DialogueAssumption`: the memory holds at least one row (`recent_turns` of
  `config.yaml` is 20); with none, `Remembers` would promise what nobody recalls.

| Theorem | Establishes | Argument |
|---|---|---|
| `TypeCorrect` | `Spec => []TypeOK` | one lemma per operator of `ModeMachine` (it returns a machine), then one step per action |
| `OverridesEnd` | `Spec => []OverrideEnds` | `NextEnd` is later than now by at most a day; ends only come from `NextEnd` and the snooze; time only moves on |
| `CommandsKept` | `Spec => CommandsSurviveCrash` | strengthened by what the boot does to an expired row, and by what a shown mode says about the machine while the row is its own (`OnDisk`); what a tick erases unseen it erases at nightfall |
| `GateByHand` | `Spec => GateOpensByHand` | `Effective` does not change under `Tick`: what a tick erases was not visible |
| `WakesUntilWindowEnd` | `Spec => []LiveUntilWindowEnd` | `WindowInv`: the row on disk obeys the property as well as the machine, or a restart would break it; an override live in its window ends at that window's next end, however far the clock has come |
| `DaemonImplementsMode` | `DaemonSpec => Spec` | every disjunct of `DaemonNext` is a step of `Next` on `vars` or leaves them |
| `CoreTypes` | `DaemonSpec => []CoreTypeOK` | the types, with `TimesInv` for a running daemon's last interaction |
| `GapsKept` | `DaemonSpec => []MinGapBetween` | inductive with `TimesInv`: the newest opening is never later than `last`, nothing is later than now |
| `CapKept` | `DaemonSpec => []WithinDailyCap` | `DayInv`: midnight is a multiple of the day's length. A day gains an opening only while it is today, and `TickAndOpen` counted today's; the day after has none, because no opening is later than now |
| `SpokenOnce` | `DaemonSpec => []VoicedAtMostOnce` | `VoicedInv`: a candidate is fresh while it is marked, used and not yet voiced while it is opened, and what was used is never fresh again |
| `OutcomesMatch` | `DaemonSpec => []OneOutcomeEach` | inductive with the types of the log; a resolved opening leaves nothing pending |
| `FatesRecorded` | `DaemonSpec => FateBeforeNext` | `last >= pending`, so whoever may open does so a gap later; `_settle_pending` runs before the gates in the same step |
| `VerdictCorrect` | `LauncherSpec => []VerdictHolds` | the machine never changes; the card a chip starts is one that was judged fit (there is a first one), and a fit card with a voice of its own is one whose mouth warms up |
| `OneDaemon` | `LauncherSpec => []SingleDaemon` | `SingleInv`: who writes or cleans up has seen a process that has ended (`Dead`), and none comes back; so if the pid file still names it, or nobody, then nobody is guarded by it |
| `SwapTypes` | `SwapSpec => []SwapTypeOK` | with `QueueInv`: the queue of the lock holds each who waits exactly once, so whoever is woken is waiting |
| `IdentityKept` | `SwapSpec => []OneIdentity` | `SwapInv`: a turn at work was built with the card there is; unless a load has broken off, the engine as a whole has the weights the runtime thinks loaded, the voice's owner's, and a language declared for them if no bundle leaves it blank; and only who has tones asks for a load |
| `TurnsUndisturbed` | `SwapSpec => TurnUndisturbed` | a load changes voice and weights as the holder of the lock, so the turn does not hold it; a handler changes card or tone only where it found the lock free |
| `FlowTypes` | `FlowSpec => []FlowTypeOK` | `Put` keeps a queue within its size |
| `OrderKept` | `FlowSpec => []InOrder` | `OrderInv`: a queue holds the last events published, without a gap (it only drops its oldest), so `published - Len` is as far as its reader has come; the ring reaches no further than that, and a window sent nothing later than what it has still to replay |
| `ListenTypes` | `ListenSpec => []ListenTypeOK` | `SessionInv`: the buffer is no longer than the preroll and the frames since the last activity, which the timeout bounds |
| `OnsetIsKept` | `ListenSpec => []OnsetKept` | `SessionInv`: the run of speech and the preroll grow together until the utterance starts |
| `ViewIsRight` | `ListenSpec => []ViewFollows` | `ViewInv`: nothing lost, the last WAKE or SLEEP still queued, or else what is shown, is the session's state |
| `RequestsStayPut` | `ListenSpec => NoRequestCarriesOver`, the safety half of `RequestEndsOpenSession` | an open session with a request is the one it was made to |
| `StreamTypes` | `StreamSpec => []StreamTypeOK` | `Typed`, `TaskInv` (which tasks may be alive in which turn) and `SpeechInv` (queued sentences lie in order between what is heard and what is cut) |
| `PromiseIsKept` | `StreamSpec => Promise!TurnSafe`, the safety half of `KeepsPromise`: `TurnStream` implements `Turn` | each step of `StreamNext` maps to a step of `Turn` or to a stutter, from the three invariants above, `ResultInv` (the brain's result is this turn's) and `Due` (a sentence on its way is still the first in its queue) |
| `BodyIsWhole` | `StreamSpec => []BodyWhole` | `WholeInv`: once peeled, it is settled whether the text has a tag (`Settled`), and what is settled for a text is settled for every longer one |
| `TextIsOne` | `StreamSpec => []OneText` | `KeptInv`: of a turn not hurt so far (`Unhurt`), what was played, what is queued and what is cut follow each other without a gap, and the end mark comes last |
| `FeedTypes` | `FeedSpec => []FeedTypeOK` | `Sound`: the contributors left are the end of the plan, and the calls made, with the articles still to summarise, are within what those before may spend |
| `BatchesSpaced` | `FeedSpec => []Spaced` | the times kept for the property are those the code keeps: `healthyAt` is the row in `feed_meta`, and after a sick batch `retryAfter` is its start and the backoff |
| `RequestsAccepted` | `DialogueSpec => []RequestAccepted` | `Requested`, from lemmas on `_normalize`: each message joined keeps what is built alternating, and ends it with that message (`JoinTidy`, `MergedTidy`); the opener goes before a first message of the assistant only |
| `MemoryKept` | `DialogueSpec => []Remembers` | `Requested` with `RowsOfUsers`: of one user `RowsOf` selects every row, so the newest is recalled last and stays last before the trigger through every join; no material is ever stored |
| `PairsKept` | `DialogueSpec => []RowsPaired` | inductive with `SessionsApart` (two processes never share a session) and `QuestionStored` (a turn between its two rows has its question, and nothing of its session after it) |
| `DialogueTypes` | `DialogueSpec => []DialogueTypeOK` | `UsersFromStarts`: the users, and those about to create one, are no more than the starts; `Newest` is no longer than the memory, and joining only shortens |

Each inductive invariant was checked by TLC before it was proved. None of the
properties is inductive by itself. `MinGapBetween` measures the gap from `last`, which a restart
sets anew, so the strengthening has to say that `last` of a running daemon is never
before the newest opening. `InOrder` speaks of what was delivered, and the next
delivery comes from a queue of which it says nothing. `ListenTypeOK` bounds a buffer
that grows with every frame, so the bound has to follow the clock that ends the
session. `FeedTypeOK` bounds the calls of a whole batch, so the strengthening has to
say what each contributor left for the others.

`WholeInv` needs that `FlattenSeq` of a sequence with one more token is the old
text with the token behind it. `FlattenSeq` is recursive and the library's
induction theorems cannot be instantiated here, so `TurnStreamProofs` proves that
from its definition by a least counterexample (a nonempty set of naturals has a least element).
`DialogueProofs` does the same for the two folds of `Dialogue`, `RowsOf` and `Merged`:
`FoldLeft` chooses a recursive function on sets of positions, so it is shown that
there is one (`FoldExists`) and then, step by step along 1..0, 1..1, 1..2, what it has
built so far (`RowsOfSelects`, `MergedBuilds`).

Only model-checked is liveness under fairness, which the prover does not handle:
`ShownCatchesUp`, `PendingSettles`, `StopHeeded`, `WaitersServed`, `BatchEnds`,
`StopReaches`, `WindowFollows`, and the halves of `RequestEndsOpenSession` and
`KeepsPromise` that say something happens.

The modules here declare no RECURSIVE operator.

## 5. Not modelled, and why

- Recogniser, VAD, wake word, microphone: devices and models. They appear as
  nondeterministic inputs (a frame with or without speech, a text or none). An
  exception of the recogniser ends the daemon: a kill in `Launcher`.
- Texts: prompts, framing, summaries, cleaning, HTTP formatting, logging, the
  drawing of events.
- Probabilities: `initiation_probability` decides how often, not whether an
  opening is allowed; every outcome above the floor is possible in the model.
- In the turn: the loading of the engine at the first call, the fake mouth, which
  only prints, and the mood's choice among tones.
- In the life cycle: reuse of a pid by another program, a port that is taken, the
  15 seconds after which `cmd_stop` stops waiting (it changes nothing), a missing
  launch script.
- On a machine: installed packages, the download of models, reference recordings that
  are missing (a warning of preflight), options a mouth's constructor does not know.
- An interrupt whose `sd.stop()` fails itself; an assistant row whose text is empty
  (`RequestAccepted` speaks of the order of the messages, not of their texts).
- `usage` and intimacy rows; the read-only endpoints.
- Scripts, benches and the training notebook: tools outside the program.

## 6. Plan

1. Done: when navi may speak first (`ModeMachine`, `ProactiveMode`, `Initiative`),
   how events flow (`EventBus`, `EventFlow`, `Listening`), identity and feed
   (`PersonaSwap`, `FeedCollect`), the turn and its promise (`Turn`,
   `TurnStream`), memory and requests (`Dialogue`), start and stop (`Preflight`,
   `Launcher`); and of all of these, every invariant and every safety action
   property the runs check as a theorem.
2. Models still missing: the tone of a mood and the availability table as
   functions against the handlers that use them.
