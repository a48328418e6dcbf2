--------------------------- MODULE ProactiveMode ---------------------------
(***************************************************************************)
(* The proactive axis as the daemon runs it: the mode machine, the wall    *)
(* clock, the row of table mode_state that survives a crash, and the mode  *)
(* the daemon shows (state.proactive_mode).                                *)
(*                                                                         *)
(* All handlers run on one event loop and none of these awaits, so each is *)
(* one step.  Booting is two steps: the machine is restored and ticked     *)
(* first, the core that shows its mode and handles TICKs is built only     *)
(* after the speech models are loaded, and time passes in between.         *)
(***************************************************************************)
EXTENDS ModeMachine

CONSTANTS Windows,       \* sleep windows the GUI may choose
          ConfigWindow,  \* the one of config.yaml, used at every boot
          NoRow,         \* no row in mode_state yet
          LastInstant    \* bound: the clock stops there

ASSUME WindowAssumption ==
    /\ Windows \subseteq SleepWindow
    /\ ConfigWindow \in Windows
    /\ NoRow \notin Row
    /\ LastInstant \in Nat

VARIABLES clock,    \* the wall clock
          proc,     \* the daemon process
          machine,  \* the ModeMachine object (of no meaning while down)
          shown,    \* DaemonState.proactive_mode
          saved     \* the mode_state row

vars == <<clock, proc, machine, shown, saved>>

NoMachine == [mode |-> "ACTIVE", until |-> NoTime, wasIn |-> FALSE, window |-> ConfigWindow]

Init ==
    /\ clock \in [midnight : {0}, tod : TimeOfDay]
    /\ proc = "down"
    /\ machine = NoMachine
    /\ shown = "ACTIVE"
    /\ saved = NoRow

----------------------------------------------------------------------------
(* _apply_mode: show the mode, and store the override when what is shown   *)
(* changes or the caller insists.                                          *)

ApplyUnforced(m, force) ==
    /\ shown' = Effective(m, clock)
    /\ saved' = IF shown' # shown THEN Export(m) ELSE saved
ApplyToMemoryOnly(m, force) ==
    /\ shown' = shown
    /\ saved' = IF force THEN Export(m) ELSE saved
ApplyMode(m, force) ==
    /\ shown' = Effective(m, clock)
    /\ saved' = IF shown' # shown \/ force THEN Export(m) ELSE saved

\* TICK in _dispatch.
TickHandler ==
    /\ proc = "up"
    /\ machine' = Tick(machine, clock)
    /\ ApplyMode(machine', FALSE)
    /\ UNCHANGED <<clock, proc>>

\* command_mode: a voice command that passed the gatekeeper or a GUI button.
CommandMode(cmd) ==
    /\ proc = "up"
    /\ machine' = Command(machine, cmd, clock)
    /\ ApplyMode(machine', TRUE)
    /\ UNCHANGED <<clock, proc>>

\* set_sleep_window: PUT /mode/window.  Nothing writes the window to disk.
SetSleepWindow(w) ==
    /\ proc = "up"
    /\ machine' = Tick([machine EXCEPT !.window = w], clock)
    /\ ApplyMode(machine', FALSE)
    /\ UNCHANGED <<clock, proc>>

\* _run: build the machine, restore the row, tick once (in memory only).
Boot ==
    /\ proc = "down"
    /\ proc' = "booting"
    /\ LET fresh == NewMachine(ConfigWindow, clock)
           restored == IF saved = NoRow THEN fresh ELSE Restore(fresh, saved)
       IN  machine' = Tick(restored, clock)
    /\ UNCHANGED <<clock, shown, saved>>

\* DaemonCore.__init__, once warm-up is over.
CoreReady ==
    /\ proc = "booting"
    /\ proc' = "up"
    /\ shown' = Effective(machine, clock)
    /\ UNCHANGED <<clock, machine, saved>>

\* A shutdown or a crash: nothing is written on the way out.
Halt ==
    /\ proc # "down"
    /\ proc' = "down"
    /\ machine' = NoMachine
    /\ shown' = "ACTIVE"
    /\ UNCHANGED <<clock, saved>>

Advance(c) ==
    IF c.tod + 1 < DayLen THEN [c EXCEPT !.tod = @ + 1]
                          ELSE [midnight |-> c.midnight + DayLen, tod |-> 0]
TimePasses ==
    /\ Instant(clock) < LastInstant
    /\ clock' = Advance(clock)
    /\ UNCHANGED <<proc, machine, shown, saved>>

DaemonStep ==
    \/ TickHandler
    \/ \E cmd \in ModeCommand : CommandMode(cmd)
    \/ \E w \in Windows : SetSleepWindow(w)
    \/ Boot
    \/ CoreReady
    \/ Halt

Next == DaemonStep \/ TimePasses

Spec == Init /\ [][Next]_vars

\* The tick loop sleeps a fixed interval, so a daemon that stays up ticks.
FairSpec == Spec /\ WF_vars(TickHandler)

----------------------------------------------------------------------------
(* Properties.                                                             *)

\* The variables hold what mode.py and daemon.py put in them: a clock
\* reading, a process phase, a machine, a visible mode, a row or none.
TypeOK ==
    /\ clock \in ClockReading
    /\ proc \in {"down", "booting", "up"}
    /\ machine \in Machine
    /\ shown \in Mode
    /\ saved \in Row \cup {NoRow}

\* How an override ends (mode.py: "what tells the three apart is how they
\* end"): DND has no end of its own, SLEEP and SNOOZE always have one.
EndsAsItsModeSays(r) ==
    /\ r.mode = "DND" => r.until = NoTime
    /\ r.mode \in {"SLEEP", "SNOOZE"} => r.until # NoTime

\* No timed override, in memory or on disk, can keep navi quiet (or awake)
\* for more than a day, or a snooze if that is longer, and DND never gets an
\* expiry: over any sequence of commands, window changes and restarts.
Horizon == IF SnoozeLen > DayLen THEN SnoozeLen ELSE DayLen
OverrideEnds ==
    LET Rows == {Export(machine)} \cup (IF saved = NoRow THEN {} ELSE {saved})
    IN  \A r \in Rows :
            /\ EndsAsItsModeSays(r)
            /\ r.until # NoTime => r.until <= Instant(clock) + Horizon

\* A live forced wake lasts for this occurrence of the window only, and a
\* live manual sleep until the next wake time: there is a window, the one in
\* force at the command, whose next end is the override's end, and a forced
\* wake is still inside it.
EndsNextAt(w, t) ==
    /\ t \in {clock.midnight + w.end, clock.midnight + DayLen + w.end}
    /\ Instant(clock) < t /\ t <= Instant(clock) + DayLen
LiveUntilWindowEnd ==
    OverrideLive(machine, clock) =>
        /\ machine.mode = "ACTIVE" =>
              \E w \in Windows : EndsNextAt(w, machine.until) /\ Contains(w, clock.tod)
        /\ machine.mode = "SLEEP" => \E w \in Windows : EndsNextAt(w, machine.until)

\* The row on disk tells a restart what the machine holds: it is the
\* machine's override, or the machine holds none and the row's has expired.
OnDisk ==
    \/ saved = Export(machine)
    \/ /\ Export(machine) = Export(NoMachine)
       /\ saved # NoRow => saved.until # NoTime /\ saved.until <= Instant(clock)
Lost == proc # "down" /\ ~OnDisk

\* Night falls under a mode shown as SLEEP already: entering the window
\* erases a DND or SNOOZE of the day and nothing is seen to change.
Nightfall ==
    /\ shown = "SLEEP"
    /\ machine.mode \in {"DND", "SNOOZE"}
    /\ ~machine.wasIn /\ machine'.wasIn
    /\ Export(machine') = Export(NoMachine)

\* No command is lost by a crash.  A command, DND_CLEAR included, is on disk
\* in the step that obeys it, whatever was there before; and the row begins to
\* differ from the machine at such a nightfall only (the erasure is not
\* written), and then stays as it was until a command, a change of what is
\* shown or its expiry ends that.
CommandsSurviveCrash ==
    [][ Lost' => /\ ~\E cmd \in ModeCommand : CommandMode(cmd)
                 /\ \/ Nightfall
                    \/ Lost /\ Export(machine') = Export(machine) /\ saved' = saved ]_vars

\* "current_mode() is exact between ticks": a TICK, whatever it erases, never
\* changes the mode the gate sees; and a SLEEP, SNOOZE or DND command always
\* leaves the gate shut, whatever override or window edge it meets.
Quiet == Effective(machine, clock) # "ACTIVE"
GateOpensByHand ==
    [][ /\ TickHandler => Effective(machine', clock) = Effective(machine, clock)
        /\ (\E cmd \in {"SLEEP", "SNOOZE", "DND"} : CommandMode(cmd)) => Quiet' ]_vars

\* The mode a GUI sees catches up with the clock: the daemon shows the mode
\* the gate would use, or stops, or the mode moves on.
ShownCatchesUp ==
    \A md \in Mode :
        (proc = "up" /\ Effective(machine, clock) = md)
            ~> (proc # "up" \/ Effective(machine, clock) # md \/ shown = md)
=============================================================================
