---------------------------- MODULE ModeMachine ----------------------------
(***************************************************************************)
(* The proactive-mode state machine of navi/heartbeat/mode.py as pure      *)
(* operators: what tick() and command() make of a machine at an instant.   *)
(*                                                                         *)
(* A machine is the record [mode, until, wasIn, window] of the object's    *)
(* four fields.  A wall-clock reading is [midnight, tod]: the instant the  *)
(* current day began and the time of day, so that datetime.combine(date,   *)
(* t) is midnight + t and no operator divides.                             *)
(***************************************************************************)
EXTENDS Integers

CONSTANTS DayLen,     \* length of a day, in units of the model's clock
          SnoozeLen,  \* snooze_minutes, in the same units
          NoTime      \* Python's None for override_until

ASSUME ClockAssumption ==
    /\ DayLen \in Nat \ {0}
    /\ SnoozeLen \in Nat \ {0}
    /\ NoTime \notin Int

Mode == {"SLEEP", "ACTIVE", "DND", "SNOOZE"}
ModeCommand == {"SLEEP", "WAKE", "SNOOZE", "DND", "DND_CLEAR"}
TimeOfDay == 0 .. DayLen - 1
SleepWindow == [start : TimeOfDay, end : TimeOfDay]
ClockReading == [midnight : Int, tod : TimeOfDay]
Machine == [mode : Mode, until : Int \cup {NoTime}, wasIn : BOOLEAN, window : SleepWindow]

Instant(now) == now.midnight + now.tod

----------------------------------------------------------------------------
(* SleepWindow: [start, end), wrapping past midnight when start > end.     *)

Contains(w, t) ==
    IF w.start <= w.end THEN w.start <= t /\ t < w.end
                        ELSE t >= w.start \/ t < w.end

\* The first instant after now at which the clock shows the window's end.
NextEndAlwaysTomorrow(w, now) == now.midnight + w.end + DayLen
NextEnd(w, now) ==
    LET candidate == now.midnight + w.end
    IN  IF candidate <= Instant(now) THEN candidate + DayLen ELSE candidate

----------------------------------------------------------------------------
(* ModeMachine.                                                            *)

NewMachine(w, now) ==
    [mode |-> "ACTIVE", until |-> NoTime, wasIn |-> Contains(w, now.tod), window |-> w]

Override(m, mode, until) == [m EXCEPT !.mode = mode, !.until = until]
ClearedToNone(m) == Override(m, NoTime, NoTime)
Cleared(m) == Override(m, "ACTIVE", NoTime)

OverrideLive(m, now) == m.until # NoTime /\ Instant(now) < m.until
ForcedAwake(m, now) == m.mode = "ACTIVE" /\ OverrideLive(m, now)
Asleep(m, now) ==
    \/ m.mode = "SLEEP" /\ OverrideLive(m, now)
    \/ Contains(m.window, now.tod) /\ ~ForcedAwake(m, now)

\* The visible mode: a pure function of the stored state and the clock.
Effective(m, now) ==
    CASE Asleep(m, now) -> "SLEEP"
      [] ~Asleep(m, now) /\ m.mode = "SNOOZE" /\ OverrideLive(m, now) -> "SNOOZE"
      [] ~Asleep(m, now) /\ m.mode = "DND" -> "DND"
      [] OTHER -> "ACTIVE"

\* tick(): entering the window erases DND and SNOOZE, then an expired
\* override is erased.
EntersWindow(m, now) == Contains(m.window, now.tod) /\ ~m.wasIn
AfterExit(m, now) ==
    LET kept == IF ~Contains(m.window, now.tod) /\ m.wasIn /\ m.mode \in {"DND", "SNOOZE"}
                THEN Cleared(m) ELSE m
    IN  [kept EXCEPT !.wasIn = Contains(m.window, now.tod)]
AfterEntry(m, now) ==
    LET kept == IF EntersWindow(m, now) /\ m.mode \in {"DND", "SNOOZE"}
                THEN Cleared(m) ELSE m
    IN  [kept EXCEPT !.wasIn = Contains(m.window, now.tod)]
Tick(m, now) ==
    LET n == AfterEntry(m, now)
    IN  IF n.until # NoTime /\ Instant(now) >= n.until THEN Cleared(n) ELSE n

\* command(): the newest command replaces the override.  WAKE acts only on a
\* visible SLEEP or SNOOZE; inside the window it beats the window until its
\* end.  Every command is followed by a tick.
Commanded(m, cmd, now) ==
    CASE cmd = "SLEEP"  -> Override(m, "SLEEP", NextEnd(m.window, now))
      [] cmd = "SNOOZE" -> Override(m, "SNOOZE", Instant(now) + SnoozeLen)
      [] cmd = "DND"    -> Override(m, "DND", NoTime)
      [] cmd = "DND_CLEAR" /\ m.mode = "DND" -> Cleared(m)
      [] cmd = "WAKE" /\ Effective(m, now) \in {"SLEEP", "SNOOZE"} ->
            IF Contains(m.window, now.tod)
            THEN Override(m, "ACTIVE", NextEnd(m.window, now))
            ELSE Cleared(m)
      [] OTHER -> m
CommandKeepingUntil(m, cmd, now) ==
    IF cmd = "DND" THEN [Tick(m, now) EXCEPT !.mode = "DND"]
                   ELSE Tick(Commanded(m, cmd, now), now)
Command(m, cmd, now) == Tick(Commanded(m, cmd, now), now)

----------------------------------------------------------------------------
(* export_state() and restore_state(): the row of table mode_state.        *)

Row == [mode : Mode, until : Int \cup {NoTime}]
Export(m) == [mode |-> m.mode, until |-> m.until]
Restore(m, row) == Override(m, row.mode, row.until)
=============================================================================
