-------------------------- MODULE InitiativeProofs --------------------------
(* Theorems about the proactive axis and about the opening daemon around   *)
(* it, for every set of candidates and windows and all values of the gap,  *)
(* the response window and the cap.                                        *)
EXTENDS Initiative, FiniteSetTheorems, TLAPS

(***************************************************************************)
(* The proactive axis alone, for every day length, snooze length, set of   *)
(* sleep windows and bound.                                                *)
(***************************************************************************)

----------------------------------------------------------------------------
(* What the operators of the mode machine return.                          *)

\* The next end of a window is after now, and at most a day away.
LEMMA NextEndBounds ==
    ASSUME NEW w \in SleepWindow, NEW now \in ClockReading
    PROVE  /\ NextEnd(w, now) \in Int
           /\ Instant(now) < NextEnd(w, now)
           /\ NextEnd(w, now) <= Instant(now) + DayLen
BY ClockAssumption DEF NextEnd, Instant, SleepWindow, ClockReading, TimeOfDay

LEMMA InstantType ==
    ASSUME NEW now \in ClockReading
    PROVE  Instant(now) \in Int
BY ClockAssumption DEF Instant, ClockReading, TimeOfDay

LEMMA ContainsType ==
    ASSUME NEW w, NEW t
    PROVE  Contains(w, t) \in BOOLEAN
BY DEF Contains

\* Overriding changes the two stored fields and nothing else.
LEMMA OverrideFields ==
    ASSUME NEW m \in Machine, NEW md \in Mode, NEW t \in Int \cup {NoTime}
    PROVE  /\ Override(m, md, t) \in Machine
           /\ Override(m, md, t).mode = md
           /\ Override(m, md, t).until = t
           /\ Override(m, md, t).wasIn = m.wasIn
           /\ Override(m, md, t).window = m.window
BY DEF Override, Machine

\* A tick yields a machine with the same window that either keeps the
\* override or clears it, and says when it clears.
LEMMA TickFields ==
    ASSUME NEW m \in Machine, NEW now \in ClockReading
    PROVE  /\ Tick(m, now) \in Machine
           /\ Tick(m, now).window = m.window
           /\ Tick(m, now).wasIn = Contains(m.window, now.tod)
           /\ \/ Tick(m, now).mode = m.mode /\ Tick(m, now).until = m.until
              \/ /\ Tick(m, now).mode = "ACTIVE" /\ Tick(m, now).until = NoTime
                 /\ \/ m.until # NoTime /\ m.until <= Instant(now)
                    \/ EntersWindow(m, now) /\ m.mode \in {"DND", "SNOOZE"}
<1> DEFINE n == AfterEntry(m, now)
<1>1. /\ n \in Machine
      /\ n.window = m.window
      /\ n.wasIn = Contains(m.window, now.tod)
      /\ \/ n.mode = m.mode /\ n.until = m.until
         \/ /\ n.mode = "ACTIVE" /\ n.until = NoTime
            /\ EntersWindow(m, now) /\ m.mode \in {"DND", "SNOOZE"}
  <2>1. CASE EntersWindow(m, now) /\ m.mode \in {"DND", "SNOOZE"}
    BY <2>1, ContainsType DEF AfterEntry, Cleared, Override, Machine, Mode
  <2>2. CASE ~(EntersWindow(m, now) /\ m.mode \in {"DND", "SNOOZE"})
    BY <2>2, ContainsType DEF AfterEntry, Machine
  <2> QED BY <2>1, <2>2
<1>2. Instant(now) \in Int
  BY InstantType
<1>3. CASE n.until # NoTime /\ Instant(now) >= n.until
  <2>1. Tick(m, now) = Cleared(n)
    BY <1>3 DEF Tick
  <2>2. /\ Cleared(n) \in Machine /\ Cleared(n).window = n.window
        /\ Cleared(n).wasIn = n.wasIn
        /\ Cleared(n).mode = "ACTIVE" /\ Cleared(n).until = NoTime
    BY <1>1 DEF Cleared, Override, Machine, Mode
  <2>3. m.until # NoTime /\ m.until <= Instant(now)
    BY <1>1, <1>2, <1>3 DEF Machine
  <2> QED BY <1>1, <2>1, <2>2, <2>3
<1>4. CASE ~(n.until # NoTime /\ Instant(now) >= n.until)
  <2>1. Tick(m, now) = n
    BY <1>4 DEF Tick
  <2> QED BY <1>1, <2>1
<1> QED BY <1>3, <1>4

\* Two machines with the same stored fields and window look the same.
LEMMA EffectiveReads ==
    ASSUME NEW m, NEW n, NEW now,
           n.mode = m.mode, n.until = m.until, n.window = m.window
    PROVE  Effective(n, now) = Effective(m, now)
BY DEF Effective, Asleep, ForcedAwake, OverrideLive

LEMMA EffectiveType ==
    ASSUME NEW m, NEW now
    PROVE  Effective(m, now) \in Mode
BY DEF Effective, Mode

\* "Exact between ticks": whatever a tick erases was not visible any more.
LEMMA TickIsInvisible ==
    ASSUME NEW m \in Machine, NEW now \in ClockReading, EndsAsItsModeSays(m)
    PROVE  Effective(Tick(m, now), now) = Effective(m, now)
<1> DEFINE n == Tick(m, now)
<1>1. n.window = m.window
  BY TickFields
<1>2. CASE n.mode = m.mode /\ n.until = m.until
  BY <1>1, <1>2, EffectiveReads
<1>3. CASE /\ n.mode = "ACTIVE" /\ n.until = NoTime
           /\ m.until # NoTime /\ m.until <= Instant(now)
  <2>1. m.mode # "DND"
    BY <1>3 DEF EndsAsItsModeSays
  <2>2. ~OverrideLive(m, now) /\ ~OverrideLive(n, now)
    BY <1>3, InstantType DEF OverrideLive, Machine
  <2> QED BY <1>1, <1>3, <2>1, <2>2 DEF Effective, Asleep, ForcedAwake
<1>4. CASE /\ n.mode = "ACTIVE" /\ n.until = NoTime
           /\ EntersWindow(m, now) /\ m.mode \in {"DND", "SNOOZE"}
  <2>1. ~ForcedAwake(m, now) /\ ~ForcedAwake(n, now)
    BY <1>4 DEF ForcedAwake, OverrideLive
  <2>2. Asleep(m, now) /\ Asleep(n, now)
    BY <1>1, <1>4, <2>1 DEF Asleep, EntersWindow
  <2> QED BY <2>2 DEF Effective
<1> QED BY <1>2, <1>3, <1>4, TickFields

\* What a command leaves before its trailing tick: a well-formed machine
\* whose override, when it is a new one, ends within the horizon.
LEMMA CommandedFields ==
    ASSUME NEW m \in Machine, NEW now \in ClockReading, NEW cmd \in ModeCommand
    PROVE  /\ Commanded(m, cmd, now) \in Machine
           /\ EndsAsItsModeSays(m) => EndsAsItsModeSays(Commanded(m, cmd, now))
           /\ \/ Commanded(m, cmd, now).until = m.until
              \/ Commanded(m, cmd, now).until = NoTime
              \/ Commanded(m, cmd, now).until <= Instant(now) + Horizon
<1> DEFINE c == Commanded(m, cmd, now)
           e == NextEnd(m.window, now)
<1>0. /\ e \in Int /\ e <= Instant(now) + DayLen
      /\ Instant(now) \in Int /\ Instant(now) + SnoozeLen \in Int
      /\ NoTime \notin Int
  BY NextEndBounds, InstantType, ClockAssumption DEF Machine
<1>m. "SLEEP" \in Mode /\ "SNOOZE" \in Mode /\ "DND" \in Mode /\ "ACTIVE" \in Mode
  BY DEF Mode
<1>h. /\ Instant(now) + DayLen <= Instant(now) + Horizon
      /\ Instant(now) + SnoozeLen <= Instant(now) + Horizon
  BY <1>0, ClockAssumption DEF Horizon
<1>1. CASE cmd = "SLEEP"
  <2>1. c = Override(m, "SLEEP", e)
    BY <1>1 DEF Commanded
  <2>2. c \in Machine /\ c.mode = "SLEEP" /\ c.until = e
    BY <1>0, <1>m, <2>1 DEF Override, Machine
  <2>3. c.until <= Instant(now) + Horizon
    BY <1>0, <1>h, <2>2, ClockAssumption DEF Horizon
  <2> QED BY <1>0, <2>2, <2>3 DEF EndsAsItsModeSays
<1>2. CASE cmd = "SNOOZE"
  <2>1. c = Override(m, "SNOOZE", Instant(now) + SnoozeLen)
    BY <1>2 DEF Commanded
  <2>2. c \in Machine /\ c.mode = "SNOOZE" /\ c.until = Instant(now) + SnoozeLen
    BY <1>0, <1>m, <2>1 DEF Override, Machine
  <2> QED BY <1>0, <1>h, <2>2 DEF EndsAsItsModeSays
<1>3. CASE cmd = "DND"
  <2>1. c = Override(m, "DND", NoTime)
    BY <1>3 DEF Commanded
  <2>2. c \in Machine /\ c.mode = "DND" /\ c.until = NoTime
    BY <1>m, <2>1 DEF Override, Machine
  <2> QED BY <2>2 DEF EndsAsItsModeSays
<1>4. ASSUME c = Cleared(m)
      PROVE  /\ c \in Machine /\ EndsAsItsModeSays(c) /\ c.until = NoTime
  BY <1>0, <1>4, <1>m DEF Cleared, Override, Machine, EndsAsItsModeSays
<1>5. ASSUME c = Override(m, "ACTIVE", e)
      PROVE  /\ c \in Machine /\ EndsAsItsModeSays(c)
             /\ c.until <= Instant(now) + Horizon
  <2>1. c \in Machine /\ c.mode = "ACTIVE" /\ c.until = e
    BY <1>0, <1>5, <1>m DEF Override, Machine
  <2>2. c.until <= Instant(now) + Horizon
    BY <1>0, <1>h, <2>1, ClockAssumption DEF Horizon
  <2> QED BY <2>1, <2>2 DEF EndsAsItsModeSays
<1>6. CASE cmd = "DND_CLEAR"
  <2>1. c = Cleared(m) \/ c = m
    BY <1>6 DEF Commanded
  <2> QED BY <1>4, <2>1
<1>7. CASE cmd = "WAKE"
  <2>1. c = Cleared(m) \/ c = m \/ c = Override(m, "ACTIVE", e)
    BY <1>7 DEF Commanded
  <2> QED BY <1>4, <1>5, <2>1
<1> QED BY <1>1, <1>2, <1>3, <1>6, <1>7 DEF ModeCommand

----------------------------------------------------------------------------
(* Type correctness.                                                       *)

LEMMA NoMachineType == NoMachine \in Machine
BY WindowAssumption DEF NoMachine, Machine, Mode

LEMMA AdvanceType ==
    ASSUME NEW c \in ClockReading
    PROVE  /\ Advance(c) \in ClockReading
           /\ Instant(Advance(c)) = Instant(c) + 1
<1>1. /\ c.midnight \in Int /\ c.tod \in 0 .. DayLen - 1 /\ DayLen \in Nat
      /\ c = [midnight |-> c.midnight, tod |-> c.tod]
  BY ClockAssumption DEF ClockReading, TimeOfDay
<1>2. CASE c.tod + 1 = DayLen
  BY <1>1, <1>2, ClockAssumption DEF Advance, ClockReading, TimeOfDay, Instant
<1>3. CASE c.tod + 1 # DayLen
  BY <1>1, <1>3, ClockAssumption DEF Advance, ClockReading, TimeOfDay, Instant
<1> QED BY <1>2, <1>3

LEMMA ExportType ==
    ASSUME NEW m \in Machine
    PROVE  /\ Export(m) \in Row
           /\ Export(m).mode = m.mode /\ Export(m).until = m.until
BY DEF Export, Row, Machine

LEMMA RestoreType ==
    ASSUME NEW m \in Machine, NEW r \in Row
    PROVE  /\ Restore(m, r) \in Machine
           /\ Restore(m, r).mode = r.mode /\ Restore(m, r).until = r.until
           /\ Restore(m, r).wasIn = m.wasIn /\ Restore(m, r).window = m.window
<1>1. r.mode \in Mode /\ r.until \in Int \cup {NoTime}
  BY DEF Row
<1>2. PICK mode \in Mode, until \in Int \cup {NoTime} : mode = r.mode /\ until = r.until
  BY <1>1
<1>3. /\ Override(m, mode, until) \in Machine
      /\ Override(m, mode, until).mode = mode /\ Override(m, mode, until).until = until
      /\ Override(m, mode, until).wasIn = m.wasIn
      /\ Override(m, mode, until).window = m.window
  BY OverrideFields
<1> QED BY <1>2, <1>3 DEF Restore

LEMMA NewMachineType ==
    ASSUME NEW now \in ClockReading
    PROVE  NewMachine(ConfigWindow, now) \in Machine
BY WindowAssumption, ContainsType DEF NewMachine, Machine, Mode

\* The machine that a boot restores before its tick.
Restored == LET fresh == NewMachine(ConfigWindow, clock)
            IN  IF saved = NoRow THEN fresh ELSE Restore(fresh, saved)

LEMMA RestoredType ==
    ASSUME TypeOK
    PROVE  /\ Restored \in Machine
           /\ saved = NoRow => Restored.mode = "ACTIVE" /\ Restored.until = NoTime
           /\ saved # NoRow => Restored.mode = saved.mode /\ Restored.until = saved.until
           /\ Restored.wasIn = Contains(Restored.window, clock.tod)
<1> DEFINE fresh == NewMachine(ConfigWindow, clock)
<1>0. fresh \in Machine /\ fresh.wasIn = Contains(fresh.window, clock.tod)
  BY NewMachineType DEF TypeOK, NewMachine
<1>1. CASE saved = NoRow
  BY <1>0, <1>1 DEF Restored, NewMachine
<1>2. CASE saved # NoRow
  <2>1. Restored = Restore(fresh, saved) /\ saved \in Row
    BY <1>2 DEF TypeOK, Restored
  <2> QED BY <1>0, <1>2, <2>1, RestoreType
<1> QED BY <1>1, <1>2

LEMMA ApplyModeType ==
    ASSUME NEW m \in Machine, NEW force \in BOOLEAN, TypeOK, ApplyMode(m, force)
    PROVE  shown' \in Mode /\ saved' \in Row \cup {NoRow}
BY EffectiveType, ExportType DEF ApplyMode, TypeOK

\* Every variable keeps its type.
THEOREM TypeCorrect == Spec => []TypeOK
<1>1. Init => TypeOK
  BY NoMachineType, ClockAssumption DEF Init, TypeOK, ClockReading, Mode, Row
<1>2. TypeOK /\ [Next]_vars => TypeOK'
  <2> SUFFICES ASSUME TypeOK, [Next]_vars PROVE TypeOK'
    OBVIOUS
  <2>1. CASE TickHandler
    <3>1. machine' \in Machine
      BY <2>1, TickFields DEF TickHandler, TypeOK
    <3>2. shown' \in Mode /\ saved' \in Row \cup {NoRow}
      BY <2>1, <3>1, ApplyModeType DEF TickHandler
    <3> QED BY <2>1, <3>1, <3>2 DEF TickHandler, TypeOK
  <2>2. ASSUME NEW cmd \in ModeCommand, CommandMode(cmd) PROVE TypeOK'
    <3>1. Commanded(machine, cmd, clock) \in Machine
      BY CommandedFields DEF TypeOK
    <3>2. machine' \in Machine
      BY <2>2, <3>1, TickFields DEF CommandMode, Command, TypeOK
    <3>3. shown' \in Mode /\ saved' \in Row \cup {NoRow}
      BY <2>2, <3>2, ApplyModeType DEF CommandMode
    <3> QED BY <2>2, <3>2, <3>3 DEF CommandMode, TypeOK
  <2>3. ASSUME NEW w \in Windows, SetSleepWindow(w) PROVE TypeOK'
    <3>1. [machine EXCEPT !.window = w] \in Machine
      BY WindowAssumption DEF TypeOK, Machine
    <3>2. machine' \in Machine
      BY <2>3, <3>1, TickFields DEF SetSleepWindow, TypeOK
    <3>3. shown' \in Mode /\ saved' \in Row \cup {NoRow}
      BY <2>3, <3>2, ApplyModeType DEF SetSleepWindow
    <3> QED BY <2>3, <3>2, <3>3 DEF SetSleepWindow, TypeOK
  <2>4. CASE Boot
    <3>1. machine' = Tick(Restored, clock)
      BY <2>4 DEF Boot, Restored
    <3>2. machine' \in Machine
      BY <3>1, RestoredType, TickFields DEF TypeOK
    <3> QED BY <2>4, <3>2 DEF Boot, TypeOK
  <2>5. CASE CoreReady
    BY <2>5, EffectiveType DEF CoreReady, TypeOK
  <2>6. CASE Halt
    BY <2>6, NoMachineType DEF Halt, TypeOK, Mode
  <2>7. CASE TimePasses
    BY <2>7, AdvanceType DEF TimePasses, TypeOK
  <2>8. CASE UNCHANGED vars
    BY <2>8 DEF vars, TypeOK
  <2> QED BY <2>1, <2>2, <2>3, <2>4, <2>5, <2>6, <2>7, <2>8 DEF Next, DaemonStep
<1> QED BY <1>1, <1>2, PTL DEF Spec

----------------------------------------------------------------------------
(* Overrides end.  OverrideEnds is inductive once typed: a command makes   *)
(* an override within the horizon of now, ticks only clear, and the clock  *)
(* only moves forward.                                                     *)

RowEnds(r) == /\ EndsAsItsModeSays(r)
              /\ r.until # NoTime => r.until <= Instant(clock) + Horizon

LEMMA OverrideEndsByRow ==
    OverrideEnds <=> RowEnds(Export(machine)) /\ (saved # NoRow => RowEnds(saved))
BY DEF OverrideEnds, RowEnds

LEMMA RowEndsExport ==
    ASSUME NEW m \in Machine
    PROVE  /\ RowEnds(Export(m)) <=> RowEnds(m)
           /\ EndsAsItsModeSays(Export(m)) <=> EndsAsItsModeSays(m)
BY DEF RowEnds, EndsAsItsModeSays, Export

LEMMA TickEnds ==
    ASSUME NEW m \in Machine, clock \in ClockReading, RowEnds(m)
    PROVE  RowEnds(Tick(m, clock))
BY TickFields DEF RowEnds, EndsAsItsModeSays

LEMMA ApplyModeEnds ==
    ASSUME NEW m \in Machine, NEW force \in BOOLEAN, saved # NoRow => RowEnds(saved),
           RowEnds(m), ApplyMode(m, force)
    PROVE  saved' # NoRow => RowEnds(saved')
BY RowEndsExport DEF ApplyMode

\* DND never expires by itself, and no override, in memory or on disk, lasts
\* longer than the horizon, over any run of commands, restarts and windows.
THEOREM OverridesEnd == Spec => []OverrideEnds
<1>1. Init => OverrideEnds
  BY NoMachineType, RowEndsExport, OverrideEndsByRow
     DEF Init, NoMachine, RowEnds, EndsAsItsModeSays, Export
<1>2. TypeOK /\ TypeOK' /\ OverrideEnds /\ [Next]_vars => OverrideEnds'
  <2> SUFFICES ASSUME TypeOK, TypeOK', OverrideEnds, [Next]_vars PROVE OverrideEnds'
    OBVIOUS
  <2>0. RowEnds(machine) /\ (saved # NoRow => RowEnds(saved)) /\ machine \in Machine
        /\ machine' \in Machine /\ clock \in ClockReading
    BY OverrideEndsByRow, RowEndsExport DEF TypeOK
  <2>s. ASSUME clock' = clock, RowEnds(machine'), saved' # NoRow => RowEnds(saved')
        PROVE  OverrideEnds'
    <3>1. RowEnds(Export(machine'))
      BY <2>0, <2>s, RowEndsExport
    <3> QED BY <2>s, <3>1 DEF OverrideEnds, RowEnds
  <2>1. CASE TickHandler
    <3>1. RowEnds(machine') /\ clock' = clock
      BY <2>0, <2>1, TickEnds DEF TickHandler
    <3>2. saved' # NoRow => RowEnds(saved')
      BY <2>0, <2>1, <3>1, ApplyModeEnds DEF TickHandler
    <3> QED BY <2>s, <3>1, <3>2
  <2>2. ASSUME NEW cmd \in ModeCommand, CommandMode(cmd) PROVE OverrideEnds'
    <3> DEFINE c == Commanded(machine, cmd, clock)
    <3>1. c \in Machine /\ EndsAsItsModeSays(c)
          /\ (c.until = machine.until \/ c.until = NoTime
              \/ c.until <= Instant(clock) + Horizon)
      BY <2>0, CommandedFields DEF RowEnds
    <3>2. RowEnds(c)
      BY <2>0, <3>1 DEF RowEnds
    <3>3. RowEnds(machine') /\ clock' = clock
      BY <2>0, <2>2, <3>1, <3>2, TickEnds DEF CommandMode, Command
    <3>4. saved' # NoRow => RowEnds(saved')
      BY <2>0, <2>2, <3>3, ApplyModeEnds DEF CommandMode
    <3> QED BY <2>s, <3>3, <3>4
  <2>3. ASSUME NEW w \in Windows, SetSleepWindow(w) PROVE OverrideEnds'
    <3> DEFINE c == [machine EXCEPT !.window = w]
    <3>1. c \in Machine /\ c.mode = machine.mode /\ c.until = machine.until
      BY <2>0, WindowAssumption DEF Machine
    <3>2. RowEnds(c)
      BY <2>0, <3>1 DEF RowEnds, EndsAsItsModeSays
    <3>3. RowEnds(machine') /\ clock' = clock
      BY <2>0, <2>3, <3>1, <3>2, TickEnds DEF SetSleepWindow
    <3>4. saved' # NoRow => RowEnds(saved')
      BY <2>0, <2>3, <3>3, ApplyModeEnds DEF SetSleepWindow
    <3> QED BY <2>s, <3>3, <3>4
  <2>4. CASE Boot
    <3>1. Restored \in Machine /\ RowEnds(Restored)
      BY <2>0, RestoredType DEF RowEnds, EndsAsItsModeSays
    <3>2. machine' = Tick(Restored, clock)
      BY <2>4 DEF Boot, Restored
    <3>3. RowEnds(machine')
      BY <2>0, <3>1, <3>2, TickEnds
    <3> QED BY <2>0, <2>4, <2>s, <3>3 DEF Boot
  <2>5. CASE CoreReady
    BY <2>0, <2>5, <2>s DEF CoreReady
  <2>6. CASE Halt
    <3>1. RowEnds(machine')
      BY <2>6 DEF Halt, NoMachine, RowEnds, EndsAsItsModeSays
    <3> QED BY <2>0, <2>6, <2>s, <3>1 DEF Halt
  <2>7. CASE TimePasses
    <3>1. Instant(clock') = Instant(clock) + 1 /\ Instant(clock) \in Int /\ Horizon \in Int
      BY <2>0, <2>7, AdvanceType, InstantType, ClockAssumption DEF TimePasses, Horizon
    <3>2. ASSUME NEW r, r.until \in Int \cup {NoTime}, RowEnds(r)
          PROVE  EndsAsItsModeSays(r) /\
                 (r.until # NoTime => r.until <= Instant(clock') + Horizon)
      BY <3>1, <3>2 DEF RowEnds
    <3>3. Export(machine).until \in Int \cup {NoTime} /\ RowEnds(Export(machine))
      BY <2>0, RowEndsExport, ExportType DEF Machine
    <3>4. saved # NoRow => saved.until \in Int \cup {NoTime}
      BY DEF TypeOK, Row
    <3> QED BY <2>0, <2>7, <3>2, <3>3, <3>4 DEF TimePasses, OverrideEnds
  <2>8. CASE UNCHANGED vars
    BY <2>8 DEF vars, OverrideEnds
  <2> QED BY <2>1, <2>2, <2>3, <2>4, <2>5, <2>6, <2>7, <2>8 DEF Next, DaemonStep
<1> QED BY <1>1, <1>2, TypeCorrect, PTL DEF Spec

----------------------------------------------------------------------------
(* Commands survive a crash.  The invariant is that the row is the         *)
(* machine's override unless the machine holds none; what a tick clears    *)
(* was already expired or was a DND or SNOOZE at nightfall.                *)

LEMMA ClearedExport ==
    ASSUME NEW m \in Machine
    PROVE  Export(m) = Export(NoMachine) <=> m.mode = "ACTIVE" /\ m.until = NoTime
BY DEF Export, NoMachine, Machine

LEMMA SameExport ==
    ASSUME NEW m \in Machine, NEW n \in Machine, n.mode = m.mode, n.until = m.until
    PROVE  Export(n) = Export(m)
BY DEF Export

\* The row r is the override of machine m, or m holds none.
RowIsOverride(r, m) == r = Export(m) \/ Export(m) = Export(NoMachine)

LEMMA TickRow ==
    ASSUME NEW m \in Machine, NEW now \in ClockReading, NEW r, RowIsOverride(r, m)
    PROVE  RowIsOverride(r, Tick(m, now))
<1> DEFINE n == Tick(m, now)
<1>0. n \in Machine
  BY TickFields
<1>1. CASE n.mode = m.mode /\ n.until = m.until
  <2>1. Export(n) = Export(m)
    BY <1>0, <1>1, SameExport
  <2> QED BY <2>1 DEF RowIsOverride
<1>2. CASE n.mode = "ACTIVE" /\ n.until = NoTime
  <2>1. Export(n) = Export(NoMachine)
    BY <1>0, <1>2, ClearedExport
  <2> QED BY <2>1 DEF RowIsOverride
<1> QED BY <1>1, <1>2, TickFields

\* A tick that clears clears what has expired, or a DND or SNOOZE on entry.
LEMMA TickClears ==
    ASSUME NEW m \in Machine, NEW now \in ClockReading
    PROVE  LET n == Tick(m, now) IN
           \/ Export(n) = Export(m)
           \/ /\ Export(n) = Export(NoMachine)
              /\ \/ m.until # NoTime /\ m.until <= Instant(now)
                 \/ m.mode \in {"DND", "SNOOZE"} /\ ~m.wasIn /\ n.wasIn
<1> DEFINE n == Tick(m, now)
<1>0. n \in Machine
  BY TickFields
<1>1. CASE n.mode = m.mode /\ n.until = m.until
  BY <1>0, <1>1, SameExport
<1>2. CASE /\ n.mode = "ACTIVE" /\ n.until = NoTime
           /\ \/ m.until # NoTime /\ m.until <= Instant(now)
              \/ EntersWindow(m, now) /\ m.mode \in {"DND", "SNOOZE"}
  <2>1. Export(n) = Export(NoMachine)
    BY <1>0, <1>2, ClearedExport
  <2>2. EntersWindow(m, now) => ~m.wasIn /\ n.wasIn
    BY TickFields DEF EntersWindow
  <2> QED BY <1>2, <2>1, <2>2
<1> QED BY <1>1, <1>2, TickFields

\* What is applied without being written is what was on disk already.
LEMMA ApplyModeRow ==
    ASSUME NEW m, NEW force \in BOOLEAN, ApplyMode(m, force)
    PROVE  \/ saved' = Export(m)
           \/ saved' = saved /\ ~force /\ shown' = shown /\ shown' = Effective(m, clock)
<1>1. CASE shown' # shown \/ force
  BY <1>1 DEF ApplyMode
<1>2. CASE ~(shown' # shown \/ force)
  BY <1>2 DEF ApplyMode
<1> QED BY <1>1, <1>2

LEMMA RowInvariant == Spec => [](proc # "down" => RowIsOverride(saved, machine))
<1> DEFINE Inv == proc # "down" => RowIsOverride(saved, machine)
<1>1. Init => Inv
  BY DEF Init
<1>2. TypeOK /\ Inv /\ [Next]_vars => Inv'
  <2> SUFFICES ASSUME TypeOK, Inv, [Next]_vars PROVE Inv'
    OBVIOUS
  <2>0. machine \in Machine /\ clock \in ClockReading
    BY DEF TypeOK
  <2>1. CASE TickHandler
    <3>1. RowIsOverride(saved, machine')
      BY <2>0, <2>1, TickRow DEF TickHandler
    <3> QED BY <2>1, <3>1, ApplyModeRow DEF TickHandler, RowIsOverride
  <2>2. ASSUME NEW cmd \in ModeCommand, CommandMode(cmd) PROVE Inv'
    BY <2>2, ApplyModeRow DEF CommandMode, RowIsOverride
  <2>3. ASSUME NEW w \in Windows, SetSleepWindow(w) PROVE Inv'
    <3> DEFINE c == [machine EXCEPT !.window = w]
    <3>1. c \in Machine /\ c.mode = machine.mode /\ c.until = machine.until
      BY <2>0, WindowAssumption DEF Machine
    <3>2. RowIsOverride(saved, c)
      BY <2>0, <2>3, <3>1, SameExport DEF SetSleepWindow, RowIsOverride
    <3>3. RowIsOverride(saved, machine')
      BY <2>0, <2>3, <3>1, <3>2, TickRow DEF SetSleepWindow
    <3> QED BY <2>3, <3>3, ApplyModeRow DEF SetSleepWindow, RowIsOverride
  <2>4. CASE Boot
    <3>1. machine' = Tick(Restored, clock) /\ Restored \in Machine
      BY <2>4, RestoredType DEF Boot, Restored
    <3>2. RowIsOverride(saved, Restored)
      <4>1. CASE saved = NoRow
        BY <3>1, <4>1, RestoredType, ClearedExport DEF RowIsOverride
      <4>2. CASE saved # NoRow
        BY <3>1, <4>2, RestoredType DEF RowIsOverride, Export, TypeOK, Row
      <4> QED BY <4>1, <4>2
    <3>3. RowIsOverride(saved, machine')
      BY <2>0, <3>1, <3>2, TickRow
    <3> QED BY <2>4, <3>3 DEF Boot
  <2>5. CASE CoreReady
    BY <2>5 DEF CoreReady
  <2>6. CASE Halt
    BY <2>6 DEF Halt
  <2>7. CASE TimePasses
    BY <2>7 DEF TimePasses
  <2>8. CASE UNCHANGED vars
    BY <2>8 DEF vars
  <2> QED BY <2>1, <2>2, <2>3, <2>4, <2>5, <2>6, <2>7, <2>8 DEF Next, DaemonStep
<1> QED BY <1>1, <1>2, TypeCorrect, PTL DEF Spec

\* A tick of a machine that holds what c holds leaves the row telling what the
\* machine holds, or keeps a loss as it was, or night falls.
LEMMA TickKeepsOrLoses ==
    ASSUME machine \in Machine, NEW c \in Machine, clock \in ClockReading,
           Export(c) = Export(machine), c.wasIn = machine.wasIn,
           machine' = Tick(c, clock), clock' = clock, proc = "up",
           RowIsOverride(saved, machine), ApplyMode(machine', FALSE),
           Lost'
    PROVE  Nightfall \/ (Lost /\ Export(machine') = Export(machine) /\ saved' = saved)
<1> DEFINE n == Tick(c, clock)
<1>1. c.mode = machine.mode /\ c.until = machine.until
  BY DEF Export
<1>2. n \in Machine /\ machine' = n
  BY TickFields
<1>3. ~OnDisk'
  BY DEF Lost
<1>4. saved' # Export(n)
  BY <1>2, <1>3 DEF OnDisk
<1>5. saved' = saved /\ shown = Effective(n, clock)
  BY <1>2, <1>4, ApplyModeRow
<1>6. CASE Export(n) = Export(c)
  <2>1. Export(machine') = Export(machine)
    BY <1>2, <1>6
  <2>2. Lost
    BY <1>3, <1>5, <2>1 DEF Lost, OnDisk
  <2> QED BY <1>5, <2>1, <2>2
<1>7. CASE /\ Export(n) # Export(c)
           /\ Export(n) = Export(NoMachine)
           /\ c.until # NoTime /\ c.until <= Instant(clock)
  <2>1. saved = Export(machine) \/ Export(c) = Export(NoMachine)
    BY DEF RowIsOverride
  <2>2. saved.until = machine.until
    BY <1>7, <2>1 DEF Export
  <2>3. OnDisk'
    BY <1>1, <1>2, <1>5, <1>7, <2>2 DEF OnDisk
  <2> QED BY <1>3, <2>3
<1>8. CASE /\ Export(n) = Export(NoMachine)
           /\ c.mode \in {"DND", "SNOOZE"} /\ ~c.wasIn /\ n.wasIn
  <2>1. n.mode = "ACTIVE" /\ n.until = NoTime
    BY <1>2, <1>8, ClearedExport
  <2>2. Contains(n.window, clock.tod)
    BY <1>8, TickFields
  <2>3. Effective(n, clock) = "SLEEP"
    BY <2>1, <2>2 DEF Effective, Asleep, ForcedAwake, OverrideLive
  <2> QED BY <1>1, <1>2, <1>5, <1>8, <2>3 DEF Nightfall
<1> QED BY <1>6, <1>7, <1>8, TickClears

\* No command is lost by a crash, whatever was commanded, when the daemon
\* stopped and how often it was restarted: only what nightfall erases under a
\* mode shown as SLEEP is not written.
THEOREM CommandsKept == Spec => CommandsSurviveCrash
<1> DEFINE Kept == Lost' => /\ ~\E cmd \in ModeCommand : CommandMode(cmd)
                            /\ \/ Nightfall
                               \/ /\ Lost /\ Export(machine') = Export(machine)
                                  /\ saved' = saved
<1>1. ASSUME TypeOK, proc # "down" => RowIsOverride(saved, machine), [Next]_vars
      PROVE  [Kept]_vars
  <2>0. machine \in Machine /\ clock \in ClockReading
    BY <1>1 DEF TypeOK
  <2>1. ASSUME NEW cmd \in ModeCommand, CommandMode(cmd) PROVE ~Lost'
    BY <2>1, ApplyModeRow DEF CommandMode, Lost, OnDisk
  <2> SUFFICES ASSUME Lost', ~\E cmd \in ModeCommand : CommandMode(cmd),
                      vars' # vars
               PROVE  Nightfall \/ (Lost /\ Export(machine') = Export(machine) /\ saved' = saved)
    BY <2>1
  <2>2. CASE TickHandler
    BY <1>1, <2>0, <2>2, TickKeepsOrLoses DEF TickHandler
  <2>3. ASSUME NEW w \in Windows, SetSleepWindow(w)
        PROVE  Nightfall \/ (Lost /\ Export(machine') = Export(machine) /\ saved' = saved)
    <3> DEFINE c == [machine EXCEPT !.window = w]
    <3>1. /\ c \in Machine /\ c.mode = machine.mode /\ c.until = machine.until
          /\ c.wasIn = machine.wasIn
      BY <2>0, WindowAssumption DEF Machine
    <3>2. Export(c) = Export(machine)
      BY <2>0, <3>1, SameExport
    <3> QED BY <1>1, <2>0, <2>3, <3>1, <3>2, TickKeepsOrLoses DEF SetSleepWindow
  <2>4. CASE Boot
    <3>1. machine' = Tick(Restored, clock) /\ Restored \in Machine
      BY <1>1, <2>4, RestoredType DEF Boot, Restored
    <3>2. saved # NoRow => saved = Export(Restored)
      BY <3>1, <1>1, RestoredType DEF Export, TypeOK, Row
    <3>3. saved = NoRow => Export(Restored) = Export(NoMachine)
      BY <1>1, <3>1, RestoredType, ClearedExport
    <3>4. Restored.wasIn = Contains(Restored.window, clock.tod)
      BY <1>1, RestoredType
    <3>5. Tick(Restored, clock).wasIn => Restored.wasIn
      BY <3>1, <3>4, <2>0, TickFields
    <3>6. \/ Export(machine') = Export(Restored)
          \/ /\ Export(machine') = Export(NoMachine)
             /\ Restored.until # NoTime /\ Restored.until <= Instant(clock)
      BY <2>0, <3>1, <3>5, TickClears
    <3>7. saved # NoRow => saved.until = Restored.until
      BY <3>2 DEF Export
    <3>8. OnDisk'
      BY <2>4, <3>2, <3>3, <3>6, <3>7 DEF OnDisk, Boot
    <3> QED BY <3>8 DEF Lost
  <2>5. CASE CoreReady
    BY <2>5 DEF CoreReady, Lost, OnDisk
  <2>6. CASE Halt
    BY <2>6 DEF Halt, Lost
  <2>7. CASE TimePasses
    <3>1. Instant(clock') = Instant(clock) + 1 /\ Instant(clock) \in Int
      BY <2>0, <2>7, AdvanceType, InstantType DEF TimePasses
    <3>2. saved # NoRow /\ saved.until # NoTime => saved.until \in Int
      BY <1>1 DEF TypeOK, Row
    <3> QED BY <2>7, <3>1, <3>2 DEF TimePasses, Lost, OnDisk
  <2> QED BY <1>1, <2>2, <2>3, <2>4, <2>5, <2>6, <2>7 DEF Next, DaemonStep
<1> QED BY <1>1, TypeCorrect, RowInvariant, PTL DEF Spec, CommandsSurviveCrash

----------------------------------------------------------------------------
(* The gate opens by hand only.                                            *)

\* After a command that asks for quiet, the gate is shut.
LEMMA SilenceObeyed ==
    ASSUME NEW m \in Machine, NEW now \in ClockReading, EndsAsItsModeSays(m),
           NEW cmd \in {"SLEEP", "SNOOZE", "DND"}
    PROVE  Effective(Command(m, cmd, now), now) # "ACTIVE"
<1> DEFINE c == Commanded(m, cmd, now)
<1>1. c \in Machine /\ EndsAsItsModeSays(c)
  BY CommandedFields DEF ModeCommand
<1>2. Effective(Command(m, cmd, now), now) = Effective(c, now)
  BY <1>1, TickIsInvisible DEF Command
<1>3. c.mode = cmd
  <2>1. CASE cmd = "SLEEP"
    BY <2>1 DEF Commanded, Override, Machine
  <2>2. CASE cmd = "SNOOZE"
    BY <2>2 DEF Commanded, Override, Machine
  <2>3. CASE cmd = "DND"
    BY <2>3 DEF Commanded, Override, Machine
  <2> QED BY <2>1, <2>2, <2>3
<1>4. CASE cmd = "DND"
  BY <1>2, <1>3, <1>4 DEF Effective
<1>5. CASE cmd \in {"SLEEP", "SNOOZE"}
  <2>1. OverrideLive(c, now)
    <3>1. NextEnd(m.window, now) \in Int /\ Instant(now) < NextEnd(m.window, now)
          /\ Instant(now) \in Int
      BY NextEndBounds, InstantType DEF Machine
    <3>2. c.until \in {NextEnd(m.window, now), Instant(now) + SnoozeLen}
      BY <1>5 DEF Commanded, Override, Machine
    <3> QED BY <3>1, <3>2, ClockAssumption DEF OverrideLive
  <2> QED BY <1>2, <1>3, <1>5, <2>1 DEF Effective, Asleep
<1> QED BY <1>4, <1>5

\* A TICK never changes the visible mode, and a SLEEP, SNOOZE or DND always
\* leaves it quiet, in every reachable state.
THEOREM GateByHand == Spec => GateOpensByHand
<1> DEFINE Step == /\ TickHandler => Effective(machine', clock) = Effective(machine, clock)
                   /\ (\E cmd \in {"SLEEP", "SNOOZE", "DND"} : CommandMode(cmd)) => Quiet'
<1>1. TypeOK /\ OverrideEnds => machine \in Machine /\ clock \in ClockReading
                                 /\ EndsAsItsModeSays(machine)
  BY OverrideEndsByRow, RowEndsExport DEF TypeOK, RowEnds
<1>2. TypeOK /\ OverrideEnds /\ [Next]_vars => [Step]_vars
  <2> SUFFICES ASSUME TypeOK, OverrideEnds PROVE Step
    OBVIOUS
  <2>1. ASSUME TickHandler
        PROVE  Effective(machine', clock) = Effective(machine, clock)
    BY <1>1, <2>1, TickIsInvisible DEF TickHandler
  <2>2. ASSUME NEW cmd \in {"SLEEP", "SNOOZE", "DND"}, CommandMode(cmd)
        PROVE  Quiet'
    BY <1>1, <2>2, SilenceObeyed DEF CommandMode, Quiet
  <2> QED BY <2>1, <2>2
<1> QED BY <1>2, TypeCorrect, OverridesEnd, PTL DEF Spec, GateOpensByHand

----------------------------------------------------------------------------
(* A live override lasts for this occurrence of the window.  The row on    *)
(* disk has to keep the promise too: a boot restores it after any time.    *)

LastsForTheWindow(r) ==
    r.until # NoTime /\ Instant(clock) < r.until =>
        /\ r.mode = "ACTIVE" =>
              \E w \in Windows : EndsNextAt(w, r.until) /\ Contains(w, clock.tod)
        /\ r.mode = "SLEEP" => \E w \in Windows : EndsNextAt(w, r.until)

WindowInv ==
    /\ machine.window \in Windows
    /\ LastsForTheWindow(machine)
    /\ saved # NoRow => LastsForTheWindow(saved)

LEMMA NextEndIsNext ==
    ASSUME clock \in ClockReading, NEW w \in SleepWindow
    PROVE  EndsNextAt(w, NextEnd(w, clock))
BY ClockAssumption DEF EndsNextAt, NextEnd, Instant, SleepWindow, ClockReading, TimeOfDay

\* Until its next end a window is neither left nor ended another time.
LEMMA EndStaysNext ==
    ASSUME clock \in ClockReading, clock' = Advance(clock),
           NEW w \in SleepWindow, NEW t \in Int, EndsNextAt(w, t), Instant(clock') < t
    PROVE  /\ EndsNextAt(w, t)'
           /\ Contains(w, clock.tod) => Contains(w, clock'.tod)
<1>1. /\ clock.midnight \in Int /\ clock.tod \in 0 .. DayLen - 1 /\ DayLen \in Nat \ {0}
      /\ w.start \in 0 .. DayLen - 1 /\ w.end \in 0 .. DayLen - 1
  BY ClockAssumption DEF ClockReading, TimeOfDay, SleepWindow
<1>2. CASE clock.tod + 1 < DayLen
  <2>1. clock'.midnight = clock.midnight /\ clock'.tod = clock.tod + 1
    BY <1>2 DEF Advance, ClockReading
  <2> QED BY <1>1, <1>2, <2>1 DEF EndsNextAt, Instant, Contains
<1>3. CASE ~(clock.tod + 1 < DayLen)
  <2>1. clock'.midnight = clock.midnight + DayLen /\ clock'.tod = 0
    BY <1>3 DEF Advance
  <2> QED BY <1>1, <1>3, <2>1 DEF EndsNextAt, Instant, Contains
<1> QED BY <1>2, <1>3

LEMMA TickLasts ==
    ASSUME NEW m \in Machine, clock \in ClockReading, LastsForTheWindow(m)
    PROVE  LastsForTheWindow(Tick(m, clock)) /\ Tick(m, clock).window = m.window
BY TickFields DEF LastsForTheWindow

LEMMA CommandLasts ==
    ASSUME NEW m \in Machine, m.window \in Windows, clock \in ClockReading,
           LastsForTheWindow(m), NEW cmd \in ModeCommand
    PROVE  /\ LastsForTheWindow(Commanded(m, cmd, clock))
           /\ Commanded(m, cmd, clock).window = m.window
<1> DEFINE c == Commanded(m, cmd, clock)
           e == NextEnd(m.window, clock)
<1>0. EndsNextAt(m.window, e) /\ e \in Int
  BY NextEndIsNext, NextEndBounds, WindowAssumption DEF Machine
<1>1. ASSUME NEW md, NEW t, c = Override(m, md, t)
      PROVE  c.mode = md /\ c.until = t /\ c.window = m.window
  BY <1>1 DEF Override, Machine
<1>2. CASE c = Override(m, "SLEEP", e)
  BY <1>0, <1>1, <1>2 DEF LastsForTheWindow
<1>3. CASE c = Override(m, "SNOOZE", Instant(clock) + SnoozeLen)
  BY <1>1, <1>3 DEF LastsForTheWindow
<1>4. CASE c = Override(m, "DND", NoTime)
  BY <1>1, <1>4 DEF LastsForTheWindow
<1>5. CASE c = Override(m, "ACTIVE", NoTime)
  BY <1>1, <1>5 DEF LastsForTheWindow
<1>6. CASE c = Override(m, "ACTIVE", e) /\ Contains(m.window, clock.tod)
  BY <1>0, <1>1, <1>6 DEF LastsForTheWindow
<1>7. CASE c = m
  BY <1>7
<1> QED BY <1>2, <1>3, <1>4, <1>5, <1>6, <1>7 DEF Commanded, Cleared

LEMMA ApplyModeLasts ==
    ASSUME NEW m \in Machine, NEW force \in BOOLEAN, ApplyMode(m, force),
           LastsForTheWindow(m), saved # NoRow => LastsForTheWindow(saved)
    PROVE  saved' # NoRow => LastsForTheWindow(saved')
<1>1. LastsForTheWindow(Export(m))
  BY ExportType DEF LastsForTheWindow
<1> QED BY <1>1 DEF ApplyMode

\* A forced wake lasts for this occurrence of its window only, and a manual
\* sleep until the next wake time: over restarts, changes of the window and
\* any number of days.
THEOREM WakesUntilWindowEnd == Spec => []LiveUntilWindowEnd
<1>1. Init => WindowInv
  BY WindowAssumption DEF Init, WindowInv, NoMachine, LastsForTheWindow
<1>2. TypeOK /\ WindowInv /\ [Next]_vars => WindowInv'
  <2> SUFFICES ASSUME TypeOK, WindowInv, [Next]_vars PROVE WindowInv'
    OBVIOUS
  <2>0. /\ machine \in Machine /\ clock \in ClockReading
        /\ machine.window \in Windows /\ LastsForTheWindow(machine)
        /\ saved # NoRow => LastsForTheWindow(saved)
    BY DEF TypeOK, WindowInv
  <2>s. ASSUME clock' = clock, machine'.window \in Windows, LastsForTheWindow(machine'),
               saved' # NoRow => LastsForTheWindow(saved')
        PROVE  WindowInv'
    BY <2>s DEF WindowInv, LastsForTheWindow, EndsNextAt
  <2>1. CASE TickHandler
    <3>1. /\ clock' = clock /\ machine' \in Machine
          /\ machine'.window \in Windows /\ LastsForTheWindow(machine')
      BY <2>0, <2>1, TickLasts, TickFields DEF TickHandler
    <3>2. saved' # NoRow => LastsForTheWindow(saved')
      BY <2>0, <2>1, <3>1, ApplyModeLasts DEF TickHandler
    <3> QED BY <2>s, <3>1, <3>2
  <2>2. ASSUME NEW cmd \in ModeCommand, CommandMode(cmd) PROVE WindowInv'
    <3> DEFINE c == Commanded(machine, cmd, clock)
    <3>1. c \in Machine /\ LastsForTheWindow(c) /\ c.window \in Windows
      BY <2>0, CommandedFields, CommandLasts
    <3>2. /\ clock' = clock /\ machine' \in Machine
          /\ machine'.window \in Windows /\ LastsForTheWindow(machine')
      BY <2>0, <2>2, <3>1, TickLasts, TickFields DEF CommandMode, Command
    <3>3. saved' # NoRow => LastsForTheWindow(saved')
      BY <2>0, <2>2, <3>2, ApplyModeLasts DEF CommandMode
    <3> QED BY <2>s, <3>2, <3>3
  <2>3. ASSUME NEW w \in Windows, SetSleepWindow(w) PROVE WindowInv'
    <3> DEFINE c == [machine EXCEPT !.window = w]
    <3>1. c \in Machine /\ c.mode = machine.mode /\ c.until = machine.until /\ c.window = w
      BY <2>0, WindowAssumption DEF Machine
    <3>2. LastsForTheWindow(c)
      BY <2>0, <3>1 DEF LastsForTheWindow
    <3>3. /\ clock' = clock /\ machine' \in Machine
          /\ machine'.window \in Windows /\ LastsForTheWindow(machine')
      <4>1. clock' = clock /\ machine' = Tick(c, clock)
        BY <2>3 DEF SetSleepWindow
      <4> HIDE DEF c
      <4> QED BY <2>0, <3>1, <3>2, <4>1, TickLasts, TickFields
    <3>4. saved' # NoRow => LastsForTheWindow(saved')
      BY <2>0, <2>3, <3>3, ApplyModeLasts DEF SetSleepWindow
    <3> QED BY <2>s, <3>3, <3>4
  <2>4. CASE Boot
    <3>1. Restored \in Machine /\ LastsForTheWindow(Restored)
      BY <2>0, RestoredType DEF LastsForTheWindow
    <3>2. Restored.window = ConfigWindow
      BY <2>0, NewMachineType DEF Restored, NewMachine, Restore, Override, Machine
    <3>3. machine' = Tick(Restored, clock)
      BY <2>4 DEF Boot, Restored
    <3>4. machine'.window \in Windows /\ LastsForTheWindow(machine')
      BY <2>0, <3>1, <3>2, <3>3, TickLasts, WindowAssumption
    <3> QED BY <2>0, <2>4, <2>s, <3>4 DEF Boot
  <2>5. CASE CoreReady
    BY <2>0, <2>5, <2>s DEF CoreReady
  <2>6. CASE Halt
    <3>1. machine'.window \in Windows /\ LastsForTheWindow(machine')
      BY <2>6, WindowAssumption DEF Halt, NoMachine, LastsForTheWindow
    <3> QED BY <2>0, <2>6, <2>s, <3>1 DEF Halt
  <2>7. CASE TimePasses
    <3>1. /\ clock' = Advance(clock) /\ Instant(clock) \in Int
          /\ Instant(clock') = Instant(clock) + 1
      BY <2>0, <2>7, AdvanceType, InstantType DEF TimePasses
    <3>2. ASSUME NEW r, r.until \in Int \cup {NoTime}, LastsForTheWindow(r),
                 r.until # NoTime, Instant(clock') < r.until
          PROVE  /\ r.mode = "ACTIVE" =>
                       \E w \in Windows : EndsNextAt(w, r.until)' /\ Contains(w, clock'.tod)
                 /\ r.mode = "SLEEP" => \E w \in Windows : EndsNextAt(w, r.until)'
      <4>1. r.until \in Int /\ Instant(clock) < r.until
        BY <3>1, <3>2
      <4>2. ASSUME NEW w \in Windows, EndsNextAt(w, r.until)
            PROVE  EndsNextAt(w, r.until)' /\ (Contains(w, clock.tod) => Contains(w, clock'.tod))
        BY <2>0, <3>1, <3>2, <4>1, <4>2, EndStaysNext, WindowAssumption
      <4> QED BY <3>2, <4>1, <4>2 DEF LastsForTheWindow
    <3>3. machine' = machine /\ machine.until \in Int \cup {NoTime}
      BY <2>0, <2>7 DEF TimePasses, Machine
    <3>4. saved' = saved /\ (saved # NoRow => saved.until \in Int \cup {NoTime})
      BY <2>7 DEF TimePasses, TypeOK, Row
    <3>5. LastsForTheWindow(machine)'
      BY <2>0, <3>2, <3>3 DEF LastsForTheWindow
    <3>6. saved' # NoRow => LastsForTheWindow(saved)'
      BY <2>0, <3>2, <3>4 DEF LastsForTheWindow
    <3> QED BY <2>0, <3>3, <3>5, <3>6 DEF WindowInv
  <2>8. CASE UNCHANGED vars
    BY <2>8 DEF vars, WindowInv, LastsForTheWindow, EndsNextAt
  <2> QED BY <2>1, <2>2, <2>3, <2>4, <2>5, <2>6, <2>7, <2>8 DEF Next, DaemonStep
<1>3. WindowInv => LiveUntilWindowEnd
  BY DEF WindowInv, LastsForTheWindow, LiveUntilWindowEnd, OverrideLive
<1> QED BY <1>1, <1>2, <1>3, TypeCorrect, PTL DEF Spec

(***************************************************************************)
(* The opening daemon.                                                     *)
(***************************************************************************)

----------------------------------------------------------------------------
(* The daemon is the proactive mode of ProactiveMode plus state of its own: *)
(* everything proved of that module holds of the daemon.                   *)

\* With a recogniser, a brain and a feed around it, the daemon moves the
\* proactive mode only as ProactiveMode says.
THEOREM DaemonImplementsMode == DaemonSpec => Spec
<1>1. DaemonInit => Init
  BY DEF DaemonInit
<1>2. [DaemonNext]_daemonVars => [Next]_vars
  <2> SUFFICES ASSUME [DaemonNext]_daemonVars PROVE [Next]_vars
    OBVIOUS
  <2>1. CASE CoreStep
    <3>1. ASSUME NEW t, TickAndOpen(t) PROVE [Next]_vars
      BY <3>1 DEF TickAndOpen, Next, DaemonStep
    <3>2. ASSUME NEW cmd \in ModeCommand, HeardCommand(cmd) PROVE [Next]_vars
      BY <3>2 DEF HeardCommand, Next, DaemonStep
    <3>3. CASE TickInSilence
      BY <3>3 DEF TickInSilence, Next, DaemonStep
    <3>4. CASE MarkUsed \/ StartVoice \/ EndOpening \/ HearUtterance
                \/ NothingHeard \/ HeardTalk \/ EndTurn
      BY <3>4 DEF MarkUsed, StartVoice, EndOpening, HearUtterance,
                  NothingHeard, HeardTalk, EndTurn
    <3> QED BY <2>1, <3>1, <3>2, <3>3, <3>4 DEF CoreStep
  <2>2. CASE AroundCore
    <3>1. ASSUME NEW cmd \in ModeCommand, GuiCommand(cmd) PROVE [Next]_vars
      BY <3>1 DEF GuiCommand, Next, DaemonStep
    <3>2. ASSUME NEW w \in Windows, GuiWindow(w) PROVE [Next]_vars
      BY <3>2 DEF GuiWindow, Next, DaemonStep
    <3>3. ASSUME NEW c \in Candidates, StockCandidate(c) \/ CandidateExpires(c)
          PROVE  [Next]_vars
      BY <3>3 DEF StockCandidate, CandidateExpires
    <3>4. CASE BootDaemon \/ ReadyDaemon \/ HaltDaemon \/ ClockMoves
      BY <3>4 DEF BootDaemon, ReadyDaemon, HaltDaemon, ClockMoves, Next, DaemonStep
    <3> QED BY <2>2, <3>1, <3>2, <3>3, <3>4 DEF AroundCore
  <2>3. CASE UNCHANGED daemonVars
    BY <2>3 DEF daemonVars
  <2> QED BY <2>1, <2>2, <2>3 DEF DaemonNext
<1> QED BY <1>1, <1>2, PTL DEF DaemonSpec, Spec

\* Hence the mode's own invariants hold of the daemon.
LEMMA DaemonTypes == DaemonSpec => []TypeOK
BY DaemonImplementsMode, TypeCorrect, PTL

----------------------------------------------------------------------------
(* What a step can do to the log and to the times kept in memory.  Only an *)
(* opening logs; every other step leaves the log alone, and sets the last  *)
(* interaction to now or, when the process dies, forgets it.               *)

OpeningStep == \E t \in Candidates \cup {Hint} : TickAndOpen(t)

LastStep ==
    \/ last' = last /\ proc' = proc
    \/ last' = last /\ proc' = "booting" /\ proc = "down"
    \/ last' = Now /\ clock' = clock
    \/ last' = NoTime /\ proc' = "down" /\ clock' = clock

PendingStep ==
    \/ UNCHANGED <<pending, outcomes>>
    \/ Resolve
    \/ pending' = NoTime /\ outcomes' = outcomes

LEMMA QuietStep ==
    ASSUME [DaemonNext]_daemonVars, ~OpeningStep
    PROVE  /\ initiated' = initiated
           /\ clock' = clock \/ TimePasses
           /\ LastStep
           /\ PendingStep
<1> USE DEF LastStep, PendingStep
<1>1. CASE CoreStep
  <2>1. ASSUME NEW cmd \in ModeCommand, HeardCommand(cmd)
        PROVE  initiated' = initiated /\ clock' = clock /\ LastStep /\ PendingStep
    BY <2>1 DEF HeardCommand, CommandMode
  <2>2. CASE TickInSilence
    BY <2>2 DEF TickInSilence, TickHandler
  <2>3. CASE MarkUsed \/ StartVoice \/ EndOpening \/ HearUtterance \/ NothingHeard \/ EndTurn
    BY <2>3 DEF MarkUsed, StartVoice, EndOpening, HearUtterance, NothingHeard, EndTurn, vars
  <2>4. CASE HeardTalk
    BY <2>4 DEF HeardTalk, vars
  <2> QED BY <1>1, <2>1, <2>2, <2>3, <2>4 DEF CoreStep, OpeningStep
<1>2. CASE AroundCore
  <2>1. ASSUME NEW cmd \in ModeCommand, GuiCommand(cmd)
        PROVE  initiated' = initiated /\ clock' = clock /\ LastStep /\ PendingStep
    BY <2>1 DEF GuiCommand, CommandMode, coreVars
  <2>2. ASSUME NEW w \in Windows, GuiWindow(w)
        PROVE  initiated' = initiated /\ clock' = clock /\ LastStep /\ PendingStep
    BY <2>2 DEF GuiWindow, SetSleepWindow, coreVars
  <2>3. ASSUME NEW c \in Candidates, StockCandidate(c) \/ CandidateExpires(c)
        PROVE  initiated' = initiated /\ clock' = clock /\ LastStep /\ PendingStep
    BY <2>3 DEF StockCandidate, CandidateExpires, vars
  <2>4. CASE BootDaemon
    BY <2>4 DEF BootDaemon, Boot, coreVars
  <2>5. CASE ReadyDaemon
    BY <2>5 DEF ReadyDaemon, CoreReady
  <2>6. CASE HaltDaemon
    BY <2>6 DEF HaltDaemon, Halt
  <2>7. CASE ClockMoves
    BY <2>7 DEF ClockMoves, TimePasses, coreVars
  <2> QED BY <1>2, <2>1, <2>2, <2>3, <2>4, <2>5, <2>6, <2>7 DEF AroundCore
<1>3. CASE UNCHANGED daemonVars
  BY <1>3 DEF daemonVars, vars, coreVars
<1> QED BY <1>1, <1>2, <1>3 DEF DaemonNext

\* The clock of a step: it stands still, or moves on by one.
LEMMA ClockStep ==
    ASSUME TypeOK, clock' = clock \/ TimePasses
    PROVE  Now \in Int /\ Now' \in Int /\ Now <= Now'
<1>1. Now \in Int
  BY InstantType DEF TypeOK, Now
<1>2. CASE clock' = clock
  BY <1>1, <1>2 DEF Now
<1>3. CASE TimePasses
  BY <1>1, <1>3, AdvanceType DEF TypeOK, TimePasses, Now
<1> QED BY <1>1, <1>2, <1>3

----------------------------------------------------------------------------
(* Times.  Every opening was logged at or before the last interaction, so  *)
(* what min_gap is measured from is never too old, not even after a start. *)

TimesInv ==
    /\ initiated \in Seq(Int)
    /\ \A i \in DOMAIN initiated : initiated[i] <= Now
    /\ proc = "up" => /\ last \in Int /\ last <= Now
                      /\ \A i \in DOMAIN initiated : initiated[i] <= last
    /\ MinGapBetween

LEMMA OpeningTimes ==
    ASSUME TypeOK, TimesInv, NEW t, TickAndOpen(t)
    PROVE  TimesInv'
<1>0. /\ Now \in Int /\ Now' = Now /\ proc = "up" /\ proc' = "up"
      /\ last' = Now /\ MinGap \in Nat /\ ResponseWindow \in Nat
      /\ initiated' = Append(initiated, Now)
      /\ Now - last >= MinGap
  BY InstantType, InitiativeAssumption
     DEF TypeOK, TickAndOpen, TickHandler, Now, QuietLongEnough
<1> DEFINE n == Len(initiated)
<1>1. /\ initiated \in Seq(Int) /\ n \in Nat /\ DOMAIN initiated = 1 .. n
      /\ last \in Int /\ last <= Now
      /\ \A i \in 1 .. n : initiated[i] \in Int /\ initiated[i] <= last
  BY <1>0 DEF TimesInv
<1>2. /\ initiated' \in Seq(Int) /\ DOMAIN initiated' = 1 .. n + 1
      /\ initiated'[n + 1] = Now
      /\ \A i \in 1 .. n : initiated'[i] = initiated[i]
  BY <1>0, <1>1
<1>3. \A i \in DOMAIN initiated' : initiated'[i] <= Now
  BY <1>0, <1>1, <1>2
<1>4. MinGapBetween'
  <2>1. SUFFICES ASSUME NEW i \in 1 .. n + 1, NEW j \in 1 .. n + 1, i < j
                 PROVE  initiated'[j] - initiated'[i] >= MinGap
    BY <1>2 DEF MinGapBetween
  <2>2. i \in 1 .. n /\ initiated'[i] = initiated[i]
    BY <1>1, <1>2, <2>1
  <2>3. CASE j = n + 1
    <3>1. initiated'[j] = Now /\ initiated[i] \in Int /\ initiated[i] <= last
      BY <1>1, <1>2, <2>2, <2>3
    <3> QED BY <1>0, <1>1, <2>2, <3>1
  <2>4. CASE j # n + 1
    <3>1. j \in 1 .. n /\ initiated'[j] = initiated[j]
      BY <1>1, <1>2, <2>4
    <3> QED BY <1>1, <2>1, <2>2, <3>1 DEF TimesInv, MinGapBetween
  <2> QED BY <2>3, <2>4
<1> QED BY <1>0, <1>2, <1>3, <1>4 DEF TimesInv

LEMMA TimesInvariant == DaemonSpec => []TimesInv
<1>1. DaemonInit => TimesInv
  BY DEF DaemonInit, Init, TimesInv, MinGapBetween
<1>2. TypeOK /\ TimesInv /\ [DaemonNext]_daemonVars => TimesInv'
  <2> SUFFICES ASSUME TypeOK, TimesInv, [DaemonNext]_daemonVars PROVE TimesInv'
    OBVIOUS
  <2>1. CASE OpeningStep
    BY <2>1, OpeningTimes DEF OpeningStep
  <2>2. CASE ~OpeningStep
    <3>1. /\ initiated' = initiated /\ LastStep
          /\ Now \in Int /\ Now' \in Int /\ Now <= Now'
          /\ clock' = clock => Now' = Now
      BY <2>2, QuietStep, ClockStep DEF Now
    <3>2. /\ initiated' \in Seq(Int) /\ MinGapBetween'
          /\ \A i \in DOMAIN initiated : initiated[i] \in Int
      BY <3>1 DEF TimesInv, MinGapBetween
    <3>3. \A i \in DOMAIN initiated' : initiated'[i] <= Now'
      BY <3>1, <3>2 DEF TimesInv
    <3>4. ASSUME proc' = "up"
          PROVE  /\ last' \in Int /\ last' <= Now'
                 /\ \A i \in DOMAIN initiated' : initiated'[i] <= last'
      BY <3>1, <3>2, <3>4 DEF TimesInv, LastStep
    <3> QED BY <3>2, <3>3, <3>4 DEF TimesInv
  <2> QED BY <2>1, <2>2
<1> QED BY <1>1, <1>2, DaemonTypes, PTL DEF DaemonSpec

\* min_gap is a hard floor between any two openings, over restarts too.
THEOREM GapsKept == DaemonSpec => []MinGapBetween
<1>1. TimesInv => MinGapBetween
  BY DEF TimesInv
<1> QED BY <1>1, TimesInvariant, PTL

----------------------------------------------------------------------------
(* Outcomes.  OneOutcomeEach is inductive once typed.                      *)

OutcomesTyped ==
    /\ outcomes \in Nat
    /\ pending \in Int \cup {NoTime}
    /\ OneOutcomeEach

LEMMA OutcomesInvariant == DaemonSpec => []OutcomesTyped
<1>1. DaemonInit => OutcomesTyped
  BY DEF DaemonInit, OutcomesTyped, OneOutcomeEach
<1>2. TypeOK /\ TimesInv /\ OutcomesTyped /\ [DaemonNext]_daemonVars => OutcomesTyped'
  <2> SUFFICES ASSUME TypeOK, TimesInv, OutcomesTyped, [DaemonNext]_daemonVars
               PROVE  OutcomesTyped'
    OBVIOUS
  <2>0. /\ initiated \in Seq(Int) /\ Len(initiated) \in Nat
        /\ outcomes \in Nat /\ outcomes <= Len(initiated)
        /\ pending # NoTime => outcomes < Len(initiated)
    BY DEF TimesInv, OutcomesTyped, OneOutcomeEach
  <2>1. CASE OpeningStep
    <3>0. PICK t : TickAndOpen(t)
      BY <2>1 DEF OpeningStep
    <3>1. /\ Now \in Int /\ NoTime \notin Int
          /\ initiated' = Append(initiated, Now) /\ pending' = Now
          /\ outcomes' = outcomes \/ (pending # NoTime /\ outcomes' = outcomes + 1)
      BY <3>0, InstantType, ClockAssumption DEF TickAndOpen, TypeOK, Now, Overdue
    <3>2. /\ Len(initiated') = Len(initiated) + 1 /\ Len(initiated) \in Nat
          /\ initiated'[Len(initiated')] = Now
      BY <2>0, <3>1
    <3>3. outcomes' \in Nat /\ outcomes' < Len(initiated')
      BY <2>0, <3>1, <3>2
    <3> QED BY <3>1, <3>2, <3>3 DEF OutcomesTyped, OneOutcomeEach
  <2>2. CASE ~OpeningStep
    BY <2>0, <2>2, QuietStep
       DEF PendingStep, Resolve, Answered, OutcomesTyped, OneOutcomeEach
  <2> QED BY <2>1, <2>2
<1> QED BY <1>1, <1>2, DaemonTypes, TimesInvariant, PTL DEF DaemonSpec

\* Every logged opening gets at most one outcome row, and the one still
\* awaited is that of the newest opening.
THEOREM OutcomesMatch == DaemonSpec => []OneOutcomeEach
<1>1. OutcomesTyped => OneOutcomeEach
  BY DEF OutcomesTyped
<1> QED BY <1>1, OutcomesInvariant, PTL

\* An opening that replaces one still waiting for its fate does so min_gap
\* after it at least, because what is pending is no newer than the last
\* interaction, and records the old one's fate once its window is over.
THEOREM FatesRecorded == DaemonSpec => FateBeforeNext
<1> DEFINE Fate == initiated' # initiated /\ pending # NoTime =>
                       /\ Now - pending >= MinGap
                       /\ Unanswered => outcomes' = outcomes + 1
<1>1. TypeOK /\ TimesInv /\ OutcomesTyped /\ [DaemonNext]_daemonVars => [Fate]_daemonVars
  <2> SUFFICES ASSUME TypeOK, TimesInv, OutcomesTyped, [DaemonNext]_daemonVars,
                      initiated' # initiated, pending # NoTime
               PROVE  /\ Now - pending >= MinGap
                      /\ Unanswered => outcomes' = outcomes + 1
    OBVIOUS
  <2>1. PICK t : TickAndOpen(t)
    BY QuietStep DEF OpeningStep
  <2>2. /\ proc = "up" /\ Now \in Int /\ Now - last >= MinGap
        /\ last \in Int /\ MinGap \in Nat
    BY <2>1, InstantType, InitiativeAssumption
       DEF TypeOK, TimesInv, TickAndOpen, TickHandler, Now, QuietLongEnough
  <2>3. Len(initiated) \in DOMAIN initiated /\ pending = initiated[Len(initiated)]
    BY DEF TimesInv, OutcomesTyped, OneOutcomeEach
  <2>4. pending \in Int /\ pending <= last
    BY <2>2, <2>3 DEF TimesInv, OutcomesTyped
  <2>5. Now - pending >= MinGap
    BY <2>2, <2>4
  <2>6. Unanswered => outcomes' = outcomes + 1
    BY <2>1 DEF TickAndOpen, Overdue, Unanswered
  <2> QED BY <2>5, <2>6
<1> QED BY <1>1, DaemonTypes, TimesInvariant, OutcomesInvariant, PTL DEF DaemonSpec, FateBeforeNext

----------------------------------------------------------------------------
(* The core's own variables.                                               *)

Phases == {"idle", "stt", "turn", "marking", "opening", "voicing"}
CandidateState == {"absent", "fresh", "used", "expired"}

\* A candidate is spoken at most once because it is used up before it is
\* spoken: while it is marked it is still fresh, from then on it is used, and
\* nothing is fresh again that was used.
VoicedInv ==
    /\ \A c \in Candidates : voiced[c] <= 1 /\ (voiced[c] = 1 => candidate[c] = "used")
    /\ topic \in Candidates =>
          /\ core = "marking" => candidate[topic] = "fresh"
          /\ core = "opening" => candidate[topic] = "used" /\ voiced[topic] = 0

\* The types of what the core keeps besides the log and the outcomes.
MindTyped ==
    /\ core \in Phases
    /\ core # "idle" => proc = "up"
    /\ topic \in Candidates \cup {Hint}
    /\ candidate \in [Candidates -> CandidateState]
    /\ voiced \in [Candidates -> Nat]

\* A step that touches neither the topic nor what is known of candidates,
\* and does not begin to mark or to open.
LEMMA MindKept ==
    ASSUME MindTyped, VoicedInv, UNCHANGED <<topic, candidate, voiced>>,
           core' \in Phases, core' # "idle" => proc' = "up",
           core' = core \/ core' \notin {"marking", "opening"}
    PROVE  MindTyped' /\ VoicedInv'
BY DEF MindTyped, VoicedInv

LEMMA MindInvariant == DaemonSpec => [](MindTyped /\ VoicedInv)
<1>1. DaemonInit => MindTyped /\ VoicedInv
  BY InitiativeAssumption DEF DaemonInit, MindTyped, VoicedInv, Phases, CandidateState
<1>2. MindTyped /\ VoicedInv /\ [DaemonNext]_daemonVars => MindTyped' /\ VoicedInv'
  <2> SUFFICES ASSUME MindTyped, VoicedInv, [DaemonNext]_daemonVars
               PROVE  MindTyped' /\ VoicedInv'
    OBVIOUS
  <2>0. Hint \notin Candidates
    BY InitiativeAssumption
  <2>1. ASSUME NEW t \in Candidates \cup {Hint}, TickAndOpen(t)
        PROVE  MindTyped' /\ VoicedInv'
    <3>1. /\ core' = "marking" /\ topic' = t /\ UNCHANGED <<candidate, voiced>>
          /\ proc' = "up" /\ t \in Topics
      BY <2>1 DEF TickAndOpen, TickHandler
    <3>2. t \in Candidates => candidate[t] = "fresh"
      BY <2>0, <3>1 DEF Topics, Fresh
    <3> QED BY <3>1, <3>2 DEF MindTyped, VoicedInv, Phases
  <2>2. CASE TickInSilence
    BY <2>2, MindKept DEF TickInSilence, TickHandler, MindTyped
  <2>3. CASE MarkUsed
    <3>1. /\ core = "marking" /\ core' = "opening" /\ UNCHANGED <<topic, voiced>> /\ proc' = proc
          /\ candidate' = [c \in Candidates |-> IF c = topic THEN "used" ELSE candidate[c]]
      BY <2>3 DEF MarkUsed, vars
    <3>2. topic \in Candidates => voiced[topic] = 0
      BY <3>1 DEF MindTyped, VoicedInv
    <3> QED BY <3>1, <3>2 DEF MindTyped, VoicedInv, Phases, CandidateState
  <2>4. CASE StartVoice
    <3>1. /\ core = "opening" /\ core' = "voicing" /\ UNCHANGED <<topic, candidate>> /\ proc' = proc
          /\ voiced' = [c \in Candidates |-> IF c = topic THEN voiced[c] + 1 ELSE voiced[c]]
      BY <2>4 DEF StartVoice, vars
    <3> QED BY <3>1 DEF MindTyped, VoicedInv, Phases
  <2>5. CASE EndOpening \/ NothingHeard \/ EndTurn \/ HearUtterance \/ HeardTalk
    BY <2>5, MindKept
       DEF EndOpening, NothingHeard, EndTurn, HearUtterance, HeardTalk, vars, MindTyped, Phases
  <2>6. ASSUME NEW cmd \in ModeCommand, HeardCommand(cmd) PROVE MindTyped' /\ VoicedInv'
    BY <2>6, MindKept DEF HeardCommand, CommandMode, Phases
  <2>7. ASSUME NEW cmd \in ModeCommand, GuiCommand(cmd) PROVE MindTyped' /\ VoicedInv'
    BY <2>7, MindKept DEF GuiCommand, CommandMode, coreVars, MindTyped
  <2>8. ASSUME NEW w \in Windows, GuiWindow(w) PROVE MindTyped' /\ VoicedInv'
    BY <2>8, MindKept DEF GuiWindow, SetSleepWindow, coreVars, MindTyped
  <2>9. ASSUME NEW c \in Candidates, StockCandidate(c) PROVE MindTyped' /\ VoicedInv'
    <3>1. /\ candidate[c] = "absent" /\ candidate' = [candidate EXCEPT ![c] = "fresh"]
          /\ UNCHANGED <<core, topic, voiced>> /\ proc' = proc /\ core # "marking"
      BY <2>9 DEF StockCandidate, LoopFree, vars
    <3>2. candidate' \in [Candidates -> CandidateState]
      BY <3>1 DEF MindTyped, CandidateState
    <3>3. candidate'[c] = "fresh" /\ \A d \in Candidates \ {c} : candidate'[d] = candidate[d]
      BY <3>1 DEF MindTyped
    <3> QED BY <3>1, <3>2, <3>3 DEF MindTyped, VoicedInv
  <2>10. ASSUME NEW c \in Candidates, CandidateExpires(c) PROVE MindTyped' /\ VoicedInv'
    <3>1. /\ candidate[c] = "fresh" /\ candidate' = [candidate EXCEPT ![c] = "expired"]
          /\ UNCHANGED <<core, topic, voiced>> /\ proc' = proc /\ (c # topic \/ core # "marking")
      BY <2>10 DEF CandidateExpires, vars
    <3>2. candidate' \in [Candidates -> CandidateState]
      BY <3>1 DEF MindTyped, CandidateState
    <3>3. candidate'[c] = "expired" /\ \A d \in Candidates \ {c} : candidate'[d] = candidate[d]
      BY <3>1 DEF MindTyped
    <3> QED BY <3>1, <3>2, <3>3 DEF MindTyped, VoicedInv
  <2>11. CASE BootDaemon \/ ReadyDaemon \/ ClockMoves
    BY <2>11, MindKept
       DEF BootDaemon, Boot, ReadyDaemon, CoreReady, ClockMoves, TimePasses, coreVars, MindTyped
  <2>12. CASE HaltDaemon
    BY <2>0, <2>12 DEF HaltDaemon, Halt, MindTyped, VoicedInv, Phases
  <2>13. CASE UNCHANGED daemonVars
    BY <2>13, MindKept DEF daemonVars, vars, coreVars, MindTyped
  <2> QED BY <2>1, <2>2, <2>3, <2>4, <2>5, <2>6, <2>7, <2>8, <2>9, <2>10, <2>11, <2>12, <2>13
          DEF DaemonNext, CoreStep, AroundCore
<1> QED BY <1>1, <1>2, PTL DEF DaemonSpec

\* The core keeps its types, and a running daemon has a last interaction:
\* the timing of an opening always has something to measure from.
THEOREM CoreTypes == DaemonSpec => []CoreTypeOK
<1> DEFINE LastTyped == last \in Int \cup {NoTime}
<1>1. DaemonInit => LastTyped
  BY DEF DaemonInit
<1>2. TypeOK /\ LastTyped /\ [DaemonNext]_daemonVars => LastTyped'
  <2> SUFFICES ASSUME TypeOK, LastTyped, [DaemonNext]_daemonVars PROVE LastTyped'
    OBVIOUS
  <2>0. Now \in Int
    BY InstantType DEF TypeOK, Now
  <2>1. CASE OpeningStep
    BY <2>0, <2>1 DEF OpeningStep, TickAndOpen
  <2>2. CASE ~OpeningStep
    BY <2>0, <2>2, QuietStep DEF LastStep
  <2> QED BY <2>1, <2>2
<1>3. TimesInv /\ OutcomesTyped /\ MindTyped /\ LastTyped => CoreTypeOK
  BY DEF TimesInv, OutcomesTyped, MindTyped, CoreTypeOK, Phases, CandidateState
<1> QED BY <1>1, <1>2, <1>3, DaemonTypes, TimesInvariant, OutcomesInvariant, MindInvariant, PTL
        DEF DaemonSpec

\* No candidate is spoken twice, over failed openings, crashes and restarts.
THEOREM SpokenOnce == DaemonSpec => []VoicedAtMostOnce
<1>1. VoicedInv => VoicedAtMostOnce
  BY DEF VoicedInv, VoicedAtMostOnce
<1> QED BY <1>1, MindInvariant, PTL

----------------------------------------------------------------------------
(* The daily cap.  Days begin at multiples of DayLen, so what is counted   *)
(* since the last midnight is all that was logged in this day, and nothing *)
(* is ever logged in a day gone by or still to come.                       *)

LEMMA IsMultiple ==
    ASSUME NEW n \in Int, n > 0, NEW a \in Int, a % n = 0
    PROVE  \E q \in Int : a = q * n
<1>1. a - (a % n) = n * (a \div n)
  BY Z3
<1>2. (a \div n) \in Int
  OBVIOUS
<1> DEFINE q == a \div n
<1>3. q \in Int /\ a = n * q
  BY <1>1, <1>2
<1> HIDE DEF q
<1> QED BY <1>3

\* Two different multiples of a day are at least a day apart.
LEMMA MultiplesApart ==
    ASSUME NEW n \in Int, n > 0, NEW a \in Int, NEW b \in Int,
           a % n = 0, b % n = 0, a < b
    PROVE  a + n <= b
<1>1. PICK q \in Int : a = q * n
  BY IsMultiple
<1>2. PICK r \in Int : b = r * n
  BY IsMultiple
<1>3. q < r
  BY <1>1, <1>2
<1>4. q * n + n <= r * n
  BY <1>3
<1> QED BY <1>1, <1>2, <1>4

LEMMA NextMultiple ==
    ASSUME NEW n \in Int, n > 0, NEW a \in Int, a % n = 0
    PROVE  (a + n) % n = 0
<1>1. PICK q \in Int : a = q * n
  BY IsMultiple
<1> DEFINE r == q + 1
<1>2. r \in Int /\ a + n = r * n + 0
  BY <1>1
<1> QED BY <1>2

LoggedIn(log, day) == {i \in DOMAIN log : log[i] \in day .. day + DayLen - 1}
Days == {m \in 0 .. clock.midnight : m % DayLen = 0}

DayInv ==
    /\ clock.midnight \in Nat /\ clock.midnight % DayLen = 0
    /\ WithinDailyCap

LEMMA CapByDay == WithinDailyCap <=> \A day \in Days : Cardinality(LoggedIn(initiated, day)) <= DailyCap
BY DEF WithinDailyCap, Days, LoggedIn

LEMMA TodayBounds ==
    ASSUME TypeOK
    PROVE  /\ clock.midnight \in Int /\ Now \in Int
           /\ clock.midnight <= Now /\ Now <= clock.midnight + DayLen - 1
BY ClockAssumption DEF TypeOK, ClockReading, TimeOfDay, Now, Instant

\* An opening is one more of today and of no other day.
LEMMA OpeningCounted ==
    ASSUME TypeOK, TimesInv, DayInv, NEW t, TickAndOpen(t), NEW day \in Days
    PROVE  Cardinality(LoggedIn(initiated', day)) <= DailyCap
<1> DEFINE n == Len(initiated)
           today == LoggedIn(initiated, day)
<1>1. /\ initiated' = Append(initiated, Now) /\ UnderCap /\ initiated \in Seq(Int)
      /\ \A i \in DOMAIN initiated : initiated[i] <= Now
  BY DEF TickAndOpen, TimesInv
<1>2. n \in Nat /\ DOMAIN initiated = 1 .. n /\ \A i \in 1 .. n : initiated[i] \in Int
  BY <1>1
<1>3. /\ DOMAIN initiated' = 1 .. n + 1 /\ initiated'[n + 1] = Now
      /\ \A i \in 1 .. n : initiated'[i] = initiated[i]
  BY <1>1, <1>2, TodayBounds
<1>4. DayLen \in Nat \ {0} /\ DailyCap \in Nat /\ day \in 0 .. clock.midnight /\ day % DayLen = 0
  BY ClockAssumption, InitiativeAssumption DEF Days
<1>5. IsFiniteSet(today) /\ Cardinality(today) <= DailyCap /\ Cardinality(today) \in Nat
  <2>1. today \subseteq 1 .. n /\ IsFiniteSet(1 .. n)
    BY <1>2, FS_Interval DEF LoggedIn
  <2> QED BY <2>1, FS_Subset, FS_CardinalityType, CapByDay DEF DayInv
<1>6. CASE day = clock.midnight
  <2>1. today = {i \in DOMAIN initiated : initiated[i] >= clock.midnight}
    BY <1>1, <1>2, <1>4, <1>6, TodayBounds DEF LoggedIn
  <2>2. Cardinality(today) < DailyCap
    BY <1>1, <2>1 DEF UnderCap, InitiatedToday
  <2>3. LoggedIn(initiated', day) = today \cup {n + 1}
    BY <1>2, <1>3, <1>4, <1>6, TodayBounds DEF LoggedIn
  <2>4. Cardinality(today \cup {n + 1})
          = IF n + 1 \in today THEN Cardinality(today) ELSE Cardinality(today) + 1
    BY <1>5, FS_AddElement
  <2>5. Cardinality(today \cup {n + 1}) \in Nat
    BY <1>5, FS_AddElement, FS_CardinalityType
  <2> QED BY <1>4, <1>5, <2>2, <2>3, <2>4, <2>5
<1>7. CASE day # clock.midnight
  <2>1. day + DayLen <= clock.midnight
    BY <1>4, <1>7, MultiplesApart DEF DayInv
  <2>2. LoggedIn(initiated', day) = today
    BY <1>2, <1>3, <1>4, <2>1, TodayBounds DEF LoggedIn
  <2> QED BY <1>5, <2>2
<1> QED BY <1>6, <1>7

\* Nothing was logged yet in the day that begins.
LEMMA NewDayEmpty ==
    ASSUME TypeOK, TimesInv, DayInv, TimePasses, NEW day \in Days', day \notin Days
    PROVE  LoggedIn(initiated, day) = {}
<1>1. DayLen \in Int /\ DayLen > 0 /\ clock.midnight \in Nat /\ clock.midnight % DayLen = 0
  BY ClockAssumption DEF DayInv
<1>2. day \in 0 .. clock'.midnight /\ day % DayLen = 0 /\ day > clock.midnight
  <2>1. day \in 0 .. clock'.midnight /\ day % DayLen = 0 /\ ~(day \in 0 .. clock.midnight)
    BY DEF Days
  <2> QED BY <1>1, <2>1
<1>3. clock.midnight + DayLen <= day
  BY <1>1, <1>2, MultiplesApart
<1>4. \A i \in DOMAIN initiated : initiated[i] \in Int /\ initiated[i] <= Now
  BY DEF TimesInv
<1> QED BY <1>1, <1>2, <1>3, <1>4, TodayBounds DEF LoggedIn

LEMMA MidnightStep ==
    ASSUME TypeOK, DayInv, clock' = clock \/ TimePasses
    PROVE  clock'.midnight \in Nat /\ clock'.midnight % DayLen = 0
<1>1. DayLen \in Int /\ DayLen > 0
  BY ClockAssumption
<1>2. clock'.midnight \in {clock.midnight, clock.midnight + DayLen}
  BY DEF TimePasses, Advance, TypeOK, ClockReading
<1>3. clock.midnight \in Nat /\ clock.midnight \in Int /\ clock.midnight % DayLen = 0
  BY DEF DayInv
<1>4. (clock.midnight + DayLen) % DayLen = 0
  BY <1>1, <1>3, NextMultiple, Zenon
<1>5. clock.midnight + DayLen \in Nat
  BY <1>1, <1>3
<1>6. CASE clock'.midnight = clock.midnight
  BY <1>3, <1>6, Zenon
<1>7. CASE clock'.midnight = clock.midnight + DayLen
  BY <1>4, <1>5, <1>7, Zenon
<1> QED BY <1>2, <1>6, <1>7, Zenon

\* The cap bounds the openings of every calendar day, over restarts too.
THEOREM CapKept == DaemonSpec => []WithinDailyCap
<1>1. DaemonInit => DayInv
  <2> SUFFICES ASSUME DaemonInit PROVE DayInv
    OBVIOUS
  <2>1. clock.midnight = 0 /\ initiated = <<>>
    BY DEF DaemonInit, Init
  <2>2. 0 % DayLen = 0
    <3>1. DayLen \in Int /\ DayLen > 0 /\ 0 = 0 * DayLen + 0
      BY ClockAssumption
    <3> QED BY <3>1
  <2>3. \A day : LoggedIn(initiated, day) = {}
    BY <2>1 DEF LoggedIn
  <2> QED BY <2>1, <2>2, <2>3, CapByDay, FS_EmptySet, InitiativeAssumption DEF DayInv
<1>2. TypeOK /\ TimesInv /\ DayInv /\ [DaemonNext]_daemonVars => DayInv'
  <2> SUFFICES ASSUME TypeOK, TimesInv, DayInv, [DaemonNext]_daemonVars PROVE DayInv'
    OBVIOUS
  <2>1. CASE OpeningStep
    <3>1. PICK t : TickAndOpen(t)
      BY <2>1 DEF OpeningStep
    <3>2. clock' = clock
      BY <3>1 DEF TickAndOpen, TickHandler
    <3>3. \A day \in Days : Cardinality(LoggedIn(initiated', day)) <= DailyCap
      BY <3>1, OpeningCounted
    <3> QED BY <3>2, <3>3 DEF DayInv, WithinDailyCap, Days, LoggedIn
  <2>2. CASE ~OpeningStep
    <3>1. initiated' = initiated /\ (clock' = clock \/ TimePasses)
      BY <2>2, QuietStep
    <3>2. clock'.midnight \in Nat /\ clock'.midnight % DayLen = 0
      BY <3>1, MidnightStep
    <3>3. \A day \in Days' : Cardinality(LoggedIn(initiated, day)) <= DailyCap
      <4>1. SUFFICES ASSUME NEW day \in Days'
                     PROVE  Cardinality(LoggedIn(initiated, day)) <= DailyCap
        OBVIOUS
      <4>2. CASE day \in Days
        BY <4>2, CapByDay DEF DayInv
      <4>3. CASE day \notin Days
        <5>1. TimePasses
          BY <3>1, <4>3 DEF Days
        <5> QED BY <4>3, <5>1, NewDayEmpty, FS_EmptySet, InitiativeAssumption
      <4> QED BY <4>2, <4>3
    <3> QED BY <3>1, <3>2, <3>3 DEF DayInv, WithinDailyCap, Days, LoggedIn
  <2> QED BY <2>1, <2>2
<1>3. DayInv => WithinDailyCap
  BY DEF DayInv
<1> QED BY <1>1, <1>2, <1>3, DaemonTypes, TimesInvariant, PTL DEF DaemonSpec
=============================================================================
