--------------------------- MODULE LauncherProofs ---------------------------
(* Theorems about starting and stopping: for every machine, whatever its   *)
(* cards, and for any number of processes.                                 *)
EXTENDS Launcher, WellFoundedInduction, TLAPS

----------------------------------------------------------------------------
(* The verdict of preflight.                                               *)

LEMMA LeastNumber ==
  ASSUME NEW T, T \subseteq Nat, T # {}
  PROVE  \E x \in T : \A y \in T : x <= y
<1>1. PICK x \in T : \A y \in T : ~(<<y, x>> \in OpToRel(<, Nat))
  BY NatLessThanWellFounded, WFMin
<1>2. \A y \in T : ~(y < x)
  BY <1>1 DEF OpToRel
<1> QED BY <1>2

\* _pick_launch_persona picks a card that was judged fit, if there is one.
LEMMA PersonaIsAble ==
  ASSUME NEW m, DOMAIN m.cards \subseteq Nat, NEW engine,
         \E c \in CardsOf(m, engine) : CardBootable(m, c)
  PROVE  LaunchPersona(m, engine) \in {c \in CardsOf(m, engine) : CardBootable(m, c)}
<1> DEFINE able == {c \in CardsOf(m, engine) : CardBootable(m, c)}
<1>1. able \subseteq Nat /\ able # {}
  BY DEF CardsOf
<1>2. \E x \in able : \A d \in able : x <= d
  BY <1>1, LeastNumber
<1> QED BY <1>2 DEF LaunchPersona

\* A card with a voice of its own is fit exactly if its voice warms up.
LEMMA FitMeansWarm ==
  ASSUME NEW m, NEW c, OwnsVoice(m, c), ~m.cards[c].broken
  PROVE  CardBootable(m, c) <=> MouthWarms(m, c)
BY DEF CardBootable, MouthWarms, MissingWeights, DeclaresFinetune, WeightsOf

LEMMA ChipHolds ==
  ASSUME NEW m, DOMAIN m.cards \subseteq Nat, NEW engine,
         ChipBootable(m, engine), Covered(m, Argv(m, engine))
  PROVE  /\ ScriptRuns(m, Argv(m, engine)) /\ BootFate(m, Argv(m, engine)) = "up"
         /\ engine # "none" => EngineOf(m, LaunchPersona(m, engine)) = engine
<1>1. CASE engine = "none"
  BY <1>1 DEF ChipBootable, Covered, Argv, ScriptRuns, BootFate
<1>2. CASE engine # "none"
  <2> DEFINE c == LaunchPersona(m, engine)
  <2>1. c \in CardsOf(m, engine) /\ CardBootable(m, c)
    BY <1>2, PersonaIsAble DEF ChipBootable
  <2>2. Argv(m, engine) = [mode |-> "voice", card |-> c]
    BY <1>2 DEF Argv
  <2>3. ~m.cards[c].broken /\ EngineOf(m, c) = engine
    BY <2>1 DEF CardsOf
  <2>4. /\ OwnsVoice(m, c) /\ MouthBuilds(m, c) /\ m.wake
        /\ HasKey(m, "anthropic") /\ HasKey(m, m.summarizer) /\ HasModel(m, m.summarizer)
    BY <2>2 DEF Covered
  <2>5. MouthWarms(m, c)
    BY <2>1, <2>3, <2>4, FitMeansWarm
  <2> QED BY <1>2, <2>2, <2>3, <2>4, <2>5 DEF ScriptRuns, BootFate, ChipBootable
<1> QED BY <1>1, <1>2

LEMMA UnfitFails ==
  ASSUME NEW m, NEW c, ~CardBootable(m, c),
         OwnsVoice(m, c) \/ m.cards[c].broken
  PROVE  BootFate(m, [mode |-> "voice", card |-> c]) # "up"
<1>1. CASE m.cards[c].broken
  BY <1>1 DEF BootFate
<1>2. CASE ~m.cards[c].broken
  <2>1. ~MouthWarms(m, c)
    BY <1>2, FitMeansWarm
  <2> QED BY <2>1 DEF BootFate
<1> QED BY <1>1, <1>2

\* What preflight says of a machine is what the boot finds on it, where
\* preflight looks: for every machine, not only those of the run.
THEOREM VerdictCorrect == LauncherSpec => []VerdictHolds
<1>1. ASSUME NEW m \in Machines PROVE VerdictExact(m)
  <2>1. DOMAIN m.cards \subseteq Nat
    BY <1>1, LauncherAssumption
  <2> QED BY <2>1, ChipHolds, UnfitFails DEF VerdictExact
<1>2. LauncherInit => machine \in Machines
  BY DEF LauncherInit
<1>3. machine \in Machines /\ [LauncherNext]_launcherVars => (machine \in Machines)'
  BY DEF LauncherNext, launcherVars, StartByHand, DaemonStep, Kill, CheckPid, WritePid,
         SweepStop, Boot, SeeStop, Close, ReleasePid, ReleaseStop, StopReads, StopTouches,
         StopCleansUp, StopReturns, Press, PressShutdown, WindowStep, PollFinds,
         PollAnnounces, PollWaits, ResumeWaits, Resume
<1>4. machine \in Machines => VerdictHolds
  BY <1>1 DEF VerdictHolds
<1> QED BY <1>2, <1>3, <1>4, PTL DEF LauncherSpec

----------------------------------------------------------------------------
(* One daemon at a time.                                                   *)

Guarded == {"sweep", "boot", "up", "ending", "closing"}
Places == Guarded \union {"none", "check", "write", "release", "gone"}
Fates == {"", "no script", "no card", "no brain", "no summarizer", "no mouth", "no ear", "up"}
Life == [at : Places, chip : BOOLEAN, fate : Fates, failed : BOOLEAN, seen : Pids \union {0}]
Stopper == [at : {"idle", "found", "dead", "asked"}, pid : Pids \union {0}, heard : BOOLEAN]

\* The pid file names nobody who has never been started.
ProcessTypes ==
    /\ pidFile \in Pids \union {0} /\ raced \in BOOLEAN
    /\ daemon \in [Pids -> Life]
    /\ stopper \in Stopper
    /\ pidFile # 0 => daemon[pidFile].at # "none"

\* A process that has ended stays so.
Dead(p) == p = 0 \/ (p \in Pids /\ daemon[p].at = "gone")

\* Who goes past the check, or cleans up, has seen a dead process in the pid
\* file; so what it overwrites, unless it is not what it saw, is nobody's.
OneAtATime ==
    /\ \A p \in Pids : daemon[p].at \in Guarded => pidFile = p
    /\ \A p \in Pids : daemon[p].at = "write" => Dead(daemon[p].seen)
    /\ stopper.at = "dead" => Dead(stopper.pid)

SingleInv == ProcessTypes /\ (~raced => OneAtATime)

\* Only p moves, and only to another place.
LEMMA GoesMoves ==
  ASSUME daemon \in [Pids -> Life], NEW p \in Pids, NEW at \in Places, Goes(p, at)
  PROVE  /\ daemon' \in [Pids -> Life]
         /\ daemon'[p].at = at /\ daemon'[p].seen = daemon[p].seen
         /\ \A q \in Pids \ {p} : daemon'[q] = daemon[q]
<1> DEFINE moved == [daemon[p] EXCEPT !.at = at]
<1>1. daemon[p] \in Life
  OBVIOUS
<1>2. moved \in Life /\ moved.at = at /\ moved.seen = daemon[p].seen
  BY <1>1 DEF Life
<1>3. daemon' = [daemon EXCEPT ![p] = moved]
  BY DEF Goes
<1> HIDE DEF moved
<1> QED BY <1>2, <1>3

\* A process that moves on with the files as they are, and not into the
\* guarded part or the writing, keeps the invariant; so does one that moves
\* within the guarded part.
LEMMA FilesKept ==
  ASSUME SingleInv, NEW p \in Pids, daemon' \in [Pids -> Life],
         \A q \in Pids \ {p} : daemon'[q] = daemon[q],
         UNCHANGED <<pidFile, stopper>>, raced' \in BOOLEAN, ~raced' => ~raced,
         daemon[p].at # "gone", daemon'[p].at # "none",
         \/ daemon'[p].at \in {"check", "gone", "release"}
         \/ daemon[p].at \in Guarded /\ daemon'[p].at \in Guarded
  PROVE  SingleInv'
<1>1. ProcessTypes'
  BY DEF SingleInv, ProcessTypes
<1>2. \A q : Dead(q) => Dead(q)'
  BY DEF Dead
<1>3. OneAtATime => OneAtATime'
  BY <1>2 DEF OneAtATime, Guarded
<1> QED BY <1>1, <1>3 DEF SingleInv

\* A new process has done nothing yet; if it forgets a race, all the others
\* have ended.
LEMMA StartKeeps ==
  ASSUME SingleInv, NEW argv, NEW chip \in BOOLEAN, Spawn(argv, chip),
         UNCHANGED <<pidFile, stopper>>
  PROVE  SingleInv'
<1>1. BootFate(machine, argv) \in Fates
  BY DEF BootFate, Fates
<1>2. daemon \in [Pids -> Life] /\ raced \in BOOLEAN
  BY DEF SingleInv, ProcessTypes
<1> DEFINE new == IF ScriptRuns(machine, argv)
           THEN [at |-> "check", chip |-> chip, fate |-> BootFate(machine, argv),
                 failed |-> FALSE, seen |-> 0]
           ELSE [at |-> "gone", chip |-> chip, fate |-> "no script", failed |-> TRUE, seen |-> 0]
<1>3. PICK p \in Pids : daemon[p].at = "none" /\ daemon' = [daemon EXCEPT ![p] = new]
  BY DEF Spawn
<1>4. new \in Life /\ new.at \in {"check", "gone"}
  BY <1>1 DEF Life, Places, Fates
<1> HIDE DEF new
<1>5. /\ daemon' \in [Pids -> Life] /\ daemon'[p].at \in {"check", "gone"}
      /\ \A q \in Pids \ {p} : daemon'[q] = daemon[q]
  BY <1>2, <1>3, <1>4
<1>6. raced' = (raced /\ (stopper.at # "idle" \/ \E q \in Pids : Alive(q)))
  BY DEF Spawn
<1>7. CASE ~raced' => ~raced
  BY <1>2, <1>3, <1>5, <1>6, <1>7, FilesKept
<1>8. CASE raced /\ ~raced'
  <2>1. stopper.at = "idle" /\ \A q \in Pids : daemon[q].at \in {"none", "gone"}
    BY <1>6, <1>8 DEF Alive
  <2>2. \A q \in Pids : daemon'[q].at \in {"none", "gone", "check"}
    BY <1>5, <2>1
  <2>3. OneAtATime'
    BY <2>1, <2>2 DEF OneAtATime, Guarded
  <2>4. ProcessTypes'
    BY <1>5, <1>6 DEF SingleInv, ProcessTypes
  <2> QED BY <2>3, <2>4 DEF SingleInv
<1> QED BY <1>7, <1>8

\* A step of a daemon keeps the invariant.
LEMMA DaemonKeeps ==
  ASSUME SingleInv, NEW p \in Pids, DaemonStep(p) \/ Kill(p)
  PROVE  SingleInv'
<1> USE DEF Guarded, Places
<1>1. /\ daemon \in [Pids -> Life] /\ daemon[p] \in Life
      /\ raced \in BOOLEAN /\ pidFile \in Pids \union {0}
  BY DEF SingleInv, ProcessTypes
<1>2. ASSUME NEW at \in Places, Goes(p, at), UNCHANGED <<pidFile, stopper>>,
             raced' \in BOOLEAN, ~raced' => ~raced, daemon[p].at # "gone", at # "none",
             \/ at \in {"check", "gone", "release"}
             \/ daemon[p].at \in Guarded /\ at \in Guarded
      PROVE  SingleInv'
  <2>1. /\ daemon' \in [Pids -> Life]
        /\ daemon'[p].at = at
        /\ \A q \in Pids \ {p} : daemon'[q] = daemon[q]
    BY <1>1, <1>2, GoesMoves
  <2> QED BY <1>2, <2>1, FilesKept
<1>3. CASE CheckPid(p)
  <2> DEFINE place == IF pidFile # 0 /\ Alive(pidFile) THEN "gone" ELSE "write"
             looked == [daemon[p] EXCEPT !.at = place, !.seen = pidFile]
  <2>1. daemon' = [daemon EXCEPT ![p] = looked] /\ daemon[p].at = "check"
        /\ UNCHANGED <<pidFile, stopper, raced>>
    BY <1>3 DEF CheckPid, files
  <2>2. looked \in Life /\ looked.at = place /\ looked.seen = pidFile
    BY <1>1 DEF Life
  <2> HIDE DEF looked
  <2>3. /\ daemon' \in [Pids -> Life]
        /\ daemon'[p].at = place /\ daemon'[p].seen = pidFile
        /\ \A q \in Pids \ {p} : daemon'[q] = daemon[q]
    BY <1>1, <2>1, <2>2
  <2>4. CASE place = "gone"
    BY <1>1, <2>1, <2>3, <2>4, FilesKept
  <2>5. CASE place = "write"
    <3>1. \A q : Dead(q) => Dead(q)'
      BY <2>1, <2>3 DEF Dead
    <3>2. Dead(pidFile)
      BY <1>1, <2>5 DEF SingleInv, ProcessTypes, Alive, Dead
    <3>3. OneAtATime => OneAtATime'
      BY <2>1, <2>3, <2>5, <3>1, <3>2 DEF OneAtATime
    <3>4. ProcessTypes'
      BY <2>1, <2>3, <2>5 DEF SingleInv, ProcessTypes
    <3> QED BY <2>1, <3>3, <3>4 DEF SingleInv
  <2> QED BY <2>4, <2>5
<1>4. CASE WritePid(p)
  <2>1. /\ daemon[p].at = "write" /\ pidFile' = p /\ Goes(p, "sweep") /\ UNCHANGED stopper
        /\ raced' = (raced \/ Stale(daemon[p].seen))
    BY <1>4 DEF WritePid
  <2>2. /\ daemon' \in [Pids -> Life]
        /\ daemon'[p].at = "sweep"
        /\ \A q \in Pids \ {p} : daemon'[q] = daemon[q]
    BY <1>1, <2>1, GoesMoves
  <2>3. \A q : Dead(q) => Dead(q)'
    BY <2>1, <2>2 DEF Dead
  <2>4. ASSUME ~raced' PROVE OneAtATime'
    <3>1. OneAtATime /\ pidFile \in {0, daemon[p].seen} /\ Dead(daemon[p].seen)
      BY <2>1, <2>4 DEF SingleInv, OneAtATime, Stale
    <3>2. \A q \in Pids : daemon[q].at \notin Guarded
      BY <3>1 DEF OneAtATime, Dead, Pids
    <3> QED BY <2>1, <2>2, <2>3, <3>1, <3>2 DEF OneAtATime
  <2>5. ProcessTypes'
    BY <1>1, <2>1, <2>2 DEF SingleInv, ProcessTypes
  <2> QED BY <2>4, <2>5 DEF SingleInv
<1>5. CASE SweepStop(p)
  BY <1>1, <1>2, <1>5 DEF SweepStop
<1>6. CASE Boot(p)
  <2>1. CASE daemon[p].fate = "up"
    BY <1>1, <1>2, <1>6, <2>1 DEF Boot, Goes, files
  <2>2. CASE daemon[p].fate # "up"
    <3> DEFINE ended == [daemon[p] EXCEPT !.at = "closing", !.failed = TRUE]
    <3>1. ended \in Life /\ ended.at = "closing"
      BY <1>1 DEF Life
    <3>2. daemon' = [daemon EXCEPT ![p] = ended] /\ daemon[p].at = "boot"
          /\ UNCHANGED <<pidFile, stopper, raced>>
      BY <1>6, <2>2 DEF Boot, files
    <3> HIDE DEF ended
    <3>3. /\ daemon' \in [Pids -> Life]
          /\ daemon'[p].at = "closing"
          /\ \A q \in Pids \ {p} : daemon'[q] = daemon[q]
      BY <1>1, <3>1, <3>2
    <3> QED BY <1>1, <3>2, <3>3, FilesKept
  <2> QED BY <2>1, <2>2
<1>7. CASE SeeStop(p)
  BY <1>1, <1>2, <1>7 DEF SeeStop, files
<1>8. CASE Close(p)
  BY <1>1, <1>2, <1>8 DEF Close, files
<1>9. CASE ReleasePid(p)
  <2>1. /\ daemon[p].at = "closing" /\ pidFile' = 0 /\ Goes(p, "release") /\ UNCHANGED stopper
        /\ raced' = (raced \/ Stale(p))
    BY <1>9 DEF ReleasePid
  <2>2. /\ daemon' \in [Pids -> Life]
        /\ daemon'[p].at = "release"
        /\ \A q \in Pids \ {p} : daemon'[q] = daemon[q]
    BY <1>1, <2>1, GoesMoves
  <2>3. \A q : Dead(q) => Dead(q)'
    BY <2>1, <2>2 DEF Dead
  <2>4. OneAtATime => \A q \in Pids \ {p} : daemon[q].at \notin Guarded
    BY <2>1 DEF OneAtATime
  <2>5. OneAtATime => OneAtATime'
    BY <2>1, <2>2, <2>3, <2>4 DEF OneAtATime
  <2>6. ProcessTypes'
    BY <1>1, <2>1, <2>2 DEF SingleInv, ProcessTypes
  <2> QED BY <2>1, <2>5, <2>6 DEF SingleInv
<1>10. CASE ReleaseStop(p)
  <2>1. raced' \in BOOLEAN /\ (~raced' => ~raced)
    BY <1>1, <1>10 DEF ReleaseStop
  <2> QED BY <1>2, <1>10, <2>1 DEF ReleaseStop
<1>11. CASE Kill(p)
  BY <1>1, <1>2, <1>11 DEF Kill, Alive, files
<1> QED
  BY <1>3, <1>4, <1>5, <1>6, <1>7, <1>8, <1>9, <1>10, <1>11 DEF DaemonStep

\* So does a step of the stop command.
LEMMA StopperKeeps ==
  ASSUME SingleInv, StopReads \/ StopTouches \/ StopCleansUp \/ StopReturns
  PROVE  SingleInv'
<1> USE DEF Stopper
<1>1. /\ stopper \in Stopper /\ daemon \in [Pids -> Life]
      /\ raced \in BOOLEAN /\ pidFile \in Pids \union {0}
  BY DEF SingleInv, ProcessTypes
<1>2. UNCHANGED daemon
  BY DEF StopReads, StopTouches, StopCleansUp, StopReturns
<1>3. \A q : Dead(q) => Dead(q)'
  BY <1>2 DEF Dead
<1>4. ASSUME UNCHANGED pidFile, raced' \in BOOLEAN, ~raced' => ~raced,
             stopper' \in Stopper, stopper'.at = "dead" => Dead(stopper'.pid)
      PROVE  SingleInv'
  <2>1. OneAtATime => OneAtATime'
    BY <1>2, <1>3, <1>4 DEF OneAtATime
  <2>2. ProcessTypes'
    BY <1>2, <1>4 DEF SingleInv, ProcessTypes
  <2> QED BY <1>4, <2>1, <2>2 DEF SingleInv
<1>5. CASE StopReads
  <2>1. stopper' \in Stopper /\ stopper'.pid = pidFile
        /\ (stopper'.at = "dead" => ~(pidFile # 0 /\ Alive(pidFile)))
    BY <1>1, <1>5 DEF StopReads, Idle
  <2>2. stopper'.at = "dead" => Dead(pidFile)
    BY <1>1, <2>1 DEF SingleInv, ProcessTypes, Alive, Dead
  <2> QED BY <1>1, <1>4, <1>5, <2>1, <2>2 DEF StopReads, files
<1>6. CASE StopTouches
  <2> DEFINE sweptBy == daemon[stopper.pid].at \in {"boot", "up"}
  <2>1. stopper' = [stopper EXCEPT !.at = "asked", !.heard = sweptBy]
    BY <1>6 DEF StopTouches
  <2>2. sweptBy \in BOOLEAN
    OBVIOUS
  <2> HIDE DEF sweptBy
  <2>3. stopper' \in Stopper /\ stopper'.at = "asked"
    BY <1>1, <2>1, <2>2
  <2> QED BY <1>1, <1>4, <1>6, <2>3 DEF StopTouches
<1>7. CASE StopCleansUp
  <2>1. /\ pidFile' = 0 /\ stopper' = Idle /\ stopper.at = "dead"
        /\ raced' = (raced \/ Stale(stopper.pid))
    BY <1>7 DEF StopCleansUp
  <2>2. stopper' \in Stopper /\ stopper'.at = "idle"
    BY <2>1 DEF Idle
  <2>3. ASSUME ~raced' PROVE OneAtATime'
    <3>1. OneAtATime /\ pidFile \in {0, stopper.pid} /\ Dead(stopper.pid)
      BY <2>1, <2>3 DEF SingleInv, OneAtATime, Stale
    <3>2. \A q \in Pids : daemon[q].at \notin Guarded
      BY <3>1 DEF OneAtATime, Dead, Pids, Guarded
    <3> QED BY <1>2, <1>3, <2>2, <3>1, <3>2 DEF OneAtATime
  <2>4. ProcessTypes'
    BY <1>1, <1>2, <2>1, <2>2 DEF SingleInv, ProcessTypes
  <2> QED BY <2>3, <2>4 DEF SingleInv
<1>8. CASE StopReturns
  <2>1. stopper' \in Stopper /\ stopper'.at = "idle"
    BY <1>8 DEF StopReturns, Idle
  <2> QED BY <1>1, <1>4, <1>8, <2>1 DEF StopReturns, files
<1> QED BY <1>5, <1>6, <1>7, <1>8

\* The pid file names every daemon from its boot to its end, so that there is
\* one at most, with any number of processes, on any machine, over kills and
\* failed boots, wherever commands come between each other's steps, unless one
\* of them changes a pid file that was written since it looked.
THEOREM OneDaemon == LauncherSpec => []SingleDaemon
<1>1. LauncherInit => SingleInv
  <2> DEFINE unborn == [at |-> "none", chip |-> FALSE, fate |-> "", failed |-> FALSE, seen |-> 0]
  <2> SUFFICES ASSUME LauncherInit PROVE SingleInv
    OBVIOUS
  <2>1. unborn \in Life /\ unborn.at = "none"
    BY DEF Life, Fates, Places
  <2>2. pidFile = 0 /\ raced = FALSE /\ stopper = Idle /\ daemon = [p \in Pids |-> unborn]
    BY DEF LauncherInit
  <2>3. Idle \in Stopper /\ Idle.at = "idle"
    BY DEF Idle, Stopper
  <2> HIDE DEF unborn
  <2>4. daemon \in [Pids -> Life] /\ \A p \in Pids : daemon[p].at = "none"
    BY <2>1, <2>2
  <2> QED BY <2>2, <2>3, <2>4 DEF SingleInv, ProcessTypes, OneAtATime, Guarded
<1>2. SingleInv /\ [LauncherNext]_launcherVars => SingleInv'
  <2> SUFFICES ASSUME SingleInv, [LauncherNext]_launcherVars PROVE SingleInv'
    OBVIOUS
  <2>1. CASE UNCHANGED <<pidFile, raced, daemon, stopper>>
    BY <2>1 DEF SingleInv, ProcessTypes, OneAtATime, Dead
  <2>2. CASE StartByHand
    <3>1. PICK argv : Spawn(argv, FALSE)
      BY <2>2 DEF StartByHand
    <3> QED BY <2>2, <3>1, StartKeeps DEF StartByHand
  <2>3. ASSUME NEW p \in Pids, DaemonStep(p) \/ Kill(p) PROVE SingleInv'
    BY <2>3, DaemonKeeps
  <2>4. CASE StopReads \/ StopTouches \/ StopCleansUp \/ StopReturns
    BY <2>4, StopperKeeps
  <2>5. ASSUME NEW engine, Press(engine) PROVE SingleInv'
    BY <2>5, StartKeeps DEF Press
  <2>6. CASE PressShutdown
    <3>1. CASE UNCHANGED daemon
      BY <2>1, <2>6, <3>1 DEF PressShutdown, files
    <3>2. ASSUME NEW p \in Pids, daemon[p].at = "up", Goes(p, "ending") PROVE SingleInv'
      <4>1. daemon \in [Pids -> Life] /\ raced \in BOOLEAN /\ "ending" \in Places
        BY DEF SingleInv, ProcessTypes, Places, Guarded
      <4>2. /\ daemon' \in [Pids -> Life]
            /\ daemon'[p].at = "ending"
            /\ \A q \in Pids \ {p} : daemon'[q] = daemon[q]
        BY <3>2, <4>1, GoesMoves
      <4>3. UNCHANGED <<pidFile, stopper, raced>>
        BY <2>6 DEF PressShutdown, files
      <4> QED BY <3>2, <4>1, <4>2, <4>3, FilesKept DEF Guarded
    <3> QED BY <2>6, <3>1, <3>2 DEF PressShutdown
  <2>7. CASE WindowStep
    <3>1. UNCHANGED <<pidFile, raced, daemon, stopper>>
      BY <2>7 DEF WindowStep, PollFinds, PollAnnounces, PollWaits, ResumeWaits, Resume, files
    <3> QED BY <2>1, <3>1
  <2>8. CASE UNCHANGED launcherVars
    BY <2>1, <2>8 DEF launcherVars
  <2> QED BY <2>2, <2>3, <2>4, <2>5, <2>6, <2>7, <2>8 DEF LauncherNext
<1>3. SingleInv => SingleDaemon
  BY DEF SingleInv, OneAtATime, SingleDaemon, Guarded
<1> QED BY <1>1, <1>2, <1>3, PTL DEF LauncherSpec

=============================================================================
