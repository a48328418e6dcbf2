------------------------------ MODULE Launcher ------------------------------
(***************************************************************************)
(* Starting and stopping the daemon, across processes: the window with its *)
(* launcher and its poller, daemons that guard themselves with a pid file, *)
(* and the stop command with its sentinel file.  Whether a start succeeds  *)
(* depends on the machine (Preflight).                                     *)
(*                                                                         *)
(* What a command does with the two files takes several steps: it reads    *)
(* the pid and then writes, touches or unlinks, or it unlinks one file and *)
(* then the other.  Another command may come between any two of them;      *)
(* raced notes that one acted on what by then was not so.                  *)
(***************************************************************************)
EXTENDS Preflight

CONSTANTS Machines,     \* machines explored
          MaxPid,       \* bound: processes started,
          Processes(_), \* on a machine
          ResumePolls,  \* polls of _resume_after_shutdown
          Deadline      \* _LAUNCH_DEADLINE_S, in polls

ASSUME LauncherAssumption ==
    /\ \A m \in Machines : DOMAIN m.cards \subseteq Nat /\ m \in Machine(DOMAIN m.cards)
    /\ MaxPid \in Nat \ {0} /\ \A m \in Machines : Processes(m) \in 1..MaxPid
    /\ ResumePolls \in Nat /\ Deadline \in Nat

VARIABLES machine,
          pidFile,   \* logs/navi.pid, or 0
          stopFile,  \* logs/navi.stop is there
          raced,     \* history: a command wrote or unlinked what was another's
          daemon,    \* per pid, where its main is; seen: the pid file it read
          stopper,   \* a run of cmd_stop
          page,      \* what the window shows: "launcher", "daemon"
          launching, \* waiting.html: a chip was pressed
          launchAt,  \* polls since, or -1
          poller,    \* _polling and _poll_loop: [on, notified]
          resuming   \* polls left to _resume_after_shutdown, or -1

launcherVars == <<machine, pidFile, stopFile, raced, daemon, stopper,
                  page, launching, launchAt, poller, resuming>>
files == <<pidFile, stopFile, raced>>
window == <<page, launching, launchAt, poller, resuming>>

Pids == 1..MaxPid
Idle == [at |-> "idle", pid |-> 0, heard |-> FALSE]

Alive(p) == daemon[p].at \notin {"none", "gone"}
Answers(p) == daemon[p].at \in {"up", "ending"}  \* GET /status
Up == \E p \in Pids : Answers(p)

\* The pid file has come to name somebody since it was seen with this pid.
Stale(seen) == pidFile \notin {0, seen}

----------------------------------------------------------------------------
(* Daemons: main, acquire_pidfile, _run, release_pidfile.                  *)

Goes(p, at) == daemon' = [daemon EXCEPT ![p].at = at]

\* A new process; chip says that it was started by one.  If it is alone, no
\* race of before matters.
Spawn(argv, chip) ==
    \E p \in Pids :
      /\ p <= Processes(machine)
      /\ daemon[p].at = "none" /\ \A q \in Pids : q < p => daemon[q].at # "none"
      /\ daemon' = [daemon EXCEPT ![p] =
           IF ScriptRuns(machine, argv)
           THEN [at |-> "check", chip |-> chip, fate |-> BootFate(machine, argv),
                 failed |-> FALSE, seen |-> 0]
           ELSE [at |-> "gone", chip |-> chip, fate |-> "no script", failed |-> TRUE, seen |-> 0]]
      /\ raced' = (raced /\ (stopper.at # "idle" \/ \E q \in Pids : Alive(q)))

\* By hand in a terminal, with any card.
StartByHand ==
    /\ \E c \in DOMAIN machine.cards, mode \in {"voice", "text"} :
         Spawn([mode |-> mode, card |-> c], FALSE)
    /\ UNCHANGED <<machine, pidFile, stopFile, stopper, window>>

CheckPidAnswers(p) ==
    /\ daemon[p].at = "check"
    /\ daemon' = [daemon EXCEPT ![p].at = IF pidFile # 0 /\ Answers(pidFile) THEN "gone" ELSE "write",
                                 ![p].seen = pidFile]
    /\ UNCHANGED <<machine, files, stopper, window>>
CheckPid(p) ==
    /\ daemon[p].at = "check"
    /\ daemon' = [daemon EXCEPT ![p].at = IF pidFile # 0 /\ Alive(pidFile) THEN "gone" ELSE "write",
                                 ![p].seen = pidFile]
    /\ UNCHANGED <<machine, files, stopper, window>>

WritePid(p) ==
    /\ daemon[p].at = "write"
    /\ pidFile' = p /\ Goes(p, "sweep")
    /\ raced' = (raced \/ Stale(daemon[p].seen))
    /\ UNCHANGED <<machine, stopFile, stopper, window>>

SweepNothing(p) ==
    /\ daemon[p].at = "sweep"
    /\ Goes(p, "boot")
    /\ UNCHANGED <<machine, files, stopper, window>>
SweepStop(p) ==
    /\ daemon[p].at = "sweep"
    /\ stopFile' = FALSE /\ Goes(p, "boot")
    /\ UNCHANGED <<machine, pidFile, raced, stopper, window>>

Boot(p) ==
    /\ daemon[p].at = "boot"
    /\ daemon' = IF daemon[p].fate = "up" THEN [daemon EXCEPT ![p].at = "up"]
                 ELSE [daemon EXCEPT ![p].at = "closing", ![p].failed = TRUE]
    /\ UNCHANGED <<machine, files, stopper, window>>

\* _stop_watch; SHUTDOWN is handled when the core is done with its turn.
SeeStop(p) ==
    /\ daemon[p].at = "up" /\ stopFile
    /\ Goes(p, "ending")
    /\ UNCHANGED <<machine, files, stopper, window>>

\* The finally of _run: the server, the voice, the ear, the store.
Close(p) ==
    /\ daemon[p].at = "ending"
    /\ Goes(p, "closing")
    /\ UNCHANGED <<machine, files, stopper, window>>

ReleasePid(p) ==
    /\ daemon[p].at = "closing"
    /\ pidFile' = 0 /\ Goes(p, "release")
    /\ raced' = (raced \/ Stale(p))
    /\ UNCHANGED <<machine, stopFile, stopper, window>>
ReleaseStop(p) ==
    /\ daemon[p].at = "release"
    /\ stopFile' = FALSE /\ Goes(p, "gone")
    /\ raced' = (raced \/ Stale(p))
    /\ UNCHANGED <<machine, pidFile, stopper, window>>

\* The process is killed; its files stay.
Kill(p) ==
    /\ Alive(p)
    /\ Goes(p, "gone")
    /\ UNCHANGED <<machine, files, stopper, window>>

----------------------------------------------------------------------------
(* cmd_stop.  Its wait of 15 seconds changes nothing and is left out.      *)

StopReads ==
    /\ stopper.at = "idle"
    /\ stopper' = [Idle EXCEPT !.at = IF pidFile # 0 /\ Alive(pidFile) THEN "found" ELSE "dead",
                               !.pid = pidFile]
    /\ UNCHANGED <<machine, files, daemon, window>>

\* heard: the sentinel comes after the sweep of the daemon it is for.
StopTouches ==
    /\ stopper.at = "found"
    /\ stopFile' = TRUE
    /\ raced' = (raced \/ Stale(stopper.pid))
    /\ stopper' = [stopper EXCEPT !.at = "asked", !.heard = daemon[stopper.pid].at \in {"boot", "up"}]
    /\ UNCHANGED <<machine, pidFile, daemon, window>>

StopCleansUp ==
    /\ stopper.at = "dead"
    /\ pidFile' = 0 /\ stopFile' = FALSE /\ stopper' = Idle
    /\ raced' = (raced \/ Stale(stopper.pid))
    /\ UNCHANGED <<machine, daemon, window>>

StopReturns ==
    /\ stopper.at = "asked" /\ ~Alive(stopper.pid)
    /\ stopper' = Idle
    /\ UNCHANGED <<machine, files, daemon, window>>

----------------------------------------------------------------------------
(* The window: _Api and waiting.html.                                      *)

LauncherInit ==
    /\ machine \in Machines
    /\ pidFile = 0 /\ stopFile = FALSE /\ raced = FALSE /\ stopper = Idle
    /\ daemon = [p \in Pids |-> [at |-> "none", chip |-> FALSE, fate |-> "",
                              failed |-> FALSE, seen |-> 0]]
    /\ page = "launcher" /\ launching = FALSE /\ launchAt = -1
    /\ poller = [on |-> TRUE, notified |-> FALSE] /\ resuming = -1

\* A chip that is lit; launch does not wait for what it starts.
Press(engine) ==
    /\ page = "launcher" /\ ~launching /\ ChipBootable(machine, engine)
    /\ Spawn(Argv(machine, engine), TRUE)
    /\ launching' = TRUE /\ launchAt' = 0
    /\ UNCHANGED <<machine, pidFile, stopFile, stopper, page, poller, resuming>>

\* One round of _poll_loop.
PollFinds ==
    /\ poller.on /\ Up
    /\ page' = "daemon" /\ launching' = FALSE
    /\ poller' = [poller EXCEPT !.on = FALSE]
    /\ UNCHANGED <<machine, files, daemon, stopper, launchAt, resuming>>

PollAnnounces ==
    /\ poller.on /\ ~Up
    /\ launchAt > Deadline /\ ~poller.notified
    /\ poller' = [poller EXCEPT !.notified = TRUE]
    /\ launching' = FALSE /\ launchAt' = -1
    /\ UNCHANGED <<machine, files, daemon, stopper, page, resuming>>

PollWaits ==
    /\ poller.on /\ ~Up
    /\ launchAt \in 0..Deadline
    /\ launchAt' = launchAt + 1
    /\ UNCHANGED <<machine, files, daemon, stopper, page, launching, poller, resuming>>

\* The button of index.html: POST /shutdown, if anyone answers, and
\* return_to_launcher.
PressShutdown ==
    /\ page = "daemon" /\ resuming = -1
    /\ \/ \E p \in Pids : daemon[p].at = "up" /\ Goes(p, "ending")
       \/ /\ ~\E p \in Pids : daemon[p].at = "up"
          /\ UNCHANGED daemon
    /\ page' = "launcher" /\ launching' = FALSE /\ launchAt' = -1
    /\ resuming' = ResumePolls
    /\ UNCHANGED <<machine, files, stopper, poller>>

ResumeWaits ==
    /\ resuming > 0 /\ Up
    /\ resuming' = resuming - 1
    /\ UNCHANGED <<machine, files, daemon, stopper, page, launching, launchAt, poller>>

ResumeOnlyWhenDown ==
    /\ resuming >= 0 /\ (resuming = 0 \/ ~Up)
    /\ resuming' = -1
    /\ poller' = IF Up \/ poller.on THEN poller ELSE [on |-> TRUE, notified |-> FALSE]
    /\ UNCHANGED <<machine, files, daemon, stopper, page, launching, launchAt>>
\* start_poller does nothing if a poller is on.
Resume ==
    /\ resuming = 0 \/ (resuming > 0 /\ ~Up)
    /\ resuming' = -1
    /\ poller' = IF poller.on THEN poller ELSE [on |-> TRUE, notified |-> FALSE]
    /\ UNCHANGED <<machine, files, daemon, stopper, page, launching, launchAt>>

----------------------------------------------------------------------------

DaemonStep(p) ==
    \/ CheckPid(p) \/ WritePid(p) \/ SweepStop(p) \/ Boot(p)
    \/ SeeStop(p) \/ Close(p) \/ ReleasePid(p) \/ ReleaseStop(p)
WindowStep == PollFinds \/ PollAnnounces \/ PollWaits \/ ResumeWaits \/ Resume

LauncherNext ==
    \/ StartByHand
    \/ \E p \in Pids : DaemonStep(p) \/ Kill(p)
    \/ StopReads \/ StopTouches \/ StopCleansUp \/ StopReturns
    \/ \E engine \in Chips(machine) : Press(engine)
    \/ PressShutdown
    \/ WindowStep

\* Threads and processes go on unless killed; users press what they like or
\* nothing.
LauncherSpec ==
    /\ LauncherInit /\ [][LauncherNext]_launcherVars
    /\ \A p \in Pids : WF_launcherVars(DaemonStep(p))
    /\ WF_launcherVars(PollFinds \/ PollAnnounces \/ PollWaits)
    /\ WF_launcherVars(ResumeWaits \/ Resume)
    /\ WF_launcherVars(StopTouches \/ StopCleansUp)

----------------------------------------------------------------------------
(* Properties.                                                             *)

\* The verdict of preflight holds on every machine explored.
VerdictHolds == VerdictExact(machine)

\* One daemon at a time, over kills, failed boots and stops: the pid file
\* names a daemon from its boot to its end, so that no second can be there and
\* the stop command will find it (acquire_pidfile: "single instance guard").
\* Two commands can break this in one way only, if one of them writes or
\* unlinks a pid file that the other has written since the first one looked;
\* it is whole again when all are gone.
SingleDaemon ==
    ~raced => \A p \in Pids :
                daemon[p].at \in {"sweep", "boot", "up", "ending", "closing"} => pidFile = p

\* A stop reaches the daemon it is for and no other: no sentinel left by a
\* kill or by an earlier stop ends a later daemon, and a stop that comes after
\* the daemon has swept old sentinels ends it, even in the middle of its boot;
\* again unless commands raced.
StopReaches ==
    /\ [][ \A p \in Pids : SeeStop(p) => raced \/ (stopper.at = "asked" /\ stopper.pid = p) ]_launcherVars
    /\ \A p \in Pids : (stopper.at = "asked" /\ stopper.pid = p /\ stopper.heard)
                         ~> (raced \/ daemon[p].at = "gone")

\* The window is not left behind: a launch ends with the daemon's page or, the
\* first time under a poller, with the notice that nothing came; and however
\* often the user has returned to the launcher, a daemon that stays up is
\* found and its page shown (gui/__main__.py, _poll_loop).
WindowFollows ==
    /\ (launching /\ ~poller.notified) ~> ~launching
    /\ []<>(page = "daemon" \/ ~Up)

\* Claim of preflight, the gate before the button: a chip that is lit comes
\* up.  Refuted on a machine with a gemini key only: run_navi.ps1 always
\* asks for anthropic.
LitChipBoots ==
    \A p \in Pids : daemon[p].chip => ~daemon[p].failed
=============================================================================
