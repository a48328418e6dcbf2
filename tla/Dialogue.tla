------------------------------ MODULE Dialogue ------------------------------
(***************************************************************************)
(* What is said and what is remembered.  The daemon and the CLI are two    *)
(* processes on one database.  Each finds or creates the user, takes what  *)
(* is typed or heard, assembles a request from the newest rows of the user *)
(* and the trigger, and stores the question and the answer in two commits. *)
(*                                                                         *)
(* A saying is [turn, what].  "question" and "material" are of role user,  *)
(* "answer" and "remark" (what navi says of her own accord) of role        *)
(* assistant.  A row is a saying with its user and its session.            *)
(***************************************************************************)
EXTENDS SequencesExt, FiniteSetsExt, Integers

CONSTANTS RecentTurns,  \* recent_turns of config.yaml
          CliModes,     \* how the CLI takes its input
          MaxTurns,     \* bound: requests
          MaxStarts     \* bound: starts of either process

ASSUME DialogueAssumption ==
    /\ RecentTurns \in Nat \ {0} /\ MaxTurns \in Nat /\ MaxStarts \in Nat
    /\ CliModes \subseteq {"typed", "wav", "listen", "wakeword"}

Procs == {"daemon", "cli"}

VARIABLES users,    \* rows of user; the ids are 1..users
          rows,     \* conversation_turn, by turn_id
          proc,     \* per process, its place in the program
          request,  \* per process, the messages of the request under way
          turns,    \* requests so far
          starts,   \* starts so far
          torn      \* turns whose process died between their two rows

dialogueVars == <<users, rows, proc, request, turns, starts, torn>>

Role(what) == IF what \in {"question", "material"} THEN "user" ELSE "assistant"
Off == [at |-> "off", mode |-> "", user |-> 0, session |-> 0, turn |-> 0, what |-> "", seen |-> 0]

----------------------------------------------------------------------------
(* The request.                                                            *)

\* recall_recent_for_user: the newest rows of the user, in time order.
RowsOf(user) ==
    LET Keep(kept, row) == IF row.user = user THEN Append(kept, row) ELSE kept
    IN  FoldLeft(Keep, <<>>, rows)
NewestAndOneMore(s) == IF Len(s) <= RecentTurns THEN s
                       ELSE SubSeq(s, Len(s) - RecentTurns, Len(s))
Newest(s) == IF Len(s) <= RecentTurns THEN s
             ELSE SubSeq(s, Len(s) - RecentTurns + 1, Len(s))
RecallSession(p) == LET Mine(r) == r.session = proc[p].session IN Newest(SelectSeq(rows, Mine))
Recall(p) == Newest(RowsOf(proc[p].user))

Says(turn, what) == [role |-> Role(what), parts |-> <<[turn |-> turn, what |-> what]>>]

\* build_request: the rows, then _frame's one message.
Assembled(p, turn, what) ==
    LET recalled == Recall(p)
    IN  [i \in 1..Len(recalled) |-> Says(recalled[i].turn, recalled[i].what)]
        \o <<Says(turn, what)>>

\* _normalize of the Anthropic adapter.
Joined(done, m) ==
    IF done # <<>> /\ Last(done).role = m.role
    THEN [done EXCEPT ![Len(done)].parts = @ \o m.parts]
    ELSE Append(done, m)
Merged(ms) == FoldLeft(Joined, <<>>, ms)
NormalizeNoOpener(ms) == Merged(ms)
Normalize(ms) ==
    LET merged == Merged(ms)
    IN  IF merged # <<>> /\ merged[1].role = "assistant"
        THEN <<[role |-> "user", parts |-> <<>>]>> \o merged
        ELSE merged

----------------------------------------------------------------------------
(* Start: _run of the daemon, chat of the CLI, ensure_user.                *)

DialogueInit ==
    /\ users = 0 /\ rows = <<>> /\ turns = 0 /\ starts = 0 /\ torn = {}
    /\ proc = [p \in Procs |-> Off]
    /\ request = [p \in Procs |-> <<>>]

Modes(p) == IF p = "daemon" THEN {"daemon"} ELSE CliModes

\* The SELECT of ensure_user.
Start(p) ==
    /\ proc[p].at = "off" /\ starts < MaxStarts
    /\ starts' = starts + 1
    /\ \E mode \in Modes(p) :
         proc' = [proc EXCEPT ![p] =
                    [Off EXCEPT !.at = IF users = 0 THEN "creating" ELSE "idle", !.mode = mode,
                                !.user = IF users = 0 THEN 0 ELSE 1, !.session = starts + 1]]
    /\ UNCHANGED <<users, rows, request, turns, torn>>

\* Its INSERTs, one commit.
CreateUser(p) ==
    /\ proc[p].at = "creating"
    /\ users' = users + 1
    /\ proc' = [proc EXCEPT ![p].at = "idle", ![p].user = users + 1]
    /\ UNCHANGED <<rows, request, turns, starts, torn>>

----------------------------------------------------------------------------
(* Input: _input_loop and _listen_wakeword of the CLI, the core's handlers *)
(* in the daemon.  "command" is a phrase of the gate, "sleep" the phrase   *)
(* that puts navi to sleep.  Only heard text passes the gate.              *)

Heard(p) == proc[p].mode \in {"listen", "wakeword"}

\* What makes a turn: a question, or what the scheduler gives the daemon.
Triggers(p, input) ==
    CASE input = "speech" -> {"question"}
      [] input \in {"command", "sleep"} -> IF Heard(p) THEN {} ELSE {"question"}
      [] input = "topic" -> {"material"}
      [] OTHER -> {}

Inputs(p) == IF p = "daemon" THEN {"speech", "topic"}
             ELSE {"speech", "command", "sleep", "nothing", "quit"}

\* After the turn a file's session ends.
Idles(p) == IF proc[p].mode = "wav" THEN [proc EXCEPT ![p] = Off] ELSE [proc EXCEPT ![p].at = "idle"]

Ask(p) ==
    /\ proc[p].at = "idle" /\ turns < MaxTurns
    /\ \E input \in Inputs(p) : \E what \in Triggers(p, input) :
         /\ request' = [request EXCEPT ![p] = Normalize(Assembled(p, turns + 1, what))]
         /\ proc' = [proc EXCEPT ![p].at = "asked", ![p].turn = turns + 1,
                                 ![p].what = what, ![p].seen = Len(rows)]
    /\ turns' = turns + 1
    /\ UNCHANGED <<users, rows, starts, torn>>

\* "/quit", the end of the input, the sleep phrase of --listen, or a file
\* in which nothing was said.
Leave(p) ==
    /\ proc[p].at = "idle" /\ p = "cli"
    /\ \E input \in Inputs(p) :
         \/ input = "quit"
         \/ input = "sleep" /\ proc[p].mode = "listen"
         \/ input = "nothing" /\ proc[p].mode = "wav"
    /\ proc' = [proc EXCEPT ![p] = Off]
    /\ UNCHANGED <<users, rows, request, turns, starts, torn>>

----------------------------------------------------------------------------
(* run_turn and run_initiation, once the pipeline has returned.            *)

\* The request under way is forgotten with the turn.
Forgotten(p) == [request EXCEPT ![p] = <<>>]
Stored(p, what) == Append(rows, [user |-> proc[p].user, session |-> proc[p].session,
                                 turn |-> proc[p].turn, what |-> what])

\* The brain or the mouth raised, or nothing was said.
FailsKeepingQuestion(p) ==
    /\ proc[p].at = "asked"
    /\ rows' = Stored(p, "question")
    /\ proc' = Idles(p) /\ request' = Forgotten(p)
    /\ UNCHANGED <<users, turns, starts, torn>>
Fails(p) ==
    /\ proc[p].at = "asked"
    /\ proc' = Idles(p) /\ request' = Forgotten(p)
    /\ UNCHANGED <<users, rows, turns, starts, torn>>

\* A question is stored first; material is not stored.
RememberQuestion(p) ==
    /\ proc[p].at = "asked" /\ proc[p].what = "question"
    /\ rows' = Stored(p, "question")
    /\ proc' = [proc EXCEPT ![p].at = "halfway"]
    /\ request' = Forgotten(p)
    /\ UNCHANGED <<users, turns, starts, torn>>

RememberAnswer(p) ==
    /\ IF proc[p].what = "question" THEN proc[p].at = "halfway" ELSE proc[p].at = "asked"
    /\ rows' = Stored(p, IF proc[p].what = "question" THEN "answer" ELSE "remark")
    /\ proc' = Idles(p) /\ request' = Forgotten(p)
    /\ UNCHANGED <<users, turns, starts, torn>>

\* Ctrl+C, or the process is killed.
Die(p) ==
    /\ proc[p].at # "off"
    /\ torn' = IF proc[p].at = "halfway" THEN torn \union {proc[p].turn} ELSE torn
    /\ proc' = [proc EXCEPT ![p] = Off] /\ request' = Forgotten(p)
    /\ UNCHANGED <<users, rows, turns, starts>>

DialogueNext ==
    \E p \in Procs :
      \/ Start(p) \/ CreateUser(p)
      \/ Ask(p) \/ Leave(p)
      \/ Fails(p) \/ RememberQuestion(p) \/ RememberAnswer(p)
      \/ Die(p)

DialogueSpec == DialogueInit /\ [][DialogueNext]_dialogueVars

----------------------------------------------------------------------------
(* Properties.                                                             *)

Whats == {"question", "material", "answer", "remark"}

\* Types and ranges; a request is never longer than the memory it may use,
\* its trigger and the opener.
DialogueTypeOK ==
    /\ users \in 0..MaxStarts /\ turns \in 0..MaxTurns /\ starts \in 0..MaxStarts
    /\ torn \subseteq 1..turns
    /\ \A p \in Procs :
         /\ proc[p].at \in {"off", "creating", "idle", "asked", "halfway"}
         /\ proc[p].at \in {"idle", "asked", "halfway"} => proc[p].user \in 1..users
         /\ (request[p] # <<>>) <=> (proc[p].at = "asked")
         /\ Len(request[p]) <= RecentTurns + 2
    /\ \A i \in 1..Len(rows) : rows[i].user \in 1..users /\ rows[i].what \in Whats

\* The saying just before the last one of the messages ms.
JustBefore(ms, saying) ==
    LET last == Last(ms).parts
    IN  \/ Len(last) > 1 /\ last[Len(last) - 1] = saying
        \/ /\ Len(last) = 1 /\ Len(ms) > 1
           /\ LET previous == ms[Len(ms) - 1].parts
              IN  previous # <<>> /\ Last(previous) = saying

\* Whatever the memory holds, rows of two processes in any order, torn
\* turns, remarks nobody asked for, or a window that begins in the middle
\* of a turn, what goes to Anthropic begins with the user, alternates and
\* ends with the trigger (anthropic.py, _normalize).
RequestAccepted ==
    \A p \in Procs : proc[p].at = "asked" =>
      LET ms == request[p]
      IN  /\ ms[1].role = "user" /\ Last(ms).role = "user"
          /\ \A i \in 1..(Len(ms) - 1) : ms[i].role # ms[i + 1].role
          /\ Last(Last(ms).parts) = [turn |-> proc[p].turn, what |-> proc[p].what]

\* As long as there is one user, what was stored last, by whichever process
\* and in whichever session, is in the next request just before its trigger:
\* nothing of yesterday is lost by a restart (store.py, conductor.py).  But the
\* material of a remark is never taken for something the user said: the only
\* material in a request is its own trigger (daemon.py, run_initiation).
Remembers ==
    \A p \in Procs : proc[p].at = "asked" =>
      LET ms     == request[p]
          newest == rows[proc[p].seen]
      IN  /\ users = 1 /\ proc[p].seen > 0 =>
               JustBefore(ms, [turn |-> newest.turn, what |-> newest.what])
          /\ \A i \in 1..Len(ms) : \A j \in 1..Len(ms[i].parts) :
               ms[i].parts[j].what = "material" => ms[i].parts[j].turn = proc[p].turn

\* A turn that failed leaves nothing.  An answer has its question before
\* it, with at most rows of another session in between; a question without
\* an answer belongs to a turn being stored or to one torn by a death
\* (daemon.py, run_turn).
RowsPaired ==
    LET Is(i, what, turn) == rows[i].what = what /\ rows[i].turn = turn
        Done == 1..Len(rows)
    IN  /\ \A i \in Done : rows[i].what = "answer" =>
             \E j \in 1..(i - 1) :
               /\ Is(j, "question", rows[i].turn)
               /\ \A k \in (j + 1)..(i - 1) : rows[k].session # rows[i].session
        /\ \A i \in Done : rows[i].what = "question" =>
             \/ \E j \in Done : Is(j, "answer", rows[i].turn)
             \/ rows[i].turn \in torn
             \/ \E p \in Procs : proc[p].at = "halfway" /\ proc[p].turn = rows[i].turn
=============================================================================
