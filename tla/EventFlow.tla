----------------------------- MODULE EventFlow ------------------------------
(***************************************************************************)
(* Events on their way: publishers put them on the bus, the core takes     *)
(* them one at a time and awaits the handler, GUI windows come and go on   *)
(* the /events socket, and a SHUTDOWN on the same queues ends it all.      *)
(*                                                                         *)
(* Events are numbered in the order of publication.  A "work" event is one *)
(* whose handler awaits (TICK, UTTERANCE), a "note" one the core records   *)
(* only (STAGE, TURN_STARTED, WAKE...).                                    *)
(***************************************************************************)
EXTENDS EventBus, Integers

CONSTANTS Windows,    \* GUI windows: one socket each
          CoreMax,    \* maxsize of the core's queue
          GuiMax,     \* maxsize of a socket's queue
          RingMax,    \* last_events
          LastEvent   \* bound: events published

ASSUME FlowAssumption ==
    /\ "core" \notin Windows
    /\ CoreMax \in Nat \ {0} /\ GuiMax \in Nat \ {0}
    /\ RingMax \in Nat \ {0} /\ LastEvent \in Nat

VARIABLES queues,     \* the bus: a queue per subscriber
          published,  \* events published so far
          core,       \* _dispatch: waiting, busy, or stopped
          recent,     \* DaemonState.last_events
          sentinel,   \* the stop file is there
          watch,      \* _stop_watch is still polling
          socket,     \* what /events is doing for each window
          lost        \* the core's queue has lost an event

flowVars == <<queues, published, core, recent, sentinel, watch, socket, lost>>

Event == [n : Nat, kind : {"work", "note", "SHUTDOWN"}]
MaxSize == [s \in Windows \cup {"core"} |-> IF s = "core" THEN CoreMax ELSE GuiMax]
Closed == [phase |-> "closed", replay |-> <<>>, sent |-> <<>>]

FlowInit ==
    /\ queues = [s \in {"core"} |-> <<>>]
    /\ published = 0
    /\ core = "waiting"
    /\ recent = <<>>
    /\ sentinel = FALSE /\ watch = TRUE
    /\ socket = [w \in Windows |-> Closed]
    /\ lost = FALSE

----------------------------------------------------------------------------
(* Publishing.                                                             *)

PublishEvent(kind) ==
    /\ published < LastEvent
    /\ published' = published + 1
    /\ queues' = Publish(queues, MaxSize, [n |-> published + 1, kind |-> kind])
    /\ lost' = (lost \/ ("core" \in DOMAIN queues /\ Len(queues["core"]) = CoreMax))

\* _tick_loop and _ear_loop, while the core runs.
Publisher(kind) ==
    /\ core # "stopped"
    /\ PublishEvent(kind)
    /\ UNCHANGED <<core, recent, sentinel, watch, socket>>

\* cmd_stop touches the file; _stop_watch publishes once and returns.
StopFileAppears ==
    /\ ~sentinel
    /\ sentinel' = TRUE
    /\ UNCHANGED <<queues, published, core, recent, watch, socket, lost>>
StopWatch ==
    /\ watch /\ sentinel /\ core # "stopped"
    /\ watch' = FALSE
    /\ PublishEvent("SHUTDOWN")
    /\ UNCHANGED <<core, recent, sentinel, socket>>

\* POST /shutdown.
PostShutdown ==
    /\ core # "stopped"
    /\ PublishEvent("SHUTDOWN")
    /\ UNCHANGED <<core, recent, sentinel, watch, socket>>

----------------------------------------------------------------------------
(* _dispatch.                                                              *)

Ring(events, e) ==
    IF Len(events) < RingMax THEN Append(events, e) ELSE Append(Tail(events), e)

\* record(), then the handler; SHUTDOWN leaves the loop and unsubscribes.
StopsWhenDrained ==
    /\ core = "waiting" /\ queues["core"] # <<>>
    /\ LET e == Head(queues["core"])
           stops == e.kind = "SHUTDOWN" /\ Len(queues["core"]) = 1
       IN  /\ recent' = IF e.kind = "SHUTDOWN" /\ ~stops THEN recent ELSE Ring(recent, e)
           /\ core' = IF stops THEN "stopped" ELSE IF e.kind = "work" THEN "busy" ELSE "waiting"
           /\ queues' = IF stops THEN Unsubscribe(queues, "core")
                        ELSE [queues EXCEPT !["core"] = Tail(@)]
    /\ UNCHANGED <<published, sentinel, watch, socket, lost>>
Dispatch ==
    /\ core = "waiting" /\ queues["core"] # <<>>
    /\ LET e == Head(queues["core"])
       IN  /\ recent' = Ring(recent, e)
           /\ core' = CASE e.kind = "SHUTDOWN" -> "stopped"
                        [] e.kind = "work" -> "busy"
                        [] OTHER -> "waiting"
           /\ queues' = IF e.kind = "SHUTDOWN" THEN Unsubscribe(queues, "core")
                        ELSE [queues EXCEPT !["core"] = Tail(@)]
    /\ UNCHANGED <<published, sentinel, watch, socket, lost>>

\* A handler publishes its own stages, on the core's own queue too.
HandlerNotes ==
    /\ core = "busy"
    /\ PublishEvent("note")
    /\ UNCHANGED <<core, recent, sentinel, watch, socket>>
HandlerReturns ==
    /\ core = "busy"
    /\ core' = "waiting"
    /\ UNCHANGED <<queues, published, recent, sentinel, watch, socket, lost>>

----------------------------------------------------------------------------
(* The /events socket.                                                     *)

\* accept, subscribe, and take the list of past events, without an await
\* between the last two.
Connect(w) ==
    /\ core # "stopped" /\ socket[w].phase = "closed"
    /\ queues' = Subscribe(queues, w)
    /\ socket' = [socket EXCEPT ![w] = [phase |-> "open", replay |-> recent, sent |-> <<>>]]
    /\ UNCHANGED <<published, core, recent, sentinel, watch, lost>>

\* Each send is awaited: past events first, then the queue.
Replay(w) ==
    /\ socket[w].phase = "open" /\ socket[w].replay # <<>>
    /\ socket' = [socket EXCEPT ![w].replay = Tail(@),
                                ![w].sent = Append(@, Head(socket[w].replay).n)]
    /\ UNCHANGED <<queues, published, core, recent, sentinel, watch, lost>>
StreamAnytime(w) ==
    /\ socket[w].phase = "open" /\ queues[w] # <<>>
    /\ LET e == Head(queues[w])
       IN  /\ socket' = [socket EXCEPT
                 ![w].sent = Append(@, e.n),
                 ![w].phase = IF e.kind = "SHUTDOWN" THEN "closed" ELSE "open"]
           /\ queues' = IF e.kind = "SHUTDOWN" THEN Unsubscribe(queues, w)
                        ELSE [queues EXCEPT ![w] = Tail(@)]
    /\ UNCHANGED <<published, core, recent, sentinel, watch, lost>>
Stream(w) == socket[w].replay = <<>> /\ StreamAnytime(w)

\* The window is closed, or the server goes down after the core.
DisconnectLeaking(w) ==
    /\ socket[w].phase # "closed"
    /\ socket' = [socket EXCEPT ![w] = Closed]
    /\ UNCHANGED <<queues, published, core, recent, sentinel, watch, lost>>
Disconnect(w) ==
    /\ socket[w].phase # "closed"
    /\ socket' = [socket EXCEPT ![w] = Closed]
    /\ queues' = Unsubscribe(queues, w)
    /\ UNCHANGED <<published, core, recent, sentinel, watch, lost>>

FlowNext ==
    \/ \E kind \in {"work", "note"} : Publisher(kind)
    \/ StopFileAppears
    \/ StopWatch
    \/ PostShutdown
    \/ Dispatch
    \/ HandlerNotes
    \/ HandlerReturns
    \/ \E w \in Windows : Connect(w) \/ Replay(w) \/ Stream(w) \/ Disconnect(w)

\* The stop watcher polls, the core takes its queue, handlers return.
FlowSpec ==
    /\ FlowInit /\ [][FlowNext]_flowVars
    /\ WF_flowVars(StopWatch) /\ WF_flowVars(Dispatch) /\ WF_flowVars(HandlerReturns)

----------------------------------------------------------------------------
(* Properties.                                                             *)

\* The variables hold what the bus, the core and the sockets put in them;
\* the core is subscribed until it stops, a window while its socket is open.
FlowTypeOK ==
    /\ DOMAIN queues = {s \in Windows : socket[s].phase = "open"}
                         \cup (IF core = "stopped" THEN {} ELSE {"core"})
    /\ \A s \in DOMAIN queues : queues[s] \in Seq(Event) /\ Len(queues[s]) <= MaxSize[s]
    /\ published \in 0 .. LastEvent
    /\ core \in {"waiting", "busy", "stopped"}
    /\ recent \in Seq(Event) /\ Len(recent) <= RingMax
    /\ sentinel \in BOOLEAN /\ watch \in BOOLEAN /\ lost \in BOOLEAN
    /\ \A w \in Windows : socket[w].replay \in Seq(Event) /\ socket[w].sent \in Seq(Nat)

\* Order survives loss: whatever a queue has lost, what it holds is the newest
\* events with no gap and none after them; a window is sent every event at most
\* once and in order, although it gets them from the past list and from its own
\* queue; and the core records, in order, every event after its first unless
\* its queue overflowed.
InOrder ==
    /\ \A s \in DOMAIN queues : \A i \in DOMAIN queues[s] :
         queues[s][i].n = published - Len(queues[s]) + i
    /\ \A w \in Windows : \A i, j \in DOMAIN socket[w].sent :
         i < j => socket[w].sent[i] < socket[w].sent[j]
    /\ \A i, j \in DOMAIN recent : i < j =>
         /\ recent[i].n < recent[j].n
         /\ ~lost => recent[j].n - recent[i].n = j - i

\* A request to stop is obeyed, whatever the core is busy with, as long as
\* its queue does not overflow.
StopQueued == core # "stopped" /\ \E i \in DOMAIN queues["core"] : queues["core"][i].kind = "SHUTDOWN"
StopHeeded == StopQueued ~> (core = "stopped" \/ lost)
=============================================================================
