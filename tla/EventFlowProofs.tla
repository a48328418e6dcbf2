-------------------------- MODULE EventFlowProofs ---------------------------
(* Theorems about the order of events: for every number of windows and     *)
(* every size of the queues and of the list of past events.                *)
EXTENDS EventFlow, SequenceTheorems, TLAPS

----------------------------------------------------------------------------
(* A bounded queue.  Put drops the oldest entry of a full queue and         *)
(* appends the new one; the list of past events is kept the same way.      *)

Dropped(queue, maxsize) == IF Len(queue) < maxsize THEN 0 ELSE 1

\* The entries of the queue after Put: those it kept, shifted, and the new one.
Shifted(p, queue, maxsize, event) ==
    /\ Dropped(queue, maxsize) \in {0, 1} /\ Len(queue) \in Nat
    /\ Len(p) = Len(queue) + 1 - Dropped(queue, maxsize)
    /\ \A i \in 1 .. Len(queue) - Dropped(queue, maxsize) : p[i] = queue[i + Dropped(queue, maxsize)]
    /\ p[Len(queue) + 1 - Dropped(queue, maxsize)] = event

LEMMA PutShifts ==
    ASSUME NEW S, NEW q \in Seq(S), NEW m \in Nat \ {0}, Len(q) <= m, NEW e \in S
    PROVE  /\ Put(q, m, e) \in Seq(S) /\ Len(Put(q, m, e)) <= m
           /\ Shifted(Put(q, m, e), q, m, e)
<1>1. Len(q) \in Nat
  BY LenProperties
<1>2. CASE Len(q) < m
  <2>1. Put(q, m, e) = Append(q, e) /\ Dropped(q, m) = 0
    BY <1>2 DEF Put, Dropped
  <2> QED BY <1>1, <1>2, <2>1, AppendProperties DEF Shifted
<1>3. CASE Len(q) = m
  <2>1. Put(q, m, e) = Append(Tail(q), e) /\ Dropped(q, m) = 1 /\ q # <<>>
    BY <1>3 DEF Put, Dropped
  <2>2. /\ Tail(q) \in Seq(S) /\ Len(Tail(q)) = Len(q) - 1
        /\ \A i \in 1 .. Len(Tail(q)) : Tail(q)[i] = q[i + 1]
    BY <2>1, HeadTailProperties
  <2> QED BY <1>1, <1>3, <2>1, <2>2, AppendProperties DEF Shifted
<1> QED BY <1>1, <1>2, <1>3

LEMMA RingPuts == \A events, e : Ring(events, e) = Put(events, RingMax, e)
BY DEF Ring, Put

\* Three orders of events: numbered without a gap up to a last one, rising, and
\* one apart.
Numbered(q, last) == \A i \in 1 .. Len(q) : q[i].n = last - Len(q) + i
Rising(q) == \A i, j \in 1 .. Len(q) : i < j => q[i].n < q[j].n
OneApart(q) == \A i, j \in 1 .. Len(q) : i < j => q[j].n - q[i].n = j - i
UpTo(q, last) == \A i \in 1 .. Len(q) : q[i].n <= last

LEMMA EventNumbers ==
    ASSUME NEW q \in Seq(Event)
    PROVE  /\ Len(q) \in Nat /\ DOMAIN q = 1 .. Len(q)
           /\ \A i \in 1 .. Len(q) : q[i] \in Event /\ q[i].n \in Nat
<1>1. Len(q) \in Nat /\ DOMAIN q = 1 .. Len(q) /\ \A i \in 1 .. Len(q) : q[i] \in Event
  BY LenProperties, ElementOfSeq
<1> QED BY <1>1 DEF Event

LEMMA PutNumbered ==
    ASSUME NEW q \in Seq(Event), NEW m \in Nat \ {0}, Len(q) <= m, NEW e \in Event,
           NEW last \in Nat, Numbered(q, last), e.n = last + 1
    PROVE  Numbered(Put(q, m, e), last + 1)
<1>0. Shifted(Put(q, m, e), q, m, e)
  BY PutShifts
<1> DEFINE p == Put(q, m, e)
           d == Dropped(q, m)
<1>1. /\ d \in {0, 1} /\ Len(q) \in Nat /\ Len(p) = Len(q) + 1 - d
      /\ \A i \in 1 .. Len(q) - d : p[i] = q[i + d]
      /\ p[Len(q) + 1 - d] = e
  BY <1>0 DEF Shifted
<1> HIDE DEF p, d
<1> SUFFICES ASSUME NEW i \in 1 .. Len(p) PROVE p[i].n = last + 1 - Len(p) + i
  BY DEF Numbered, p
<1>2. CASE i = Len(q) + 1 - d
  BY <1>1, <1>2
<1>3. CASE i \in 1 .. Len(q) - d
  <2>1. i + d \in 1 .. Len(q) /\ p[i] = q[i + d]
    BY <1>1, <1>3
  <2>2. q[i + d].n = last - Len(q) + (i + d)
    BY <2>1 DEF Numbered
  <2> QED BY <1>1, <2>1, <2>2
<1> QED BY <1>1, <1>2, <1>3

LEMMA PutRising ==
    ASSUME NEW q \in Seq(Event), NEW m \in Nat \ {0}, Len(q) <= m, NEW e \in Event,
           Rising(q), \A i \in 1 .. Len(q) : q[i].n < e.n
    PROVE  Rising(Put(q, m, e)) /\ UpTo(Put(q, m, e), e.n)
<1>0. Shifted(Put(q, m, e), q, m, e)
  BY PutShifts
<1> DEFINE p == Put(q, m, e)
           d == Dropped(q, m)
<1>1. /\ d \in {0, 1} /\ Len(q) \in Nat /\ Len(p) = Len(q) + 1 - d
      /\ \A i \in 1 .. Len(q) - d : p[i] = q[i + d]
      /\ p[Len(q) + 1 - d] = e
  BY <1>0 DEF Shifted
<1>2. e.n \in Nat /\ \A i \in 1 .. Len(q) : q[i].n \in Nat
  BY EventNumbers DEF Event
<1> HIDE DEF p, d
<1>3. \A i \in 1 .. Len(p) : i = Len(q) + 1 - d \/ (i \in 1 .. Len(q) - d /\ i + d \in 1 .. Len(q))
  BY <1>1
<1>4. \A i \in 1 .. Len(q) - d : p[i].n < e.n
  BY <1>1, <1>3
<1>5. UpTo(p, e.n)
  <2> SUFFICES ASSUME NEW i \in 1 .. Len(p) PROVE p[i].n <= e.n
    BY DEF UpTo
  <2>1. CASE i = Len(q) + 1 - d
    BY <1>1, <1>2, <2>1
  <2>2. CASE i \in 1 .. Len(q) - d
    <3>1. i + d \in 1 .. Len(q) /\ p[i] = q[i + d] /\ p[i].n < e.n
      BY <1>1, <1>3, <1>4, <2>2
    <3>2. p[i].n \in Nat
      BY <1>2, <3>1
    <3> QED BY <1>2, <3>1, <3>2
  <2> QED BY <1>3, <2>1, <2>2
<1>6. ASSUME NEW i \in 1 .. Len(p), NEW j \in 1 .. Len(p), i < j PROVE p[i].n < p[j].n
  <2>1. i \in 1 .. Len(q) - d
    BY <1>1, <1>6
  <2>2. CASE j = Len(q) + 1 - d
    BY <1>1, <1>4, <2>1, <2>2
  <2>3. CASE j \in 1 .. Len(q) - d
    <3>1. i + d \in 1 .. Len(q) /\ j + d \in 1 .. Len(q) /\ i + d < j + d
      BY <1>1, <1>6, <2>1, <2>3
    <3>2. q[i + d].n < q[j + d].n
      BY <3>1 DEF Rising
    <3> QED BY <1>1, <2>1, <2>3, <3>2
  <2> QED BY <1>3, <2>2, <2>3
<1>7. Rising(p)
  BY <1>6 DEF Rising
<1> QED BY <1>5, <1>7 DEF p

LEMMA PutOneApart ==
    ASSUME NEW q \in Seq(Event), NEW m \in Nat \ {0}, Len(q) <= m, NEW e \in Event,
           OneApart(q), q # <<>> => q[Len(q)].n = e.n - 1
    PROVE  /\ OneApart(Put(q, m, e)) /\ Put(q, m, e) # <<>>
           /\ Put(q, m, e)[Len(Put(q, m, e))] = e
<1>0. Shifted(Put(q, m, e), q, m, e)
  BY PutShifts
<1> DEFINE p == Put(q, m, e)
           d == Dropped(q, m)
<1>1. /\ d \in {0, 1} /\ Len(q) \in Nat /\ Len(p) = Len(q) + 1 - d
      /\ \A i \in 1 .. Len(q) - d : p[i] = q[i + d]
      /\ p[Len(q) + 1 - d] = e
  BY <1>0 DEF Shifted
<1>2. e.n \in Nat /\ \A i \in 1 .. Len(q) : q[i].n \in Nat
  BY EventNumbers DEF Event
<1>3. p # <<>>
  BY DEF Put
<1> HIDE DEF p, d
<1>4. \A i \in 1 .. Len(q) : e.n - q[i].n = Len(q) + 1 - i
  <2> SUFFICES ASSUME NEW i \in 1 .. Len(q) PROVE e.n - q[i].n = Len(q) + 1 - i
    OBVIOUS
  <2>1. q # <<>> /\ Len(q) \in 1 .. Len(q) /\ q[Len(q)].n = e.n - 1
    BY <1>1
  <2>2. CASE i = Len(q)
    BY <1>1, <1>2, <2>1, <2>2
  <2>3. CASE i < Len(q)
    <3>1. q[Len(q)].n - q[i].n = Len(q) - i
      BY <2>1, <2>3 DEF OneApart
    <3>2. q[i].n \in Nat /\ q[Len(q)].n \in Nat /\ e.n \in Nat /\ Len(q) \in Nat
      BY <1>1, <1>2, <2>1
    <3>3. PICK a \in Int, b \in Int, c \in Int, l \in Int, k \in Int :
             a = q[i].n /\ b = q[Len(q)].n /\ c = e.n /\ l = Len(q) /\ k = i
      BY <3>2
    <3>4. b - a = l - k /\ b = c - 1
      BY <2>1, <3>1, <3>3
    <3>5. c - a = l + 1 - k
      BY <3>4
    <3> QED BY <3>3, <3>5
  <2> QED BY <1>1, <2>2, <2>3
<1>5. \A i \in 1 .. Len(p) : i = Len(q) + 1 - d \/ (i \in 1 .. Len(q) - d /\ i + d \in 1 .. Len(q))
  BY <1>1
<1>6. ASSUME NEW i \in 1 .. Len(p), NEW j \in 1 .. Len(p), i < j PROVE p[j].n - p[i].n = j - i
  <2>1. i \in 1 .. Len(q) - d /\ i + d \in 1 .. Len(q) /\ p[i] = q[i + d]
    BY <1>1, <1>6
  <2>2. CASE j = Len(q) + 1 - d
    <3>1. e.n - q[i + d].n = Len(q) + 1 - (i + d)
      BY <1>4, <2>1
    <3> QED BY <1>1, <2>1, <2>2, <3>1
  <2>3. CASE j \in 1 .. Len(q) - d
    <3>1. j + d \in 1 .. Len(q) /\ i + d < j + d /\ p[j] = q[j + d]
      BY <1>1, <1>6, <2>1, <2>3
    <3>2. q[j + d].n - q[i + d].n = (j + d) - (i + d)
      BY <2>1, <3>1 DEF OneApart
    <3> QED BY <1>1, <2>1, <3>1, <3>2
  <2> QED BY <1>5, <2>2, <2>3
<1>7. OneApart(p)
  BY <1>6 DEF OneApart
<1> QED BY <1>1, <1>3, <1>7 DEF p

LEMMA TailNumbered ==
    ASSUME NEW q \in Seq(Event), q # <<>>, NEW last \in Nat, Numbered(q, last)
    PROVE  /\ Head(q) \in Event /\ Tail(q) \in Seq(Event) /\ Len(Tail(q)) = Len(q) - 1
           /\ Head(q).n = last - Len(Tail(q))
           /\ Numbered(Tail(q), last)
<1>1. /\ Head(q) \in Event /\ Tail(q) \in Seq(Event) /\ Len(Tail(q)) = Len(q) - 1
      /\ \A i \in 1 .. Len(Tail(q)) : Tail(q)[i] = q[i + 1]
      /\ Len(q) \in Nat \ {0} /\ Head(q) = q[1]
  BY HeadTailProperties, EmptySeq
<1>2. \A i \in 1 .. Len(q) : q[i].n = last - Len(q) + i
  BY DEF Numbered
<1>3. \A i \in 1 .. Len(Tail(q)) : i + 1 \in 1 .. Len(q)
  BY <1>1
<1>4. \A i \in 1 .. Len(Tail(q)) : Tail(q)[i].n = last - Len(Tail(q)) + i
  BY <1>1, <1>2, <1>3
<1> QED BY <1>1, <1>2, <1>4 DEF Numbered
----------------------------------------------------------------------------
(* The invariant.  Taken(s) is the number of the last event that left the  *)
(* queue of s; nothing recorded, replayed or sent is newer than that, and  *)
(* what a window still has to be replayed is newer than all it was sent.   *)

Taken(s) == published - Len(queues[s])

Socket == [phase : {"open", "closed"}, replay : Seq(Event), sent : Seq(Nat)]
SocketType == socket \in [Windows -> Socket]

QueueOrder == \A s \in DOMAIN queues : Numbered(queues[s], published)

RecentOrder ==
    /\ Rising(recent)
    /\ ~lost => OneApart(recent)
    /\ core # "stopped" =>
         /\ UpTo(recent, Taken("core"))
         /\ ~lost /\ recent # <<>> => recent[Len(recent)].n = Taken("core")

SentRising(sent) == \A i, j \in 1 .. Len(sent) : i < j => sent[i] < sent[j]

\* What a socket has sent and has still to send, when its queue has come to t.
SocketOrder(s, t) ==
    /\ SentRising(s.sent)
    /\ s.phase = "open" =>
         /\ Rising(s.replay) /\ UpTo(s.replay, t)
         /\ \A i \in 1 .. Len(s.sent) :
              s.sent[i] <= t /\ \A j \in 1 .. Len(s.replay) : s.sent[i] < s.replay[j].n

OrderInv ==
    /\ FlowTypeOK /\ SocketType
    /\ QueueOrder /\ RecentOrder
    /\ \A w \in Windows : SocketOrder(socket[w], Taken(w))

LEMMA QueueFacts ==
    ASSUME FlowTypeOK, NEW s \in DOMAIN queues
    PROVE  /\ s \in Windows \cup {"core"}
           /\ queues[s] \in Seq(Event) /\ Len(queues[s]) \in Nat
           /\ MaxSize[s] \in Nat \ {0} /\ Len(queues[s]) <= MaxSize[s]
           /\ published \in Nat /\ Taken(s) \in Int
<1>1. s \in Windows \cup {"core"}
  BY DEF FlowTypeOK
<1>2. MaxSize[s] \in Nat \ {0}
  BY <1>1, FlowAssumption DEF MaxSize
<1>3. published \in Nat
  BY FlowAssumption DEF FlowTypeOK
<1>4. queues[s] \in Seq(Event) /\ Len(queues[s]) <= MaxSize[s]
  BY DEF FlowTypeOK
<1>5. Len(queues[s]) \in Nat
  BY <1>4, LenProperties
<1> QED BY <1>1, <1>2, <1>3, <1>4, <1>5 DEF Taken

LEMMA CoreListens ==
    ASSUME FlowTypeOK
    PROVE  /\ core # "stopped" <=> "core" \in DOMAIN queues
           /\ \A w \in Windows : socket[w].phase = "open" <=> w \in DOMAIN queues
           /\ MaxSize["core"] = CoreMax
BY FlowAssumption DEF FlowTypeOK, MaxSize

\* Time goes on for a socket: what holds up to t holds up to any later point.
LEMMA SocketWaits ==
    ASSUME NEW s \in Socket,
           NEW t \in Int, NEW u \in Int, t <= u, SocketOrder(s, t)
    PROVE  SocketOrder(s, u)
<1>1. \A i \in 1 .. Len(s.sent) : s.sent[i] \in Nat
  BY ElementOfSeq DEF Socket
<1>2. \A j \in 1 .. Len(s.replay) : s.replay[j].n \in Nat
  BY EventNumbers DEF Socket
<1> QED BY <1>1, <1>2 DEF SocketOrder, UpTo

----------------------------------------------------------------------------
(* Publishing.                                                             *)

LEMMA Published ==
    ASSUME OrderInv, NEW kind \in {"work", "note", "SHUTDOWN"}, PublishEvent(kind),
           UNCHANGED <<core, recent, socket>>, sentinel' \in BOOLEAN, watch' \in BOOLEAN
    PROVE  OrderInv'
<1> DEFINE e == [n |-> published + 1, kind |-> kind]
<1>0. FlowTypeOK /\ SocketType /\ QueueOrder /\ RecentOrder
      /\ \A w \in Windows : SocketOrder(socket[w], Taken(w))
  BY DEF OrderInv
<1>1. /\ published \in Nat /\ published' = published + 1 /\ published' \in 0 .. LastEvent
      /\ e \in Event /\ e.n = published + 1
  BY <1>0, FlowAssumption DEF FlowTypeOK, PublishEvent, Event
<1> HIDE DEF e
<1>2. /\ DOMAIN queues' = DOMAIN queues
      /\ \A s \in DOMAIN queues : queues'[s] = Put(queues[s], MaxSize[s], e)
  BY DEF PublishEvent, Publish, e
<1>3. ASSUME NEW s \in DOMAIN queues
      PROVE  /\ queues'[s] \in Seq(Event) /\ Len(queues'[s]) <= MaxSize[s]
             /\ Numbered(queues'[s], published')
             /\ Taken(s) \in Int /\ Taken(s)' = Taken(s) + Dropped(queues[s], MaxSize[s])
             /\ Dropped(queues[s], MaxSize[s]) \in {0, 1}
  <2>1. /\ queues[s] \in Seq(Event) /\ Len(queues[s]) \in Nat
        /\ MaxSize[s] \in Nat \ {0} /\ Len(queues[s]) <= MaxSize[s]
    BY <1>0, QueueFacts
  <2>2. Numbered(queues[s], published)
    BY <1>0 DEF QueueOrder
  <2>3. Numbered(queues'[s], published')
    BY <1>1, <1>2, <2>1, <2>2, PutNumbered
  <2>4. /\ queues'[s] \in Seq(Event) /\ Len(queues'[s]) <= MaxSize[s]
        /\ Dropped(queues[s], MaxSize[s]) \in {0, 1}
        /\ Len(queues'[s]) = Len(queues[s]) + 1 - Dropped(queues[s], MaxSize[s])
    BY <1>1, <1>2, <2>1, PutShifts DEF Shifted
  <2> QED BY <1>1, <2>1, <2>3, <2>4 DEF Taken
<1>4. FlowTypeOK'
  <2>1. lost' \in BOOLEAN
    BY DEF PublishEvent
  <2> QED BY <1>0, <1>1, <1>2, <1>3, <2>1 DEF FlowTypeOK
<1>5. SocketType' /\ QueueOrder'
  BY <1>0, <1>2, <1>3 DEF SocketType, Socket, QueueOrder
<1>6. RecentOrder'
  <2>1. ~lost' => ~lost
    BY <1>0 DEF PublishEvent, FlowTypeOK
  <2>2. ASSUME core # "stopped"
        PROVE  UpTo(recent, Taken("core")') /\ (~lost' => Taken("core")' = Taken("core"))
    <3>1. "core" \in DOMAIN queues /\ MaxSize["core"] = CoreMax
      BY <1>0, <2>2, CoreListens
    <3>2. /\ Taken("core") \in Int
          /\ Taken("core")' = Taken("core") + Dropped(queues["core"], CoreMax)
          /\ Dropped(queues["core"], CoreMax) \in {0, 1}
      BY <1>3, <3>1
    <3>3. ~lost' => Dropped(queues["core"], CoreMax) = 0
      <4>1. ~lost' => Len(queues["core"]) # CoreMax
        BY <3>1 DEF PublishEvent
      <4>2. CoreMax \in Nat /\ Len(queues["core"]) \in Nat /\ Len(queues["core"]) <= CoreMax
        BY <1>0, <3>1, QueueFacts
      <4> QED BY <4>1, <4>2 DEF Dropped
    <3>4. \A i \in 1 .. Len(recent) : recent[i].n \in Nat
      BY <1>0, EventNumbers DEF FlowTypeOK
    <3>5. UpTo(recent, Taken("core"))
      BY <1>0, <2>2 DEF RecentOrder
    <3> QED BY <3>2, <3>3, <3>4, <3>5 DEF UpTo
  <2> QED BY <1>0, <2>1, <2>2 DEF RecentOrder
<1>7. ASSUME NEW w \in Windows PROVE SocketOrder(socket[w], Taken(w)')
  <2>1. CASE socket[w].phase = "open"
    <3>1. w \in DOMAIN queues
      BY <1>0, <2>1, CoreListens
    <3>2. Taken(w) \in Int /\ Taken(w)' \in Int /\ Taken(w) <= Taken(w)'
      BY <1>3, <3>1
    <3>3. socket[w] \in Socket
      BY <1>0 DEF SocketType, Socket
    <3> QED BY <1>0, <3>2, <3>3, SocketWaits
  <2>2. CASE socket[w].phase # "open"
    BY <1>0, <2>2 DEF SocketOrder
  <2> QED BY <2>1, <2>2
<1>8. \A w \in Windows : SocketOrder(socket'[w], Taken(w)')
  BY <1>7
<1> QED BY <1>4, <1>5, <1>6, <1>8 DEF OrderInv
----------------------------------------------------------------------------
(* The core takes an event.                                                *)

LEMMA Recorded ==
    ASSUME OrderInv, NEW e \in Event, recent' = Ring(recent, e), core # "stopped",
           e.n = Taken("core") + 1, lost' = lost,
           core' # "stopped" => Taken("core")' = e.n
    PROVE  RecentOrder' /\ recent' \in Seq(Event) /\ Len(recent') <= RingMax
<1>1. recent \in Seq(Event) /\ Len(recent) <= RingMax /\ RingMax \in Nat \ {0} /\ RecentOrder
  BY FlowAssumption DEF OrderInv, FlowTypeOK
<1>2. recent' = Put(recent, RingMax, e)
  BY RingPuts
<1>3. recent' \in Seq(Event) /\ Len(recent') <= RingMax
  BY <1>1, <1>2, PutShifts
<1>4. /\ e.n \in Nat /\ Taken("core") = e.n - 1
      /\ \A i \in 1 .. Len(recent) : recent[i].n \in Nat
  <2>1. "core" \in DOMAIN queues
    BY CoreListens DEF OrderInv
  <2>2. Taken("core") \in Int
    BY <2>1, QueueFacts DEF OrderInv
  <2> QED BY <1>1, <2>2, EventNumbers DEF Event
<1>5. \A i \in 1 .. Len(recent) : recent[i].n < e.n
  BY <1>1, <1>4 DEF RecentOrder, UpTo
<1>6. Rising(recent') /\ UpTo(recent', e.n)
  BY <1>1, <1>2, <1>5, PutRising DEF RecentOrder
<1>7. ~lost => OneApart(recent') /\ recent' # <<>> /\ recent'[Len(recent')] = e
  <2> SUFFICES ASSUME ~lost PROVE OneApart(recent') /\ recent' # <<>> /\ recent'[Len(recent')] = e
    OBVIOUS
  <2>1. OneApart(recent) /\ (recent # <<>> => recent[Len(recent)].n = e.n - 1)
    BY <1>1, <1>4 DEF RecentOrder
  <2> QED BY <1>1, <1>2, <2>1, PutOneApart
<1> QED BY <1>3, <1>6, <1>7 DEF RecentOrder

LEMMA Dispatched ==
    ASSUME OrderInv, Dispatch
    PROVE  OrderInv'
<1> DEFINE q == queues["core"]
           e == Head(q)
<1>0. FlowTypeOK /\ SocketType /\ QueueOrder /\ RecentOrder
      /\ \A w \in Windows : SocketOrder(socket[w], Taken(w))
  BY DEF OrderInv
<1>1. /\ core = "waiting" /\ q # <<>> /\ recent' = Ring(recent, e)
      /\ UNCHANGED <<published, sentinel, watch, socket, lost>>
      /\ core' = CASE e.kind = "SHUTDOWN" -> "stopped" [] e.kind = "work" -> "busy"
                   [] OTHER -> "waiting"
      /\ queues' = IF e.kind = "SHUTDOWN" THEN Unsubscribe(queues, "core")
                   ELSE [queues EXCEPT !["core"] = Tail(q)]
  BY DEF Dispatch
<1>2. /\ "core" \in DOMAIN queues /\ q \in Seq(Event) /\ Len(q) \in Nat /\ published \in Nat
      /\ Numbered(q, published) /\ Len(q) <= MaxSize["core"] /\ MaxSize["core"] \in Nat
  BY <1>0, <1>1, CoreListens, QueueFacts DEF QueueOrder
<1>3. /\ e \in Event /\ Tail(q) \in Seq(Event) /\ Len(Tail(q)) = Len(q) - 1
      /\ e.n = published - Len(Tail(q)) /\ Numbered(Tail(q), published)
  BY <1>1, <1>2, TailNumbered
<1>4. e.n = Taken("core") + 1
  BY <1>2, <1>3 DEF Taken
<1> HIDE DEF e, q
<1>5. core' \in {"waiting", "busy", "stopped"} /\ (core' = "stopped" <=> e.kind = "SHUTDOWN")
  BY <1>1, <1>3 DEF Event
<1>6. /\ DOMAIN queues' = IF core' = "stopped" THEN DOMAIN queues \ {"core"} ELSE DOMAIN queues
      /\ \A s \in DOMAIN queues \ {"core"} : queues'[s] = queues[s]
      /\ core' # "stopped" => queues'["core"] = Tail(q)
  BY <1>1, <1>2, <1>5 DEF Unsubscribe
<1>7. core' # "stopped" => Taken("core")' = e.n
  BY <1>1, <1>3, <1>6 DEF Taken
<1>8. RecentOrder' /\ recent' \in Seq(Event) /\ Len(recent') <= RingMax
  BY <1>1, <1>3, <1>4, <1>7, Recorded
<1>9. ASSUME NEW s \in DOMAIN queues'
      PROVE  /\ queues'[s] \in Seq(Event) /\ Len(queues'[s]) <= MaxSize[s]
             /\ Numbered(queues'[s], published')
  <2>1. CASE s = "core"
    BY <1>1, <1>2, <1>3, <1>6, <2>1
  <2>2. CASE s # "core"
    <3>1. s \in DOMAIN queues /\ queues'[s] = queues[s]
      BY <1>6, <2>2
    <3> QED BY <1>0, <1>1, <3>1, QueueFacts DEF QueueOrder
  <2> QED BY <2>1, <2>2
<1>10. FlowTypeOK'
  <2>1. DOMAIN queues' = {s \in Windows : socket'[s].phase = "open"}
                           \cup (IF core' = "stopped" THEN {} ELSE {"core"})
    BY <1>0, <1>1, <1>6, FlowAssumption DEF FlowTypeOK
  <2> QED BY <1>0, <1>1, <1>5, <1>8, <1>9, <2>1 DEF FlowTypeOK
<1>11. \A w \in Windows : SocketOrder(socket'[w], Taken(w)')
  <2> SUFFICES ASSUME NEW w \in Windows PROVE SocketOrder(socket'[w], Taken(w)')
    OBVIOUS
  <2>1. CASE socket[w].phase = "open"
    <3>1. queues'[w] = queues[w]
      BY <1>0, <1>6, <2>1, FlowAssumption DEF FlowTypeOK
    <3> QED BY <1>0, <1>1, <3>1 DEF Taken
  <2>2. CASE socket[w].phase # "open"
    BY <1>0, <1>1, <2>2 DEF SocketOrder
  <2> QED BY <2>1, <2>2
<1>12. SocketType' /\ QueueOrder'
  BY <1>0, <1>1, <1>9 DEF SocketType, Socket, QueueOrder
<1> QED BY <1>8, <1>10, <1>11, <1>12 DEF OrderInv

----------------------------------------------------------------------------
(* The socket.  One lemma says what a step of one window has to show.      *)

LEMMA WindowSteps ==
    ASSUME OrderInv, NEW w \in Windows, NEW x \in Socket,
           UNCHANGED <<published, core, recent, sentinel, watch, lost>>,
           socket' = [socket EXCEPT ![w] = x],
           DOMAIN queues' = IF x.phase = "open" THEN DOMAIN queues \cup {w}
                            ELSE DOMAIN queues \ {w},
           \A s \in DOMAIN queues \ {w} : queues'[s] = queues[s],
           x.phase = "open" =>
              /\ queues'[w] \in Seq(Event) /\ Len(queues'[w]) <= GuiMax
              /\ Numbered(queues'[w], published),
           SocketOrder(x, Taken(w)')
    PROVE  OrderInv'
<1>0. FlowTypeOK /\ SocketType /\ QueueOrder /\ RecentOrder
      /\ \A v \in Windows : SocketOrder(socket[v], Taken(v))
  BY DEF OrderInv
<1>1. /\ socket' \in [Windows -> Socket] /\ socket'[w] = x
      /\ \A v \in Windows \ {w} : socket'[v] = socket[v]
  BY <1>0 DEF SocketType, Socket
<1>2. w # "core" /\ MaxSize[w] = GuiMax
  BY FlowAssumption DEF MaxSize
<1>3. ASSUME NEW s \in DOMAIN queues'
      PROVE  /\ queues'[s] \in Seq(Event) /\ Len(queues'[s]) <= MaxSize[s]
             /\ Numbered(queues'[s], published')
  <2>1. CASE s = w
    BY <1>2, <2>1
  <2>2. CASE s # w
    BY <1>0, <2>2, QueueFacts DEF QueueOrder
  <2> QED BY <2>1, <2>2
<1>4. FlowTypeOK'
  <2>1. DOMAIN queues' = {s \in Windows : socket'[s].phase = "open"}
                           \cup (IF core' = "stopped" THEN {} ELSE {"core"})
    BY <1>0, <1>1, <1>2, FlowAssumption DEF FlowTypeOK
  <2>2. \A v \in Windows : socket'[v].replay \in Seq(Event) /\ socket'[v].sent \in Seq(Nat)
    BY <1>1 DEF Socket
  <2> QED BY <1>0, <1>3, <2>1, <2>2 DEF FlowTypeOK
<1>5. RecentOrder'
  <2>1. core # "stopped" => queues'["core"] = queues["core"]
    BY <1>0, <1>2, CoreListens
  <2> QED BY <1>0, <2>1 DEF RecentOrder, Taken
<1>6. \A v \in Windows : SocketOrder(socket'[v], Taken(v)')
  <2> SUFFICES ASSUME NEW v \in Windows \ {w} PROVE SocketOrder(socket'[v], Taken(v)')
    BY <1>1
  <2>1. CASE socket[v].phase = "open"
    <3>1. queues'[v] = queues[v]
      BY <1>0, <2>1, CoreListens
    <3> QED BY <1>0, <1>1, <3>1 DEF Taken
  <2>2. CASE socket[v].phase # "open"
    BY <1>0, <1>1, <2>2 DEF SocketOrder
  <2> QED BY <2>1, <2>2
<1>7. SocketType' /\ QueueOrder'
  BY <1>1, <1>3 DEF SocketType, QueueOrder, Socket
<1> QED BY <1>4, <1>5, <1>6, <1>7 DEF OrderInv

LEMMA Connected ==
    ASSUME OrderInv, NEW w \in Windows, Connect(w)
    PROVE  OrderInv'
<1> DEFINE x == [phase |-> "open", replay |-> recent, sent |-> <<>>]
<1>1. /\ core # "stopped" /\ socket' = [socket EXCEPT ![w] = x]
      /\ UNCHANGED <<published, core, recent, sentinel, watch, lost>>
      /\ DOMAIN queues' = DOMAIN queues \cup {w} /\ queues'[w] = <<>>
      /\ \A s \in DOMAIN queues \ {w} : queues'[s] = queues[s]
  BY DEF Connect, Subscribe
<1>2. x \in Socket /\ x.phase = "open" /\ x.replay = recent /\ x.sent = <<>>
  BY DEF Socket, OrderInv, FlowTypeOK
<1>3. queues'[w] \in Seq(Event) /\ Len(queues'[w]) = 0 /\ Len(queues'[w]) <= GuiMax
      /\ Numbered(queues'[w], published)
  BY <1>1, FlowAssumption DEF Numbered
<1>4. published \in Nat /\ Taken(w)' = published
  BY <1>1, <1>3, FlowAssumption DEF Taken, OrderInv, FlowTypeOK
<1>5. UpTo(recent, published)
  <2>1. UpTo(recent, Taken("core"))
    BY <1>1 DEF OrderInv, RecentOrder
  <2>2. Taken("core") \in Int /\ Taken("core") <= published
    BY <1>1, CoreListens, QueueFacts DEF OrderInv, Taken
  <2>3. \A i \in 1 .. Len(recent) : recent[i].n \in Nat
    BY EventNumbers DEF OrderInv, FlowTypeOK
  <2> QED BY <1>4, <2>1, <2>2, <2>3 DEF UpTo
<1>6. Rising(recent)
  BY DEF OrderInv, RecentOrder
<1> HIDE DEF x
<1>7. SocketOrder(x, Taken(w)')
  <2>1. \A i \in 1 .. Len(x.sent) : FALSE
    BY <1>2
  <2>2. SentRising(x.sent)
    BY <2>1 DEF SentRising
  <2>3. Rising(x.replay) /\ UpTo(x.replay, Taken(w)')
    BY <1>2, <1>4, <1>5, <1>6
  <2> QED BY <2>1, <2>2, <2>3 DEF SocketOrder
<1> QED BY <1>1, <1>2, <1>3, <1>7, WindowSteps

\* One more event is sent: newer than all that were, and no newer than t.
LEMMA Sends ==
    ASSUME NEW s \in Seq(Nat), NEW n \in Nat, SentRising(s), \A i \in 1 .. Len(s) : s[i] < n
    PROVE  /\ Append(s, n) \in Seq(Nat) /\ SentRising(Append(s, n))
           /\ \A i \in 1 .. Len(Append(s, n)) : Append(s, n)[i] <= n
<1> DEFINE a == Append(s, n)
<1>1. /\ a \in Seq(Nat) /\ Len(a) = Len(s) + 1 /\ Len(s) \in Nat
      /\ \A i \in 1 .. Len(s) : a[i] = s[i] /\ s[i] \in Nat
      /\ a[Len(s) + 1] = n
  BY AppendProperties, LenProperties, ElementOfSeq
<1> HIDE DEF a
<1>2. \A i \in 1 .. Len(a) : i \in 1 .. Len(s) \/ i = Len(s) + 1
  BY <1>1
<1>3. \A i, j \in 1 .. Len(a) : i < j => a[i] < a[j]
  <2> SUFFICES ASSUME NEW i \in 1 .. Len(a), NEW j \in 1 .. Len(a), i < j PROVE a[i] < a[j]
    OBVIOUS
  <2>1. i \in 1 .. Len(s)
    BY <1>1
  <2>2. CASE j \in 1 .. Len(s)
    BY <1>1, <2>1, <2>2 DEF SentRising
  <2>3. CASE j = Len(s) + 1
    BY <1>1, <2>1, <2>3
  <2> QED BY <1>2, <2>2, <2>3
<1>4. ASSUME NEW i \in 1 .. Len(a) PROVE a[i] <= n
  <2>1. CASE i \in 1 .. Len(s)
    BY <1>1, <2>1
  <2>2. CASE i = Len(s) + 1
    BY <1>1, <2>2
  <2> QED BY <1>2, <2>1, <2>2
<1> QED BY <1>1, <1>3, <1>4 DEF SentRising, a

LEMMA Replayed ==
    ASSUME OrderInv, NEW w \in Windows, Replay(w)
    PROVE  OrderInv'
<1> DEFINE s == socket[w]
           h == Head(s.replay)
           x == [s EXCEPT !.replay = Tail(s.replay), !.sent = Append(s.sent, h.n)]
<1>1. /\ s.phase = "open" /\ s.replay # <<>> /\ socket' = [socket EXCEPT ![w] = x]
      /\ UNCHANGED <<queues, published, core, recent, sentinel, watch, lost>>
  BY DEF Replay, OrderInv, SocketType, Socket
<1>2. s \in Socket /\ SocketOrder(s, Taken(w))
  BY DEF OrderInv, SocketType, Socket
<1>3. /\ w \in DOMAIN queues /\ queues[w] \in Seq(Event) /\ Len(queues[w]) <= GuiMax
      /\ Numbered(queues[w], published) /\ Taken(w) \in Int /\ Taken(w)' = Taken(w)
  <2>1. w \in DOMAIN queues
    BY <1>1, CoreListens DEF OrderInv
  <2>2. MaxSize[w] = GuiMax
    BY FlowAssumption DEF MaxSize
  <2> QED BY <1>1, <2>1, <2>2, QueueFacts DEF OrderInv, QueueOrder, Taken
<1> HIDE DEF s
<1>4. /\ s.replay \in Seq(Event) /\ s.sent \in Seq(Nat)
      /\ h \in Event /\ h.n \in Nat /\ h = s.replay[1] /\ Len(s.replay) \in Nat \ {0}
      /\ Tail(s.replay) \in Seq(Event) /\ Len(Tail(s.replay)) = Len(s.replay) - 1
      /\ \A i \in 1 .. Len(Tail(s.replay)) : Tail(s.replay)[i] = s.replay[i + 1]
  <2>1. s.replay \in Seq(Event) /\ s.sent \in Seq(Nat)
    BY <1>2 DEF Socket
  <2>2. h \in Event /\ h = s.replay[1] /\ Len(s.replay) \in Nat \ {0}
    BY <1>1, <2>1, HeadTailProperties, EmptySeq
  <2>3. h.n \in Nat
    BY <2>2 DEF Event
  <2> QED BY <1>1, <2>1, <2>2, <2>3, HeadTailProperties
<1>5. x \in Socket /\ x.phase = "open" /\ x.replay = Tail(s.replay) /\ x.sent = Append(s.sent, h.n)
  <2>1. Append(s.sent, h.n) \in Seq(Nat)
    BY <1>4, AppendProperties
  <2> QED BY <1>1, <1>2, <1>4, <2>1 DEF Socket
<1> HIDE DEF x, h
<1>6. /\ h.n <= Taken(w) /\ \A i \in 1 .. Len(s.sent) : s.sent[i] < h.n
      /\ Rising(s.replay) /\ UpTo(s.replay, Taken(w)) /\ SentRising(s.sent)
  BY <1>1, <1>2, <1>4 DEF SocketOrder, UpTo
<1>7. /\ SentRising(x.sent) /\ x.sent \in Seq(Nat)
      /\ \A i \in 1 .. Len(x.sent) : x.sent[i] <= h.n
  BY <1>4, <1>5, <1>6, Sends
<1>8. \A j \in 1 .. Len(x.replay) : /\ j + 1 \in 1 .. Len(s.replay) /\ x.replay[j] = s.replay[j + 1]
                                    /\ h.n < x.replay[j].n /\ x.replay[j].n <= Taken(w)
                                    /\ x.replay[j].n \in Nat
  <2> SUFFICES ASSUME NEW j \in 1 .. Len(x.replay)
               PROVE  /\ j + 1 \in 1 .. Len(s.replay) /\ x.replay[j] = s.replay[j + 1]
                      /\ h.n < x.replay[j].n /\ x.replay[j].n <= Taken(w)
                      /\ x.replay[j].n \in Nat
    OBVIOUS
  <2>1. /\ j + 1 \in 1 .. Len(s.replay) /\ 1 \in 1 .. Len(s.replay) /\ 1 < j + 1
        /\ x.replay[j] = s.replay[j + 1]
    BY <1>4, <1>5
  <2>2. s.replay[1].n < s.replay[j + 1].n /\ s.replay[j + 1].n <= Taken(w)
    BY <1>6, <2>1 DEF Rising, UpTo
  <2>3. s.replay[j + 1].n \in Nat
    BY <1>4, <2>1, EventNumbers
  <2> QED BY <1>4, <2>1, <2>2, <2>3
<1>9. Rising(x.replay)
  <2> SUFFICES ASSUME NEW i \in 1 .. Len(x.replay), NEW j \in 1 .. Len(x.replay), i < j
               PROVE  x.replay[i].n < x.replay[j].n
    BY DEF Rising
  <2>1. i + 1 < j + 1
    OBVIOUS
  <2> QED BY <1>6, <1>8, <2>1 DEF Rising
<1>10. SocketOrder(x, Taken(w)')
  <2>1. \A i \in 1 .. Len(x.sent) : x.sent[i] \in Nat
    BY <1>7, ElementOfSeq
  <2>2. \A i \in 1 .. Len(x.sent) :
           x.sent[i] <= Taken(w) /\ \A j \in 1 .. Len(x.replay) : x.sent[i] < x.replay[j].n
    <3> SUFFICES ASSUME NEW i \in 1 .. Len(x.sent)
                 PROVE  x.sent[i] <= Taken(w) /\ \A j \in 1 .. Len(x.replay) : x.sent[i] < x.replay[j].n
      OBVIOUS
    <3>1. x.sent[i] \in Nat /\ x.sent[i] <= h.n
      BY <1>7, <2>1
    <3>2. x.sent[i] <= Taken(w)
      BY <1>3, <1>4, <1>6, <3>1
    <3>3. ASSUME NEW j \in 1 .. Len(x.replay) PROVE x.sent[i] < x.replay[j].n
      <4>1. h.n < x.replay[j].n /\ x.replay[j].n \in Nat
        BY <1>8
      <4> QED BY <1>4, <3>1, <4>1
    <3> QED BY <3>2, <3>3
  <2>3. UpTo(x.replay, Taken(w))
    BY <1>8 DEF UpTo
  <2> QED BY <1>3, <1>7, <1>9, <2>2, <2>3 DEF SocketOrder
<1>11. DOMAIN queues' = DOMAIN queues \cup {w}
  BY <1>1, <1>3
<1> QED BY <1>1, <1>3, <1>5, <1>10, <1>11, WindowSteps

LEMMA Streamed ==
    ASSUME OrderInv, NEW w \in Windows, Stream(w)
    PROVE  OrderInv'
<1> DEFINE s == socket[w]
           q == queues[w]
           e == Head(q)
           ph == IF e.kind = "SHUTDOWN" THEN "closed" ELSE "open"
           x == [s EXCEPT !.sent = Append(s.sent, e.n), !.phase = ph]
<1>1. /\ s.phase = "open" /\ s.replay = <<>> /\ q # <<>>
      /\ socket' = [socket EXCEPT ![w] = x]
      /\ UNCHANGED <<published, core, recent, sentinel, watch, lost>>
      /\ queues' = IF e.kind = "SHUTDOWN" THEN Unsubscribe(queues, w)
                   ELSE [queues EXCEPT ![w] = Tail(q)]
  BY DEF Stream, StreamAnytime, OrderInv, SocketType, Socket
<1>2. s \in Socket /\ SocketOrder(s, Taken(w))
  BY DEF OrderInv, SocketType, Socket
<1>3. /\ w \in DOMAIN queues /\ q \in Seq(Event) /\ Len(q) <= GuiMax /\ Len(q) \in Nat
      /\ GuiMax \in Nat /\ published \in Nat
      /\ Numbered(q, published) /\ Taken(w) \in Int
  <2>1. w \in DOMAIN queues
    BY <1>1, CoreListens DEF OrderInv
  <2>2. MaxSize[w] = GuiMax
    BY FlowAssumption DEF MaxSize
  <2> QED BY <2>1, <2>2, QueueFacts, FlowAssumption DEF OrderInv, QueueOrder
<1>4. /\ e \in Event /\ Tail(q) \in Seq(Event) /\ Len(Tail(q)) = Len(q) - 1
      /\ e.n = published - Len(Tail(q)) /\ Numbered(Tail(q), published) /\ e.n \in Nat
  BY <1>1, <1>3, TailNumbered DEF Event
<1>5. e.n = Taken(w) + 1
  BY <1>3, <1>4 DEF Taken
<1> HIDE DEF s
<1>6. ph \in {"open", "closed"} /\ (ph = "open" <=> e.kind # "SHUTDOWN")
  OBVIOUS
<1> HIDE DEF e, q, ph
<1>7. x \in Socket /\ x.phase = ph /\ x.replay = <<>> /\ x.sent = Append(s.sent, e.n)
  <2>1. s.sent \in Seq(Nat)
    BY <1>2 DEF Socket
  <2>2. Append(s.sent, e.n) \in Seq(Nat)
    BY <1>4, <2>1, AppendProperties
  <2> QED BY <1>1, <1>2, <1>6, <2>2 DEF Socket
<1> HIDE DEF x
<1>8. /\ DOMAIN queues' = IF ph = "open" THEN DOMAIN queues \cup {w} ELSE DOMAIN queues \ {w}
      /\ \A v \in DOMAIN queues \ {w} : queues'[v] = queues[v]
      /\ ph = "open" => queues'[w] = Tail(q)
  BY <1>1, <1>3, <1>6 DEF Unsubscribe
<1>9. ph = "open" => Taken(w)' = e.n
  BY <1>1, <1>4, <1>8 DEF Taken
<1>10. SocketOrder(x, Taken(w)')
  <2>1. s.sent \in Seq(Nat) /\ SentRising(s.sent) /\ \A i \in 1 .. Len(s.sent) : s.sent[i] <= Taken(w)
    BY <1>1, <1>2 DEF SocketOrder, Socket
  <2>2. \A i \in 1 .. Len(s.sent) : s.sent[i] < e.n
    <3>1. \A i \in 1 .. Len(s.sent) : s.sent[i] \in Nat
      BY <2>1, ElementOfSeq
    <3> QED BY <1>3, <1>5, <2>1, <3>1
  <2>3. /\ SentRising(x.sent) /\ \A i \in 1 .. Len(x.sent) : x.sent[i] <= e.n
    BY <1>4, <1>7, <2>1, <2>2, Sends
  <2>4. Len(x.replay) = 0
    BY <1>7
  <2>5. Rising(x.replay) /\ (x.phase = "open" => UpTo(x.replay, Taken(w)'))
    BY <2>4 DEF Rising, UpTo
  <2> QED BY <1>7, <1>9, <2>3, <2>4, <2>5 DEF SocketOrder
<1>11. ph = "open" => /\ queues'[w] \in Seq(Event) /\ Len(queues'[w]) <= GuiMax
                      /\ Numbered(queues'[w], published)
  <2>1. Len(Tail(q)) <= GuiMax
    BY <1>3, <1>4
  <2> QED BY <1>4, <1>8, <2>1
<1> QED BY <1>1, <1>7, <1>8, <1>10, <1>11, WindowSteps

LEMMA Disconnected ==
    ASSUME OrderInv, NEW w \in Windows, Disconnect(w)
    PROVE  OrderInv'
<1>1. /\ socket' = [socket EXCEPT ![w] = Closed]
      /\ UNCHANGED <<published, core, recent, sentinel, watch, lost>>
      /\ DOMAIN queues' = DOMAIN queues \ {w}
      /\ \A v \in DOMAIN queues \ {w} : queues'[v] = queues[v]
  BY DEF Disconnect, Unsubscribe
<1>2. Closed \in Socket /\ Closed.phase = "closed" /\ SocketOrder(Closed, Taken(w)')
  BY DEF Closed, Socket, SocketOrder, SentRising
<1> QED BY <1>1, <1>2, WindowSteps

LEMMA Unrelated ==
    ASSUME OrderInv, UNCHANGED <<queues, published, recent, watch, socket, lost>>,
           core' \in {core, "waiting"}, core' = "stopped" <=> core = "stopped",
           sentinel' \in BOOLEAN
    PROVE  OrderInv'
BY DEF OrderInv, FlowTypeOK, SocketType, Socket, QueueOrder, RecentOrder, Taken

LEMMA OrderInvariant == FlowSpec => []OrderInv
<1>1. FlowInit => OrderInv
  <2> SUFFICES ASSUME FlowInit PROVE OrderInv
    OBVIOUS
  <2>1. /\ DOMAIN queues = {"core"} /\ queues["core"] = <<>> /\ recent = <<>>
        /\ socket = [w \in Windows |-> Closed] /\ core = "waiting" /\ published = 0
    BY DEF FlowInit
  <2>2. Closed \in Socket /\ Closed.phase = "closed" /\ Closed.replay = <<>> /\ Closed.sent = <<>>
        /\ \A t : SocketOrder(Closed, t)
    BY DEF Closed, Socket, SocketOrder, SentRising
  <2>3. FlowTypeOK
    <3>1. MaxSize["core"] = CoreMax
      BY DEF MaxSize
    <3>2. \A s \in DOMAIN queues : queues[s] \in Seq(Event) /\ Len(queues[s]) <= MaxSize[s]
      <4>1. queues["core"] \in Seq(Event) /\ Len(queues["core"]) = 0
        BY <2>1
      <4>2. MaxSize["core"] \in Nat
        BY <3>1, FlowAssumption
      <4>3. Len(queues["core"]) <= MaxSize["core"]
        BY <4>1, <4>2
      <4> QED BY <2>1, <4>1, <4>3
    <3>3. \A w \in Windows : socket[w].phase = "closed" /\ socket[w].replay = <<>> /\ socket[w].sent = <<>>
      BY <2>1, <2>2
    <3>4. recent \in Seq(Event) /\ Len(recent) <= RingMax /\ published \in 0 .. LastEvent
      BY <2>1, FlowAssumption
    <3>5. {s \in Windows : socket[s].phase = "open"} = {}
      BY <3>3
    <3>6. DOMAIN queues = {s \in Windows : socket[s].phase = "open"}
                            \cup (IF core = "stopped" THEN {} ELSE {"core"})
      BY <2>1, <3>5
    <3>7. \A w \in Windows : socket[w].replay \in Seq(Event) /\ socket[w].sent \in Seq(Nat)
      BY <3>3, EmptySeq
    <3>8. core \in {"waiting", "busy", "stopped"} /\ sentinel \in BOOLEAN /\ watch \in BOOLEAN /\ lost \in BOOLEAN
      BY DEF FlowInit
    <3> QED BY <3>2, <3>4, <3>6, <3>7, <3>8 DEF FlowTypeOK
  <2>4. SocketType /\ \A w \in Windows : SocketOrder(socket[w], Taken(w))
    BY <2>1, <2>2 DEF SocketType, Socket
  <2>5. QueueOrder /\ RecentOrder
    BY <2>1 DEF QueueOrder, RecentOrder, Numbered, Rising, OneApart, UpTo
  <2> QED BY <2>3, <2>4, <2>5 DEF OrderInv
<1>2. OrderInv /\ [FlowNext]_flowVars => OrderInv'
  <2> SUFFICES ASSUME OrderInv, [FlowNext]_flowVars PROVE OrderInv'
    OBVIOUS
  <2>0. sentinel \in BOOLEAN /\ watch \in BOOLEAN
    BY DEF OrderInv, FlowTypeOK
  <2>1. ASSUME NEW kind \in {"work", "note"}, Publisher(kind) PROVE OrderInv'
    BY <2>0, <2>1, Published DEF Publisher
  <2>2. CASE StopFileAppears
    BY <2>2, Unrelated DEF StopFileAppears
  <2>3. CASE StopWatch
    BY <2>0, <2>3, Published DEF StopWatch
  <2>4. CASE PostShutdown
    BY <2>0, <2>4, Published DEF PostShutdown
  <2>5. CASE Dispatch
    BY <2>5, Dispatched
  <2>6. CASE HandlerNotes
    BY <2>0, <2>6, Published DEF HandlerNotes
  <2>7. CASE HandlerReturns
    BY <2>0, <2>7, Unrelated DEF HandlerReturns
  <2>8. ASSUME NEW w \in Windows, Connect(w) \/ Replay(w) \/ Stream(w) \/ Disconnect(w)
        PROVE  OrderInv'
    BY <2>8, Connected, Replayed, Streamed, Disconnected
  <2>9. CASE UNCHANGED flowVars
    BY <2>0, <2>9, Unrelated DEF flowVars
  <2> QED BY <2>1, <2>2, <2>3, <2>4, <2>5, <2>6, <2>7, <2>8, <2>9 DEF FlowNext
<1> QED BY <1>1, <1>2, PTL DEF FlowSpec

----------------------------------------------------------------------------
(* The theorems.                                                           *)

\* Type correctness: no queue is ever longer than its bound, the core is
\* subscribed until it stops and a window while its socket is open.
THEOREM FlowTypes == FlowSpec => []FlowTypeOK
<1>1. OrderInv => FlowTypeOK
  BY DEF OrderInv
<1> QED BY <1>1, OrderInvariant, PTL

\* Whatever the queues have lost and whenever windows come and go, no event
\* reaches the core or a window twice or out of order, and without loss the
\* core's record has no gap.
THEOREM OrderKept == FlowSpec => []InOrder
<1>1. OrderInv => InOrder
  <2> SUFFICES ASSUME OrderInv PROVE InOrder
    OBVIOUS
  <2>1. FlowTypeOK /\ SocketType /\ QueueOrder /\ RecentOrder
        /\ \A w \in Windows : SocketOrder(socket[w], Taken(w))
    BY DEF OrderInv
  <2>2. \A s \in DOMAIN queues : \A i \in DOMAIN queues[s] :
           queues[s][i].n = published - Len(queues[s]) + i
    BY <2>1, QueueFacts, LenProperties DEF QueueOrder, Numbered
  <2>3. \A w \in Windows : \A i, j \in DOMAIN socket[w].sent :
           i < j => socket[w].sent[i] < socket[w].sent[j]
    <3> SUFFICES ASSUME NEW w \in Windows
                 PROVE  DOMAIN socket[w].sent = 1 .. Len(socket[w].sent) /\ SentRising(socket[w].sent)
      BY DEF SentRising
    <3>1. socket[w].sent \in Seq(Nat)
      BY <2>1 DEF SocketType, Socket
    <3> QED BY <2>1, <3>1, LenProperties DEF SocketOrder
  <2>4. DOMAIN recent = 1 .. Len(recent) /\ Rising(recent) /\ (~lost => OneApart(recent))
    BY <2>1, LenProperties DEF FlowTypeOK, RecentOrder
  <2> QED BY <2>2, <2>3, <2>4 DEF InOrder, Rising, OneApart
<1> QED BY <1>1, OrderInvariant, PTL
=============================================================================
