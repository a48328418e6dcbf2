------------------------------ MODULE EventBus ------------------------------
(* navi/bus.py: one bounded queue per subscriber; publish never waits, and *)
(* a full queue loses its oldest event to the newest.                      *)
EXTENDS Sequences, Naturals

Put(queue, maxsize, event) ==
    Append(IF Len(queue) < maxsize THEN queue ELSE Tail(queue), event)

Publish(queues, maxsize, event) ==
    [s \in DOMAIN queues |-> Put(queues[s], maxsize[s], event)]

Subscribe(queues, name) ==
    [s \in DOMAIN queues \cup {name} |-> IF s = name THEN <<>> ELSE queues[s]]
Unsubscribe(queues, name) == [s \in DOMAIN queues \ {name} |-> queues[s]]
=============================================================================
