-------------------------- MODULE DeviceLifecycle --------------------------
(***************************************************************************)
(* What the relay of remote-control sessions promises, without handlers,   *)
(* tasks, clocks or shares: sockets come and leave, and whatever happens   *)
(* to a session happens in one step.  DeviceSessions, whose handlers and   *)
(* cleanups take several, is shown to implement it (DeviceRefinement).     *)
(***************************************************************************)
CONSTANTS
    Devices,      \* enrolled devices
    Conns,        \* sockets
    SessionIds    \* ids of connection attempts

VARIABLES
    dev,      \* the device that opened each socket
    open,     \* the sockets whose departure has not been dealt with
    live      \* the sessions

avars == <<dev, open, live>>

None == [state |-> "none"]
Sides == {"ctl", "host"}

\* A session names its two devices for good; each side is on a socket or away.
Ends == [ctl : Conns, host : Conns]
Parties == [ctl : Devices, host : Devices]
Sessions == [state : {"pending", "active"}, on : Ends, of : Parties,
             away : SUBSET Sides, input : BOOLEAN]

AInit ==
    /\ dev \in [Conns -> Devices]
    /\ open = {}
    /\ live = [id \in SessionIds |-> None]

Open(c) ==
    /\ open' = open \cup {c}
    /\ UNCHANGED <<dev, live>>

\* Every session on the socket is settled at once: a pending one ends, an active
\* one notes the side that left, and no other session is touched.
Left(s, c) ==
    IF c \notin {s.on.ctl, s.on.host} THEN s
    ELSE IF s.state = "pending" THEN None
    ELSE [s EXCEPT !.away = @ \cup {d \in Sides : s.on[d] = c}]

Leave(c) ==
    /\ c \in open
    /\ open' = open \ {c}
    /\ live' = [id \in SessionIds |-> IF live[id] = None THEN None ELSE Left(live[id], c)]
    /\ UNCHANGED dev

\* A new session rings a socket of another device; its input grant is final.
Connect(c, to, id, input) ==
    /\ c \in open /\ live[id] = None /\ dev[c] # dev[to]
    /\ live' = [live EXCEPT ![id] =
          [state |-> "pending", on |-> [ctl |-> c, host |-> to],
           of |-> [ctl |-> dev[c], host |-> dev[to]], away |-> {}, input |-> input]]
    /\ UNCHANGED <<dev, open>>

\* Only the socket that was rung answers.
Answer(id) ==
    /\ live[id] # None /\ live[id].on.host \in open
    /\ live' = [live EXCEPT ![id].state = "active"]
    /\ UNCHANGED <<dev, open>>

\* A side comes back on a socket of its own device, and only on such a one.
Return(c, id, side) ==
    /\ c \in open /\ live[id].state = "active" /\ live[id].of[side] = dev[c]
    /\ live' = [live EXCEPT ![id].on[side] = c, ![id].away = @ \ {side}]
    /\ UNCHANGED <<dev, open>>

\* Hung up, refused, superseded, withdrawn or reaped.
End(ids) ==
    /\ live' = [id \in SessionIds |-> IF id \in ids THEN None ELSE live[id]]
    /\ UNCHANGED <<dev, open>>

ANext ==
    \/ \E c \in Conns : Open(c) \/ Leave(c)
    \/ \E c, to \in Conns, id \in SessionIds, input \in BOOLEAN : Connect(c, to, id, input)
    \/ \E id \in SessionIds : Answer(id)
    \/ \E c \in Conns, id \in SessionIds, side \in Sides : Return(c, id, side)
    \/ \E ids \in SUBSET SessionIds : End(ids)

ASpec == AInit /\ [][ANext]_avars
=============================================================================
