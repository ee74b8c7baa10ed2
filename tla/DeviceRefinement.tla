-------------------------- MODULE DeviceRefinement --------------------------
(***************************************************************************)
(* DeviceSessions implements DeviceLifecycle.  A socket has left when its  *)
(* cleanup has dropped its sessions, not when its loop ended; an attempt   *)
(* becomes a session when it is inserted, not when it was asked for.       *)
(***************************************************************************)
EXTENDS DeviceSessions

AbstractDev == [c \in Conns |-> conn[c].dev]
AbstractOpen == {c \in Conns : Served(c)}

AwaySides(s) ==
    {side \in {"ctl", "host"} : (IF side = "ctl" THEN s.ctlGone ELSE s.hostGone) # NoStamp}

AbstractSession(s) ==
    [state |-> s.state, on |-> [ctl |-> s.ctl, host |-> s.host],
     of |-> [ctl |-> s.ctlDev, host |-> s.hostDev], away |-> AwaySides(s),
     input |-> s.input]

AbstractLive ==
    [id \in SessionIds |-> IF Live(id) THEN AbstractSession(sess[id]) ELSE [state |-> "none"]]

Lifecycle == INSTANCE DeviceLifecycle
    WITH dev <- AbstractDev, open <- AbstractOpen, live <- AbstractLive

\* For all its split handlers the relay does to sessions only what the atomic
\* one does: a closing socket settles each of its sessions and no other's, a side
\* moves only to a socket of its device, parties and input grant never change.
ImplementsLifecycle == Lifecycle!ASpec
=============================================================================
