--------------------------- MODULE DeviceSessions ---------------------------
(***************************************************************************)
(* The server's relay of remote-control sessions between two devices:      *)
(* AppState.device_sessions (state.rs) and the Device* handlers, socket    *)
(* cleanup and reaper of ws.rs.  A session joins a controller's socket to  *)
(* a host's; it is Pending until the host answers, survives one side's     *)
(* socket for a grace window, and is swept when it goes quiet.             *)
(*                                                                         *)
(* Every socket has a task of its own.  A handler that awaits, or that     *)
(* makes two separate accesses to the shared maps, is split there: task[c] *)
(* says where the handler of socket c stands.  Sockets only ever attest as *)
(* the device that opened them, which is all the client does.              *)
(***************************************************************************)
EXTENDS Naturals, FiniteSets

CONSTANTS
    Devices,      \* enrolled devices
    Owner,        \* [Devices -> users]: the account a device belongs to
    Shareable,    \* <<device, user>>: the invites there can be
    ShareCaps,    \* bound: what a share may grant, of "view" and "control"
    MaxConn,      \* bound: how many sockets are ever opened
    MaxPanics,    \* bound: how many socket tasks panic
    SessionIds,   \* ids the controllers draw for their attempts
    MaxSockets,   \* MAX_SESSIONS_PER_USER
    MaxPerUser,   \* MAX_DEVICE_SESSIONS_PER_USER
    MaxPerHost,   \* MAX_SESSIONS_PER_HOST_DEVICE
    PendingTTL, IdleTTL, DetachGrace, ReprieveMax,  \* in reaper periods
    Parallel,     \* TRUE: several worker threads; FALSE: one
    NoStamp       \* Option<Instant>::None

ASSUME DeviceAssumption ==
    /\ IsFiniteSet(Devices) /\ Devices # {} /\ IsFiniteSet(SessionIds)
    /\ DOMAIN Owner = Devices
    /\ \A p \in Shareable : p[1] \in Devices /\ p[2] # Owner[p[1]]
    /\ ShareCaps \subseteq {"view", "control"}
    /\ MaxConn \in Nat /\ MaxPanics \in Nat
    /\ MaxSockets \in Nat \ {0}
    /\ MaxPerUser \in Nat \ {0} /\ MaxPerHost \in Nat \ {0}
    /\ Parallel \in BOOLEAN

ASSUME ClockAssumption ==
    /\ PendingTTL \in Nat \ {0} /\ IdleTTL \in Nat \ {0}
    /\ DetachGrace \in Nat \ {0} /\ ReprieveMax \in Nat \ {0}
    /\ PendingTTL <= IdleTTL /\ DetachGrace <= IdleTTL
    /\ NoStamp \notin Nat

VARIABLES
    conn,     \* per socket: who opened it, how far its task got, is it registered
    task,     \* per socket: the handler under way
    sess,     \* device_sessions
    shares,   \* device_share_invites: what the accepted, signed share grants
    sweeping, \* shares whose withdrawal is committed, sessions not yet ended
    out       \* what the last step sent, and to which socket

vars == <<conn, task, sess, shares, sweeping, out>>

Conns == 1..MaxConn
Users == {Owner[d] : d \in Devices}

Stages == {"none", "arriving", "up", "closing", "dropped", "gone", "ghost"}
\* dev: the device that opens the socket, fixed before the behaviour starts.
Conn == [dev : Devices, stage : Stages, reg : BOOLEAN, attested : BOOLEAN]

Stamp == Nat \cup {NoStamp}
Absent == [state |-> "absent"]
\* Only an active session is ever detached or reprieved.
Ringing ==
    [state : {"pending"},
     ctl : Conns, host : Conns, ctlDev : Devices, hostDev : Devices,
     input : BOOLEAN, touched : Nat,
     ctlGone : {NoStamp}, hostGone : {NoStamp}, reprieved : {NoStamp}]
Answered ==
    [state : {"active"},
     ctl : Conns, host : Conns, ctlDev : Devices, hostDev : Devices,
     input : BOOLEAN, touched : Nat,
     ctlGone : Stamp, hostGone : Stamp, reprieved : Stamp]
Session == Ringing \cup Answered

\* A handler between two steps, with what it carries across the gap.  overtaken is
\* history: another attempt took a slot of the host since this one counted.
Idle == [at |-> "idle"]
Task == {Idle}
        \cup [at : {"asked", "superseded"}, id : SessionIds, host : Devices, input : BOOLEAN]
        \cup [at : {"counted"}, id : SessionIds, host : Devices, input : BOOLEAN, to : Conns,
              overtaken : BOOLEAN]
        \cup [at : {"ending", "declining"}, id : SessionIds, to : Conns]
        \cup [at : {"arriving"}, keep : SUBSET Conns]

Kinds == {"Requested", "Answered", "Relayed", "Ended", "PeerReconnecting",
          "PeerReconnected", "Reattached"}
Msg(c, k, id) == [to |-> c, kind |-> k, id |-> id]

\* Types; a ring nobody has answered carries no detach stamp and is never reprieved:
\* it goes with its first socket or with its time to live.
TypeOK ==
    /\ conn \in [Conns -> Conn]
    /\ task \in [Conns -> Task]
    /\ sess \in [SessionIds -> Session \cup {Absent}]
    /\ shares \in [Shareable -> {"none", "view", "control"}]
    /\ sweeping \in SUBSET Shareable
    /\ out \in SUBSET [to : Conns, kind : Kinds, id : SessionIds]

Init ==
    /\ conn \in [Conns -> [dev : Devices, stage : {"none"}, reg : {FALSE}, attested : {FALSE}]]
    /\ task = [c \in Conns |-> Idle]
    /\ sess = [id \in SessionIds |-> Absent]
    /\ shares = [p \in Shareable |-> "none"]
    /\ sweeping = {}
    /\ out = {}

-----------------------------------------------------------------------------
(* Lookups the handlers make in the two maps.                              *)

Live(id) == sess[id] # Absent
Up(c) == conn[c].stage = "up"

\* The handler is between two accesses with no await in between.
Midway(c) == task[c].at \in {"arriving", "superseded", "counted", "ending", "declining"}

\* With one worker thread such a stretch runs to its end before anything else.
MayRun(c) == Parallel \/ \A k \in Conns \ {c} : ~Midway(k)
Undisturbed == Parallel \/ \A k \in Conns : ~Midway(k)

Free(c) == MayRun(c) /\ Up(c) /\ task[c] = Idle      \* between two frames
At(c, step) == MayRun(c) /\ task[c].at = step        \* inside a handler

Others(s, c) == IF c = s.ctl THEN s.host ELSE s.ctl
Involves(s, c) == c \in {s.ctl, s.host}

\* device_of_conn: only a registered, attested socket speaks for a device.
Speaks(c, d) == conn[c].reg /\ conn[c].attested /\ conn[c].dev = d

\* conn_of_device: the newest socket attested as d.
SocketsOf(d) == {c \in Conns : Speaks(c, d)}
Newest(S) == CHOOSE c \in S : \A k \in S : k <= c

UserOf(c) == Owner[conn[c].dev]

\* count_device_sessions
Mine(u) == {id \in SessionIds : Live(id) /\ u \in {Owner[sess[id].ctlDev], Owner[sess[id].hostDev]}}
OnHost(h) == {id \in SessionIds : Live(id) /\ sess[id].hostDev = h}

\* send_to_conn looks the socket up in its user's entry: an evicted or unregistered
\* one gets nothing.
Sent(msgs) == {m \in msgs : conn[m.to].reg}

\* Faulty: only the controller hears.
ToldController(ids) == Sent({Msg(sess[id].ctl, "Ended", id) : id \in ids})

\* The notices to both recorded sockets of sessions that are being removed.
Told(ids) ==
    Sent(UNION {{Msg(sess[id].ctl, "Ended", id), Msg(sess[id].host, "Ended", id)} : id \in ids})

\* What the host row of DeviceConnect's query grants to user u.
Grant(h, u) ==
    IF Owner[h] = u THEN "control"
    ELSE IF <<h, u>> \in Shareable THEN shares[<<h, u>>] ELSE "none"

-----------------------------------------------------------------------------
(* Sockets: registration with its cap, attestation, and the two-step       *)
(* cleanup after the receive loop.                                         *)

\* register_session_classified allocates the id and, near the cap, notes which
\* of the user's sockets carry a device session; it takes the user's entry only
\* afterwards.
SocketsOfUser(u) == {k \in Conns : conn[k].reg /\ UserOf(k) = u}
Protected(u) ==
    IF Cardinality(SocketsOfUser(u)) + 1 >= MaxSockets
    THEN {k \in Conns : \E id \in SessionIds :
            /\ Live(id)
            /\ \/ sess[id].ctl = k /\ Owner[sess[id].ctlDev] = u
               \/ sess[id].host = k /\ Owner[sess[id].hostDev] = u}
    ELSE {}

Arrive(c) ==
    /\ MayRun(c) /\ conn[c].stage = "none"
    /\ \A k \in Conns : k < c => conn[k].stage # "none"
    /\ conn' = [conn EXCEPT ![c].stage = "arriving"]
    /\ task' = [task EXCEPT ![c] = [at |-> "arriving", keep |-> Protected(UserOf(c))]]
    /\ out' = {}
    /\ UNCHANGED <<sess, shares, sweeping>>

\* At the cap the oldest socket goes that is not protected, or the oldest of all.
Oldest(S) == CHOOSE k \in S : \A j \in S : k <= j
Evicted(regs, keep) ==
    CASE Cardinality(regs) < MaxSockets -> {}
      [] Cardinality(regs) >= MaxSockets /\ regs \ keep # {} -> {Oldest(regs \ keep)}
      [] OTHER -> {Oldest(regs)}

Register(c) ==
    /\ At(c, "arriving")
    /\ LET regs == SocketsOfUser(UserOf(c))
           victims == Evicted(regs, task[c].keep)
       IN conn' = [k \in Conns |->
                     IF k = c THEN [conn[c] EXCEPT !.stage = "up", !.reg = TRUE]
                     ELSE IF k \in victims THEN [conn[k] EXCEPT !.reg = FALSE]
                     ELSE conn[k]]
    /\ task' = [task EXCEPT ![c] = Idle]
    /\ out' = {}
    /\ UNCHANGED <<sess, shares, sweeping>>

\* DeviceAttest, seen from here: attest_device writes the registry entry, if any.
Attest(c) ==
    /\ Free(c) /\ conn[c].reg /\ ~conn[c].attested
    /\ conn' = [conn EXCEPT ![c].attested = TRUE]
    /\ out' = {}
    /\ UNCHANGED <<task, sess, shares, sweeping>>

\* The receive loop breaks between two frames: a close frame, a kill, an idle
\* timeout, a failed send.
Close(c) ==
    /\ Free(c)
    /\ conn' = [conn EXCEPT ![c].stage = "closing"]
    /\ out' = {}
    /\ UNCHANGED <<task, sess, shares, sweeping>>

\* A panic unwinds the task: the cleanup below, plain code after the receive loop,
\* never runs for this socket, and it stays registered.
Ghosts == {k \in Conns : conn[k].stage = "ghost"}

Panic(c) ==
    /\ MayRun(c) /\ Up(c) /\ Cardinality(Ghosts) < MaxPanics
    /\ conn' = [conn EXCEPT ![c].stage = "ghost"]
    /\ task' = [task EXCEPT ![c] = Idle]
    /\ out' = {}
    /\ UNCHANGED <<sess, shares, sweeping>>

\* Faulty: the wrong side is marked; the idle clock keeps running; both sides
\* are marked.
DetachedWrongSide(s, c) ==
    IF c = s.ctl THEN [s EXCEPT !.hostGone = 0, !.touched = 0]
    ELSE [s EXCEPT !.ctlGone = 0, !.touched = 0]
DetachedStillIdle(s, c) ==
    IF c = s.ctl THEN [s EXCEPT !.ctlGone = 0] ELSE [s EXCEPT !.hostGone = 0]
DetachedTwice(s, c) == [s EXCEPT !.ctlGone = 0, !.hostGone = 0, !.touched = 0]

\* drop_device_sessions_for_conn on one session: a pending one dies, an active
\* one is detached on the departing side and its idle clock restarts.
Detached(s, c) ==
    IF c = s.ctl THEN [s EXCEPT !.ctlGone = 0, !.touched = 0]
    ELSE [s EXCEPT !.hostGone = 0, !.touched = 0]

DropSessions(c) ==
    /\ MayRun(c) /\ conn[c].stage = "closing"
    /\ LET mine == {id \in SessionIds : Live(id) /\ Involves(sess[id], c)}
           kept == {id \in mine : sess[id].state = "active"}
       IN /\ sess' = [id \in SessionIds |->
                         IF id \in kept THEN Detached(sess[id], c)
                         ELSE IF id \in mine THEN Absent ELSE sess[id]]
          /\ out' = Sent({Msg(Others(sess[id], c), "PeerReconnecting", id) : id \in kept}
                         \cup {Msg(Others(sess[id], c), "Ended", id) : id \in mine \ kept})
    /\ conn' = [conn EXCEPT ![c].stage = "dropped"]
    /\ UNCHANGED <<task, shares, sweeping>>

\* unregister_session: until here the socket still answers conn_of_device.
Unregister(c) ==
    /\ MayRun(c) /\ conn[c].stage = "dropped"
    /\ conn' = [conn EXCEPT ![c] = [@ EXCEPT !.stage = "gone", !.reg = FALSE, !.attested = FALSE]]
    /\ out' = {}
    /\ UNCHANGED <<task, sess, shares, sweeping>>

-----------------------------------------------------------------------------
(* DeviceConnect.                                                          *)

\* Controllers draw ids at random: an id is not one an attempt still uses.
FreshId(id) == ~Live(id) /\ \A k \in Conns : "id" \in DOMAIN task[k] => task[k].id # id

\* Up to the database answer.  Refused: told, and nothing changes.
ConnectAsk(c, h, id) ==
    /\ Free(c) /\ Speaks(c, conn[c].dev) /\ conn[c].dev # h
    /\ FreshId(id)
    /\ LET grant == Grant(h, UserOf(c))
       IN IF grant = "none"
          THEN /\ out' = Sent({Msg(c, "Ended", id)})
               /\ UNCHANGED task
          ELSE /\ task' = [task EXCEPT ![c] = [at |-> "asked", id |-> id, host |-> h,
                                              input |-> grant = "control"]]
               /\ out' = {}
    /\ UNCHANGED <<conn, sess, shares, sweeping>>

\* supersede_stale_session: this device's own session to this host, when its
\* side is detached or it sits on another socket.
Stale(id, c, h) ==
    /\ Live(id)
    /\ sess[id].ctlDev = conn[c].dev /\ sess[id].hostDev = h
    /\ sess[id].ctlGone # NoStamp \/ sess[id].ctl # c

ConnectSupersede(c) ==
    /\ At(c, "asked")
    /\ LET stale == {id \in SessionIds : Stale(id, c, task[c].host)}
       IN \/ /\ stale = {}
             /\ out' = {}
             /\ UNCHANGED sess
          \/ \E old \in stale :
               /\ sess' = [sess EXCEPT ![old] = Absent]
               /\ out' = Told({old})
    /\ task' = [task EXCEPT ![c].at = "superseded"]
    /\ UNCHANGED <<conn, shares, sweeping>>

\* Faulty: the host's slot is off by one.
RefusedLate(c, h) ==
    \/ SocketsOf(h) = {} \/ Newest(SocketsOf(h)) = c
    \/ Cardinality(Mine(UserOf(c))) >= MaxPerUser
    \/ Owner[h] # UserOf(c) /\ Cardinality(Mine(Owner[h])) >= MaxPerUser
    \/ Cardinality(OnHost(h)) > MaxPerHost

\* conn_of_device and count_device_sessions, with every refusal after them.
Refused(c, h) ==
    \/ SocketsOf(h) = {}
    \/ Newest(SocketsOf(h)) = c
    \/ Cardinality(Mine(UserOf(c))) >= MaxPerUser
    \/ Owner[h] # UserOf(c) /\ Cardinality(Mine(Owner[h])) >= MaxPerUser
    \/ Cardinality(OnHost(h)) >= MaxPerHost

ConnectCount(c) ==
    /\ At(c, "superseded")
    /\ LET t == task[c]
       IN IF Refused(c, t.host)
          THEN /\ task' = [task EXCEPT ![c] = Idle]
               /\ out' = Sent({Msg(c, "Ended", t.id)})
          ELSE /\ task' = [task EXCEPT ![c] =
                    [at |-> "counted", id |-> t.id, host |-> t.host, input |-> t.input,
                     to |-> Newest(SocketsOf(t.host)), overtaken |-> FALSE]]
               /\ out' = {}
    /\ UNCHANGED <<conn, sess, shares, sweeping>>

\* The other attempts at h that have counted and not inserted.
Rivals(c, h) == {k \in Conns \ {c} : task[k].at = "counted" /\ task[k].host = h}

ConnectInsert(c) ==
    /\ At(c, "counted")
    /\ LET t == task[c]
       IN /\ sess' = [sess EXCEPT ![t.id] =
                [state |-> "pending", ctl |-> c, host |-> t.to,
                 ctlDev |-> conn[c].dev, hostDev |-> t.host, input |-> t.input,
                 touched |-> 0, ctlGone |-> NoStamp, hostGone |-> NoStamp,
                 reprieved |-> NoStamp]]
          /\ out' = Sent({Msg(t.to, "Requested", t.id)})
    /\ task' = [k \in Conns |->
                  IF k = c THEN Idle
                  ELSE IF k \in Rivals(c, task[c].host) THEN [task[k] EXCEPT !.overtaken = TRUE]
                  ELSE task[k]]
    /\ UNCHANGED <<conn, shares, sweeping>>

-----------------------------------------------------------------------------
(* The frames of an established session.                                   *)

\* DeviceConnectResponse, accepted: any state becomes active, whoever else left.
Accept(c, id) ==
    /\ Free(c) /\ Live(id) /\ sess[id].host = c
    /\ sess' = [sess EXCEPT ![id].state = "active", ![id].touched = 0]
    /\ out' = Sent({Msg(sess[id].ctl, "Answered", id)})
    /\ UNCHANGED <<conn, task, shares, sweeping>>

\* Refused: the entry is read under its guard and removed by a second lookup.
DeclineRead(c, id) ==
    /\ Free(c) /\ Live(id) /\ sess[id].host = c
    /\ task' = [task EXCEPT ![c] = [at |-> "declining", id |-> id, to |-> sess[id].ctl]]
    /\ out' = {}
    /\ UNCHANGED <<conn, sess, shares, sweeping>>

DeclineRemove(c) ==
    /\ At(c, "declining")
    /\ sess' = [sess EXCEPT ![task[c].id] = Absent]
    /\ out' = Sent({Msg(task[c].to, "Answered", task[c].id)})
    /\ task' = [task EXCEPT ![c] = Idle]
    /\ UNCHANGED <<conn, shares, sweeping>>

\* touch_device_session
Touched(s) == [s EXCEPT !.touched = 0, !.reprieved = NoStamp]

\* DeviceSignal: either recorded socket, in any state.
Signal(c, id) ==
    /\ Free(c) /\ Live(id) /\ Involves(sess[id], c)
    /\ sess' = [sess EXCEPT ![id] = Touched(@)]
    /\ out' = Sent({Msg(Others(sess[id], c), "Relayed", id)})
    /\ UNCHANGED <<conn, task, shares, sweeping>>

\* DeviceInput: the controller's socket, once active, when the grant has control.
Input(c, id) ==
    /\ Free(c) /\ Live(id)
    /\ sess[id].ctl = c /\ sess[id].state = "active" /\ sess[id].input
    /\ sess' = [sess EXCEPT ![id] = Touched(@)]
    /\ out' = Sent({Msg(sess[id].host, "Relayed", id)})
    /\ UNCHANGED <<conn, task, shares, sweeping>>

\* DeviceEnd (end_device_session): the other end is read under the guard, the
\* entry removed after it is released, and the end read is the one told.
EndRead(c, id) ==
    /\ Free(c) /\ Live(id) /\ Involves(sess[id], c)
    /\ task' = [task EXCEPT ![c] = [at |-> "ending", id |-> id, to |-> Others(sess[id], c)]]
    /\ out' = {}
    /\ UNCHANGED <<conn, sess, shares, sweeping>>

EndRemove(c) ==
    /\ At(c, "ending")
    /\ sess' = [sess EXCEPT ![task[c].id] = Absent]
    /\ out' = Sent({Msg(task[c].to, "Ended", task[c].id)})
    /\ task' = [task EXCEPT ![c] = Idle]
    /\ UNCHANGED <<conn, shares, sweeping>>

\* Faulty: any device of the account may take the side.
ClaimsByAccount(c, side) == UserOf(c) = Owner[side]

\* DeviceReattach (reattach_device_session): the side whose device this is moves
\* to this socket, detached or not.
Claims(c, side) == conn[c].dev = side

Reattach(c, id) ==
    /\ Free(c) /\ Speaks(c, conn[c].dev)
    /\ \/ /\ sess[id].state # "active"
          /\ out' = Sent({Msg(c, "Ended", id)})
          /\ UNCHANGED sess
       \/ /\ sess[id].state = "active" /\ Claims(c, sess[id].ctlDev)
          /\ sess' = [sess EXCEPT ![id] =
                        [Touched(@) EXCEPT !.ctl = c, !.ctlGone = NoStamp]]
          /\ out' = Sent({Msg(c, "Reattached", id), Msg(sess[id].host, "PeerReconnected", id)})
       \/ /\ sess[id].state = "active" /\ ~Claims(c, sess[id].ctlDev)
          /\ Claims(c, sess[id].hostDev)
          /\ sess' = [sess EXCEPT ![id] =
                        [Touched(@) EXCEPT !.host = c, !.hostGone = NoStamp]]
          /\ out' = Sent({Msg(c, "Reattached", id), Msg(sess[id].ctl, "PeerReconnected", id)})
    /\ UNCHANGED <<conn, task, shares, sweeping>>

-----------------------------------------------------------------------------
(* Shares: DeviceConnect admits another account under one, and withdrawing  *)
(* it ends the sessions it carries, in a second step.                       *)

\* respond_share and sign_share: an accepted and signed row.
GrantShare(p, caps) ==
    /\ shares[p] = "none"
    /\ shares' = [shares EXCEPT ![p] = caps]
    /\ out' = {}
    /\ UNCHANGED <<conn, task, sess, sweeping>>

\* delete_share, create_share over an old row, revoke_shares_between: the row...
WithdrawShare(p) ==
    /\ shares[p] # "none" /\ p \notin sweeping
    /\ shares' = [shares EXCEPT ![p] = "none"]
    /\ sweeping' = sweeping \cup {p}
    /\ out' = {}
    /\ UNCHANGED <<conn, task, sess>>

\* ... and then end_share_sessions.
UnderShare(id, p) == Live(id) /\ sess[id].hostDev = p[1] /\ Owner[sess[id].ctlDev] = p[2]

EndShareSessions(p) ==
    /\ Undisturbed /\ p \in sweeping
    /\ LET ended == {id \in SessionIds : UnderShare(id, p)}
       IN /\ sess' = [id \in SessionIds |-> IF id \in ended THEN Absent ELSE sess[id]]
          /\ out' = Told(ended)
    /\ sweeping' = sweeping \ {p}
    /\ UNCHANGED <<conn, task, shares>>

-----------------------------------------------------------------------------
(* Time, counted in periods of the reaper, and the reaper.                 *)

Older(stamp, top) == IF stamp = NoStamp \/ stamp = top THEN stamp ELSE stamp + 1
Ttl(s) == IF s.state = "active" THEN IdleTTL ELSE PendingTTL

\* Ages stop counting where no comparison can tell them apart any more.
Tick ==
    /\ sess' = [id \in SessionIds |->
                  IF ~Live(id) THEN Absent
                  ELSE [sess[id] EXCEPT !.touched = Older(@, IdleTTL),
                                        !.ctlGone = Older(@, DetachGrace),
                                        !.hostGone = Older(@, DetachGrace),
                                        !.reprieved = Older(@, ReprieveMax)]]
    /\ out' = {}
    /\ UNCHANGED <<conn, task, shares, sweeping>>

\* Faulty: only once both sides are gone.
DetachExpiredBoth(s) == \A g \in {s.ctlGone, s.hostGone} : g # NoStamp /\ g >= DetachGrace

DetachExpired(s) == \E g \in {s.ctlGone, s.hostGone} \ {NoStamp} : g >= DetachGrace

\* Faulty: an unanswered ring is vouched for too.
VouchedAnyState(s) ==
    /\ s.touched >= Ttl(s)
    /\ s.ctlGone = NoStamp /\ s.hostGone = NoStamp
    /\ conn[s.ctl].reg /\ conn[s.host].reg

\* Idle, but vouched for: both sides attached and both sockets registered.
Vouched(s) ==
    /\ s.touched >= Ttl(s) /\ s.state = "active"
    /\ s.ctlGone = NoStamp /\ s.hostGone = NoStamp
    /\ conn[s.ctl].reg /\ conn[s.host].reg

\* Faulty: every reprieve starts a new streak.
StreakRestarted(s) == 0

\* get_or_insert: the streak starts once and is capped.
Streak(s) == IF s.reprieved = NoStamp THEN 0 ELSE s.reprieved
Spared(s) ==
    IF ~Vouched(s) THEN s
    ELSE IF Streak(s) < ReprieveMax THEN [s EXCEPT !.reprieved = Streak(s), !.touched = 0]
    ELSE [s EXCEPT !.reprieved = Streak(s)]

Expired(s) == DetachExpired(s) \/ Spared(s).touched >= Ttl(s)

Reap ==
    /\ Undisturbed
    /\ LET expired == {id \in SessionIds : Live(id) /\ Expired(sess[id])}
       IN /\ sess' = [id \in SessionIds |->
                        IF id \in expired \/ ~Live(id) THEN Absent ELSE Spared(sess[id])]
          /\ out' = Told(expired)
    /\ UNCHANGED <<conn, task, shares, sweeping>>

-----------------------------------------------------------------------------
\* What socket c's task does next by itself once a handler is under way.
Continue(c) ==
    Register(c) \/ ConnectSupersede(c) \/ ConnectCount(c) \/ ConnectInsert(c)
        \/ DeclineRemove(c) \/ EndRemove(c)

Cleanup(c) == DropSessions(c) \/ Unregister(c)

\* What peers, networks and panics may do to it.
Begin(c) ==
    \/ Arrive(c)
    \/ Attest(c)
    \/ Close(c)
    \/ Panic(c)
    \/ \E h \in Devices, id \in SessionIds : ConnectAsk(c, h, id)
    \/ \E id \in SessionIds : Accept(c, id)
    \/ \E id \in SessionIds : DeclineRead(c, id)
    \/ \E id \in SessionIds : Signal(c, id)
    \/ \E id \in SessionIds : Input(c, id)
    \/ \E id \in SessionIds : EndRead(c, id)
    \/ \E id \in SessionIds : Reattach(c, id)

Next ==
    \/ \E c \in Conns : Begin(c) \/ Continue(c) \/ Cleanup(c)
    \/ \E p \in Shareable, caps \in ShareCaps : GrantShare(p, caps)
    \/ \E p \in Shareable : WithdrawShare(p) \/ EndShareSessions(p)
    \/ Tick
    \/ Reap

\* Timers fire, and a task that is running runs on.
Fairness ==
    /\ WF_vars(Tick) /\ WF_vars(Reap)
    /\ \A c \in Conns : WF_vars(Continue(c) \/ Cleanup(c))
    /\ \A p \in Shareable : WF_vars(EndShareSessions(p))

Spec == Init /\ [][Next]_vars /\ Fairness

-----------------------------------------------------------------------------
(* Properties.                                                             *)

\* The socket's own cleanup is still to come, or (a ghost) never will.
Served(c) == conn[c].stage \in {"up", "closing", "ghost"}

\* A side that counts as attached is on a socket whose cleanup has not run, so
\* its departure will still be noticed; a pending session's controller likewise.
\* A reattach that overtakes the old socket's close must not break this.
AttachedIsServed ==
    \A id \in SessionIds : Live(id) =>
        /\ sess[id].state = "pending" => Served(sess[id].ctl)
        /\ sess[id].state = "active" =>
              /\ sess[id].ctlGone = NoStamp => Served(sess[id].ctl)
              /\ sess[id].hostGone = NoStamp => Served(sess[id].host)

\* Both ends may be devices of one account: what is relayed to a side must still
\* reach the device the session was opened by, or for, whoever reattached since.
RoutedToOwnDevices ==
    \A id \in SessionIds : Live(id) =>
        /\ conn[sess[id].ctl].dev = sess[id].ctlDev
        /\ conn[sess[id].host].dev = sess[id].hostDev
        /\ sess[id].ctlDev # sess[id].hostDev

\* A detached side keeps its window: the reaper does not end an active session
\* while every detached side is still within the grace, however long it had been
\* quiet before.
InGrace(s) ==
    /\ s.state = "active"
    /\ {s.ctlGone, s.hostGone} # {NoStamp}
    /\ \A g \in {s.ctlGone, s.hostGone} \ {NoStamp} : g < DetachGrace

GraceHonoured ==
    [][Reap => \A id \in SessionIds :
         Live(id) /\ InGrace(sess[id]) => sess'[id] # Absent]_vars

\* A detached side comes back or the session ends, whatever the other side sends.
DetachResolves ==
    \A id \in SessionIds :
        LET detached == Live(id) /\ {sess[id].ctlGone, sess[id].hostGone} # {NoStamp}
        IN detached ~> ~detached

\* A session that its ends no longer use is gone in the end, also when both its sockets
\* are ghosts whose cleanup never runs.
Used(id) == \E c \in Conns : Accept(c, id) \/ Signal(c, id) \/ Input(c, id) \/ Reattach(c, id)
QuietSessionsEnd ==
    \A id \in SessionIds : []<>~Live(id) \/ []<><<Used(id)>>_vars

\* The host's cap is only ever overrun by a race: an insert that takes the host past
\* it is of an attempt which another one overtook between its count and its insert.
\* Whatever else happens to the host's sessions meanwhile does not count as one.
SlotHeldUnlessOvertaken ==
    [][\A c \in Conns, h \in Devices :
         ConnectInsert(c) /\ task[c].host = h /\ ~task[c].overtaken =>
            Cardinality(OnHost(h)') <= MaxPerHost]_vars

\* A session never vanishes under a side that still counts on it: each end that the
\* server could reach (on an open, registered socket) is told in that step, unless it
\* asked.  One exception: an end that reattached between the two lookups of the other
\* end's DeviceEnd or refusal, which tells the socket it read and not the new one.
Ending(c, id) == task[c].at \in {"ending", "declining"} /\ task[c].id = id
Removes(k, id) == Ending(k, id) /\ (EndRemove(k) \/ DeclineRemove(k))
EndsTold ==
    [][\A id \in SessionIds : Live(id) /\ sess'[id] = Absent =>
         \A c \in {sess[id].ctl, sess[id].host} :
            \/ ~(Up(c) /\ conn[c].reg) \/ Ending(c, id)
            \/ \E m \in out' : m.to = c /\ m.id = id
            \/ \E k \in Conns : Removes(k, id) /\ c \notin {k, task[k].to}]_vars
=============================================================================
