------------------------ MODULE DeviceSessionsProofs ------------------------
(* Proofs about DeviceSessions, for every set of devices, owners, sockets,  *)
(* session ids and every setting of the clocks.                             *)
EXTENDS DeviceSessions, FiniteSetTheorems, WellFoundedInduction, TLAPS

-----------------------------------------------------------------------------
(* The newest of some sockets is one of them: conn_of_device returns a      *)
(* socket that is attested as the device.                                   *)
LEMMA NewestIn ==
    ASSUME NEW S \in SUBSET Conns, S # {}
    PROVE  Newest(S) \in S
<1> DEFINE T == {MaxConn - k : k \in S}
           Less == {p \in Nat \X Nat : p[1] < p[2]}
<1>1. MaxConn \in Nat BY DeviceAssumption
<1>2. T \in SUBSET Nat /\ T # {}
  <2>1. \A k \in S : MaxConn - k \in Nat BY <1>1 DEF Conns
  <2> QED BY <2>1
<1>3. IsWellFoundedOn(Less, Nat) BY NatLessThanWellFounded DEF OpToRel
<1>4. PICK x \in T : \A y \in T : x <= y
  <2> HIDE DEF T
  <2>1. PICK x \in T : \A y \in T : ~(<<y, x>> \in Less)
    <3> HIDE DEF Less
    <3> QED BY <1>2, <1>3, WFMin
  <2>2. ASSUME NEW y \in T PROVE x <= y
    <3>1. x \in Nat /\ y \in Nat BY <1>2
    <3>2. y < x => <<y, x>> \in Less BY <3>1
    <3> HIDE DEF Less
    <3> QED BY <2>1, <3>1, <3>2
  <2> QED BY <2>2
<1>5. PICK c \in S : x = MaxConn - c OBVIOUS
<1>6. \A k \in S : k <= c BY <1>1, <1>4, <1>5 DEF Conns
<1> QED BY <1>5, <1>6 DEF Newest

-----------------------------------------------------------------------------
(* Types.  Each action keeps them by itself.                                *)

(* What is sent is some of what was meant to be.                             *)
LEMMA SentSome == \A msgs : Sent(msgs) \subseteq msgs
BY DEF Sent

(* A session is one that rings or one that was answered; the state tells.    *)
LEMMA SessionFields ==
    ASSUME NEW s \in Session
    PROVE  /\ s.state \in {"pending", "active"} /\ s # Absent
           /\ s.state = "pending" => s \in Ringing
           /\ s.state = "active" => s \in Answered
           /\ s.ctl \in Conns /\ s.host \in Conns
           /\ s.ctlDev \in Devices /\ s.hostDev \in Devices
           /\ s.input \in BOOLEAN /\ s.touched \in Nat
           /\ s.ctlGone \in Stamp /\ s.hostGone \in Stamp /\ s.reprieved \in Stamp
<1>1. CASE s \in Ringing
  BY <1>1 DEF Ringing, Absent, Stamp
<1>2. CASE s \in Answered
  BY <1>2 DEF Answered, Absent
<1> QED BY <1>1, <1>2 DEF Session

(* Either kind has the same fields.                                          *)
Fields ==
    [state : {"pending", "active"},
     ctl : Conns, host : Conns, ctlDev : Devices, hostDev : Devices,
     input : BOOLEAN, touched : Nat,
     ctlGone : Stamp, hostGone : Stamp, reprieved : Stamp]

LEMMA SessionIsFields == \A s \in Session : s \in Fields
<1>1. \A s \in Ringing : s \in Fields
  BY DEF Ringing, Fields, Stamp
<1>2. \A s \in Answered : s \in Fields
  BY DEF Answered, Fields
<1> QED BY <1>1, <1>2 DEF Session

(* What a handler writes into a session leaves it one.                       *)
LEMMA SessionUpdates ==
    /\ \A s \in Session : /\ [s EXCEPT !.state = "active", !.touched = 0] \in Answered
                          /\ Touched(s) \in Session
                          /\ s.state = "active" => Touched(s) \in Answered
    /\ \A s \in Answered, c \in Conns :
          /\ Detached(s, c) \in Answered
          /\ [s EXCEPT !.ctl = c, !.ctlGone = NoStamp] \in Answered
          /\ [s EXCEPT !.host = c, !.hostGone = NoStamp] \in Answered
<1>1. \A s \in Ringing : /\ [s EXCEPT !.state = "active", !.touched = 0] \in Answered
                        /\ Touched(s) \in Ringing /\ s.state = "pending"
  BY DEF Ringing, Answered, Touched, Stamp
<1>2. \A s \in Answered : /\ [s EXCEPT !.state = "active", !.touched = 0] \in Answered
                         /\ Touched(s) \in Answered
  BY DEF Answered, Touched, Stamp
<1>3. ASSUME NEW s \in Answered, NEW c \in Conns
      PROVE  /\ Detached(s, c) \in Answered
             /\ [s EXCEPT !.ctl = c, !.ctlGone = NoStamp] \in Answered
             /\ [s EXCEPT !.host = c, !.hostGone = NoStamp] \in Answered
  BY DEF Answered, Detached, Stamp
<1> QED BY <1>1, <1>2, <1>3 DEF Session

(* An insert ends its handler and changes the history of the rivals' only.   *)
LEMMA InsertTasks ==
    ASSUME TypeOK, NEW c \in Conns, ConnectInsert(c)
    PROVE  /\ task' \in [Conns -> Task] /\ task'[c] = Idle
           /\ \A k \in Conns \ {c} :
                /\ task'[k].at = task[k].at
                /\ task[k].at = "counted" =>
                      /\ task'[k].host = task[k].host /\ task'[k].to = task[k].to
                      /\ task[k].host = task[c].host => task'[k].overtaken
                /\ ~(task[k].at = "counted" /\ task[k].host = task[c].host)
                      => task'[k] = task[k]
<1> DEFINE Counted == [at : {"counted"}, id : SessionIds, host : Devices, input : BOOLEAN,
                       to : Conns, overtaken : BOOLEAN]
<1>1. \A k \in Conns : task[k] \in Task /\ (task[k].at = "counted" => task[k] \in Counted)
  BY DEF TypeOK, Task, Idle
<1>2. /\ task' = [k \in Conns |-> task'[k]] /\ task'[c] = Idle
      /\ \A k \in Conns \ {c} :
           IF k \in Rivals(c, task[c].host) THEN task'[k] = [task[k] EXCEPT !.overtaken = TRUE]
           ELSE task'[k] = task[k]
  BY DEF ConnectInsert
<1>3. ASSUME NEW k \in Conns \ {c}
      PROVE  /\ task'[k] \in Task /\ task'[k].at = task[k].at
             /\ task[k].at = "counted" =>
                   /\ task'[k].host = task[k].host /\ task'[k].to = task[k].to
                   /\ task[k].host = task[c].host => task'[k].overtaken
             /\ ~(task[k].at = "counted" /\ task[k].host = task[c].host)
                   => task'[k] = task[k]
  <2>1. CASE k \in Rivals(c, task[c].host)
    <3>1. task[k] \in Counted /\ task[k].at = "counted" /\ task[k].host = task[c].host
      BY <1>1, <2>1 DEF Rivals
    <3>2. task'[k] = [task[k] EXCEPT !.overtaken = TRUE]
      BY <1>2, <2>1
    <3>3. task'[k] \in Counted /\ task'[k].host = task[k].host /\ task'[k].to = task[k].to
          /\ task'[k].overtaken
      BY <3>1, <3>2
    <3>4. task'[k] \in Task
      BY <3>3 DEF Task
    <3> QED BY <3>1, <3>3, <3>4
  <2>2. CASE k \notin Rivals(c, task[c].host)
    BY <1>1, <1>2, <2>2 DEF Rivals
  <2> QED BY <2>1, <2>2
<1>4. Idle \in Task
  BY DEF Task
<1>5. task' \in [Conns -> Task]
  BY <1>2, <1>3, <1>4
<1> QED BY <1>2, <1>3, <1>5

(* Notices go to sockets.                                                    *)
LEMMA ToldType ==
    ASSUME TypeOK, NEW ids \in SUBSET {id \in SessionIds : Live(id)}
    PROVE  Told(ids) \in SUBSET [to : Conns, kind : Kinds, id : SessionIds]
<1>1. ASSUME NEW id \in ids
      PROVE  /\ Msg(sess[id].ctl, "Ended", id) \in [to : Conns, kind : Kinds, id : SessionIds]
             /\ Msg(sess[id].host, "Ended", id) \in [to : Conns, kind : Kinds, id : SessionIds]
  <2>1. sess[id] \in Session
    BY DEF TypeOK, Live
  <2>2. sess[id].ctl \in Conns /\ sess[id].host \in Conns
    BY <2>1, SessionFields
  <2> QED BY <2>2 DEF Msg, Kinds
<1>2. UNION {{Msg(sess[id].ctl, "Ended", id), Msg(sess[id].host, "Ended", id)} : id \in ids}
        \subseteq [to : Conns, kind : Kinds, id : SessionIds]
  BY <1>1
<1> QED BY <1>2, SentSome DEF Told

(* The initial state is well typed.                                          *)
LEMMA InitType == Init => TypeOK
BY DEF Init, TypeOK, Conn, Task, Idle, Stages

(* The life of a socket, from its registration to its cleanup.               *)
LEMMA SocketStepType ==
    ASSUME TypeOK, NEW c \in Conns,
           Arrive(c) \/ Register(c) \/ Attest(c) \/ Close(c) \/ Panic(c)
             \/ DropSessions(c) \/ Unregister(c)
    PROVE  TypeOK'
<1>1. CASE Arrive(c)
  BY <1>1, SMTT(30) DEF Arrive, TypeOK, Conn, Task, Stages, Protected
<1>2. CASE Register(c)
  <2>1. conn' \in [Conns -> Conn]
    <3>1. \A k \in Conns : /\ [conn[k] EXCEPT !.stage = "up", !.reg = TRUE] \in Conn
                            /\ [conn[k] EXCEPT !.reg = FALSE] \in Conn
      BY DEF TypeOK, Conn, Stages
    <3> QED BY <1>2, <3>1 DEF Register, TypeOK
  <2> QED BY <1>2, <2>1 DEF Register, TypeOK, Task
<1>3. CASE Attest(c)
  BY <1>3 DEF Attest, TypeOK, Conn
<1>4. CASE Close(c)
  BY <1>4 DEF Close, TypeOK, Conn, Stages
<1>5. CASE Panic(c)
  BY <1>5 DEF Panic, TypeOK, Conn, Stages, Task
<1>6. CASE DropSessions(c)
  <2>1. conn' \in [Conns -> Conn]
    BY <1>6 DEF DropSessions, TypeOK, Conn, Stages
  <2>2. ASSUME NEW id \in SessionIds, Live(id)
        PROVE  /\ sess[id] \in Session /\ Others(sess[id], c) \in Conns
               /\ sess[id].state = "active" => Detached(sess[id], c) \in Session
    <3>1. sess[id] \in Session
      BY <2>2 DEF TypeOK, Live
    <3>2. sess[id].state = "active" => sess[id] \in Answered
      BY <3>1, SessionFields
    <3>3. \A s \in Answered : Detached(s, c) \in Session
      BY SessionUpdates DEF Session
    <3> QED BY <3>1, <3>2, <3>3, SessionFields DEF Others
  <2>3. sess' \in [SessionIds -> Session \cup {Absent}]
    BY <1>6, <2>2 DEF DropSessions, TypeOK
  <2>4. out' \in SUBSET [to : Conns, kind : Kinds, id : SessionIds]
    <3> DEFINE mine == {id \in SessionIds : Live(id) /\ Involves(sess[id], c)}
               kept == {id \in mine : sess[id].state = "active"}
               msgs == {Msg(Others(sess[id], c), "PeerReconnecting", id) : id \in kept}
                         \cup {Msg(Others(sess[id], c), "Ended", id) : id \in mine \ kept}
    <3>1. out' = Sent(msgs)
      BY <1>6 DEF DropSessions
    <3>2. msgs \in SUBSET [to : Conns, kind : Kinds, id : SessionIds]
      BY <2>2 DEF Msg, Kinds
    <3> HIDE DEF msgs
    <3> QED BY <3>1, <3>2, SentSome
  <2> QED BY <1>6, <2>1, <2>3, <2>4 DEF DropSessions, TypeOK
<1>7. CASE Unregister(c)
  BY <1>7 DEF Unregister, TypeOK, Conn, Stages
<1> QED BY <1>1, <1>2, <1>3, <1>4, <1>5, <1>6, <1>7

(* The four steps of DeviceConnect.                                          *)
LEMMA ConnectType ==
    ASSUME TypeOK, NEW c \in Conns,
           \/ \E h \in Devices, id \in SessionIds : ConnectAsk(c, h, id)
           \/ ConnectSupersede(c) \/ ConnectCount(c) \/ ConnectInsert(c)
    PROVE  TypeOK'
<1>1. ASSUME NEW h \in Devices, NEW id \in SessionIds, ConnectAsk(c, h, id)
      PROVE  TypeOK'
  <2>1. \A in \in BOOLEAN : [at |-> "asked", id |-> id, host |-> h, input |-> in] \in Task
    BY DEF Task
  <2>2. task' \in [Conns -> Task]
    BY <1>1, <2>1 DEF ConnectAsk, TypeOK
  <2>3. out' \in SUBSET [to : Conns, kind : Kinds, id : SessionIds]
    BY <1>1, SentSome DEF ConnectAsk, Msg, Kinds
  <2> QED BY <1>1, <2>2, <2>3 DEF ConnectAsk, TypeOK
<1>2. CASE ConnectSupersede(c)
  <2>1. sess' \in [SessionIds -> Session \cup {Absent}]
    BY <1>2 DEF ConnectSupersede, TypeOK
  <2>2. out' \in SUBSET [to : Conns, kind : Kinds, id : SessionIds]
    BY <1>2, ToldType DEF ConnectSupersede, Stale
  <2>3. task' \in [Conns -> Task]
    BY <1>2 DEF ConnectSupersede, At, TypeOK, Task, Idle
  <2> QED BY <1>2, <2>1, <2>2, <2>3 DEF ConnectSupersede, TypeOK
<1>3. CASE ConnectCount(c)
  <2>1. task[c] \in [at : {"superseded"}, id : SessionIds, host : Devices, input : BOOLEAN]
    BY <1>3 DEF ConnectCount, At, TypeOK, Task, Idle
  <2>2. SocketsOf(task[c].host) # {} => Newest(SocketsOf(task[c].host)) \in Conns
    BY NewestIn DEF SocketsOf
  <2>3. task' \in [Conns -> Task]
    <3>1. CASE Refused(c, task[c].host)
      BY <1>3, <3>1 DEF ConnectCount, TypeOK, Task
    <3>2. CASE ~Refused(c, task[c].host)
      <4> DEFINE s == [at |-> "counted", id |-> task[c].id, host |-> task[c].host,
                       input |-> task[c].input, to |-> Newest(SocketsOf(task[c].host)),
                       overtaken |-> FALSE]
      <4>1. Newest(SocketsOf(task[c].host)) \in Conns
        BY <2>2, <3>2 DEF Refused
      <4>2. s \in Task
        BY <2>1, <4>1 DEF Task
      <4>3. task' = [task EXCEPT ![c] = s]
        BY <1>3, <3>2 DEF ConnectCount
      <4> HIDE DEF s
      <4> QED BY <4>2, <4>3 DEF TypeOK
    <3> QED BY <3>1, <3>2
  <2>4. out' \in SUBSET [to : Conns, kind : Kinds, id : SessionIds]
    <3>1. {Msg(c, "Ended", task[c].id)} \in SUBSET [to : Conns, kind : Kinds, id : SessionIds]
      BY <2>1 DEF Msg, Kinds
    <3>2. out' = {} \/ out' = Sent({Msg(c, "Ended", task[c].id)})
      BY <1>3 DEF ConnectCount
    <3> HIDE DEF Msg
    <3> QED BY <3>1, <3>2, SentSome
  <2> QED BY <1>3, <2>3, <2>4 DEF ConnectCount, TypeOK
<1>4. CASE ConnectInsert(c)
  <2>1. task[c] \in [at : {"counted"}, id : SessionIds, host : Devices,
                     input : BOOLEAN, to : Conns, overtaken : BOOLEAN]
    BY <1>4 DEF ConnectInsert, At, TypeOK, Task, Idle
  <2>2. sess' \in [SessionIds -> Session \cup {Absent}]
    <3>1. [state |-> "pending", ctl |-> c, host |-> task[c].to,
           ctlDev |-> conn[c].dev, hostDev |-> task[c].host, input |-> task[c].input,
           touched |-> 0, ctlGone |-> NoStamp, hostGone |-> NoStamp,
           reprieved |-> NoStamp] \in Session
      BY <2>1 DEF TypeOK, Conn, Session, Ringing
    <3> QED BY <1>4, <2>1, <3>1 DEF ConnectInsert, TypeOK
  <2>3. out' \in SUBSET [to : Conns, kind : Kinds, id : SessionIds]
    BY <1>4, <2>1, SentSome DEF ConnectInsert, Msg, Kinds
  <2>4. task' \in [Conns -> Task]
    BY <1>4, InsertTasks
  <2> QED BY <1>4, <2>2, <2>3, <2>4 DEF ConnectInsert, TypeOK
<1> QED BY <1>1, <1>2, <1>3, <1>4

(* The frames of an established session that its handler does in one step.   *)
LEMMA FrameType ==
    ASSUME TypeOK, NEW c \in Conns, NEW id \in SessionIds,
           Accept(c, id) \/ DeclineRead(c, id) \/ Signal(c, id) \/ Input(c, id)
             \/ EndRead(c, id) \/ Reattach(c, id)
    PROVE  TypeOK'
<1>1. \A s \in Session : Touched(s) \in Session
  BY SessionUpdates
<1>2. Live(id) => sess[id] \in Session
  BY DEF Live, TypeOK
<1>3. \A s \in Session : s.ctl \in Conns /\ s.host \in Conns /\ Others(s, c) \in Conns
  BY SessionFields DEF Others
<1>4. CASE Accept(c, id)
  <2>1. sess' \in [SessionIds -> Session \cup {Absent}]
    <3>1. [sess[id] EXCEPT !.state = "active", !.touched = 0] \in Session
      BY <1>2, <1>4, SessionUpdates DEF Accept, Session
    <3>2. sess' = [sess EXCEPT ![id] = [sess[id] EXCEPT !.state = "active", !.touched = 0]]
      BY <1>4 DEF Accept, TypeOK
    <3> QED BY <3>1, <3>2 DEF TypeOK
  <2> QED BY <1>2, <1>3, <1>4, <2>1, SentSome DEF Accept, TypeOK, Msg, Kinds
<1>5. CASE DeclineRead(c, id)
  BY <1>2, <1>3, <1>5, SMTT(30) DEF DeclineRead, TypeOK, Task
<1>6. CASE Signal(c, id)
  BY <1>1, <1>2, <1>3, <1>6, SentSome DEF Signal, TypeOK, Msg, Kinds
<1>7. CASE Input(c, id)
  BY <1>1, <1>2, <1>3, <1>7, SentSome DEF Input, TypeOK, Msg, Kinds
<1>8. CASE EndRead(c, id)
  BY <1>2, <1>3, <1>8, SMTT(30) DEF EndRead, TypeOK, Task
<1>9. CASE Reattach(c, id)
  <2>1. sess[id].state = "active" => sess[id] \in Session
    BY DEF TypeOK, Absent
  <2>2. \A s \in Answered : /\ [s EXCEPT !.ctl = c, !.ctlGone = NoStamp] \in Session
                            /\ [s EXCEPT !.host = c, !.hostGone = NoStamp] \in Session
    BY SessionUpdates DEF Session
  <2>3. sess' \in [SessionIds -> Session \cup {Absent}]
    <3>1. CASE UNCHANGED sess
      BY <3>1 DEF TypeOK
    <3>2. CASE sess[id].state = "active"
      <4>1. Touched(sess[id]) \in Answered
        BY <2>1, <3>2, SessionUpdates
      <4> QED BY <1>9, <2>2, <3>2, <4>1 DEF Reattach, TypeOK
    <3> QED BY <1>9, <3>1, <3>2 DEF Reattach
  <2>4. out' \in SUBSET [to : Conns, kind : Kinds, id : SessionIds]
    BY <1>3, <1>9, <2>1, SentSome DEF Reattach, Msg, Kinds
  <2> QED BY <1>9, <2>3, <2>4 DEF Reattach, TypeOK
<1> QED BY <1>4, <1>5, <1>6, <1>7, <1>8, <1>9

(* The second half of a decline and of an end.                               *)
LEMMA RemoveType ==
    ASSUME TypeOK, NEW c \in Conns, DeclineRemove(c) \/ EndRemove(c)
    PROVE  TypeOK'
<1>1. task[c] \in [at : {"ending", "declining"}, id : SessionIds, to : Conns]
  BY DEF DeclineRemove, EndRemove, At, TypeOK, Task, Idle
<1>2. out' \in SUBSET [to : Conns, kind : Kinds, id : SessionIds]
  BY <1>1, SentSome DEF DeclineRemove, EndRemove, Msg, Kinds
<1> QED BY <1>1, <1>2 DEF DeclineRemove, EndRemove, TypeOK, Task

(* What time and the reaper do to one session.                              *)
LEMMA AgeType ==
    /\ \A s \in Session : [s EXCEPT !.touched = Older(@, IdleTTL),
                                    !.ctlGone = Older(@, DetachGrace),
                                    !.hostGone = Older(@, DetachGrace),
                                    !.reprieved = Older(@, ReprieveMax)] \in Session
    /\ \A s \in Session : Spared(s) \in Session
<1>1. \A g \in Stamp : \A top : Older(g, top) \in Stamp /\ (g \in Nat => Older(g, top) \in Nat)
  BY ClockAssumption DEF Older, Stamp
<1>2. ASSUME NEW s \in Answered
      PROVE  Spared(s) \in Answered
  <2>1. Streak(s) \in Stamp
    BY DEF Streak, Answered, Stamp
  <2>2. \A r \in Stamp : /\ [s EXCEPT !.reprieved = r] \in Answered
                         /\ [s EXCEPT !.reprieved = r, !.touched = 0] \in Answered
    BY DEF Answered
  <2> QED BY <2>1, <2>2 DEF Spared
<1>3. ASSUME NEW s \in Ringing
      PROVE  Spared(s) = s
  BY DEF Spared, Vouched, Ringing
<1>4. ASSUME NEW s \in Answered
      PROVE  [s EXCEPT !.touched = Older(@, IdleTTL), !.ctlGone = Older(@, DetachGrace),
                       !.hostGone = Older(@, DetachGrace),
                       !.reprieved = Older(@, ReprieveMax)] \in Answered
  <2>1. s.touched \in Nat /\ s.ctlGone \in Stamp /\ s.hostGone \in Stamp
        /\ s.reprieved \in Stamp
    BY DEF Answered
  <2>2. /\ Older(s.touched, IdleTTL) \in Nat /\ Older(s.ctlGone, DetachGrace) \in Stamp
        /\ Older(s.hostGone, DetachGrace) \in Stamp
        /\ Older(s.reprieved, ReprieveMax) \in Stamp
    <3>1. Nat \subseteq Stamp
      BY DEF Stamp
    <3> HIDE DEF Stamp
    <3> QED BY <1>1, <2>1, <3>1
  <2> HIDE DEF Older
  <2> QED BY <2>2 DEF Answered
<1>5. ASSUME NEW s \in Ringing
      PROVE  [s EXCEPT !.touched = Older(@, IdleTTL), !.ctlGone = Older(@, DetachGrace),
                       !.hostGone = Older(@, DetachGrace),
                       !.reprieved = Older(@, ReprieveMax)] \in Ringing
  <2>1. s.touched \in Nat /\ s.ctlGone = NoStamp /\ s.hostGone = NoStamp
        /\ s.reprieved = NoStamp
    BY DEF Ringing
  <2>2. /\ Older(s.touched, IdleTTL) \in Nat /\ Older(NoStamp, DetachGrace) = NoStamp
        /\ Older(NoStamp, ReprieveMax) = NoStamp
    BY <1>1, <2>1 DEF Older, Stamp
  <2> HIDE DEF Older
  <2> QED BY <2>1, <2>2 DEF Ringing
<1> QED BY <1>2, <1>3, <1>4, <1>5 DEF Session

(* What no socket does: shares, time, the reaper.                            *)
LEMMA OtherType ==
    ASSUME TypeOK,
           \/ \E p \in Shareable, caps \in ShareCaps : GrantShare(p, caps)
           \/ \E p \in Shareable : WithdrawShare(p) \/ EndShareSessions(p)
           \/ Tick \/ Reap
    PROVE  TypeOK'
<1>1. \A ids \in SUBSET {id \in SessionIds : Live(id)} :
        Told(ids) \in SUBSET [to : Conns, kind : Kinds, id : SessionIds]
  BY ToldType
<1>2. ASSUME NEW p \in Shareable, NEW caps \in ShareCaps, GrantShare(p, caps)
      PROVE  TypeOK'
  BY <1>2, DeviceAssumption DEF GrantShare, TypeOK
<1>3. ASSUME NEW p \in Shareable, WithdrawShare(p)
      PROVE  TypeOK'
  BY <1>3 DEF WithdrawShare, TypeOK
<1>4. ASSUME NEW p \in Shareable, EndShareSessions(p)
      PROVE  TypeOK'
  BY <1>1, <1>4 DEF EndShareSessions, TypeOK, UnderShare
<1>5. CASE Tick
  <2>1. sess' \in [SessionIds -> Session \cup {Absent}]
    BY <1>5, AgeType DEF Tick, TypeOK, Live
  <2> QED BY <1>5, <2>1 DEF Tick, TypeOK
<1>6. CASE Reap
  <2>1. sess' \in [SessionIds -> Session \cup {Absent}]
    BY <1>6, AgeType DEF Reap, TypeOK, Live
  <2> QED BY <1>1, <1>6, <2>1 DEF Reap, TypeOK
<1> QED BY <1>2, <1>3, <1>4, <1>5, <1>6

(* Every step keeps the types.                                              *)
LEMMA StepType == TypeOK /\ [Next]_vars => TypeOK'
<1> SUFFICES ASSUME TypeOK, [Next]_vars PROVE TypeOK' OBVIOUS
<1>1. CASE UNCHANGED vars
  BY <1>1 DEF vars, TypeOK
<1>2. ASSUME NEW c \in Conns, Begin(c) \/ Continue(c) \/ Cleanup(c)
      PROVE  TypeOK'
  BY <1>2, SocketStepType, ConnectType, FrameType, RemoveType
     DEF Begin, Continue, Cleanup
<1> QED BY <1>1, <1>2, OtherType DEF Next

(* Every reachable state is well typed.                                     *)
THEOREM TypeCorrect == Spec => []TypeOK
<1> QED BY InitType, StepType, PTL DEF Spec

-----------------------------------------------------------------------------
(* The inductive invariant.  A handler under way belongs to a socket that is *)
(* up; an attempt past its checks aims at a socket of the host device, and   *)
(* not at the controller's own device; and a detached side has never been    *)
(* gone for less time than its session has been idle.                        *)

Placed ==
    \A c \in Conns :
        /\ task[c].at = "arriving" => conn[c].stage = "arriving"
        /\ task[c].at \notin {"idle", "arriving"} => Up(c)

Aimed ==
    \A c \in Conns :
        /\ task[c].at \in {"asked", "superseded", "counted"} => conn[c].dev # task[c].host
        /\ task[c].at = "counted" => conn[task[c].to].dev = task[c].host

GraceClock ==
    \A id \in SessionIds : Live(id) /\ sess[id].state = "active" =>
        \A g \in {sess[id].ctlGone, sess[id].hostGone} \cap Nat :
            g < DetachGrace => sess[id].touched <= g

IInv == TypeOK /\ Placed /\ Aimed /\ RoutedToOwnDevices /\ AttachedIsServed /\ GraceClock

(* The inductive invariant holds of a server that has just started.          *)
LEMMA InitInv == Init => IInv
<1> SUFFICES ASSUME Init PROVE IInv OBVIOUS
<1>1. TypeOK BY InitType
<1>2. Placed /\ Aimed BY DEF Init, Placed, Aimed, Idle
<1>3. \A id \in SessionIds : ~Live(id) BY DEF Init, Live
<1> QED BY <1>1, <1>2, <1>3 DEF IInv, RoutedToOwnDevices, AttachedIsServed, GraceClock

(* A socket stays its device's, and only the first half of its own cleanup   *)
(* stops it from being served.                                               *)
LEMMA SocketFrame ==
    ASSUME TypeOK, Placed, Next
    PROVE  \A k \in Conns :
              /\ conn'[k].dev = conn[k].dev
              /\ Served(k) /\ ~DropSessions(k) => Served(k)'
<1> USE DEF Served, Up
<1>1. CASE UNCHANGED conn BY <1>1
<1>2. ASSUME NEW c \in Conns, Arrive(c)
      PROVE  \A k \in Conns : conn'[k].dev = conn[k].dev /\ (Served(k) => Served(k)')
  BY <1>2 DEF Arrive, TypeOK, Conn
<1>3. ASSUME NEW c \in Conns, Register(c)
      PROVE  \A k \in Conns : conn'[k].dev = conn[k].dev /\ (Served(k) => Served(k)')
  <2>1. ASSUME NEW k \in Conns
        PROVE  conn'[k].dev = conn[k].dev /\ conn'[k].stage \in {conn[k].stage, "up"}
    <3>1. conn[k] \in Conn BY DEF TypeOK
    <3>2. CASE k = c
      <4>1. conn'[k] = [conn[k] EXCEPT !.stage = "up", !.reg = TRUE]
        BY <1>3, <3>2 DEF Register
      <4> QED BY <3>1, <4>1 DEF Conn
    <3>3. CASE k # c
      <4>1. conn'[k] \in {conn[k], [conn[k] EXCEPT !.reg = FALSE]}
        BY <1>3, <3>3 DEF Register
      <4> QED BY <3>1, <4>1 DEF Conn
    <3> QED BY <3>2, <3>3
  <2> QED BY <2>1
<1>4. ASSUME NEW c \in Conns, Attest(c) \/ Close(c) \/ Panic(c)
      PROVE  \A k \in Conns : conn'[k].dev = conn[k].dev /\ (Served(k) => Served(k)')
  BY <1>4 DEF Attest, Close, Panic, Free, TypeOK, Conn
<1>5. ASSUME NEW c \in Conns, DropSessions(c)
      PROVE  \A k \in Conns : conn'[k].dev = conn[k].dev
                              /\ (Served(k) /\ k # c => Served(k)')
  BY <1>5 DEF DropSessions, TypeOK, Conn
<1>6. ASSUME NEW c \in Conns, Unregister(c)
      PROVE  \A k \in Conns : conn'[k].dev = conn[k].dev /\ (Served(k) => Served(k)')
  <2>1. conn' = [conn EXCEPT ![c] = [@ EXCEPT !.stage = "gone", !.reg = FALSE, !.attested = FALSE]]
        /\ ~Served(c)
    BY <1>6 DEF Unregister
  <2> QED BY <2>1 DEF TypeOK, Conn
<1>7. \/ UNCHANGED conn
      \/ \E c \in Conns : \/ Arrive(c) \/ Register(c) \/ Attest(c) \/ Close(c) \/ Panic(c)
                          \/ DropSessions(c) \/ Unregister(c)
  BY ZenonT(40) DEF Next, Begin, Continue, Cleanup, ConnectAsk, ConnectSupersede, ConnectCount,
         ConnectInsert, Accept, DeclineRead, DeclineRemove, Signal, Input, EndRead,
         EndRemove, Reattach, GrantShare, WithdrawShare, EndShareSessions, Tick, Reap
<1> QED BY <1>1, <1>2, <1>3, <1>4, <1>5, <1>6, <1>7

(* Handlers under way stay on sockets that are up: a socket's loop breaks    *)
(* only between two frames, and a panic takes the handler with it.           *)
LEMMA PlacedStep ==
    ASSUME TypeOK, Placed, Next
    PROVE  Placed'
<1> USE DEF Placed, Up
<1>1. ASSUME NEW c \in Conns, Arrive(c)
      PROVE  Placed'
  BY <1>1 DEF Arrive, TypeOK, Conn, Task
<1>2. ASSUME NEW c \in Conns, Register(c)
      PROVE  Placed'
  <2>1. \A k \in Conns : task'[k].at # "arriving" /\ task'[k].at # "idle" => k # c
    BY <1>2 DEF Register, TypeOK, Idle
  <2>2. \A k \in Conns \ {c} : task'[k] = task[k] /\ conn'[k].stage = conn[k].stage
    <3>1. \A k \in Conns \ {c} : conn'[k] \in {conn[k], [conn[k] EXCEPT !.reg = FALSE]}
      BY <1>2 DEF Register
    <3>2. \A r \in Conn : [r EXCEPT !.reg = FALSE].stage = r.stage BY DEF Conn
    <3> QED BY <1>2, <3>1, <3>2 DEF Register, TypeOK
  <2>3. task'[c] = Idle BY <1>2 DEF Register, TypeOK
  <2> QED BY <2>1, <2>2, <2>3 DEF Idle
<1>3. ASSUME NEW c \in Conns,
             Attest(c) \/ Close(c) \/ Panic(c) \/ DropSessions(c) \/ Unregister(c)
      PROVE  Placed'
  <2>1. \A k \in Conns : task'[k].at \in {"idle", task[k].at}
    BY <1>3 DEF Attest, Close, Panic, DropSessions, Unregister, TypeOK, Idle
  <2>2. \A k \in Conns : conn'[k].stage = conn[k].stage \/ task'[k] = Idle
    BY <1>3 DEF Attest, Close, Panic, DropSessions, Unregister, Free, TypeOK, Conn, Task, Idle
  <2> QED BY <2>1, <2>2 DEF Idle
<1>4. CASE UNCHANGED <<conn, task>>
  BY <1>4
<1>5. ASSUME NEW c \in Conns, NEW id \in SessionIds,
             (\E h \in Devices : ConnectAsk(c, h, id)) \/ DeclineRead(c, id) \/ EndRead(c, id)
      PROVE  Placed'
  BY <1>5 DEF ConnectAsk, DeclineRead, EndRead, Free, TypeOK
<1>6. ASSUME NEW c \in Conns,
             ConnectSupersede(c) \/ ConnectCount(c) \/ ConnectInsert(c)
               \/ DeclineRemove(c) \/ EndRemove(c)
      PROVE  Placed'
  <2>1. CASE ConnectInsert(c)
    <3>1. UNCHANGED conn
      BY <2>1 DEF ConnectInsert
    <3>2. \A k \in Conns : task'[k].at \in {task[k].at, "idle"}
      BY <2>1, InsertTasks DEF Idle
    <3> QED BY <3>1, <3>2
  <2>2. CASE ~ConnectInsert(c)
    BY <1>6, <2>2 DEF ConnectSupersede, ConnectCount, DeclineRemove, EndRemove,
                      At, TypeOK, Idle, Task
  <2> QED BY <2>1, <2>2
<1>7. ASSUME NEW c \in Conns, NEW id \in SessionIds,
             Accept(c, id) \/ Signal(c, id) \/ Input(c, id) \/ Reattach(c, id)
      PROVE  UNCHANGED <<conn, task>>
  BY <1>7 DEF Accept, Signal, Input, Reattach
<1>8. ASSUME \/ \E p \in Shareable, caps \in ShareCaps : GrantShare(p, caps)
             \/ \E p \in Shareable : WithdrawShare(p) \/ EndShareSessions(p)
             \/ Tick \/ Reap
      PROVE  UNCHANGED <<conn, task>>
  BY <1>8 DEF GrantShare, WithdrawShare, EndShareSessions, Tick, Reap
<1> QED BY <1>1, <1>2, <1>3, <1>4, <1>5, <1>6, <1>7, <1>8 DEF Next, Begin, Continue, Cleanup

(* An attempt in progress aims at a socket of the device it asked for.       *)
LEMMA AimedStep ==
    ASSUME TypeOK, Placed, Aimed, Next
    PROVE  Aimed'
<1>1. \A k \in Conns : conn'[k].dev = conn[k].dev BY SocketFrame
<1>2. ASSUME \A k \in Conns : task'[k] \in {task[k], Idle} \/ task'[k].at \in {"arriving", "ending", "declining"}
      PROVE  Aimed'
  <2>1. ASSUME NEW k \in Conns, task'[k].at \in {"asked", "superseded", "counted"}
        PROVE  task'[k] = task[k]
    BY <1>2, <2>1 DEF Idle
  <2>2. ASSUME NEW k \in Conns, task[k].at = "counted"
        PROVE  task[k].to \in Conns
    BY <2>2 DEF TypeOK, Task, Idle
  <2> QED BY <1>1, <2>1, <2>2 DEF Aimed
<1>3. ASSUME NEW c \in Conns, NEW h \in Devices, NEW id \in SessionIds, ConnectAsk(c, h, id)
      PROVE  Aimed'
  BY <1>1, <1>3 DEF ConnectAsk, Aimed, TypeOK
<1>4. ASSUME NEW c \in Conns, ConnectSupersede(c)
      PROVE  Aimed'
  <2>1. task[c] \in [at : {"asked"}, id : SessionIds, host : Devices, input : BOOLEAN]
    BY <1>4 DEF ConnectSupersede, At, TypeOK, Task, Idle
  <2> QED BY <1>1, <1>4, <2>1 DEF ConnectSupersede, Aimed, TypeOK
<1>5. ASSUME NEW c \in Conns, ConnectCount(c)
      PROVE  Aimed'
  <2> DEFINE h == task[c].host
  <2>1. CASE Refused(c, h)
    <3>1. task' = [task EXCEPT ![c] = Idle] BY <1>5, <2>1 DEF ConnectCount
    <3> QED BY <1>2, <3>1 DEF TypeOK
  <2>2. CASE ~Refused(c, h)
    <3>1. Newest(SocketsOf(h)) \in SocketsOf(h)
      BY <2>2, NewestIn DEF Refused, SocketsOf
    <3>2. conn[Newest(SocketsOf(h))].dev = h
      BY <3>1 DEF SocketsOf, Speaks
    <3>3. conn[c].dev # h
      BY <1>5 DEF ConnectCount, At, Aimed
    <3>4. task' = [task EXCEPT ![c] = [at |-> "counted", id |-> task[c].id, host |-> h,
                          input |-> task[c].input, to |-> Newest(SocketsOf(h)),
                          overtaken |-> FALSE]]
      BY <1>5, <2>2 DEF ConnectCount
    <3>5. Newest(SocketsOf(h)) \in Conns BY <3>1 DEF SocketsOf
    <3>6. \A k \in Conns : task[k].at = "counted" => task[k].to \in Conns
      BY DEF TypeOK, Task, Idle
    <3> QED BY <1>1, <3>2, <3>3, <3>4, <3>5, <3>6 DEF Aimed, TypeOK
  <2> QED BY <2>1, <2>2
<1>6. ASSUME NEW c \in Conns, DeclineRemove(c) \/ EndRemove(c)
                                \/ Register(c) \/ Arrive(c) \/ Panic(c)
      PROVE  Aimed'
  BY <1>2, <1>6 DEF DeclineRemove, EndRemove, Register, Arrive, Panic, TypeOK
<1>9. ASSUME NEW c \in Conns, ConnectInsert(c)
      PROVE  Aimed'
  <2>1. ASSUME NEW k \in Conns, task'[k].at \in {"asked", "superseded", "counted"}
        PROVE  /\ task'[k].at = task[k].at /\ task'[k].host = task[k].host
               /\ task[k].at = "counted" => task'[k].to = task[k].to /\ task[k].to \in Conns
    <3>1. k # c
      BY <1>9, <2>1, InsertTasks DEF Idle
    <3>2. task[k].at = "counted" => task[k].to \in Conns
      BY DEF TypeOK, Task, Idle
    <3> QED BY <1>9, <3>1, <3>2, InsertTasks
  <2> QED BY <1>1, <2>1 DEF Aimed
<1>7. ASSUME NEW c \in Conns, NEW id \in SessionIds, DeclineRead(c, id) \/ EndRead(c, id)
      PROVE  Aimed'
  BY <1>2, <1>7 DEF DeclineRead, EndRead, TypeOK
<1>8. CASE UNCHANGED task
  BY <1>2, <1>8
<1> QED
  BY <1>3, <1>4, <1>5, <1>6, <1>7, <1>8, <1>9
     DEF Next, Begin, Continue, Cleanup, Attest, Close, DropSessions, Unregister, Accept,
         Signal, Input, Reattach, GrantShare, WithdrawShare, EndShareSessions, Tick, Reap

(* The three session invariants, one session at a time.                      *)
Sound(id) ==
    Live(id) =>
        /\ conn[sess[id].ctl].dev = sess[id].ctlDev
        /\ conn[sess[id].host].dev = sess[id].hostDev
        /\ sess[id].ctlDev # sess[id].hostDev
        /\ sess[id].state = "pending" => Served(sess[id].ctl)
        /\ sess[id].state = "active" =>
              /\ sess[id].ctlGone = NoStamp => Served(sess[id].ctl)
              /\ sess[id].hostGone = NoStamp => Served(sess[id].host)
              /\ \A g \in {sess[id].ctlGone, sess[id].hostGone} \cap Nat :
                    g < DetachGrace => sess[id].touched <= g

(* Three conjuncts of the invariant speak of one session at a time.          *)
LEMMA SoundIff ==
    RoutedToOwnDevices /\ AttachedIsServed /\ GraceClock <=> \A id \in SessionIds : Sound(id)
BY DEF RoutedToOwnDevices, AttachedIsServed, GraceClock, Sound

(* Away from socket cleanup, a session that is left alone stays sound.       *)
LEMMA LeftAlone ==
    ASSUME TypeOK, Placed, Next, \A c \in Conns : ~DropSessions(c),
           NEW id \in SessionIds, Sound(id), sess'[id] \in {sess[id], Absent}
    PROVE  Sound(id)'
<1>1. CASE sess'[id] = Absent BY <1>1 DEF Sound, Live
<1>2. CASE sess'[id] = sess[id] /\ Live(id)
  <2>1. sess[id].ctl \in Conns /\ sess[id].host \in Conns
    BY <1>2, SessionIsFields DEF TypeOK, Live, Fields
  <2>2. /\ conn'[sess[id].ctl].dev = conn[sess[id].ctl].dev
        /\ conn'[sess[id].host].dev = conn[sess[id].host].dev
        /\ Served(sess[id].ctl) => conn'[sess[id].ctl].stage \in {"up", "closing", "ghost"}
        /\ Served(sess[id].host) => conn'[sess[id].host].stage \in {"up", "closing", "ghost"}
    BY <2>1, SocketFrame DEF Served
  <2> QED BY <1>2, <2>2 DEF Sound, Live, Served
<1> QED BY <1>1, <1>2 DEF Sound, Live

(* The first half of a socket's cleanup: each of its sessions dies or is     *)
(* marked on the side that left, its two sides being different sockets.      *)
LEMMA DropSound ==
    ASSUME TypeOK, Placed, Next, NEW c \in Conns, DropSessions(c),
           NEW id \in SessionIds, Sound(id)
    PROVE  Sound(id)'
<1>1. \A k \in Conns : conn'[k].dev = conn[k].dev
  BY SocketFrame
<1>2. \A k \in Conns \ {c} : conn'[k] = conn[k]
  BY DEF DropSessions, TypeOK
<1>3. CASE ~Live(id) \/ sess'[id] = Absent
  BY <1>3 DEF DropSessions, Sound, Live
<1>4. CASE Live(id) /\ ~Involves(sess[id], c)
  <2>1. sess'[id] = sess[id] BY <1>4 DEF DropSessions
  <2>2. sess[id] \in Session BY <1>4 DEF TypeOK, Live
  <2>3. sess[id].ctl \in Conns \ {c} /\ sess[id].host \in Conns \ {c}
    BY <1>4, <2>2, SessionIsFields DEF Fields, Involves
  <2> QED BY <1>2, <1>4, <2>1, <2>3 DEF Sound, Live, Served
<1>5. CASE Live(id) /\ Involves(sess[id], c) /\ sess'[id] # Absent
  <2>1. sess[id] \in Session /\ sess[id].state = "active" /\ sess'[id] = Detached(sess[id], c)
    BY <1>5 DEF DropSessions, TypeOK, Live
  <2>2. sess[id].ctl \in Conns /\ sess[id].host \in Conns /\ sess[id].ctl # sess[id].host
    BY <1>5, <2>1, SessionIsFields DEF Sound, Fields
  <2>3. 0 # NoStamp BY ClockAssumption
  <2>4. CASE c = sess[id].ctl
    <3>1. sess'[id] = [sess[id] EXCEPT !.ctlGone = 0, !.touched = 0]
      BY <2>1, <2>4 DEF Detached
    <3>2. /\ sess'[id].ctl = sess[id].ctl /\ sess'[id].host = sess[id].host
          /\ sess'[id].ctlDev = sess[id].ctlDev /\ sess'[id].hostDev = sess[id].hostDev
          /\ sess'[id].ctlGone = 0 /\ sess'[id].hostGone = sess[id].hostGone
          /\ sess'[id].touched = 0 /\ sess'[id].state = "active"
      BY <2>1, <3>1, SessionIsFields DEF Fields
    <3>3. \A g \in {sess'[id].ctlGone, sess'[id].hostGone} \cap Nat : sess'[id].touched <= g
      BY <3>2
    <3>4. sess[id].hostGone = NoStamp => conn'[sess[id].host].stage \in {"up", "closing", "ghost"}
      BY <1>2, <1>5, <2>1, <2>2, <2>4 DEF Sound, Served
    <3> QED BY <1>1, <1>5, <2>2, <2>3, <3>2, <3>3, <3>4 DEF Sound, Live, Served
  <2>5. CASE c # sess[id].ctl
    <3>1. sess'[id] = [sess[id] EXCEPT !.hostGone = 0, !.touched = 0] /\ c = sess[id].host
      BY <1>5, <2>1, <2>5 DEF Detached, Involves
    <3>2. /\ sess'[id].ctl = sess[id].ctl /\ sess'[id].host = sess[id].host
          /\ sess'[id].ctlDev = sess[id].ctlDev /\ sess'[id].hostDev = sess[id].hostDev
          /\ sess'[id].hostGone = 0 /\ sess'[id].ctlGone = sess[id].ctlGone
          /\ sess'[id].touched = 0 /\ sess'[id].state = "active"
      BY <2>1, <3>1, SessionIsFields DEF Fields
    <3> QED BY <1>1, <1>2, <1>5, <2>2, <2>3, <2>5, <3>1, <3>2 DEF Sound, Live, Served
  <2> QED BY <2>4, <2>5
<1> QED BY <1>3, <1>4, <1>5

(* Frames: the session they touch keeps its clock at zero, a socket they     *)
(* install is up and belongs to the device of that side.                     *)
LEMMA FrameSound ==
    ASSUME TypeOK, Placed, Aimed, Next, NEW c \in Conns, NEW id \in SessionIds,
           Accept(c, id) \/ Signal(c, id) \/ Input(c, id) \/ Reattach(c, id),
           Sound(id)
    PROVE  Sound(id)'
<1>1. conn' = conn /\ Up(c)
  BY DEF Accept, Signal, Input, Reattach, Free
<1>2. CASE sess'[id] = sess[id]
  BY <1>1, <1>2 DEF Sound, Live, Served
<1>3. CASE Accept(c, id)
  <2>1. sess[id] \in Session /\ Live(id) BY <1>3 DEF Accept, TypeOK, Live
  <2>2. sess[id].host = c BY <1>3 DEF Accept
  <2>3. sess'[id] = [sess[id] EXCEPT !.state = "active", !.touched = 0]
    BY <1>3 DEF Accept, TypeOK
  <2>4. /\ sess'[id].ctl = sess[id].ctl /\ sess'[id].host = sess[id].host
        /\ sess'[id].ctlDev = sess[id].ctlDev /\ sess'[id].hostDev = sess[id].hostDev
        /\ sess'[id].ctlGone = sess[id].ctlGone /\ sess'[id].hostGone = sess[id].hostGone
        /\ sess'[id].touched = 0 /\ sess'[id].state = "active"
        /\ sess[id].state \in {"pending", "active"}
    BY <2>1, <2>3, SessionIsFields DEF Fields
  <2>5. \A g \in {sess'[id].ctlGone, sess'[id].hostGone} \cap Nat : sess'[id].touched <= g
    BY <2>4
  <2>6. sess[id].ctlGone = NoStamp => Served(sess[id].ctl)
    BY <2>1, <2>4 DEF Sound
  <2> QED BY <1>1, <2>1, <2>2, <2>4, <2>5, <2>6 DEF Sound, Live, Served, Up
<1>4. CASE Signal(c, id) \/ Input(c, id)
  <2>1. sess[id] \in Session /\ Live(id) BY <1>4 DEF Signal, Input, TypeOK, Live
  <2>2. sess'[id] = [sess[id] EXCEPT !.touched = 0, !.reprieved = NoStamp]
    BY <1>4 DEF Signal, Input, Touched, TypeOK
  <2>3. /\ sess'[id].ctl = sess[id].ctl /\ sess'[id].host = sess[id].host
        /\ sess'[id].ctlDev = sess[id].ctlDev /\ sess'[id].hostDev = sess[id].hostDev
        /\ sess'[id].ctlGone = sess[id].ctlGone /\ sess'[id].hostGone = sess[id].hostGone
        /\ sess'[id].touched = 0 /\ sess'[id].state = sess[id].state
    BY <2>1, <2>2, SessionIsFields DEF Fields
  <2> QED BY <1>1, <2>1, <2>3 DEF Sound, Live, Served
<1>5. CASE Reattach(c, id) /\ sess'[id] # sess[id]
  <2>1. sess[id].state = "active" BY <1>5 DEF Reattach
  <2>2. sess[id] \in Session /\ Live(id) BY <2>1 DEF TypeOK, Live, Absent
  <2>3. Touched(sess[id]) \in Fields /\ Touched(sess[id]).touched = 0
    BY <2>2, SessionIsFields DEF Touched, Fields, Stamp
  <2>4. CASE Claims(c, sess[id].ctlDev)
    <3>1. sess'[id] = [Touched(sess[id]) EXCEPT !.ctl = c, !.ctlGone = NoStamp]
      BY <1>5, <2>4 DEF Reattach, TypeOK
    <3>2. /\ sess'[id].ctl = c /\ sess'[id].host = sess[id].host
          /\ sess'[id].ctlDev = sess[id].ctlDev /\ sess'[id].hostDev = sess[id].hostDev
          /\ sess'[id].ctlGone = NoStamp /\ sess'[id].hostGone = sess[id].hostGone
          /\ sess'[id].touched = 0 /\ sess'[id].state = sess[id].state
      BY <2>2, <3>1, SessionIsFields DEF Fields, Touched
    <3> QED BY <1>1, <2>1, <2>2, <2>4, <3>2 DEF Sound, Live, Served, Up, Claims
  <2>5. CASE ~Claims(c, sess[id].ctlDev)
    <3>1. /\ Claims(c, sess[id].hostDev)
          /\ sess'[id] = [Touched(sess[id]) EXCEPT !.host = c, !.hostGone = NoStamp]
      BY <1>5, <2>5 DEF Reattach, TypeOK
    <3>2. /\ sess'[id].host = c /\ sess'[id].ctl = sess[id].ctl
          /\ sess'[id].ctlDev = sess[id].ctlDev /\ sess'[id].hostDev = sess[id].hostDev
          /\ sess'[id].hostGone = NoStamp /\ sess'[id].ctlGone = sess[id].ctlGone
          /\ sess'[id].touched = 0 /\ sess'[id].state = sess[id].state
      BY <2>2, <3>1, SessionIsFields DEF Fields, Touched
    <3> QED BY <1>1, <2>1, <2>2, <3>1, <3>2 DEF Sound, Live, Served, Up, Claims
  <2> QED BY <2>4, <2>5
<1> QED BY <1>2, <1>3, <1>4, <1>5

(* A new session is on the socket that asked and on one of the host device.  *)
LEMMA InsertSound ==
    ASSUME TypeOK, Placed, Aimed, NEW c \in Conns, ConnectInsert(c),
           NEW id, id = task[c].id
    PROVE  Sound(id)'
<1>1. task[c] \in [at : {"counted"}, id : SessionIds, host : Devices,
                   input : BOOLEAN, to : Conns, overtaken : BOOLEAN]
  BY DEF ConnectInsert, At, TypeOK, Task, Idle
<1>2. Up(c) /\ conn[c].dev # task[c].host /\ conn[task[c].to].dev = task[c].host
  BY <1>1 DEF Placed, Aimed
<1>3. conn' = conn /\ sess'[id] =
        [state |-> "pending", ctl |-> c, host |-> task[c].to,
         ctlDev |-> conn[c].dev, hostDev |-> task[c].host, input |-> task[c].input,
         touched |-> 0, ctlGone |-> NoStamp, hostGone |-> NoStamp, reprieved |-> NoStamp]
  BY <1>1 DEF ConnectInsert, TypeOK
<1> QED BY <1>2, <1>3 DEF Sound, Live, Served, Up

(* Time passes for the idle clock and the detach clocks together, and the    *)
(* reaper only ever restarts the idle clock.                                 *)
LEMMA TimeSound ==
    ASSUME TypeOK, NEW id \in SessionIds, Sound(id), Tick \/ Reap
    PROVE  Sound(id)'
<1>1. conn' = conn BY DEF Tick, Reap
<1>2. CASE sess'[id] = Absent BY <1>2 DEF Sound, Live
<1>3. CASE sess'[id] # Absent /\ Tick
  <2>1. Live(id) /\ sess[id] \in Session BY <1>3 DEF Tick, TypeOK, Live
  <2>2. sess'[id] = [sess[id] EXCEPT !.touched = Older(@, IdleTTL),
                                     !.ctlGone = Older(@, DetachGrace),
                                     !.hostGone = Older(@, DetachGrace),
                                     !.reprieved = Older(@, ReprieveMax)]
    BY <1>3, <2>1 DEF Tick
  <2>3. /\ sess'[id].ctl = sess[id].ctl /\ sess'[id].host = sess[id].host
        /\ sess'[id].ctlDev = sess[id].ctlDev /\ sess'[id].hostDev = sess[id].hostDev
        /\ sess'[id].ctlGone = Older(sess[id].ctlGone, DetachGrace)
        /\ sess'[id].hostGone = Older(sess[id].hostGone, DetachGrace)
        /\ sess'[id].touched = Older(sess[id].touched, IdleTTL)
        /\ sess'[id].state = sess[id].state
    BY <2>1, <2>2, SessionIsFields DEF Fields
  <2>4. /\ sess[id].touched \in Nat
        /\ sess[id].ctlGone \in Stamp /\ sess[id].hostGone \in Stamp
    BY <2>1, SessionIsFields DEF Fields
  <2>5. ASSUME NEW g \in Stamp, NEW t \in Nat,
               g \in Nat /\ g < DetachGrace => t <= g
        PROVE  /\ Older(g, DetachGrace) = NoStamp => g = NoStamp
               /\ Older(g, DetachGrace) \in Nat /\ Older(g, DetachGrace) < DetachGrace
                    => Older(t, IdleTTL) <= Older(g, DetachGrace)
    BY <2>5, ClockAssumption DEF Older, Stamp
  <2>6. sess[id].state = "active" =>
          /\ sess'[id].ctlGone = NoStamp => sess[id].ctlGone = NoStamp
          /\ sess'[id].hostGone = NoStamp => sess[id].hostGone = NoStamp
          /\ \A g \in {sess'[id].ctlGone, sess'[id].hostGone} \cap Nat :
                g < DetachGrace => sess'[id].touched <= g
    BY <2>1, <2>3, <2>4, <2>5 DEF Sound
  <2> QED BY <1>1, <2>1, <2>3, <2>6 DEF Sound, Live, Served
<1>4. CASE sess'[id] # Absent /\ Reap
  <2>1. Live(id) /\ sess[id] \in Session /\ sess'[id] = Spared(sess[id])
    BY <1>4 DEF Reap, TypeOK, Live
  <2>2. /\ sess'[id].ctl = sess[id].ctl /\ sess'[id].host = sess[id].host
        /\ sess'[id].ctlDev = sess[id].ctlDev /\ sess'[id].hostDev = sess[id].hostDev
        /\ sess'[id].ctlGone = sess[id].ctlGone /\ sess'[id].hostGone = sess[id].hostGone
        /\ sess'[id].touched \in {0, sess[id].touched}
        /\ sess'[id].state = sess[id].state
    BY <2>1, SessionIsFields DEF Spared, Fields
  <2> QED BY <1>1, <2>1, <2>2 DEF Sound, Live, Served
<1> QED BY <1>2, <1>3, <1>4

(* Every step keeps every session sound.                                     *)
LEMMA SoundStep ==
    ASSUME IInv, Next, NEW id \in SessionIds
    PROVE  Sound(id)'
<1>0. TypeOK /\ Placed /\ Aimed /\ Sound(id)
  BY SoundIff DEF IInv
<1>1. CASE \E c \in Conns : DropSessions(c)
  BY <1>0, <1>1, DropSound
<1>2. CASE (\A c \in Conns : ~DropSessions(c)) /\ sess'[id] \in {sess[id], Absent}
  BY <1>0, <1>2, LeftAlone
<1>3. CASE \E c \in Conns : Accept(c, id) \/ Signal(c, id) \/ Input(c, id) \/ Reattach(c, id)
  BY <1>0, <1>3, FrameSound
<1>4. CASE \E c \in Conns : ConnectInsert(c) /\ task[c].id = id
  BY <1>0, <1>4, InsertSound
<1>5. CASE Tick \/ Reap
  BY <1>0, <1>5, TimeSound
<1>6. \/ \E c \in Conns : DropSessions(c)
      \/ sess'[id] \in {sess[id], Absent}
      \/ \E c \in Conns : Accept(c, id) \/ Signal(c, id) \/ Input(c, id) \/ Reattach(c, id)
      \/ \E c \in Conns : ConnectInsert(c) /\ task[c].id = id
      \/ Tick \/ Reap
  <2>1. sess \in [SessionIds -> Session \cup {Absent}] BY <1>0 DEF TypeOK
  <2>2. ASSUME NEW c \in Conns, NEW k \in SessionIds,
               Accept(c, k) \/ Signal(c, k) \/ Input(c, k) \/ Reattach(c, k), k # id
        PROVE  sess'[id] = sess[id]
    BY <2>1, <2>2 DEF Accept, Signal, Input, Reattach
  <2>3. ASSUME NEW c \in Conns, ConnectInsert(c), task[c].id # id
        PROVE  sess'[id] = sess[id]
    BY <2>1, <2>3 DEF ConnectInsert
  <2>4. ASSUME NEW c \in Conns, ConnectSupersede(c) \/ DeclineRemove(c) \/ EndRemove(c)
        PROVE  sess'[id] \in {sess[id], Absent}
    BY <2>1, <2>4 DEF ConnectSupersede, DeclineRemove, EndRemove
  <2>5. ASSUME NEW p \in Shareable, EndShareSessions(p)
        PROVE  sess'[id] \in {sess[id], Absent}
    BY <2>1, <2>5 DEF EndShareSessions
  <2> QED
    BY <2>2, <2>3, <2>4, <2>5
       DEF Next, Begin, Continue, Cleanup, Arrive, Register, Attest, Close, Panic, Unregister,
           ConnectAsk, ConnectCount, DeclineRead, EndRead, GrantShare, WithdrawShare
<1> QED BY <1>1, <1>2, <1>3, <1>4, <1>5, <1>6

(* The invariant is inductive.                                              *)
LEMMA StepInv == IInv /\ [Next]_vars => IInv'
<1> SUFFICES ASSUME IInv, [Next]_vars PROVE IInv' OBVIOUS
<1>1. CASE UNCHANGED vars
  BY <1>1 DEF vars, IInv, TypeOK, Placed, Up, Aimed, RoutedToOwnDevices, AttachedIsServed,
              Served, GraceClock, Live
<1>2. CASE Next
  <2>1. TypeOK' /\ Placed' /\ Aimed'
    BY <1>2, StepType, PlacedStep, AimedStep DEF IInv
  <2>2. RoutedToOwnDevices' /\ AttachedIsServed' /\ GraceClock'
    <3>1. \A id \in SessionIds : Sound(id)' BY <1>2, SoundStep
    <3> QED BY <3>1 DEF RoutedToOwnDevices, AttachedIsServed, GraceClock, Sound, Live
  <2> QED BY <2>1, <2>2 DEF IInv
<1> QED BY <1>1, <1>2

(* Every reachable state satisfies the inductive invariant, from which the   *)
(* properties below follow: handlers sit on open sockets, attempts aim at    *)
(* the device they asked for, sessions are sound.                            *)
THEOREM Invariance == Spec => []IInv
<1> QED BY InitInv, StepInv, PTL DEF Spec

(* No relayed frame ever reaches a socket of another device than the one the *)
(* session was opened by, or for.                                            *)
THEOREM Routing == Spec => []RoutedToOwnDevices
<1>1. IInv => RoutedToOwnDevices BY DEF IInv
<1> QED BY <1>1, Invariance, PTL

(* Whoever counts as attached is on a socket whose departure will be noticed *)
(* (or, a ghost's, is left to the reaper).                                   *)
THEOREM Attachment == Spec => []AttachedIsServed
<1>1. IInv => AttachedIsServed BY DEF IInv
<1> QED BY <1>1, Invariance, PTL

(* The reaper honours the grace of a detached side.                          *)
THEOREM Grace == Spec => GraceHonoured
<1>1. IInv /\ [Next]_vars =>
        [Reap => \A id \in SessionIds :
            Live(id) /\ InGrace(sess[id]) => sess'[id] # Absent]_vars
  <2> SUFFICES ASSUME IInv, Reap, NEW id \in SessionIds, Live(id), InGrace(sess[id])
               PROVE  sess'[id] # Absent
    OBVIOUS
  <2> DEFINE s == sess[id]
  <2>1. s \in Session BY DEF IInv, TypeOK, Live
  <2>2. s.touched < IdleTTL
    <3>1. PICK g \in {s.ctlGone, s.hostGone} : g # NoStamp /\ g < DetachGrace
      BY DEF InGrace
    <3>2. g \in Nat /\ s.touched \in Nat BY <2>1, <3>1, SessionIsFields DEF Fields, Stamp
    <3>3. s.touched <= g BY <3>1, <3>2 DEF IInv, GraceClock, InGrace
    <3> QED BY <3>1, <3>2, <3>3, ClockAssumption
  <2>3. ~Vouched(s) /\ Ttl(s) = IdleTTL
    BY DEF Vouched, InGrace, Ttl
  <2>4. ~DetachExpired(s)
    BY <2>1, ClockAssumption, SessionIsFields DEF DetachExpired, InGrace, Fields, Stamp
  <2>5. ~Expired(s)
    <3>1. Spared(s) = s BY <2>3 DEF Spared
    <3>2. s.touched \in Nat BY <2>1, SessionIsFields DEF Fields
    <3> QED BY <2>2, <2>3, <2>4, <3>1, <3>2, ClockAssumption DEF Expired
  <2>6. sess'[id] = s
    BY <2>3, <2>5 DEF Reap, Spared
  <2> QED BY <2>6 DEF Live
<1> QED BY <1>1, Invariance, PTL DEF Spec, GraceHonoured

-----------------------------------------------------------------------------
(* The host's slot.  DeviceConnect counts the host's sessions in one access  *)
(* to the map and inserts in another; whatever other tasks do in between,    *)
(* only another attempt's insert can take the slot it counted free.          *)

\* An attempt that was admitted and not overtaken still finds room on its host.
SlotFree ==
    \A c \in Conns : task[c].at = "counted" /\ ~task[c].overtaken =>
        Cardinality(OnHost(task[c].host)) < MaxPerHost

(* A handler that has counted did so in this step, stands where it stood, or *)
(* was just overtaken.                                                       *)
LEMMA WhoCounts ==
    ASSUME TypeOK, Next, \A c \in Conns : ~ConnectInsert(c), NEW k \in Conns,
           task'[k].at = "counted"
    PROVE  task'[k] = task[k] \/ ConnectCount(k)
<1>0. task \in [Conns -> Task]
  BY DEF TypeOK
<1>1. ASSUME NEW c \in Conns, Arrive(c) \/ Register(c) \/ Panic(c) \/ DeclineRemove(c) \/ EndRemove(c)
      PROVE  task'[k] = task[k]
  BY <1>0, <1>1 DEF Arrive, Register, Panic, DeclineRemove, EndRemove, Idle
<1>2. ASSUME NEW c \in Conns, Attest(c) \/ Close(c) \/ DropSessions(c) \/ Unregister(c)
      PROVE  task'[k] = task[k]
  BY <1>2 DEF Attest, Close, DropSessions, Unregister
<1>3. ASSUME NEW c \in Conns, NEW h \in Devices, NEW id \in SessionIds, ConnectAsk(c, h, id)
      PROVE  task'[k] = task[k]
  BY <1>0, <1>3 DEF ConnectAsk
<1>4. ASSUME NEW c \in Conns, ConnectSupersede(c)
      PROVE  task'[k] = task[k]
  <2>1. task[c] \in [at : {"asked"}, id : SessionIds, host : Devices, input : BOOLEAN]
    BY <1>0, <1>4 DEF ConnectSupersede, At, Task, Idle
  <2> QED
    BY <1>0, <1>4, <2>1 DEF ConnectSupersede
<1>5. ASSUME NEW c \in Conns, ConnectCount(c)
      PROVE  task'[k] = task[k] \/ ConnectCount(k)
  BY <1>0, <1>5 DEF ConnectCount
<1>6. ASSUME NEW c \in Conns, NEW id \in SessionIds, DeclineRead(c, id) \/ EndRead(c, id)
      PROVE  task'[k] = task[k]
  BY <1>0, <1>6 DEF DeclineRead, EndRead
<1>7. ASSUME NEW c \in Conns, NEW id \in SessionIds,
             Accept(c, id) \/ Signal(c, id) \/ Input(c, id) \/ Reattach(c, id)
      PROVE  task'[k] = task[k]
  BY <1>7 DEF Accept, Signal, Input, Reattach
<1>8. ASSUME \/ \E p \in Shareable, caps \in ShareCaps : GrantShare(p, caps)
             \/ \E p \in Shareable : WithdrawShare(p) \/ EndShareSessions(p)
             \/ Tick \/ Reap
      PROVE  task'[k] = task[k]
  BY <1>8 DEF GrantShare, WithdrawShare, EndShareSessions, Tick, Reap
<1> QED
  BY <1>1, <1>2, <1>3, <1>4, <1>5, <1>6, <1>7, <1>8 DEF Next, Begin, Continue, Cleanup

(* Only the insert of an admitted attempt puts a session on a host: a frame, *)
(* a departure or the clock leaves a session with its host or ends it.       *)
LEMMA HostsKept ==
    ASSUME TypeOK, Next, \A c \in Conns : ~ConnectInsert(c), NEW id \in SessionIds, Live(id)'
    PROVE  Live(id) /\ sess'[id].hostDev = sess[id].hostDev
<1>0. sess \in [SessionIds -> Session \cup {Absent}]
  BY DEF TypeOK
<1>1. sess'[id] # Absent
  BY DEF Live
<1>2. CASE sess'[id] \in {sess[id], Absent}
  BY <1>1, <1>2 DEF Live
<1>3. ASSUME NEW c \in Conns, NEW k \in SessionIds,
             Accept(c, k) \/ Signal(c, k) \/ Input(c, k) \/ Reattach(c, k)
      PROVE  Live(id) /\ sess'[id].hostDev = sess[id].hostDev
  <2>1. CASE sess' = sess
    BY <1>2, <2>1
  <2>2. CASE sess' # sess
    <3>1. Live(k)
      BY <1>3, <2>2 DEF Accept, Signal, Input, Reattach, Live, Absent
    <3>2. sess[k] \in Session
      BY <1>0, <3>1 DEF Live
    <3> DEFINE t == [sess[k] EXCEPT !.touched = 0, !.reprieved = NoStamp]
    <3>3. t = Touched(sess[k]) /\ t \in Fields /\ t.hostDev = sess[k].hostDev
      BY <3>2, SessionIsFields DEF Touched, Fields, Stamp
    <3> HIDE DEF t
    <3>7. ASSUME NEW s, sess' = [sess EXCEPT ![k] = s], s.hostDev = sess[k].hostDev
          PROVE  Live(id) /\ sess'[id].hostDev = sess[id].hostDev
      BY <1>0, <1>1, <3>1, <3>7 DEF Live
    <3>4. CASE Accept(c, k)
      <4> DEFINE s == [[sess[k] EXCEPT !.state = "active"] EXCEPT !.touched = 0]
      <4>1. s.hostDev = sess[k].hostDev
        BY <3>2, SessionIsFields DEF Fields
      <4>2. sess' = [sess EXCEPT ![k] = s]
        BY <1>0, <3>4 DEF Accept
      <4> QED
        BY <3>7, <4>1, <4>2
    <3>5. CASE Signal(c, k) \/ Input(c, k)
      <4>1. sess' = [sess EXCEPT ![k] = t]
        BY <3>3, <3>5 DEF Signal, Input
      <4> QED
        BY <3>3, <3>7, <4>1
    <3>6. CASE Reattach(c, k)
      <4>1. \/ sess' = [sess EXCEPT ![k] = [t EXCEPT !.ctl = c, !.ctlGone = NoStamp]]
            \/ sess' = [sess EXCEPT ![k] = [t EXCEPT !.host = c, !.hostGone = NoStamp]]
        BY <2>2, <3>3, <3>6 DEF Reattach
      <4>2. /\ [t EXCEPT !.ctl = c, !.ctlGone = NoStamp].hostDev = t.hostDev
            /\ [t EXCEPT !.host = c, !.hostGone = NoStamp].hostDev = t.hostDev
        BY <3>3 DEF Fields
      <4> QED
        BY <3>3, <3>7, <4>1, <4>2
    <3> QED
      BY <1>3, <3>4, <3>5, <3>6
  <2> QED
    BY <2>1, <2>2
<1>4. ASSUME NEW c \in Conns, DropSessions(c)
      PROVE  Live(id) /\ sess'[id].hostDev = sess[id].hostDev
  <2>1. \/ sess'[id] = sess[id]
        \/ sess'[id] = Absent
        \/ Live(id) /\ sess'[id] = Detached(sess[id], c)
    BY <1>0, <1>4 DEF DropSessions
  <2>2. \A s \in Session : Detached(s, c).hostDev = s.hostDev
    BY SessionIsFields DEF Detached, Fields
  <2> QED
    BY <1>0, <1>1, <1>2, <2>1, <2>2 DEF Live
<1>5. CASE Tick \/ Reap
  <2>1. Live(id) /\ (Tick \/ sess'[id] = Spared(sess[id]))
    BY <1>1, <1>5 DEF Tick, Reap
  <2>2. sess[id] \in Session
    BY <1>0, <2>1 DEF Live
  <2>3. CASE Tick
    BY <1>5, <2>1, <2>2, <2>3, SessionIsFields DEF Tick, Fields
  <2>4. CASE sess'[id] = Spared(sess[id])
    BY <2>1, <2>2, <2>4, SessionIsFields DEF Spared, Fields
  <2> QED
    BY <2>1, <2>3, <2>4
<1>6. ASSUME NEW c \in Conns, ConnectSupersede(c) \/ DeclineRemove(c) \/ EndRemove(c)
      PROVE  sess'[id] \in {sess[id], Absent}
  BY <1>0, <1>6 DEF ConnectSupersede, DeclineRemove, EndRemove
<1>7. ASSUME NEW p \in Shareable, EndShareSessions(p)
      PROVE  sess'[id] \in {sess[id], Absent}
  BY <1>0, <1>7 DEF EndShareSessions
<1> QED
  BY <1>2, <1>3, <1>4, <1>5, <1>6, <1>7
     DEF Next, Begin, Continue, Cleanup, Arrive, Register, Attest, Close, Panic, Unregister,
         ConnectAsk, ConnectCount, DeclineRead, EndRead, GrantShare, WithdrawShare

(* Fewer sessions on a host stay within its cap.                             *)
LEMMA FewerOnHost ==
    ASSUME NEW h, OnHost(h)' \subseteq OnHost(h)
    PROVE  /\ Cardinality(OnHost(h)) \in Nat /\ Cardinality(OnHost(h)') \in Nat
           /\ Cardinality(OnHost(h)') <= Cardinality(OnHost(h))
<1>1. IsFiniteSet(SessionIds) /\ OnHost(h) \subseteq SessionIds
  BY DeviceAssumption DEF OnHost
<1>2. IsFiniteSet(OnHost(h))
  BY <1>1, FS_Subset
<1>3. IsFiniteSet(OnHost(h)')
  BY <1>2, FS_Subset
<1> QED
  BY <1>2, <1>3, FS_Subset, FS_CardinalityType

(* The room an admitted attempt will need stays there until it is overtaken. *)
LEMMA SlotStep ==
    ASSUME TypeOK, SlotFree, Next
    PROVE  SlotFree'
<1>0. MaxPerHost \in Nat
  BY DeviceAssumption
<1>1. CASE \A c \in Conns : ~ConnectInsert(c)
  <2>1. TypeOK'
    BY StepType
  <2>2. \A h : OnHost(h)' \subseteq OnHost(h)
    BY <1>1, <2>1, HostsKept DEF OnHost
  <2>3. \A h : /\ Cardinality(OnHost(h)) \in Nat /\ Cardinality(OnHost(h)') \in Nat
               /\ Cardinality(OnHost(h)') <= Cardinality(OnHost(h))
    BY <2>2, FewerOnHost
  <2>4. ASSUME NEW c \in Conns, task'[c].at = "counted", ~task'[c].overtaken
        PROVE  Cardinality(OnHost(task[c].host)) < MaxPerHost /\ task'[c].host = task[c].host
    <3>1. CASE task'[c] = task[c]
      BY <2>4, <3>1 DEF SlotFree
    <3>2. CASE ConnectCount(c)
      <4>1. ~Refused(c, task[c].host)
        BY <2>4, <3>2 DEF ConnectCount, TypeOK, Idle
      <4>2. Cardinality(OnHost(task[c].host)) < MaxPerHost
        BY <1>0, <2>3, <4>1 DEF Refused
      <4> QED
        BY <3>2, <4>1, <4>2 DEF ConnectCount, TypeOK
    <3> QED
      BY <1>1, <2>4, <3>1, <3>2, WhoCounts
  <2>5. ASSUME NEW c \in Conns, NEW h, task'[c].at = "counted", ~task'[c].overtaken,
               h = task'[c].host
        PROVE  Cardinality(OnHost(h)') < MaxPerHost
    <3>1. Cardinality(OnHost(h)) < MaxPerHost
      BY <2>4, <2>5
    <3> QED
      BY <1>0, <2>3, <3>1
  <2> QED
    BY <2>5 DEF SlotFree, OnHost
<1>2. ASSUME NEW c \in Conns, ConnectInsert(c), NEW k \in Conns, NEW h,
             task'[k].at = "counted", ~task'[k].overtaken, h = task'[k].host
      PROVE  Cardinality(OnHost(h)') < MaxPerHost
  <2>1. k # c /\ task'[k] = task[k] /\ h # task[c].host
    BY <1>2, InsertTasks DEF Idle
  <2>2. OnHost(h)' \subseteq OnHost(h)
    BY <1>2, <2>1 DEF OnHost, Live, ConnectInsert, TypeOK
  <2>3. Cardinality(OnHost(h)) < MaxPerHost
    BY <1>2, <2>1 DEF SlotFree
  <2>4. /\ Cardinality(OnHost(h)) \in Nat /\ Cardinality(OnHost(h)') \in Nat
        /\ Cardinality(OnHost(h)') <= Cardinality(OnHost(h))
    BY <2>2, FewerOnHost
  <2> QED
    BY <1>0, <2>3, <2>4
<1> QED
  BY <1>1, <1>2 DEF SlotFree, OnHost

(* An insert into a slot that is free does not overrun the cap.              *)
LEMMA InsertWithin ==
    ASSUME TypeOK, SlotFree, NEW c \in Conns, ConnectInsert(c), NEW h \in Devices,
           task[c].host = h, ~task[c].overtaken
    PROVE  Cardinality(OnHost(h)') <= MaxPerHost
<1> DEFINE i == task[c].id
<1>1. \A id \in SessionIds \ {i} : sess'[id] = sess[id]
  BY DEF ConnectInsert, TypeOK
<1>2. OnHost(h)' \subseteq OnHost(h) \cup {i}
  BY <1>1 DEF OnHost, Live
<1>3. Cardinality(OnHost(h)) < MaxPerHost
  BY DEF ConnectInsert, At, SlotFree
<1>4. IsFiniteSet(OnHost(h)) /\ Cardinality(OnHost(h)) \in Nat
  <2>1. OnHost(h) \subseteq SessionIds
    BY DEF OnHost
  <2> QED
    BY <2>1, DeviceAssumption, FS_Subset, FS_CardinalityType
<1>5. /\ IsFiniteSet(OnHost(h) \cup {i})
      /\ Cardinality(OnHost(h) \cup {i}) <= Cardinality(OnHost(h)) + 1
  <2>1. IsFiniteSet(OnHost(h) \cup {i}) /\ Cardinality(OnHost(h) \cup {i})
          = (IF i \in OnHost(h) THEN Cardinality(OnHost(h)) ELSE Cardinality(OnHost(h)) + 1)
    BY <1>4, FS_AddElement
  <2> QED BY <1>4, <2>1
<1>6. /\ Cardinality(OnHost(h)') <= Cardinality(OnHost(h) \cup {i})
      /\ Cardinality(OnHost(h)') \in Nat /\ Cardinality(OnHost(h) \cup {i}) \in Nat
  <2>1. IsFiniteSet(OnHost(h)')
    BY <1>2, <1>5, FS_Subset
  <2>2. Cardinality(OnHost(h)') <= Cardinality(OnHost(h) \cup {i})
    BY <1>2, <1>5, FS_Subset
  <2> QED
    BY <1>5, <2>1, <2>2, FS_CardinalityType
<1> QED
  BY <1>3, <1>4, <1>5, <1>6, DeviceAssumption

(* A host carries more sessions than its cap only by a race of two attempts: *)
(* an insert that nobody overtook keeps within it, however many worker       *)
(* threads run and whatever is superseded, ended, detached, withdrawn or     *)
(* reaped between its count and its insert.                                  *)
THEOREM HostSlot == Spec => SlotHeldUnlessOvertaken
<1>1. Init => SlotFree
  BY DEF Init, SlotFree, Idle
<1>2. TypeOK /\ SlotFree /\ [Next]_vars => SlotFree'
  <2>1. CASE UNCHANGED vars
    BY <2>1 DEF vars, SlotFree, OnHost, Live
  <2> QED
    BY <2>1, SlotStep
<1>3. TypeOK /\ SlotFree /\ [Next]_vars =>
        [\A c \in Conns, h \in Devices :
            ConnectInsert(c) /\ task[c].host = h /\ ~task[c].overtaken =>
               Cardinality(OnHost(h)') <= MaxPerHost]_vars
  BY InsertWithin
<1> QED
  BY <1>1, <1>2, <1>3, TypeCorrect, PTL DEF Spec, SlotHeldUnlessOvertaken

(* No session ends silently: each end that is still on an open, registered   *)
(* socket is told in the step that removes it, whoever or whatever removes   *)
(* it and on however many worker threads, unless it is the end that asked, or*)
(* came back between the two lookups of the end that did.                    *)
THEOREM Endings == Spec => EndsTold
<1> DEFINE Vanishes(id) ==
        Live(id) /\ sess'[id] = Absent =>
         \A c \in {sess[id].ctl, sess[id].host} :
            \/ ~(Up(c) /\ conn[c].reg) \/ Ending(c, id)
            \/ \E m \in out' : m.to = c /\ m.id = id
            \/ \E k \in Conns : Removes(k, id) /\ c \notin {k, task[k].to}
<1>1. ASSUME IInv, Next, NEW id \in SessionIds
      PROVE  Vanishes(id)
  <2> SUFFICES ASSUME Live(id), sess'[id] = Absent, NEW c \in {sess[id].ctl, sess[id].host},
                      Up(c), conn[c].reg
               PROVE  \/ Ending(c, id)
                      \/ \E m \in out' : m.to = c /\ m.id = id
                      \/ \E k \in Conns : Removes(k, id) /\ c \notin {k, task[k].to}
    OBVIOUS
  <2>a. TypeOK /\ sess[id] \in Session
    BY <1>1 DEF IInv, TypeOK, Live
  <2>0. /\ TypeOK /\ sess[id] \in Session /\ c \in Conns
        /\ sess[id].ctl # sess[id].host
    BY <1>1, <2>a, SessionIsFields DEF IInv, RoutedToOwnDevices, Fields
  <2>b. ASSUME NEW kind, NEW msgs, Msg(c, kind, id) \in msgs, Sent(msgs) \subseteq out'
        PROVE  \E m \in out' : m.to = c /\ m.id = id
    <3>1. Msg(c, kind, id) \in out'
      BY <2>b DEF Sent, Msg
    <3> QED
      BY <3>1 DEF Msg
  <2>1. ASSUME NEW ids, id \in ids, Told(ids) \subseteq out'
        PROVE  \E m \in out' : m.to = c /\ m.id = id
    <3> DEFINE msgs == UNION {{Msg(sess[i].ctl, "Ended", i), Msg(sess[i].host, "Ended", i)} : i \in ids}
    <3>1. Msg(c, "Ended", id) \in msgs
      BY <2>1
    <3>2. Sent(msgs) \subseteq out'
      BY <2>1 DEF Told
    <3> HIDE DEF msgs
    <3> QED
      BY <2>b, <3>1, <3>2
  <2>2. ASSUME NEW k \in Conns, DropSessions(k)
        PROVE  \E m \in out' : m.to = c /\ m.id = id
    <3> DEFINE mine == {i \in SessionIds : Live(i) /\ Involves(sess[i], k)}
               kept == {i \in mine : sess[i].state = "active"}
               msgs == {Msg(Others(sess[i], k), "PeerReconnecting", i) : i \in kept}
                         \cup {Msg(Others(sess[i], k), "Ended", i) : i \in mine \ kept}
    <3>1. id \in mine \ kept /\ conn[k].stage = "closing"
      <4>1. \A t \in Session : Detached(t, k) # Absent
        BY SessionIsFields DEF Detached, Fields, Absent
      <4> QED
        BY <2>0, <2>2, <4>1 DEF DropSessions, Live
    <3>2. Msg(Others(sess[id], k), "Ended", id) \in msgs
      BY <3>1
    <3>3. c = Others(sess[id], k)
      BY <2>0, <3>1 DEF Involves, Others, Up
    <3>4. Sent(msgs) \subseteq out'
      BY <2>2 DEF DropSessions
    <3> HIDE DEF msgs
    <3> QED
      BY <2>b, <3>2, <3>3, <3>4
  <2>3. ASSUME NEW k \in Conns, ConnectSupersede(k)
        PROVE  \E m \in out' : m.to = c /\ m.id = id
    <3>1. PICK old \in SessionIds : sess' = [sess EXCEPT ![old] = Absent] /\ out' = Told({old})
      BY <2>3 DEF ConnectSupersede, Live
    <3>2. old = id
      BY <2>0, <3>1 DEF TypeOK, Live
    <3> QED
      BY <2>1, <3>1, <3>2
  <2>4. ASSUME NEW k \in Conns, DeclineRemove(k) \/ EndRemove(k)
        PROVE  \/ Ending(c, id)
               \/ \E m \in out' : m.to = c /\ m.id = id
               \/ \E j \in Conns : Removes(j, id) /\ c \notin {j, task[j].to}
    <3>1. task[k].at \in {"ending", "declining"} /\ task[k].id = id
      BY <2>0, <2>4 DEF DeclineRemove, EndRemove, At, TypeOK, Live
    <3>2. Ending(k, id) /\ Removes(k, id)
      BY <2>4, <3>1 DEF Ending, Removes
    <3>3. CASE c = task[k].to
      <4>1. PICK kind : out' = Sent({Msg(c, kind, id)})
        BY <2>4, <3>1, <3>3 DEF DeclineRemove, EndRemove
      <4> QED
        BY <2>b, <4>1
    <3> QED
      BY <3>2, <3>3
  <2>5. ASSUME NEW p \in Shareable, EndShareSessions(p)
        PROVE  \E m \in out' : m.to = c /\ m.id = id
    <3>1. id \in {i \in SessionIds : UnderShare(i, p)}
      BY <2>0, <2>5 DEF EndShareSessions, Live
    <3>2. out' = Told({i \in SessionIds : UnderShare(i, p)})
      BY <2>5 DEF EndShareSessions
    <3> QED
      BY <2>1, <3>1, <3>2
  <2>6. ASSUME Reap
        PROVE  \E m \in out' : m.to = c /\ m.id = id
    <3>1. Spared(sess[id]) # Absent
      <4>1. Spared(sess[id]).state = sess[id].state /\ sess[id].state \in {"pending", "active"}
        BY <2>0, SessionIsFields DEF Spared, Fields
      <4> QED
        BY <4>1 DEF Absent
    <3>2. id \in {i \in SessionIds : Live(i) /\ Expired(sess[i])}
      BY <2>6, <3>1 DEF Reap
    <3>3. out' = Told({i \in SessionIds : Live(i) /\ Expired(sess[i])})
      BY <2>6 DEF Reap
    <3> QED
      BY <2>1, <3>2, <3>3
  <2>7. \/ \E k \in Conns : \/ DropSessions(k) \/ ConnectSupersede(k)
                            \/ DeclineRemove(k) \/ EndRemove(k)
        \/ \E p \in Shareable : EndShareSessions(p)
        \/ Reap
    <3>1. ASSUME NEW k \in Conns, ConnectInsert(k)
          PROVE  sess'[id] # Absent
      BY <2>0, <3>1 DEF ConnectInsert, TypeOK, Absent, Live
    <3>2. ASSUME NEW k \in Conns, NEW i \in SessionIds,
                 Accept(k, i) \/ Signal(k, i) \/ Input(k, i) \/ Reattach(k, i)
          PROVE  sess'[id] # Absent
      <4>1. \A s \in Fields :
              /\ [s EXCEPT !.state = "active"] \in Fields
              /\ [[s EXCEPT !.state = "active"] EXCEPT !.touched = 0] \in Fields
              /\ Touched(s) \in Fields
              /\ [Touched(s) EXCEPT !.ctl = k, !.ctlGone = NoStamp] \in Fields
              /\ [Touched(s) EXCEPT !.host = k, !.hostGone = NoStamp] \in Fields
        BY DEF Touched, Fields, Stamp
      <4>2. Absent \notin Fields
        BY DEF Fields, Absent
      <4>3. sess[id] \in Fields
        BY <2>0, SessionIsFields
      <4> QED
        BY ZenonT(40), <2>0, <3>2, <4>1, <4>2, <4>3 DEF Accept, Signal, Input, Reattach, TypeOK, Live
    <3>3. ASSUME Tick
          PROVE  sess'[id] # Absent
      BY <2>0, <3>3, SessionIsFields DEF Tick, Fields, Absent
    <3>4. UNCHANGED sess => sess'[id] # Absent
      BY DEF Live
    <3> QED
      BY <1>1, <3>1, <3>2, <3>3, <3>4
         DEF Next, Begin, Continue, Cleanup, Arrive, Register, Attest, Close, Panic, Unregister,
             ConnectAsk, ConnectCount, DeclineRead, EndRead, GrantShare, WithdrawShare
  <2> QED
    BY <2>2, <2>3, <2>4, <2>5, <2>6, <2>7
<1>2. IInv /\ [Next]_vars => [\A id \in SessionIds : Vanishes(id)]_vars
  BY <1>1
<1> QED
  BY <1>2, Invariance, PTL DEF Spec, EndsTold
=============================================================================
