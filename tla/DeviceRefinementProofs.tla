----------------------- MODULE DeviceRefinementProofs -----------------------
(* Proof that DeviceSessions implements DeviceLifecycle, for every value of *)
(* the constants.  One lemma per kind of step; each names the abstract      *)
(* action it maps to.                                                       *)
EXTENDS DeviceRefinement, DeviceSessionsProofs

(* No session yet, and no socket served.                                     *)
LEMMA InitRefines == Init => Lifecycle!AInit
BY DEF Init, Lifecycle!AInit, AbstractDev, AbstractOpen, AbstractLive, Served, Live, Absent,
       Lifecycle!None

(* A session the abstraction sees is none of its own absent ones.            *)
LEMMA SeenIffLive ==
    ASSUME TypeOK, NEW id \in SessionIds
    PROVE  /\ Live(id) => AbstractLive[id] = AbstractSession(sess[id])
           /\ AbstractLive[id] = Lifecycle!None <=> ~Live(id)
<1>1. Live(id) => sess[id].state \in {"pending", "active"}
  BY SessionIsFields DEF TypeOK, Live, Fields
<1>2. Live(id) => AbstractSession(sess[id]).state = sess[id].state
  BY DEF AbstractSession
<1>3. Live(id) => AbstractSession(sess[id]) # Lifecycle!None
  BY <1>1, <1>2 DEF Lifecycle!None
<1> QED BY <1>3 DEF AbstractLive, Lifecycle!None

-----------------------------------------------------------------------------
(* Two records of a session that the abstraction cannot tell apart.          *)
Alike(s, t) ==
    /\ t.state = s.state /\ t.ctl = s.ctl /\ t.host = s.host
    /\ t.ctlDev = s.ctlDev /\ t.hostDev = s.hostDev /\ t.input = s.input
    /\ t.ctlGone = NoStamp <=> s.ctlGone = NoStamp
    /\ t.hostGone = NoStamp <=> s.hostGone = NoStamp

LEMMA AlikeSame ==
    ASSUME NEW s, NEW t, Alike(s, t)
    PROVE  AbstractSession(t) = AbstractSession(s)
<1>1. AwaySides(t) = AwaySides(s) BY DEF Alike, AwaySides
<1> QED BY <1>1 DEF Alike, AbstractSession

(* A step that removes some sessions and changes nothing else the            *)
(* abstraction sees is an End of them.                                       *)
LEMMA EndRefines ==
    ASSUME NEW ids \in SUBSET SessionIds, AbstractDev' = AbstractDev,
           AbstractOpen' = AbstractOpen,
           \A id \in SessionIds :
              /\ id \in ids => sess'[id] = Absent
              /\ id \notin ids /\ ~Live(id) => sess'[id] = Absent
              /\ id \notin ids /\ Live(id) => sess'[id] # Absent /\ Alike(sess[id], sess'[id])
    PROVE  Lifecycle!ANext
<1>1. ASSUME NEW id \in SessionIds
      PROVE  AbstractLive'[id] = IF id \in ids THEN Lifecycle!None ELSE AbstractLive[id]
  BY <1>1, AlikeSame DEF AbstractLive, Live, Lifecycle!None
<1>2. AbstractLive' = [id \in SessionIds |->
                         IF id \in ids THEN Lifecycle!None ELSE AbstractLive[id]]
  BY <1>1 DEF AbstractLive
<1>3. Lifecycle!End(ids) BY <1>2 DEF Lifecycle!End
<1> QED BY <1>3 DEF Lifecycle!ANext

(* What is left out of an End: the same session as before.                   *)
LEMMA AlikeRefl == \A s : Alike(s, s) BY DEF Alike

-----------------------------------------------------------------------------
(* The sockets: a registered one opens, and one whose sessions are dropped   *)
(* leaves.                                                                   *)
LEMMA SocketRefines ==
    ASSUME TypeOK, NEW c \in Conns,
           Arrive(c) \/ Register(c) \/ Attest(c) \/ Close(c) \/ Panic(c) \/ Unregister(c)
    PROVE  Lifecycle!ANext \/ UNCHANGED Lifecycle!avars
<1>1. AbstractDev' = AbstractDev
  <2>1. \A k \in Conns : conn'[k].dev = conn[k].dev
    <3>1. CASE Arrive(c) BY <3>1 DEF Arrive, TypeOK, Conn
    <3>2. CASE Register(c) BY <3>2 DEF Register, TypeOK, Conn
    <3>3. CASE Attest(c) BY <3>3 DEF Attest, TypeOK, Conn
    <3>4. CASE Close(c) BY <3>4 DEF Close, TypeOK, Conn
    <3>5. CASE Panic(c) BY <3>5 DEF Panic, TypeOK, Conn
    <3>6. CASE Unregister(c) BY <3>6 DEF Unregister, TypeOK, Conn
    <3> QED BY <3>1, <3>2, <3>3, <3>4, <3>5, <3>6
  <2> QED BY <2>1 DEF AbstractDev
<1>2. AbstractLive' = AbstractLive
  BY DEF AbstractLive, Live, Arrive, Register, Attest, Close, Panic, Unregister
<1>3. CASE Register(c)
  <2>1. AbstractOpen' = AbstractOpen \cup {c}
    BY <1>3 DEF AbstractOpen, Served, Register, At, TypeOK, Conn
  <2>2. Lifecycle!Open(c) BY <1>1, <1>2, <2>1 DEF Lifecycle!Open
  <2> QED BY <2>2 DEF Lifecycle!ANext
<1>4. CASE Arrive(c) \/ Attest(c) \/ Close(c) \/ Panic(c) \/ Unregister(c)
  <2>1. \A k \in Conns \ {c} : conn'[k] = conn[k]
    BY <1>4 DEF Arrive, Attest, Close, Panic, Unregister, TypeOK
  <2>2. Served(c)' <=> Served(c)
    <3>1. CASE Arrive(c) BY <3>1 DEF Served, Arrive, TypeOK, Conn
    <3>2. CASE Attest(c) BY <3>2 DEF Served, Attest, TypeOK, Conn
    <3>3. CASE Close(c) BY <3>3 DEF Served, Close, Free, Up, TypeOK, Conn
    <3>4. CASE Panic(c) BY <3>4 DEF Served, Panic, Up, TypeOK, Conn
    <3>5. CASE Unregister(c) BY <3>5 DEF Served, Unregister, TypeOK, Conn
    <3> QED BY <1>4, <3>1, <3>2, <3>3, <3>4, <3>5
  <2>3. AbstractOpen' = AbstractOpen BY <2>1, <2>2 DEF AbstractOpen, Served
  <2> QED BY <1>1, <1>2, <2>3 DEF Lifecycle!avars
<1> QED BY <1>3, <1>4

LEMMA DropRefines ==
    ASSUME TypeOK, RoutedToOwnDevices, NEW c \in Conns, DropSessions(c)
    PROVE  Lifecycle!ANext
<1>1. AbstractDev' = AbstractDev
  BY DEF AbstractDev, DropSessions, TypeOK, Conn
<1>2. /\ c \in AbstractOpen
      /\ AbstractOpen' = AbstractOpen \ {c}
  BY DEF AbstractOpen, Served, DropSessions, TypeOK, Conn
<1>3. ASSUME NEW id \in SessionIds
      PROVE  AbstractLive'[id] =
               IF AbstractLive[id] = Lifecycle!None THEN Lifecycle!None
               ELSE Lifecycle!Left(AbstractLive[id], c)
  <2> DEFINE s == sess[id]
  <2>1. AbstractLive'[id] = IF sess'[id] # Absent THEN AbstractSession(sess'[id])
                            ELSE Lifecycle!None
    BY DEF AbstractLive, Live, Lifecycle!None
  <2>2. CASE ~Live(id)
    <3>1. sess'[id] = Absent BY <2>2 DEF DropSessions, Live
    <3> QED BY <2>1, <2>2, <3>1, SeenIffLive
  <2>3. CASE Live(id) /\ ~Involves(s, c)
    <3>1. sess'[id] = s BY <2>3 DEF DropSessions
    <3>2. AbstractSession(s).on.ctl = s.ctl /\ AbstractSession(s).on.host = s.host
      BY DEF AbstractSession
    <3> QED BY <2>1, <2>3, <3>1, <3>2, SeenIffLive DEF Lifecycle!Left, Involves, Live
  <2>4. CASE Live(id) /\ Involves(s, c) /\ s.state = "pending"
    <3>1. sess'[id] = Absent BY <2>4 DEF DropSessions
    <3>2. /\ AbstractSession(s).on.ctl = s.ctl /\ AbstractSession(s).on.host = s.host
          /\ AbstractSession(s).state = "pending"
      BY <2>4 DEF AbstractSession
    <3> QED BY <2>1, <2>4, <3>1, <3>2, SeenIffLive DEF Lifecycle!Left, Involves
  <2>5. CASE Live(id) /\ Involves(s, c) /\ s.state = "active"
    <3>1. s \in Session /\ s.ctl # s.host
      BY <2>5 DEF TypeOK, Live, RoutedToOwnDevices
    <3>2. sess'[id] = Detached(s, c) BY <2>5 DEF DropSessions
    <3>3. /\ AwaySides(sess'[id]) =
               AwaySides(s) \cup {d \in {"ctl", "host"} : (IF d = "ctl" THEN s.ctl ELSE s.host) = c}
          /\ sess'[id].state = s.state /\ sess'[id].ctl = s.ctl /\ sess'[id].host = s.host
          /\ sess'[id].ctlDev = s.ctlDev /\ sess'[id].hostDev = s.hostDev
          /\ sess'[id].input = s.input
      <4>1. CASE c = s.ctl
        <5>1. sess'[id] = [s EXCEPT !.ctlGone = 0, !.touched = 0] BY <3>2, <4>1 DEF Detached
        <5>2. 0 # NoStamp BY ClockAssumption
        <5>3. /\ sess'[id].ctlGone = 0
              /\ sess'[id].hostGone = s.hostGone
              /\ sess'[id].state = s.state /\ sess'[id].ctl = s.ctl /\ sess'[id].host = s.host
              /\ sess'[id].ctlDev = s.ctlDev /\ sess'[id].hostDev = s.hostDev
              /\ sess'[id].input = s.input
          BY <3>1, <5>1, SessionIsFields DEF Fields
        <5> QED BY <3>1, <4>1, <5>2, <5>3 DEF AwaySides
      <4>2. CASE c = s.host
        <5>1. sess'[id] = [s EXCEPT !.hostGone = 0, !.touched = 0]
          BY <3>1, <3>2, <4>2 DEF Detached
        <5>2. 0 # NoStamp BY ClockAssumption
        <5>3. /\ sess'[id].hostGone = 0
              /\ sess'[id].ctlGone = s.ctlGone
              /\ sess'[id].state = s.state /\ sess'[id].ctl = s.ctl /\ sess'[id].host = s.host
              /\ sess'[id].ctlDev = s.ctlDev /\ sess'[id].hostDev = s.hostDev
              /\ sess'[id].input = s.input
          BY <3>1, <5>1, SessionIsFields DEF Fields
        <5> QED BY <3>1, <4>2, <5>2, <5>3 DEF AwaySides
      <4> QED BY <2>5, <4>1, <4>2 DEF Involves
    <3>4. sess'[id] # Absent
      BY <2>5, <3>3 DEF Absent
    <3>5. Lifecycle!Left(AbstractSession(s), c) =
            [AbstractSession(s) EXCEPT !.away = @ \cup {d \in {"ctl", "host"} :
                AbstractSession(s).on[d] = c}]
      <4>1. /\ AbstractSession(s).on.ctl = s.ctl /\ AbstractSession(s).on.host = s.host
            /\ AbstractSession(s).state = "active"
        BY <2>5 DEF AbstractSession
      <4> QED BY <2>5, <4>1 DEF Lifecycle!Left, Lifecycle!Sides, Involves
    <3>6. {d \in {"ctl", "host"} : AbstractSession(s).on[d] = c} =
            {d \in {"ctl", "host"} : (IF d = "ctl" THEN s.ctl ELSE s.host) = c}
      BY DEF AbstractSession
    <3>7. AbstractSession(sess'[id]) = Lifecycle!Left(AbstractSession(s), c)
      BY <3>3, <3>5, <3>6 DEF AbstractSession
    <3> QED BY <2>1, <2>5, <3>4, <3>7, SeenIffLive
  <2> QED BY <2>2, <2>3, <2>4, <2>5, SessionIsFields DEF TypeOK, Live, Fields
<1>4. AbstractLive' = [id \in SessionIds |->
          IF AbstractLive[id] = Lifecycle!None THEN Lifecycle!None
          ELSE Lifecycle!Left(AbstractLive[id], c)]
  BY <1>3 DEF AbstractLive
<1>5. Lifecycle!Leave(c) BY <1>1, <1>2, <1>4 DEF Lifecycle!Leave
<1> QED BY <1>5 DEF Lifecycle!ANext

-----------------------------------------------------------------------------
(* DeviceConnect: the attempt becomes a session when it is inserted.         *)
LEMMA InsertRefines ==
    ASSUME TypeOK, Placed, Aimed, NEW c \in Conns, ConnectInsert(c), ~Live(task[c].id)
    PROVE  Lifecycle!ANext
<1> DEFINE t == task[c]
<1>1. t \in [at : {"counted"}, id : SessionIds, host : Devices, input : BOOLEAN, to : Conns,
            overtaken : BOOLEAN]
  BY DEF ConnectInsert, At, TypeOK, Task, Idle
<1>2. Up(c) /\ conn[c].dev # t.host /\ conn[t.to].dev = t.host
  BY <1>1 DEF Placed, Aimed
<1>3. UNCHANGED <<AbstractDev, AbstractOpen>>
  BY DEF ConnectInsert, AbstractDev, AbstractOpen, Served
<1>4. c \in AbstractOpen /\ AbstractDev[c] # AbstractDev[t.to]
  BY <1>1, <1>2 DEF AbstractOpen, AbstractDev, Served, Up
<1>5. AbstractLive[t.id] = Lifecycle!None
  BY <1>1, SeenIffLive
<1>6. AbstractLive' = [AbstractLive EXCEPT ![t.id] =
        [state |-> "pending", on |-> [ctl |-> c, host |-> t.to],
         of |-> [ctl |-> AbstractDev[c], host |-> AbstractDev[t.to]],
         away |-> {}, input |-> t.input]]
  <2> DEFINE new == [state |-> "pending", ctl |-> c, host |-> t.to,
                     ctlDev |-> conn[c].dev, hostDev |-> t.host, input |-> t.input,
                     touched |-> 0, ctlGone |-> NoStamp, hostGone |-> NoStamp,
                     reprieved |-> NoStamp]
  <2>1. sess' = [sess EXCEPT ![t.id] = new]
    BY <1>1 DEF ConnectInsert
  <2>2. new # Absent BY DEF Absent
  <2>3. AwaySides(new) = {} BY DEF AwaySides
  <2>4. AbstractSession(new) =
          [state |-> "pending", on |-> [ctl |-> c, host |-> t.to],
           of |-> [ctl |-> AbstractDev[c], host |-> AbstractDev[t.to]],
           away |-> {}, input |-> t.input]
    BY <1>1, <1>2, <2>3 DEF AbstractSession, AbstractDev
  <2>5. ASSUME NEW id \in SessionIds
        PROVE  AbstractLive'[id] =
                 IF id = t.id THEN AbstractSession(new) ELSE AbstractLive[id]
    <3>1. sess'[id] = IF id = t.id THEN new ELSE sess[id] BY <2>1 DEF TypeOK
    <3> HIDE DEF new
    <3> QED BY <2>2, <3>1 DEF AbstractLive, Live
  <2> HIDE DEF new
  <2> QED BY <1>1, <2>4, <2>5 DEF AbstractLive
<1>7. Lifecycle!Connect(c, t.to, t.id, t.input)
  BY <1>1, <1>3, <1>4, <1>5, <1>6 DEF Lifecycle!Connect
<1> QED BY <1>1, <1>7 DEF Lifecycle!ANext

(* An abstract session with one of its ends moved.                           *)
LEMMA MoveEnd ==
    ASSUME NEW a, NEW side, NEW c,
           a = [state |-> a.state, on |-> a.on, of |-> a.of, away |-> a.away,
                input |-> a.input]
    PROVE  [a EXCEPT !.on[side] = c, !.away = @ \ {side}] =
             [state |-> a.state, on |-> [a.on EXCEPT ![side] = c], of |-> a.of,
              away |-> a.away \ {side}, input |-> a.input]
<1> DEFINE st == a.state  of == a.of  input == a.input
           on == [a.on EXCEPT ![side] = c]
           away == a.away \ {side}
           b == [a EXCEPT !.on = on]
<1>1. [a EXCEPT !.on[side] = c, !.away = @ \ {side}] = [b EXCEPT !.away = away]
  OBVIOUS
<1>2. b = [state |-> st, on |-> on, of |-> of, away |-> a.away, input |-> input]
  OBVIOUS
<1> HIDE DEF st, on, of, away, input, b
<1>3. [b EXCEPT !.away = away] =
        [state |-> st, on |-> on, of |-> of, away |-> away, input |-> input]
  BY <1>2
<1> QED BY <1>1, <1>3 DEF st, on, of, away, input

(* An accepting host answers; a reattach returns a side to its device.       *)
LEMMA FrameRefines ==
    ASSUME TypeOK, NEW c \in Conns, NEW id \in SessionIds, Live(id), sess'[id] # Absent,
           Accept(c, id) \/ Reattach(c, id)
    PROVE  Lifecycle!ANext
<1> DEFINE s == sess[id]
<1>1. s \in Session /\ AbstractLive[id] = AbstractSession(s)
  BY SeenIffLive DEF TypeOK, Live
<1>2. UNCHANGED <<AbstractDev, AbstractOpen>>
  BY DEF Accept, Reattach, AbstractDev, AbstractOpen, Served
<1>3. c \in AbstractOpen /\ AbstractDev[c] = conn[c].dev
  BY DEF Accept, Reattach, Free, Up, AbstractOpen, AbstractDev, Served
<1>4. \A k \in SessionIds : AbstractLive'[k] =
         IF k = id THEN AbstractSession(sess'[id]) ELSE AbstractLive[k]
  <2>1. \A k \in SessionIds \ {id} : sess'[k] = sess[k]
    BY DEF Accept, Reattach, TypeOK
  <2> QED BY <2>1 DEF AbstractLive, Live
<1>5. CASE Accept(c, id)
  <2>1. sess'[id] = [s EXCEPT !.state = "active", !.touched = 0]
    BY <1>5 DEF Accept, TypeOK
  <2>2. AwaySides(sess'[id]) = AwaySides(s)
    BY <1>1, <2>1, SessionIsFields DEF AwaySides, Fields
  <2>3. AbstractSession(sess'[id]) = [AbstractSession(s) EXCEPT !.state = "active"]
    BY <1>1, <2>1, <2>2, SessionIsFields DEF AbstractSession, Fields
  <2>4. AbstractLive' = [AbstractLive EXCEPT ![id].state = "active"]
    BY <1>1, <1>4, <2>3 DEF AbstractLive
  <2>5. AbstractLive[id].on.host = c
    BY <1>1, <1>5 DEF Accept, AbstractSession
  <2>6. Lifecycle!Answer(id)
    BY <1>2, <1>3, <2>4, <2>5, SeenIffLive DEF Lifecycle!Answer
  <2> QED BY <2>6 DEF Lifecycle!ANext
<1>6. CASE Reattach(c, id) /\ UNCHANGED sess
  <2>1. AbstractLive' = [k \in SessionIds |->
                           IF k \in {} THEN Lifecycle!None ELSE AbstractLive[k]]
    BY <1>6 DEF AbstractLive, Live
  <2>2. Lifecycle!End({}) BY <1>2, <2>1 DEF Lifecycle!End
  <2> QED BY <2>2 DEF Lifecycle!ANext
<1>7. ASSUME NEW side \in {"ctl", "host"}, s.state = "active",
             (IF side = "ctl" THEN s.ctlDev ELSE s.hostDev) = conn[c].dev,
             sess'[id] = IF side = "ctl"
                         THEN [Touched(s) EXCEPT !.ctl = c, !.ctlGone = NoStamp]
                         ELSE [Touched(s) EXCEPT !.host = c, !.hostGone = NoStamp]
      PROVE  Lifecycle!ANext
  <2>1. Touched(s) \in Fields /\ Alike(s, Touched(s))
    BY <1>1, SessionIsFields DEF Touched, Fields, Stamp, Alike
  <2>2. /\ sess'[id].state = s.state /\ sess'[id].input = s.input
        /\ sess'[id].ctlDev = s.ctlDev /\ sess'[id].hostDev = s.hostDev
        /\ sess'[id].ctl = IF side = "ctl" THEN c ELSE s.ctl
        /\ sess'[id].host = IF side = "ctl" THEN s.host ELSE c
        /\ sess'[id].ctlGone = NoStamp <=> s.ctlGone = NoStamp \/ side = "ctl"
        /\ sess'[id].hostGone = NoStamp <=> s.hostGone = NoStamp \/ side = "host"
    BY <1>7, <2>1, SessionIsFields DEF Fields, Alike
  <2>3. AwaySides(sess'[id]) = AwaySides(s) \ {side}
    BY <2>2 DEF AwaySides
  <2>4. AbstractSession(sess'[id]) =
          [AbstractSession(s) EXCEPT !.on[side] = c, !.away = @ \ {side}]
    <3>1. /\ [AbstractSession(s).on EXCEPT ![side] = c] =
                [ctl |-> sess'[id].ctl, host |-> sess'[id].host]
          /\ AbstractSession(s).away \ {side} = AwaySides(sess'[id])
      <4>1. CASE side = "ctl" BY <2>2, <2>3, <4>1 DEF AbstractSession
      <4>2. CASE side = "host" BY <2>2, <2>3, <4>2 DEF AbstractSession
      <4> QED BY <4>1, <4>2
    <3> DEFINE a == AbstractSession(s)
               b == AbstractSession(sess'[id])
    <3>2. /\ b.state = a.state /\ b.of = a.of /\ b.input = a.input
          /\ b.on = [a.on EXCEPT ![side] = c] /\ b.away = a.away \ {side}
      BY <2>2, <3>1 DEF AbstractSession
    <3>3. b = [state |-> b.state, on |-> b.on, of |-> b.of, away |-> b.away,
               input |-> b.input]
      BY DEF AbstractSession
    <3>4. [a EXCEPT !.on[side] = c, !.away = @ \ {side}] =
             [state |-> a.state, on |-> [a.on EXCEPT ![side] = c], of |-> a.of,
              away |-> a.away \ {side}, input |-> a.input]
      <4>1. a = [state |-> a.state, on |-> a.on, of |-> a.of, away |-> a.away,
                 input |-> a.input]
        BY DEF AbstractSession
      <4> HIDE DEF a
      <4> QED BY <4>1, MoveEnd
    <3> HIDE DEF a, b
    <3>5. b = [a EXCEPT !.on[side] = c, !.away = @ \ {side}]
      BY <3>2, <3>3, <3>4
    <3> QED BY <3>5 DEF a, b
  <2>5. AbstractLive' = [AbstractLive EXCEPT ![id].on[side] = c, ![id].away = @ \ {side}]
    BY <1>1, <1>4, <2>4 DEF AbstractLive
  <2>6. AbstractLive[id].state = "active" /\ AbstractLive[id].of[side] = AbstractDev[c]
    BY <1>1, <1>3, <1>7 DEF AbstractSession
  <2>7. Lifecycle!Return(c, id, side)
    BY <1>2, <1>3, <2>5, <2>6 DEF Lifecycle!Return
  <2> QED BY <2>7 DEF Lifecycle!ANext, Lifecycle!Sides
<1>8. CASE Reattach(c, id) /\ sess' # sess
  <2>1. s.state = "active"
    BY <1>8 DEF Reattach
  <2>2. CASE Claims(c, s.ctlDev)
    <3>1. sess'[id] = [Touched(s) EXCEPT !.ctl = c, !.ctlGone = NoStamp]
      BY <1>8, <2>2 DEF Reattach, TypeOK
    <3> QED BY <1>7, <2>1, <2>2, <3>1 DEF Claims
  <2>3. CASE ~Claims(c, s.ctlDev)
    <3>1. /\ Claims(c, s.hostDev)
          /\ sess'[id] = [Touched(s) EXCEPT !.host = c, !.hostGone = NoStamp]
      BY <1>8, <2>3 DEF Reattach, TypeOK
    <3> QED BY <1>7, <2>1, <3>1 DEF Claims
  <2> QED BY <2>2, <2>3
<1> QED BY <1>5, <1>6, <1>8

-----------------------------------------------------------------------------
(* An attempt's id names no session yet, and no other attempt has it.        *)
Attempting(c) == task[c].at \in {"asked", "superseded", "counted"}
Attempts ==
    \A c \in Conns : Attempting(c) =>
        /\ ~Live(task[c].id)
        /\ \A k \in Conns \ {c} : Attempting(k) => task[k].id # task[c].id

LEMMA AttemptsInit == Init => Attempts
BY DEF Init, Attempts, Attempting, Idle

(* Only asking begins an attempt, and only its insertion makes its session.  *)
LEMMA AttemptsStep ==
    ASSUME TypeOK, Attempts, [Next]_vars
    PROVE  Attempts'
<1>1. ASSUME \A k \in Conns : Attempting(k)' => Attempting(k) /\ task'[k].id = task[k].id,
             \A k \in Conns : Attempting(k)' /\ Live(task[k].id)' => Live(task[k].id)
      PROVE  Attempts'
  BY <1>1 DEF Attempts
<1>2. ASSUME NEW c \in Conns, NEW h \in Devices, NEW id \in SessionIds, ConnectAsk(c, h, id)
      PROVE  Attempts'
  <2>1. \A k \in Conns : Attempting(k) => task[k].id # id
    <3>1. \A k \in Conns : Attempting(k) => "id" \in DOMAIN task[k]
      BY DEF TypeOK, Task, Idle, Attempting
    <3> QED BY <1>2, <3>1 DEF ConnectAsk, FreshId
  <2>2. ~Live(id) /\ sess' = sess BY <1>2 DEF ConnectAsk, FreshId
  <2>3. CASE task' = task BY <1>1, <2>2, <2>3 DEF Attempting, Live
  <2>4. CASE task' # task
    <3>1. \A k \in Conns : IF k = c THEN task'[k].id = id ELSE task'[k] = task[k]
      BY <1>2, <2>4 DEF ConnectAsk, TypeOK
    <3> QED BY <2>1, <2>2, <3>1 DEF Attempts, Attempting, Live
  <2> QED BY <2>3, <2>4
<1>3. ASSUME NEW c \in Conns, ConnectSupersede(c) \/ ConnectCount(c) \/ DeclineRemove(c)
                                 \/ EndRemove(c) \/ ConnectInsert(c)
      PROVE  Attempts'
  <2>1. ASSUME NEW k \in Conns, Attempting(k)'
        PROVE  Attempting(k) /\ task'[k].id = task[k].id
    <3>1. CASE ConnectSupersede(c)
      BY <2>1, <3>1 DEF ConnectSupersede, At, Attempting, TypeOK, Task, Idle
    <3>2. CASE ConnectCount(c)
      BY <2>1, <3>2 DEF ConnectCount, At, Attempting, TypeOK, Task, Idle
    <3>3. CASE DeclineRemove(c) \/ EndRemove(c)
      BY <2>1, <3>3 DEF DeclineRemove, EndRemove, Attempting, TypeOK, Idle
    <3>4. CASE ConnectInsert(c)
      <4>1. /\ \A j \in Conns : ~(j \in Rivals(c, task[c].host)) /\ j # c => task'[j] = task[j]
            /\ \A j \in Rivals(c, task[c].host) :
                  task'[j] = [task[j] EXCEPT !.overtaken = TRUE]
            /\ task'[c] = Idle
        BY <3>4 DEF ConnectInsert, Rivals
      <4>2. CASE k \in Rivals(c, task[c].host)
        <5>1. task[k] \in [at : {"counted"}, id : SessionIds, host : Devices, input : BOOLEAN,
                           to : Conns, overtaken : BOOLEAN]
          BY <4>2 DEF Rivals, TypeOK, Task, Idle
        <5> QED BY <4>1, <4>2, <5>1 DEF Attempting
      <4>3. CASE k \notin Rivals(c, task[c].host)
        BY <2>1, <4>1, <4>3 DEF Attempting, Idle
      <4> QED BY <4>2, <4>3
    <3> QED BY <1>3, <3>1, <3>2, <3>3, <3>4
  <2>2. CASE ConnectInsert(c)
    <3>1. Attempting(c) /\ ~Attempting(c)'
      BY <2>2 DEF ConnectInsert, At, Attempting, TypeOK, Idle
    <3>2. ASSUME NEW k \in Conns, Attempting(k)' PROVE task[k].id # task[c].id
      BY <2>1, <3>1, <3>2 DEF Attempts
    <3>3. \A k \in Conns : Attempting(k)' => (Live(task[k].id)' => Live(task[k].id))
      BY <2>2, <3>2 DEF ConnectInsert, Live
    <3> QED BY <1>1, <2>1, <3>3
  <2>3. CASE ~ConnectInsert(c)
    <3>1. \A k \in Conns : Attempting(k) => task[k].id \in SessionIds
      BY DEF TypeOK, Task, Idle, Attempting
    <3>2. \A id \in SessionIds : Live(id)' => Live(id)
      BY <1>3, <2>3 DEF ConnectSupersede, ConnectCount, DeclineRemove, EndRemove, Live, TypeOK
    <3> QED BY <1>1, <2>1, <3>1, <3>2
  <2> QED BY <2>2, <2>3
<1>4. ASSUME task' = task, \A id \in SessionIds : Live(id)' => Live(id)
      PROVE  Attempts'
  <2>1. \A k \in Conns : Attempting(k) => task[k].id \in SessionIds
    BY DEF TypeOK, Task, Idle, Attempting
  <2> QED BY <1>1, <1>4, <2>1 DEF Attempting
<1>5. ASSUME NEW c \in Conns, Attest(c) \/ Close(c) \/ DropSessions(c) \/ Unregister(c)
      PROVE  Attempts'
  BY <1>4, <1>5 DEF Attest, Close, DropSessions, Unregister, Live, Detached, Absent
<1>6. ASSUME NEW c \in Conns, Arrive(c) \/ Register(c) \/ Panic(c)
      PROVE  Attempts'
  <2>1. \A k \in Conns : Attempting(k)' => Attempting(k) /\ task'[k].id = task[k].id
    BY <1>6 DEF Arrive, Register, Panic, Attempting, TypeOK, Idle
  <2> QED BY <1>1, <1>6, <2>1 DEF Arrive, Register, Panic, Live
<1>7. ASSUME NEW c \in Conns, NEW id \in SessionIds,
             Accept(c, id) \/ Signal(c, id) \/ Input(c, id) \/ Reattach(c, id)
      PROVE  Attempts'
  <2>1. Live(id) \/ UNCHANGED sess
    BY <1>7 DEF Accept, Signal, Input, Reattach, Live, Absent
  <2>2. \A k \in SessionIds \ {id} : sess'[k] = sess[k]
    BY <1>7 DEF Accept, Signal, Input, Reattach, TypeOK
  <2>3. task' = task BY <1>7 DEF Accept, Signal, Input, Reattach
  <2> QED BY <1>4, <2>1, <2>2, <2>3 DEF Live
<1>8. ASSUME NEW c \in Conns, NEW id \in SessionIds, DeclineRead(c, id) \/ EndRead(c, id)
      PROVE  Attempts'
  <2>1. \A k \in Conns : Attempting(k)' => Attempting(k) /\ task'[k].id = task[k].id
    BY <1>8 DEF DeclineRead, EndRead, Attempting, TypeOK
  <2> QED BY <1>1, <1>8, <2>1 DEF DeclineRead, EndRead, Live
<1>9. CASE Tick \/ Reap \/ \E p \in Shareable : EndShareSessions(p)
  BY <1>4, <1>9 DEF Tick, Reap, EndShareSessions, Live, TypeOK
<1>10. CASE \/ \E p \in Shareable, caps \in ShareCaps : GrantShare(p, caps)
            \/ \E p \in Shareable : WithdrawShare(p)
            \/ UNCHANGED vars
  BY <1>4, <1>10 DEF GrantShare, WithdrawShare, vars, Live
<1> QED
  BY <1>2, <1>3, <1>5, <1>6, <1>7, <1>8, <1>9, <1>10 DEF Next, Begin, Continue, Cleanup

-----------------------------------------------------------------------------
LEMMA RemovalRefines ==
    ASSUME conn' = conn, NEW ids \in SUBSET SessionIds,
           \A id \in ids : sess'[id] = Absent,
           \A id \in SessionIds \ ids :
               \/ sess'[id] = sess[id]
               \/ Live(id) /\ sess'[id] # Absent /\ Alike(sess[id], sess'[id])
    PROVE  Lifecycle!ANext
<1>1. AbstractDev' = AbstractDev /\ AbstractOpen' = AbstractOpen
  BY DEF AbstractDev, AbstractOpen, Served
<1>2. \A id \in SessionIds :
         /\ id \in ids => sess'[id] = Absent
         /\ id \notin ids /\ ~Live(id) => sess'[id] = Absent
         /\ id \notin ids /\ Live(id) => sess'[id] # Absent /\ Alike(sess[id], sess'[id])
  BY AlikeRefl DEF Live
<1> QED BY <1>1, <1>2, EndRefines

(* Every step maps to a step of the promise, or to none.                     *)
LEMMA StepRefines ==
    ASSUME IInv, Attempts, [Next]_vars
    PROVE  [Lifecycle!ANext]_Lifecycle!avars
<1>0. TypeOK /\ Placed /\ Aimed /\ RoutedToOwnDevices BY DEF IInv
<1>1. CASE \E c \in Conns : Arrive(c) \/ Register(c) \/ Attest(c) \/ Close(c)
                              \/ Panic(c) \/ Unregister(c)
  BY <1>0, <1>1, SocketRefines
<1>2. CASE \E c \in Conns : DropSessions(c)
  BY <1>0, <1>2, DropRefines
<1>3. CASE \E c \in Conns : ConnectInsert(c)
  <2>1. PICK c \in Conns : ConnectInsert(c) BY <1>3
  <2>2. ~Live(task[c].id) BY <2>1 DEF Attempts, Attempting, ConnectInsert, At
  <2> QED BY <1>0, <2>1, <2>2, InsertRefines
<1>4. ASSUME conn' = conn,
             \A id \in SessionIds :
                 \/ sess'[id] = sess[id]
                 \/ Live(id) /\ sess'[id] # Absent /\ Alike(sess[id], sess'[id])
      PROVE  Lifecycle!ANext
  <2>1. {} \in SUBSET SessionIds /\ SessionIds \ {} = SessionIds OBVIOUS
  <2>2. \A id \in SessionIds \ {} :
           \/ sess'[id] = sess[id]
           \/ Live(id) /\ sess'[id] # Absent /\ Alike(sess[id], sess'[id])
    BY <1>4
  <2>3. \A id \in {} : sess'[id] = Absent OBVIOUS
  <2> QED BY <1>4, <2>1, <2>2, <2>3, RemovalRefines
<1>5. ASSUME NEW c \in Conns, NEW id \in SessionIds, Accept(c, id) \/ Reattach(c, id)
      PROVE  Lifecycle!ANext
  <2>1. CASE Live(id)
    <3>1. sess'[id] # Absent
      <4>1. sess[id] \in Session BY <1>0, <2>1 DEF TypeOK, Live
      <4>2. sess'[id] = sess[id] \/ sess'[id].state \in {"pending", "active"}
        <5>1. CASE Accept(c, id)
          BY <1>0, <4>1, <5>1, SessionIsFields DEF Accept, TypeOK, Fields
        <5>2. CASE Reattach(c, id)
          <6>1. \/ UNCHANGED sess
                \/ sess'[id] = [Touched(sess[id]) EXCEPT !.ctl = c, !.ctlGone = NoStamp]
                \/ sess'[id] = [Touched(sess[id]) EXCEPT !.host = c, !.hostGone = NoStamp]
            BY <1>0, <5>2 DEF Reattach, TypeOK
          <6>2. Touched(sess[id]).state = sess[id].state BY <4>1, SessionIsFields DEF Touched, Fields
          <6>3. Touched(sess[id]) \in Fields BY <4>1, SessionIsFields DEF Touched, Fields, Stamp
          <6> QED BY <6>1, <6>2, <6>3, SessionIsFields DEF Fields
        <5> QED BY <1>5, <5>1, <5>2
      <4> QED BY <2>1, <4>2 DEF Live, Absent
    <3> QED BY <1>0, <1>5, <2>1, <3>1, FrameRefines
  <2>2. CASE ~Live(id)
    <3>1. conn' = conn /\ sess' = sess BY <1>5, <2>2 DEF Accept, Reattach, Live, Absent
    <3> QED BY <1>4, <3>1
  <2> QED BY <2>1, <2>2
<1>6. ASSUME NEW c \in Conns, NEW id \in SessionIds, Signal(c, id) \/ Input(c, id)
      PROVE  Lifecycle!ANext
  <2>1. Live(id) /\ sess[id] \in Session /\ sess'[id] = Touched(sess[id])
    BY <1>0, <1>6 DEF Signal, Input, Live, TypeOK
  <2>2. sess'[id].state = sess[id].state /\ Alike(sess[id], sess'[id])
    BY <2>1, SessionIsFields DEF Touched, Fields, Alike
  <2>3. sess'[id] # Absent BY <2>1, <2>2, SessionIsFields DEF Fields, Absent
  <2>4. \A k \in SessionIds \ {id} : sess'[k] = sess[k]
    BY <1>0, <1>6 DEF Signal, Input, TypeOK
  <2>5. conn' = conn BY <1>6 DEF Signal, Input
  <2> QED BY <1>4, <2>1, <2>2, <2>3, <2>4, <2>5
<1>7. ASSUME NEW ids \in SUBSET SessionIds, conn' = conn,
             \A id \in SessionIds : sess'[id] = IF id \in ids THEN Absent ELSE sess[id]
      PROVE  Lifecycle!ANext
  BY <1>7, RemovalRefines
<1>8. CASE \E c \in Conns : ConnectSupersede(c)
  <2>1. PICK c \in Conns : ConnectSupersede(c) BY <1>8
  <2>2. conn' = conn /\ \E ids \in SUBSET SessionIds :
           \A id \in SessionIds : sess'[id] = IF id \in ids THEN Absent ELSE sess[id]
    <3>1. CASE UNCHANGED sess
      <4>1. \A id \in SessionIds : sess'[id] = IF id \in {} THEN Absent ELSE sess[id]
        BY <3>1
      <4>2. {} \in SUBSET SessionIds OBVIOUS
      <4> QED BY <2>1, <4>1, <4>2, Zenon DEF ConnectSupersede
    <3>2. ASSUME NEW old \in SessionIds, sess' = [sess EXCEPT ![old] = Absent]
          PROVE  \A id \in SessionIds : sess'[id] = IF id \in {old} THEN Absent ELSE sess[id]
      BY <1>0, <3>2 DEF TypeOK
    <3>3. \/ UNCHANGED sess
          \/ \E old \in SessionIds : sess' = [sess EXCEPT ![old] = Absent]
      BY <2>1 DEF ConnectSupersede
    <3> QED BY ZenonT(40), <2>1, <3>1, <3>2, <3>3 DEF ConnectSupersede
  <2> QED BY <1>7, <2>2
<1>9. ASSUME NEW c \in Conns, DeclineRemove(c) \/ EndRemove(c)
      PROVE  Lifecycle!ANext
  <2>1. task[c].id \in SessionIds
    BY <1>0, <1>9 DEF DeclineRemove, EndRemove, At, TypeOK, Task, Idle
  <2>2. \A id \in SessionIds : sess'[id] = IF id \in {task[c].id} THEN Absent ELSE sess[id]
    BY <1>0, <1>9, <2>1 DEF DeclineRemove, EndRemove, TypeOK
  <2>3. conn' = conn BY <1>9 DEF DeclineRemove, EndRemove
  <2> QED BY <1>7, <2>1, <2>2, <2>3
<1>10. ASSUME NEW p \in Shareable, EndShareSessions(p)
       PROVE  Lifecycle!ANext
  BY <1>7, <1>10 DEF EndShareSessions
<1>11. CASE Tick
  <2>1. ASSUME NEW id \in SessionIds, Live(id)
        PROVE  sess'[id] # Absent /\ Alike(sess[id], sess'[id])
    <3>1. sess[id] \in Session BY <1>0, <2>1 DEF TypeOK, Live
    <3>2. /\ sess'[id].state = sess[id].state /\ sess'[id].ctl = sess[id].ctl
          /\ sess'[id].host = sess[id].host /\ sess'[id].ctlDev = sess[id].ctlDev
          /\ sess'[id].hostDev = sess[id].hostDev /\ sess'[id].input = sess[id].input
          /\ sess'[id].ctlGone = Older(sess[id].ctlGone, DetachGrace)
          /\ sess'[id].hostGone = Older(sess[id].hostGone, DetachGrace)
      BY <1>11, <2>1, <3>1, SessionIsFields DEF Tick, Fields
    <3>3. \A g \in Stamp : Older(g, DetachGrace) = NoStamp <=> g = NoStamp
      BY ClockAssumption DEF Older, Stamp
    <3> QED BY <3>1, <3>2, <3>3, SessionIsFields DEF Alike, Fields, Absent
  <2>2. \A id \in SessionIds : ~Live(id) => sess'[id] = sess[id]
    BY <1>11 DEF Tick, Live
  <2>3. conn' = conn BY <1>11 DEF Tick
  <2> QED BY <1>4, <2>1, <2>2, <2>3
<1>12. CASE Reap
  <2> DEFINE ids == {id \in SessionIds : Live(id) /\ Expired(sess[id])}
  <2>1. ASSUME NEW id \in SessionIds \ ids, Live(id)
        PROVE  sess'[id] # Absent /\ Alike(sess[id], sess'[id])
    <3>1. sess[id] \in Session BY <1>0, <2>1 DEF TypeOK, Live
    <3>2. sess'[id] = Spared(sess[id]) BY <1>12, <2>1 DEF Reap
    <3>3. /\ sess'[id].state = sess[id].state
          /\ Alike(sess[id], sess'[id])
      BY <3>1, <3>2, SessionIsFields DEF Spared, Fields, Alike
    <3> QED BY <3>1, <3>3, SessionIsFields DEF Fields, Absent
  <2>2. \A id \in SessionIds \ ids : ~Live(id) => sess'[id] = sess[id]
    BY <1>12 DEF Reap, Live
  <2>3. conn' = conn /\ \A id \in ids : sess'[id] = Absent BY <1>12 DEF Reap
  <2> QED BY <2>1, <2>2, <2>3, RemovalRefines
<1>13. CASE \/ \E c \in Conns : ConnectCount(c)
            \/ \E c \in Conns, h \in Devices, id \in SessionIds : ConnectAsk(c, h, id)
            \/ \E c \in Conns, id \in SessionIds : DeclineRead(c, id) \/ EndRead(c, id)
            \/ \E p \in Shareable, caps \in ShareCaps : GrantShare(p, caps)
            \/ \E p \in Shareable : WithdrawShare(p)
            \/ UNCHANGED vars
  <2>1. conn' = conn /\ sess' = sess
    BY <1>13 DEF ConnectCount, ConnectAsk, DeclineRead, EndRead, GrantShare, WithdrawShare, vars
  <2> QED BY <1>4, <2>1
<1> QED
  BY <1>1, <1>2, <1>3, <1>5, <1>6, <1>8, <1>9, <1>10, <1>11, <1>12, <1>13
     DEF Next, Begin, Continue, Cleanup

(* The relay, with its split handlers, cleanups, clocks and withdrawals,     *)
(* does to sessions only what the atomic one does.                           *)
THEOREM Refinement == Spec => ImplementsLifecycle
<1>1. Init => Lifecycle!AInit BY InitRefines
<1>2. TypeOK /\ Attempts /\ [Next]_vars => Attempts' BY AttemptsStep
<1>3. IInv => TypeOK BY DEF IInv
<1>4. IInv /\ Attempts /\ [Next]_vars => [Lifecycle!ANext]_Lifecycle!avars BY StepRefines
<1> QED
  BY <1>1, <1>2, <1>3, <1>4, AttemptsInit, Invariance, PTL
     DEF Spec, ImplementsLifecycle, Lifecycle!ASpec
=============================================================================
