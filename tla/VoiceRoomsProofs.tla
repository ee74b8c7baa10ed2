------------------------- MODULE VoiceRoomsProofs -------------------------
(* Proofs about VoiceRooms, for every set of rooms, every account, session  *)
(* and socket, and however many events.                                     *)
EXTENDS VoiceRooms, FiniteSetTheorems, TLAPS

-----------------------------------------------------------------------------
(* One room.                                                                 *)

Held(rm) == rm.member \cup rm.stream \cup rm.share
In1(rm, u) == OfUser(rm.member, u) # {}
Speaks1(rm, u) == OfUser(rm.stream, u) # {}

\* A user who is in the room before and after does not fall silent.
VoiceKept(old, new, u) ==
    In1(old, u) /\ In1(new, u) /\ Speaks1(old, u) => Speaks1(new, u)

(* Taking a user out of a room adds nobody to it, and costs nobody who stays *)
(* their voice.                                                              *)
LEMMA UserOut ==
    ASSUME NEW rm \in Room, NEW u
    PROVE  LET new == Settled(WithoutUser(rm, u))
           IN  /\ new \in Room /\ Held(new) \subseteq Held(rm)
               /\ \A v : VoiceKept(rm, new, v)
<1> DEFINE wo == WithoutUser(rm, u)
<1>1. wo \in Room /\ Held(wo) \subseteq Held(rm)
  BY DEF WithoutUser, OfUser, Room, Held
<1>2. \A v : VoiceKept(rm, wo, v)
  BY DEF VoiceKept, In1, Speaks1, WithoutUser, OfUser
<1>3. NoRoom \in Room /\ Held(NoRoom) = {} /\ \A v : ~In1(NoRoom, v)
  BY DEF NoRoom, Room, Held, In1, OfUser
<1> HIDE DEF wo
<1>4. Settled(wo) = wo \/ Settled(wo) = NoRoom
  BY DEF Settled
<1>5. /\ Settled(wo) \in Room /\ Held(Settled(wo)) \subseteq Held(rm)
      /\ \A v : VoiceKept(rm, Settled(wo), v)
  BY <1>1, <1>2, <1>3, <1>4 DEF VoiceKept
<1> QED BY <1>5 DEF wo

(* So does taking out some sockets of a user; and those are out.             *)
LEMMA SocketsOut ==
    ASSUME NEW rm \in Room, NEW u, NEW S, \A c \in S : UserOf(c) = u
    PROVE  LET new == Settled(WithoutConns(rm, S, u))
           IN  /\ new \in Room /\ Held(new) \subseteq Held(rm) \ S
               /\ \A v : VoiceKept(rm, new, v)
<1> DEFINE heirs == OfUser(rm.member, u) \ S
           voice == OfUser(rm.stream, u)
           less == [member |-> rm.member \ S,
                    stream |-> (rm.stream \ S)
                        \cup (IF voice # {} /\ voice \subseteq S THEN heirs ELSE {}),
                    share |-> rm.share \ S]
           wo == WithoutConns(rm, S, u)
<1>1. CASE In1(rm, u) /\ heirs = {}
  <2>1. wo = WithoutUser(rm, u)
    BY <1>1 DEF In1, WithoutConns
  <2>2. Settled(wo) \in Room /\ \A v : VoiceKept(rm, Settled(wo), v)
    BY <2>1, UserOut
  <2>3. wo.member = rm.member \ OfUser(rm.member, u)
        /\ wo.stream = rm.stream \ OfUser(rm.stream, u)
        /\ wo.share = rm.share \ OfUser(rm.share, u)
    BY <2>1 DEF WithoutUser
  <2>4. Held(wo) \subseteq Held(rm) \ S
    BY <2>3 DEF Held, OfUser
  <2>5. Held(Settled(wo)) \subseteq Held(rm) \ S
    BY <2>4 DEF Settled, NoRoom, Held
  <2> QED BY <2>2, <2>5
<1>2. CASE ~(In1(rm, u) /\ heirs = {})
  <2>1. wo = less
    BY <1>2 DEF In1, WithoutConns
  <2>2. heirs \subseteq rm.member \ S
    BY DEF OfUser
  <2>3. less \in Room /\ Held(less) \subseteq Held(rm) \ S
    BY <2>2 DEF Room, Held
  <2>4. \A v : VoiceKept(rm, less, v)
    <3> SUFFICES ASSUME NEW v, In1(rm, v), Speaks1(rm, v) PROVE Speaks1(less, v)
      BY DEF VoiceKept
    <3>1. CASE v # u
      <4>1. PICK c \in rm.stream : UserOf(c) = v BY DEF Speaks1, OfUser
      <4>2. c \in less.stream BY <3>1, <4>1
      <4> QED BY <4>1, <4>2 DEF Speaks1, OfUser
    <3>2. CASE v = u /\ voice \subseteq S
      <4>1. PICK c \in heirs : TRUE BY <1>2, <3>2
      <4>2. voice # {} BY <3>2 DEF Speaks1
      <4>3. c \in less.stream /\ UserOf(c) = u BY <3>2, <4>1, <4>2 DEF OfUser
      <4> QED BY <3>2, <4>3 DEF Speaks1, OfUser
    <3>3. CASE v = u /\ ~(voice \subseteq S)
      <4>1. PICK c \in voice : c \notin S BY <3>3
      <4>2. c \in less.stream /\ UserOf(c) = u BY <4>1 DEF OfUser
      <4> QED BY <3>3, <4>2 DEF Speaks1, OfUser
    <3> QED BY <3>1, <3>2, <3>3
  <2>5. NoRoom \in Room /\ Held(NoRoom) = {} /\ \A v : ~In1(NoRoom, v)
    BY DEF NoRoom, Room, Held, In1, OfUser
  <2> HIDE DEF less, heirs, voice, wo
  <2>6. Settled(wo) = less \/ Settled(wo) = NoRoom
    BY <2>1 DEF Settled
  <2>7. /\ Settled(wo) \in Room /\ Held(Settled(wo)) \subseteq Held(rm) \ S
        /\ \A v : VoiceKept(rm, Settled(wo), v)
    BY <2>3, <2>4, <2>5, <2>6 DEF VoiceKept
  <2> QED BY <2>7 DEF wo
<1> QED BY <1>1, <1>2

-----------------------------------------------------------------------------
(* How a step changes a room.                                                *)

PutOut(r) == \E u : rooms'[r] = Settled(WithoutUser(rooms[r], u))
TakenOut(r) ==
    \E u : \E S \in SUBSET Conns :
        (\A c \in S : UserOf(c) = u) /\ rooms'[r] = Settled(WithoutConns(rooms[r], S, u))
Added(r) ==
    \E c \in Conns, k \in {"member", "stream", "share"} :
        /\ Registered(c) /\ rooms'[r] = [rooms[r] EXCEPT ![k] = @ \cup {c}]
        /\ k = "member" \/ rooms[r].member # {}
Stopped(r) ==
    \E c \in Conns, k \in Kinds :
        StopClear(c) /\ rooms'[r] = [rooms[r] EXCEPT ![k] = @ \ OfUser(@, UserOf(c))]

\* A room stays, loses a user or some sockets of a user, gains a registered
\* socket as a member or, if somebody is in it, a claim, or loses a user's claims to their stop.
Turned(r) == rooms'[r] = rooms[r] \/ PutOut(r) \/ TakenOut(r) \/ Added(r) \/ Stopped(r)
RoomsTurn == rooms' = [r \in Rooms |-> rooms'[r]] /\ \A r \in Rooms : Turned(r)

(* A socket has a session, and a session a user.                             *)
LEMMA Owners ==
    ASSUME NEW c \in Conns
    PROVE  Sid[c] \in Sessions /\ UserOf(c) \in Users
BY VoiceAssumption DEF Conns, Sessions, Users, UserOf

(* What a handler holds at each of its awaits.                               *)
LEMMA TaskShapes ==
    ASSUME TypeOK, NEW c \in Conns
    PROVE  LET t == task[c] IN
           /\ t.at = "gate" => t \in [at : {"gate"}, room : Rooms, mode : Modes]
           /\ t.at = "vacating" =>
                t \in [at : {"vacating"}, room : Rooms, mode : Modes, left : SUBSET Rooms,
                       old : Rooms, held : SUBSET Conns]
           /\ t.at = "vacated" =>
                t \in [at : {"vacated"}, room : Rooms, mode : Modes, left : SUBSET Rooms]
           /\ t.at = "recheck" =>
                t \in [at : {"recheck"}, room : Rooms, mode : Modes, known : BOOLEAN]
           /\ t.at \in {"displaced", "moved"} =>
                t \in [at : {"displaced", "moved"}, room : Rooms, mode : {"takeover", "leave"},
                       gone : SUBSET Conns]
           /\ t.at \in {"starting", "confirming", "stopping"} =>
                t \in [at : {"starting", "confirming", "stopping"}, room : Rooms, kind : Kinds]
BY DEF TypeOK, Task, Idle

(* A join's entry, once nothing is left to vacate.                           *)
LEMMA AdvanceTurns ==
    ASSUME TypeOK, NEW c \in Conns, Registered(c), task[c].room \in Rooms, NEW L, Advance(c, L)
    PROVE  RoomsTurn
<1>1. CASE UNCHANGED rooms
  BY <1>1 DEF RoomsTurn, Turned, TypeOK
<1>2. CASE rooms' = [rooms EXCEPT ![task[c].room].member = @ \cup {c}]
  <2>1. Added(task[c].room)
    BY <1>2 DEF Added, TypeOK, Room
  <2> QED BY <1>2, <2>1 DEF RoomsTurn, Turned, TypeOK
<1> QED BY <1>1, <1>2 DEF Advance

(* The end of a join: the voice claim.                                       *)
LEMMA ClaimTurns ==
    ASSUME TypeOK, NEW c \in Conns, Registered(c), NEW r \in Rooms,
           rooms' = [rooms EXCEPT ![r] = Claimed(@, c)]
    PROVE  RoomsTurn
<1>1. Turned(r)
  <2>1. rooms'[r] = Claimed(rooms[r], c) BY DEF TypeOK
  <2>2. CASE rooms'[r] = rooms[r]
    BY <2>2 DEF Turned
  <2>3. CASE rooms[r].member # {} /\ rooms'[r] = [rooms[r] EXCEPT !.stream = @ \cup {c}]
    BY <2>3 DEF Turned, Added
  <2> QED BY <2>1, <2>2, <2>3 DEF Claimed
<1> QED BY <1>1 DEF RoomsTurn, Turned, TypeOK

(* A displacement, an eviction.                                              *)
LEMMA OutTurns ==
    ASSUME TypeOK, NEW r \in Rooms, NEW u,
           \/ rooms' = [rooms EXCEPT ![r] = Settled(WithoutUser(@, u))]
           \/ \E S \in SUBSET Conns :
                /\ \A k \in S : UserOf(k) = u
                /\ rooms' = [rooms EXCEPT ![r] = Settled(WithoutConns(@, S, u))]
    PROVE  RoomsTurn
<1>1. PutOut(r) \/ TakenOut(r)
  BY DEF PutOut, TakenOut, TypeOK
<1> QED BY <1>1 DEF RoomsTurn, Turned, TypeOK

(* The displacement of the account's other sockets.                          *)
LEMMA DisplaceTurns ==
    ASSUME TypeOK, NEW c \in Conns, NEW r \in Rooms, NEW mode, Displace(c, r, mode)
    PROVE  RoomsTurn
<1>1. rooms' = [rooms EXCEPT ![r] = Settled(WithoutConns(@, Displaced(c, r), UserOf(c)))]
  BY DEF Displace
<1>2. Displaced(c, r) \in SUBSET Conns /\ \A k \in Displaced(c, r) : UserOf(k) = UserOf(c)
  BY DEF Displaced, OfUser, TypeOK, Room
<1> QED BY <1>1, <1>2, OutTurns

(* Every step of the program changes a room in one of these ways.            *)
LEMMA HowRoomsChange ==
    ASSUME TypeOK, [Next]_vars
    PROVE  RoomsTurn
<1>1. ASSUME UNCHANGED rooms PROVE RoomsTurn
  BY <1>1 DEF RoomsTurn, Turned, TypeOK
<1>2. ASSUME NEW c \in Conns, Disconnect(c) PROVE RoomsTurn
  <2>1. \A r \in Rooms : TakenOut(r)
    BY <1>2 DEF Disconnect, TakenOut, WithoutConn
  <2> QED BY <1>2, <2>1 DEF Disconnect, RoomsTurn, Turned
<1>3. ASSUME NEW c \in Conns, NEW r \in Rooms, Request(c, r) PROVE RoomsTurn
  <2>1. CASE Leave(c, r)
    BY <2>1, OutTurns DEF Leave, WithoutConn
  <2>2. CASE LeaveOwnVoice(c, r)
    <3>1. CASE Displace(c, r, "leave")
      BY <3>1, DisplaceTurns
    <3> QED BY <1>1, <2>2, <3>1 DEF LeaveOwnVoice
  <2> QED BY <1>1, <1>3, <2>1, <2>2 DEF Request, Replay, Join, StartAsk, StopAsk
<1>4. ASSUME NEW c \in Conns, Continue(c) PROVE RoomsTurn
  <2>1. CASE VacateNext(c)
    BY <2>1, AdvanceTurns, TaskShapes DEF VacateNext, At
  <2>2. CASE VacateOld(c)
    BY <2>2, OutTurns, TaskShapes DEF VacateOld, At
  <2>3. CASE RecheckRefuses(c)
    BY <2>3, OutTurns, TaskShapes DEF RecheckRefuses, At, WithoutConn
  <2>4. CASE RecheckAllows(c)
    BY <2>4, ClaimTurns, TaskShapes DEF RecheckAllows, Finish, At
  <2>5. CASE MoveHere(c)
    BY <2>5, TaskShapes, DisplaceTurns DEF MoveHere, At
  <2>6. CASE Moved(c)
    BY <1>1, <2>6, ClaimTurns, TaskShapes DEF Moved, Finish, At
  <2>7. CASE StartSet(c)
    <3>1. task[c].room \in Rooms /\ task[c].kind \in Kinds /\ Registered(c)
      BY <2>7, TaskShapes DEF StartSet, At
    <3>2. CASE /\ rooms[task[c].room].member # {}
               /\ rooms' = [rooms EXCEPT ![task[c].room][task[c].kind] = @ \cup {c}]
      <4>1. Added(task[c].room)
        BY <3>1, <3>2 DEF Added, TypeOK, Kinds
      <4> QED BY <3>1, <3>2, <4>1 DEF RoomsTurn, Turned, TypeOK
    <3> QED BY <1>1, <2>7, <3>2 DEF StartSet
  <2>8. CASE StopClear(c)
    <3>1. task[c].room \in Rooms /\ task[c].kind \in Kinds
      BY <2>8, TaskShapes DEF StopClear, At
    <3>2. rooms' = [rooms EXCEPT ![task[c].room][task[c].kind] = @ \ OfUser(@, UserOf(c))]
      BY <2>8 DEF StopClear
    <3>3. Stopped(task[c].room)
      BY <2>8, <3>1, <3>2 DEF Stopped, TypeOK
    <3> QED BY <3>1, <3>2, <3>3 DEF RoomsTurn, Turned, TypeOK
  <2> QED BY <1>1, <1>4, <2>1, <2>2, <2>3, <2>4, <2>5, <2>6, <2>7, <2>8
          DEF Continue, GateAllows, GateRefuses, DisplacedLate, StartConfirm, Denied
<1>5. ASSUME NEW e \in evicting, Evict(e) PROVE RoomsTurn
  <2>1. e.room \in Rooms BY <1>5 DEF TypeOK, Eviction
  <2> QED BY <1>5, <2>1, OutTurns DEF Evict
<1> QED BY <1>1, <1>2, <1>3, <1>4, <1>5
        DEF Next, vars, Socket, Connect, FallSilent, EvictAsk, TombstoneExpires, DropExpires

(* Rooms stay rooms, and nobody who stays in one falls silent but by a stop. *)
LEMMA TurnedRoom ==
    ASSUME TypeOK, RoomsTurn, NEW r \in Rooms
    PROVE  /\ rooms'[r] \in Room
           /\ \A u : VoiceKept(rooms[r], rooms'[r], u) \/ \E c \in Conns : UserOf(c) = u /\ StopClear(c)
           /\ Held(rooms'[r]) \subseteq Held(rooms[r]) \cup {c \in Conns : Registered(c)}
           /\ rooms'[r].member = {} => rooms'[r] = NoRoom
<1>1. rooms[r] \in Room /\ Turned(r)
  BY DEF TypeOK, RoomsTurn
<1>2. CASE rooms'[r] = rooms[r]
  BY <1>1, <1>2 DEF VoiceKept, TypeOK
<1>3. CASE PutOut(r)
  <2>1. rooms'[r].member = {} => rooms'[r] = NoRoom
    BY <1>3 DEF PutOut, Settled
  <2> QED BY <1>1, <1>3, <2>1, UserOut DEF PutOut
<1>4. CASE TakenOut(r)
  <2>1. rooms'[r].member = {} => rooms'[r] = NoRoom
    BY <1>4 DEF TakenOut, Settled
  <2> QED BY <1>1, <1>4, <2>1, SocketsOut DEF TakenOut
<1>5. CASE Added(r)
  <2>1. PICK c \in Conns, k \in {"member", "stream", "share"} :
            /\ Registered(c) /\ rooms'[r] = [rooms[r] EXCEPT ![k] = @ \cup {c}]
            /\ k = "member" \/ rooms[r].member # {}
    BY <1>5 DEF Added
  <2>2. rooms'[r] \in Room /\ Held(rooms'[r]) \subseteq Held(rooms[r]) \cup {c}
        /\ rooms[r].stream \subseteq rooms'[r].stream
    BY <1>1, <2>1 DEF Room, Held
  <2>3. rooms'[r].member # {}
    BY <1>1, <2>1 DEF Room
  <2> QED BY <2>1, <2>2, <2>3 DEF VoiceKept, Speaks1, OfUser
<1>6. CASE Stopped(r)
  <2>1. PICK c \in Conns, k \in Kinds :
            StopClear(c) /\ rooms'[r] = [rooms[r] EXCEPT ![k] = @ \ OfUser(@, UserOf(c))]
    BY <1>6 DEF Stopped
  <2>2. rooms'[r] \in Room /\ Held(rooms'[r]) \subseteq Held(rooms[r])
        /\ rooms[r].stream \ OfUser(rooms[r].stream, UserOf(c)) \subseteq rooms'[r].stream
    BY <1>1, <2>1 DEF Room, Held, Kinds, OfUser
  <2>3. rooms'[r].member = {} => rooms'[r] = NoRoom
    <3>1. rooms'[r].member = rooms[r].member
      BY <1>1, <2>1 DEF Room, Kinds
    <3>2. rooms[r].member = {} => rooms[r] = NoRoom
      BY DEF TypeOK
    <3>3. rooms[r] = NoRoom => rooms'[r] = NoRoom
      BY <1>1, <2>1 DEF NoRoom, Kinds, OfUser
    <3> QED BY <3>1, <3>2, <3>3
  <2> QED BY <2>1, <2>2, <2>3 DEF VoiceKept, Speaks1, OfUser
<1> QED BY <1>1, <1>2, <1>3, <1>4, <1>5, <1>6 DEF Turned

-----------------------------------------------------------------------------
(* Types.                                                                    *)

(* The client's rejoin list only shrinks by what it is sent.                 *)
LEMMA SendType ==
    ASSUME TypeOK, NEW msgs \in SUBSET [to : Conns, room : Rooms], Send(msgs)
    PROVE  recalls' \in [Sessions -> SUBSET Rooms] /\ told' \in SUBSET [to : Conns, room : Rooms]
BY DEF Send, Forget, TypeOK

(* A handler at its next await.                                              *)
LEMMA GotoType ==
    ASSUME TypeOK, NEW c \in Conns, NEW t \in Task, Goto(c, t)
    PROVE  task' \in [Conns -> Task]
BY DEF Goto, TypeOK

(* Tombstones, laid by others or for devices that just dropped.              *)
LEMMA TombType ==
    ASSUME TypeOK, NEW r \in Rooms, NEW S
    PROVE  Tombstoned(S, r) \in [Sessions -> Rooms \cup {None}]
BY DEF Tombstoned, TypeOK

(* As above, for drops.                                                      *)
LEMMA DropTombType ==
    ASSUME TypeOK, NEW c \in Conns, NEW only
    PROVE  DropsTombstoned(tomb, c, only) \in [Sessions -> Rooms \cup {None}]
BY DEF DropsTombstoned, TypeOK

(* Notices go to sockets of a user, or to some sockets.                      *)
LEMMA NoticeType ==
    ASSUME NEW r \in Rooms, NEW u, NEW held
    PROVE  /\ \A S \in SUBSET Conns : Left(S, r) \in SUBSET [to : Conns, room : Rooms]
           /\ EvictionNotices(u, r, held) \in SUBSET [to : Conns, room : Rooms]
BY DEF Left, EvictionNotices, SocketsOf

(* The tasks a handler may be left in.                                       *)
LEMMA Tasks ==
    /\ Idle \in Task
    /\ \A r \in Rooms :
         /\ \A mode \in Modes :
              /\ [at |-> "gate", room |-> r, mode |-> mode] \in Task
              /\ \A L \in SUBSET Rooms :
                   /\ [at |-> "vacated", room |-> r, mode |-> mode, left |-> L] \in Task
                   /\ \A old \in Rooms, H \in SUBSET Conns :
                        [at |-> "vacating", room |-> r, mode |-> mode, left |-> L,
                         old |-> old, held |-> H] \in Task
              /\ \A known \in BOOLEAN :
                   [at |-> "recheck", room |-> r, mode |-> mode, known |-> known] \in Task
         /\ \A at \in {"displaced", "moved"}, mode \in {"takeover", "leave"}, G \in SUBSET Conns :
              [at |-> at, room |-> r, mode |-> mode, gone |-> G] \in Task
         /\ \A at \in {"starting", "confirming", "stopping"}, kind \in Kinds :
              [at |-> at, room |-> r, kind |-> kind] \in Task
BY DEF Task

(* The initial state is well typed.                                          *)
LEMMA InitType == Init => TypeOK
<1> SUFFICES ASSUME Init PROVE TypeOK
  OBVIOUS
<1>1. task \in [Conns -> Task]
  BY Tasks DEF Init
<1>2. rooms \in [Rooms -> Room] /\ \A r \in Rooms : rooms[r] = NoRoom
  BY DEF Init, NoRoom, Room
<1> QED BY <1>1, <1>2, VoiceAssumption DEF Init, TypeOK

(* The steps that only sockets, clocks and others take.                      *)
LEMMA OutsideType ==
    ASSUME TypeOK, RoomsTurn,
           \/ \E c \in Conns : Socket(c)
           \/ \E u \in Users, r \in Rooms, ended \in BOOLEAN : EvictAsk(u, r, ended)
           \/ \E e \in evicting : Evict(e)
           \/ \E s \in Sessions : TombstoneExpires(s) \/ DropExpires(s)
    PROVE  TypeOK'
<1>0. /\ rooms' \in [Rooms -> Room]
      /\ \A x \in Rooms : rooms'[x].member = {} => rooms'[x] = NoRoom
  BY TurnedRoom DEF RoomsTurn
<1>1. ASSUME NEW c \in Conns, Connect(c) PROVE TypeOK'
  BY <1>0, <1>1, Owners DEF Connect, TypeOK
<1>2. ASSUME NEW c \in Conns, FallSilent(c) PROVE TypeOK'
  BY <1>0, <1>2, VoiceAssumption DEF FallSilent, Event, TypeOK
<1>3. ASSUME NEW c \in Conns, Disconnect(c) PROVE TypeOK'
  <2>1. Dropped(c) \subseteq Rooms \cup {None}
    BY Owners DEF Dropped, TypeOK
  <2> QED BY <1>0, <1>3, <2>1 DEF Disconnect, TypeOK
<1>4. ASSUME NEW u \in Users, NEW r \in Rooms, NEW ended \in BOOLEAN, EvictAsk(u, r, ended)
      PROVE  TypeOK'
  <2>1. OfUser(rooms[r].member, u) \in SUBSET Conns
    BY DEF OfUser, TypeOK, Room
  <2>2. recalls' \in [Sessions -> SUBSET Rooms] /\ told' \in SUBSET [to : Conns, room : Rooms]
    BY <1>4, SendType DEF EvictAsk
  <2> QED BY <1>0, <1>4, <2>1, <2>2, VoiceAssumption DEF EvictAsk, Event, Eviction, TypeOK
<1>5. ASSUME NEW e \in evicting, Evict(e) PROVE TypeOK'
  <2>1. e.room \in Rooms BY DEF TypeOK, Eviction
  <2>2. recalls' \in [Sessions -> SUBSET Rooms] /\ told' \in SUBSET [to : Conns, room : Rooms]
    BY <1>5, <2>1, SendType, NoticeType DEF Evict
  <2>3. tomb' \in [Sessions -> Rooms \cup {None}]
    BY <1>5, <2>1, TombType DEF Evict, TypeOK
  <2> QED BY <1>0, <1>5, <2>2, <2>3 DEF Evict, TypeOK
<1>6. ASSUME NEW s \in Sessions, TombstoneExpires(s) \/ DropExpires(s) PROVE TypeOK'
  <2>1. recalls' \in [Sessions -> SUBSET Rooms] /\ told' \in SUBSET [to : Conns, room : Rooms]
    BY <1>6, SendType DEF TombstoneExpires, DropExpires
  <2>2. events' \in 0..MaxEvents
    BY <1>6, VoiceAssumption DEF TombstoneExpires, DropExpires, Event, TypeOK
  <2>3. /\ tomb' \in [Sessions -> Rooms \cup {None}] /\ drops' \in [Sessions -> Rooms \cup {None}]
        /\ UNCHANGED <<conn, task, joined, evicting, raced>>
    BY <1>6 DEF TombstoneExpires, DropExpires, TypeOK
  <2> QED BY <1>0, <2>1, <2>2, <2>3 DEF TypeOK
<1> QED BY <1>1, <1>2, <1>3, <1>4, <1>5, <1>6 DEF Socket

(* A displacement sends the displaced sockets away and waits.                *)
LEMMA DisplaceType ==
    ASSUME TypeOK, NEW c \in Conns, NEW r \in Rooms, NEW mode \in {"takeover", "leave"},
           Displace(c, r, mode)
    PROVE  /\ recalls' \in [Sessions -> SUBSET Rooms]
           /\ told' \in SUBSET [to : Conns, room : Rooms]
           /\ tomb' \in [Sessions -> Rooms \cup {None}]
           /\ task' \in [Conns -> Task]
<1>1. Displaced(c, r) \in SUBSET Conns
  BY DEF Displaced, OfUser, TypeOK, Room
<1>2. {k \in Displaced(c, r) : Sid[k] # Sid[c]} \in SUBSET Conns
  BY <1>1
<1>3. recalls' \in [Sessions -> SUBSET Rooms] /\ told' \in SUBSET [to : Conns, room : Rooms]
  <2>1. Send(Left(Displaced(c, r), r)) BY DEF Displace
  <2> QED BY <1>1, <2>1, SendType, NoticeType
<1>4. tomb' \in [Sessions -> Rooms \cup {None}]
  BY TombType DEF Displace, TypeOK
<1>5. task' \in [Conns -> Task]
  BY <1>2, Tasks, GotoType DEF Displace
<1> QED BY <1>3, <1>4, <1>5

(* The first step of each frame.                                             *)
LEMMA RequestType ==
    ASSUME TypeOK, RoomsTurn, NEW c \in Conns, NEW r \in Rooms, Request(c, r)
    PROVE  TypeOK'
<1>0. /\ rooms' \in [Rooms -> Room]
      /\ \A x \in Rooms : rooms'[x].member = {} => rooms'[x] = NoRoom
  BY TurnedRoom DEF RoomsTurn
<1>1. Sid[c] \in Sessions BY Owners
<1>2. {} \in SUBSET [to : Conns, room : Rooms] /\ Left({c}, r) \in SUBSET [to : Conns, room : Rooms]
  BY NoticeType
<1>3. Event => events' \in 0..MaxEvents
  BY VoiceAssumption DEF Event, TypeOK
<1>4. CASE Replay(c, r)
  <2>1. recalls' \in [Sessions -> SUBSET Rooms] /\ told' \in SUBSET [to : Conns, room : Rooms]
    BY <1>2, <1>4, SendType DEF Replay
  <2>2. task' \in [Conns -> Task]
    BY <1>4, Tasks, GotoType DEF Replay, TypeOK, Modes
  <2>3. conn' \in [Conns -> [stage : {"none", "up", "silent", "gone"}, todo : SUBSET Rooms]]
    BY SMTT(30), <1>4 DEF Replay, TypeOK
  <2>4. tomb' \in [Sessions -> Rooms \cup {None}] /\ joined' \in [Conns -> SUBSET Rooms]
    <3>1. tomb \in [Sessions -> Rooms \cup {None}] /\ joined \in [Conns -> SUBSET Rooms]
      BY DEF TypeOK
    <3>2. CASE ReplayRefused(c, r)
      BY <1>1, <1>4, <3>1, <3>2 DEF Replay
    <3>3. CASE ~ReplayRefused(c, r)
      BY <1>4, <3>1, <3>3 DEF Replay
    <3> QED BY <3>2, <3>3
  <2> QED BY <1>0, <1>4, <2>1, <2>2, <2>3, <2>4 DEF Replay, TypeOK
<1>5. CASE Leave(c, r)
  <2>1. recalls' \in [Sessions -> SUBSET Rooms] /\ told' \in SUBSET [to : Conns, room : Rooms]
    BY <1>2, <1>5, SendType DEF Leave
  <2> QED BY <1>0, <1>3, <1>5, <2>1 DEF Leave, Frame, TypeOK
<1>6. CASE LeaveOwnVoice(c, r)
  <2>1. CASE Displace(c, r, "leave")
    BY <1>0, <1>3, <1>6, <2>1, DisplaceType DEF LeaveOwnVoice, Frame, TypeOK
  <2>2. CASE Send({}) /\ tomb' = DropsTombstoned(tomb, c, {r}) /\ UNCHANGED <<rooms, task>>
    BY <1>0, <1>2, <1>3, <1>6, <2>2, SendType, DropTombType DEF LeaveOwnVoice, Frame, TypeOK
  <2> QED BY <1>6, <2>1, <2>2 DEF LeaveOwnVoice
<1>7. ASSUME NEW mode \in {"join", "takeover"}, Join(c, r, mode) PROVE TypeOK'
  <2>1. task' \in [Conns -> Task]
    BY <1>7, Tasks, GotoType DEF Join, Modes
  <2> QED BY <1>0, <1>1, <1>3, <1>7, <2>1 DEF Join, Frame, TypeOK
<1>8. ASSUME NEW kind \in Kinds, StartAsk(c, r, kind) \/ StopAsk(c, r, kind) PROVE TypeOK'
  <2>1. recalls' \in [Sessions -> SUBSET Rooms] /\ told' \in SUBSET [to : Conns, room : Rooms]
    BY <1>2, <1>8, SendType DEF StartAsk, StopAsk
  <2>2. task' \in [Conns -> Task]
    BY <1>8, Tasks, GotoType DEF StartAsk, StopAsk
  <2> QED BY <1>0, <1>3, <1>8, <2>1, <2>2 DEF StartAsk, StopAsk, Frame, TypeOK
<1> QED BY <1>4, <1>5, <1>6, <1>7, <1>8 DEF Request

(* A handler goes on after an await.                                         *)
LEMMA ContinueType ==
    ASSUME TypeOK, RoomsTurn, NEW c \in Conns, Continue(c)
    PROVE  TypeOK'
<1>0. /\ rooms' \in [Rooms -> Room]
      /\ \A x \in Rooms : rooms'[x].member = {} => rooms'[x] = NoRoom
  BY TurnedRoom DEF RoomsTurn
<1>1. Sid[c] \in Sessions /\ UserOf(c) \in Users BY Owners
<1>2. {} \in SUBSET [to : Conns, room : Rooms] /\ Idle \in Task
  BY Tasks
<1>3. \A r \in Rooms : OfUser(rooms[r].member, UserOf(c)) \in SUBSET Conns
  BY DEF OfUser, TypeOK, Room
<1>4. Send({}) => /\ recalls' \in [Sessions -> SUBSET Rooms]
                  /\ told' \in SUBSET [to : Conns, room : Rooms]
  BY <1>2, SendType
<1>5. ASSUME NEW L \in SUBSET Rooms, Advance(c, L), task[c].room \in Rooms, task[c].mode \in Modes
      PROVE  task' \in [Conns -> Task] /\ joined' \in [Conns -> SUBSET Rooms]
  <2> DEFINE t == task[c]
             still == {x \in L : In(UserOf(c), x)}
  <2>1. CASE /\ joined' = [joined EXCEPT ![c] = @ \cup {t.room}]
             /\ Goto(c, [at |-> "recheck", room |-> t.room, mode |-> t.mode,
                         known |-> t.room \in joined[c] \/ In(UserOf(c), t.room)])
    <3>1. (t.room \in joined[c] \/ In(UserOf(c), t.room)) \in BOOLEAN
      OBVIOUS
    <3>2. task' \in [Conns -> Task]
      BY <1>5, <2>1, <3>1, Tasks, GotoType
    <3> QED BY <1>5, <2>1, <3>2 DEF TypeOK
  <2>2. CASE /\ joined' = joined
             /\ \E old \in still :
                  Goto(c, [at |-> "vacating", room |-> t.room, mode |-> t.mode,
                           left |-> still \ {old}, old |-> old,
                           held |-> OfUser(rooms[old].member, UserOf(c))])
    <3>1. task' \in [Conns -> Task]
      BY <1>3, <1>5, <2>2, Tasks, GotoType
    <3> QED BY <2>2, <3>1 DEF TypeOK
  <2> QED BY <1>5, <2>1, <2>2 DEF Advance
<1>6. CASE GateAllows(c)
  <2>1. task[c].room \in Rooms /\ task[c].mode \in Modes
    BY <1>6, TaskShapes DEF GateAllows, At
  <2>2. OtherRooms(c, task[c].room) \in SUBSET Rooms
    BY DEF OtherRooms
  <2>3. task' \in [Conns -> Task]
    BY <1>6, <2>1, <2>2, Tasks, GotoType DEF GateAllows
  <2>4. raced' \in SUBSET Users
    BY <1>1, <1>6 DEF GateAllows, TypeOK
  <2> QED BY <1>0, <1>4, <1>6, <2>3, <2>4 DEF GateAllows, TypeOK
<1>7. CASE GateRefuses(c)
  <2>1. task[c].room \in Rooms
    BY <1>7, TaskShapes DEF GateRefuses, At
  <2>2. Left({c}, task[c].room) \in SUBSET [to : Conns, room : Rooms]
    BY <2>1, NoticeType
  <2>3. recalls' \in [Sessions -> SUBSET Rooms] /\ told' \in SUBSET [to : Conns, room : Rooms]
    BY <1>4, <1>7, <2>2, SendType DEF GateRefuses
  <2>4. task' \in [Conns -> Task]
    BY <1>2, <1>7, GotoType DEF GateRefuses
  <2>5. tomb' \in [Sessions -> Rooms \cup {None}] /\ joined' \in [Conns -> SUBSET Rooms]
    BY <1>1, <1>7, <2>1 DEF GateRefuses, TypeOK
  <2> QED BY <1>0, <1>7, <2>3, <2>4, <2>5 DEF GateRefuses, TypeOK
<1>8. CASE VacateOld(c)
  <2>1. /\ task[c].room \in Rooms /\ task[c].mode \in Modes
        /\ task[c].left \in SUBSET Rooms /\ task[c].old \in Rooms
    BY <1>8, TaskShapes DEF VacateOld, At
  <2>2. task' \in [Conns -> Task]
    BY <1>8, <2>1, Tasks, GotoType DEF VacateOld
  <2>3. recalls' \in [Sessions -> SUBSET Rooms] /\ told' \in SUBSET [to : Conns, room : Rooms]
    BY <1>8, <2>1, NoticeType, SendType DEF VacateOld
  <2>4. tomb' \in [Sessions -> Rooms \cup {None}]
    BY <1>8, <2>1, TombType DEF VacateOld
  <2> QED BY <1>0, <1>8, <2>2, <2>3, <2>4 DEF VacateOld, TypeOK
<1>9. CASE VacateNext(c)
  <2>1. task[c].room \in Rooms /\ task[c].mode \in Modes /\ task[c].left \in SUBSET Rooms
    BY <1>9, TaskShapes DEF VacateNext, At
  <2>2. task' \in [Conns -> Task] /\ joined' \in [Conns -> SUBSET Rooms]
    BY <1>5, <1>9, <2>1 DEF VacateNext
  <2> QED BY <1>0, <1>4, <1>9, <2>2 DEF VacateNext, TypeOK
<1>10. CASE RecheckRefuses(c)
  <2>1. task[c].room \in Rooms
    BY <1>10, TaskShapes DEF RecheckRefuses, At
  <2>2. recalls' \in [Sessions -> SUBSET Rooms] /\ told' \in SUBSET [to : Conns, room : Rooms]
    BY <1>2, <1>10, <2>1, NoticeType, SendType DEF RecheckRefuses
  <2>3. task' \in [Conns -> Task]
    BY <1>2, <1>10, GotoType DEF RecheckRefuses
  <2> QED BY <1>0, <1>10, <2>2, <2>3 DEF RecheckRefuses, TypeOK
<1>11. CASE RecheckAllows(c)
  <2>1. tomb' \in [Sessions -> Rooms \cup {None}]
    BY <1>11, DropTombType DEF RecheckAllows, Finish, TypeOK
  <2>2. task' \in [Conns -> Task]
    BY <1>2, <1>11, GotoType DEF RecheckAllows, Finish
  <2> QED BY <1>0, <1>4, <1>11, <2>1, <2>2 DEF RecheckAllows, TypeOK
<1>12. CASE MoveHere(c)
  <2>1. task[c].room \in Rooms
    BY <1>12, TaskShapes DEF MoveHere, At
  <2> QED BY <1>0, <1>12, <2>1, DisplaceType DEF MoveHere, TypeOK
<1>13. CASE DisplacedLate(c)
  <2>1. task[c] \in [at : {"displaced", "moved"}, room : Rooms, mode : {"takeover", "leave"},
                     gone : SUBSET Conns]
    BY <1>13, TaskShapes DEF DisplacedLate, At
  <2>2. [task[c] EXCEPT !.at = "moved"] \in Task
    BY <2>1 DEF Task
  <2>3. tomb' \in [Sessions -> Rooms \cup {None}]
    BY <1>13, <2>1, TombType DEF DisplacedLate
  <2>4. task' \in [Conns -> Task]
    BY <1>13, <2>2, GotoType DEF DisplacedLate
  <2> QED BY <1>0, <1>4, <1>13, <2>3, <2>4 DEF DisplacedLate, TypeOK
<1>14. CASE Moved(c)
  <2>1. tomb' \in [Sessions -> Rooms \cup {None}]
    BY <1>14, DropTombType DEF Moved, Finish, TypeOK
  <2>2. task' \in [Conns -> Task]
    BY <1>2, <1>14, GotoType DEF Moved, Finish
  <2> QED BY <1>0, <1>4, <1>14, <2>1, <2>2 DEF Moved, TypeOK
<1>15. CASE StartConfirm(c)
  <2>1. task[c] \in [at : {"starting", "confirming", "stopping"}, room : Rooms, kind : Kinds]
    BY <1>15, TaskShapes DEF StartConfirm, At
  <2>2. [task[c] EXCEPT !.at = "starting"] \in Task
    BY <2>1 DEF Task
  <2>3. task' \in [Conns -> Task]
    BY <1>2, <1>15, <2>2, GotoType DEF StartConfirm
  <2> QED BY <1>0, <1>4, <1>15, <2>3 DEF StartConfirm, TypeOK
<1>16. CASE StartSet(c) \/ StopClear(c) \/ Denied(c)
  <2>1. task' \in [Conns -> Task]
    BY <1>2, <1>16, GotoType DEF StartSet, StopClear, Denied
  <2> QED BY <1>0, <1>4, <1>16, <2>1 DEF StartSet, StopClear, Denied, TypeOK
<1> QED BY <1>6, <1>7, <1>8, <1>9, <1>10, <1>11, <1>12, <1>13, <1>14, <1>15, <1>16 DEF Continue

-----------------------------------------------------------------------------
(* The theorems.                                                             *)

(* Types are inductive.                                                      *)
LEMMA TypeStep == TypeOK /\ [Next]_vars => TypeOK'
<1> SUFFICES ASSUME TypeOK, [Next]_vars PROVE TypeOK'
  OBVIOUS
<1>1. RoomsTurn BY HowRoomsChange
<1>2. CASE UNCHANGED vars
  BY <1>2 DEF vars, TypeOK
<1> QED BY <1>1, <1>2, OutsideType, RequestType, ContinueType DEF Next

(* Only a socket that disconnects stops being registered, and it is taken    *)
(* out of every room in the same step.                                       *)
LEMMA Unregistering ==
    ASSUME TypeOK, [Next]_vars, NEW d \in Conns, Registered(d)
    PROVE  Registered(d)' \/ \A r \in Rooms : d \notin Held(rooms'[r])
<1>1. CASE Disconnect(d)
  <2>1. ASSUME NEW r \in Rooms PROVE d \notin Held(rooms'[r])
    <3>1. rooms'[r] = Settled(WithoutConns(rooms[r], {d}, UserOf(d)))
      BY <1>1, <2>1 DEF Disconnect, WithoutConn
    <3>2. rooms[r] \in Room BY <2>1 DEF TypeOK
    <3>3. Held(rooms'[r]) \subseteq Held(rooms[r]) \ {d}
      BY <3>1, <3>2, SocketsOut
    <3> QED BY <3>3
  <2> QED BY <2>1
<1>2. CASE conn'[d] = conn[d]
  BY <1>2 DEF Registered
<1>3. ASSUME NEW c \in Conns, Socket(c), ~Disconnect(d)
      PROVE  Registered(d)'
  BY <1>3 DEF Socket, Connect, FallSilent, Disconnect, Registered, TypeOK
<1>4. ASSUME NEW c \in Conns, NEW r \in Rooms, Replay(c, r)
      PROVE  Registered(d)'
  BY <1>4 DEF Replay, Registered, TypeOK
<1>5. ASSUME NEW c \in Conns, Continue(c) PROVE conn' = conn
  BY <1>5 DEF Continue, GateAllows, GateRefuses, VacateOld, VacateNext, RecheckRefuses,
              RecheckAllows, MoveHere, DisplacedLate, Moved, StartConfirm, StartSet, StopClear,
              Denied
<1>6. ASSUME NEW c \in Conns, NEW r \in Rooms, Request(c, r)
      PROVE  Replay(c, r) \/ conn' = conn
  BY <1>6 DEF Request, Leave, LeaveOwnVoice, Join, StartAsk, StopAsk
<1>7. ASSUME \/ UNCHANGED vars
             \/ \E u \in Users, r \in Rooms, ended \in BOOLEAN : EvictAsk(u, r, ended)
             \/ \E e \in evicting : Evict(e)
             \/ \E s \in Sessions : TombstoneExpires(s) \/ DropExpires(s)
      PROVE  conn' = conn
  BY <1>7 DEF vars, EvictAsk, Evict, TombstoneExpires, DropExpires
<1> QED BY <1>1, <1>2, <1>3, <1>4, <1>5, <1>6, <1>7 DEF Next

(* The variables keep their types.                                           *)
THEOREM TypeCorrect == Spec => []TypeOK
BY InitType, TypeStep, PTL DEF Spec

(* No ghosts: whatever a room holds, a socket whose disconnect is still to   *)
(* come answers for it (unregister_session takes a closing socket out of     *)
(* every room, and only the handler of a registered socket puts it in).      *)
THEOREM Ghosts == Spec => []NoGhosts
<1>1. Init => NoGhosts
  BY DEF Init, NoRoom, NoGhosts
<1>2. TypeOK /\ NoGhosts /\ [Next]_vars => NoGhosts'
  <2> SUFFICES ASSUME TypeOK, NoGhosts, [Next]_vars, NEW r \in Rooms, NEW d \in Held(rooms'[r])
               PROVE  d \in Conns /\ Registered(d)'
    BY DEF NoGhosts, Held
  <2>1. Held(rooms[r]) \subseteq {c \in Conns : Registered(c)}
    BY DEF NoGhosts, Held
  <2>2. d \in Conns /\ Registered(d)
    BY <2>1, HowRoomsChange, TurnedRoom
  <2> QED BY <2>2, Unregistering
<1> QED BY <1>1, <1>2, TypeCorrect, PTL DEF Spec

(* A user who stays in a call stays on its roster: whichever of their sockets *)
(* dies or is displaced, their voice presence ends only by their own stop     *)
(* (Room::remove_member_conn, inherit_stream_claim).                          *)
THEOREM VoiceKeeps == Spec => VoiceOutlivesItsSocket
<1>1. TypeOK /\ [Next]_vars =>
        [\A r \in Rooms, u \in Users :
         /\ In(u, r) /\ In(u, r)'
         /\ OfUser(rooms[r].stream, u) # {} /\ OfUser(rooms[r].stream, u)' = {}
         => Stopping(u)]_vars
  <2> SUFFICES ASSUME TypeOK, [Next]_vars, NEW r \in Rooms, NEW u \in Users,
                      In(u, r), In(u, r)',
                      OfUser(rooms[r].stream, u) # {}, OfUser(rooms[r].stream, u)' = {}
               PROVE  Stopping(u)
    OBVIOUS
  <2>1. In1(rooms[r], u) /\ In1(rooms'[r], u) /\ Speaks1(rooms[r], u) /\ ~Speaks1(rooms'[r], u)
    BY DEF In, In1, Speaks1, OfUser, UserOf
  <2>2. ~VoiceKept(rooms[r], rooms'[r], u)
    BY <2>1 DEF VoiceKept
  <2> QED BY <2>2, HowRoomsChange, TurnedRoom DEF Stopping
<1> QED BY <1>1, TypeCorrect, PTL DEF Spec, VoiceOutlivesItsSocket

(* Taking out some sockets of a user takes no other socket out.               *)
LEMMA OnlyThose ==
    ASSUME NEW rm, NEW u, NEW S
    PROVE  rm.member \ Settled(WithoutConns(rm, S, u)).member \subseteq S
<1>1. WithoutConns(rm, S, u).member
        \in {rm.member \ S, rm.member \ OfUser(rm.member, u)}
      /\ (OfUser(rm.member, u) \ S # {} => WithoutConns(rm, S, u).member = rm.member \ S)
  BY DEF WithoutConns, WithoutUser
<1>2. OfUser(rm.member, u) \ S = {} =>
        rm.member \ WithoutConns(rm, S, u).member \subseteq S
  BY <1>1
<1>3. \A x : Settled(x).member = x.member
  BY DEF Settled, NoRoom
<1> QED BY <1>1, <1>2, <1>3

(* Taking a user out takes only their sockets out.                            *)
LEMMA OnlyTheirs ==
    ASSUME NEW rm, NEW u
    PROVE  \A c \in rm.member \ Settled(WithoutUser(rm, u)).member : UserOf(c) = u
BY DEF Settled, NoRoom, WithoutUser, OfUser

(* A notice to some sockets reaches each of them.                             *)
LEMMA LeftTold ==
    ASSUME NEW c, NEW r, NEW S, c \in S
    PROVE  \E m \in Left(S, r) : m.to = c /\ m.room = r
<1>1. [to |-> c, room |-> r] \in Left(S, r)
  BY DEF Left
<1> QED BY <1>1

(* A socket that loses its place to another's step is told of it.             *)
LEMMA ToldOrOwn ==
    ASSUME TypeOK, NoGhosts, Next, NEW c \in Conns, NEW r \in Rooms,
           c \in rooms[r].member, c \notin rooms'[r].member
    PROVE  Own(c) \/ \E m \in told' : m.to = c /\ m.room = r
<1>0. Registered(c) BY DEF NoGhosts
<1>1. ASSUME NEW k \in Conns, NEW x \in Rooms,
             rooms' = [rooms EXCEPT ![x] = Settled(WithoutConn(@, k))]
      PROVE  c = k /\ x = r
  BY <1>1, OnlyThose DEF WithoutConn, TypeOK
<1>2. ASSUME NEW k \in Conns, NEW x \in Rooms, NEW mode, Displace(k, x, mode)
      PROVE  \E m \in told' : m.to = c /\ m.room = r
  <2>1. x = r
    BY <1>2 DEF Displace, TypeOK
  <2>2. rooms'[r] = Settled(WithoutConns(rooms[r], Displaced(k, r), UserOf(k)))
    BY <1>2, <2>1 DEF Displace, TypeOK
  <2>3. c \in Displaced(k, r)
    BY <2>2, OnlyThose
  <2>4. told' = Left(Displaced(k, r), r)
    BY <1>2, <2>1 DEF Displace, Send
  <2> QED BY <2>3, <2>4, LeftTold
<1>3. ASSUME NEW x \in Rooms, NEW u, NEW held,
             rooms' = [rooms EXCEPT ![x] = Settled(WithoutUser(@, u))],
             Send(EvictionNotices(u, x, held))
      PROVE  \E m \in told' : m.to = c /\ m.room = r
  <2>1. x = r /\ UserOf(c) = u
    BY <1>3, OnlyTheirs DEF TypeOK
  <2>2. c \in SocketsOf(u)
    BY <1>0, <2>1 DEF SocketsOf
  <2> QED BY <1>3, <2>1, <2>2, LeftTold DEF Send, EvictionNotices
<1>4. ASSUME NEW k \in Conns, Socket(k) PROVE Own(c)
  <2>1. CASE Disconnect(k)
    <3>1. rooms'[r] = Settled(WithoutConns(rooms[r], {k}, UserOf(k)))
      BY <2>1 DEF Disconnect, WithoutConn
    <3>2. c = k BY <3>1, OnlyThose
    <3> QED BY <2>1, <3>2 DEF Own
  <2> QED BY <1>4, <2>1 DEF Socket, Connect, FallSilent
<1>5. ASSUME NEW k \in Conns, NEW x \in Rooms, Request(k, x)
      PROVE  Own(c) \/ \E m \in told' : m.to = c /\ m.room = r
  <2>1. CASE Leave(k, x)
    <3>1. c = k BY <1>1, <2>1 DEF Leave
    <3> QED BY <2>1, <3>1 DEF Own
  <2>2. CASE LeaveOwnVoice(k, x)
    BY <1>2, <2>2 DEF LeaveOwnVoice
  <2> QED BY <1>5, <2>1, <2>2 DEF Request, Replay, Join, StartAsk, StopAsk
<1>6. ASSUME NEW k \in Conns, Continue(k)
      PROVE  Own(c) \/ \E m \in told' : m.to = c /\ m.room = r
  <2>1. CASE VacateOld(k)
    <3>1. task[k].old \in Rooms BY <2>1, TaskShapes DEF VacateOld, At
    <3> QED BY <1>3, <2>1, <3>1 DEF VacateOld
  <2>2. CASE RecheckRefuses(k)
    <3>1. task[k].room \in Rooms /\ task[k].at = "recheck"
      BY <2>2, TaskShapes DEF RecheckRefuses, At
    <3>2. c = k BY <1>1, <2>2, <3>1 DEF RecheckRefuses
    <3>3. task'[k] # task[k]
      BY <2>2, <3>1 DEF RecheckRefuses, Goto, Idle, TypeOK
    <3> QED BY <3>2, <3>3 DEF Own
  <2>3. CASE MoveHere(k)
    <3>1. task[k].room \in Rooms BY <2>3, TaskShapes DEF MoveHere, At
    <3> QED BY <1>2, <2>3, <3>1 DEF MoveHere
  <2>4. CASE GateAllows(k) \/ VacateNext(k)
    <3>1. \A x \in Rooms : rooms[x].member \subseteq rooms'[x].member
      <4>1. UNCHANGED rooms \/ rooms' = [rooms EXCEPT ![task[k].room].member = @ \cup {k}]
        BY <2>4 DEF GateAllows, VacateNext, Advance
      <4> QED BY <4>1 DEF TypeOK, Room
    <3> QED BY <3>1
  <2>5. CASE RecheckAllows(k) \/ Moved(k)
    <3>1. \A x \in Rooms : rooms'[x] = rooms[x] \/ rooms'[x] = Claimed(rooms[x], k)
      BY <2>5 DEF RecheckAllows, Moved, Finish, TypeOK
    <3>2. \A x \in Rooms : Claimed(rooms[x], k).member = rooms[x].member
      BY DEF Claimed, TypeOK, Room
    <3> QED BY <3>1, <3>2
  <2>6. CASE StartSet(k) \/ StopClear(k)
    <3>1. task[k].room \in Rooms /\ task[k].kind \in {"stream", "share"}
      BY <2>6, TaskShapes DEF StartSet, StopClear, At, Kinds
    <3>2. rooms \in [Rooms -> Room]
      BY DEF TypeOK
    <3>3. \A x \in Rooms : rooms'[x].member = rooms[x].member
      BY <2>6, <3>1, <3>2 DEF StartSet, StopClear, Room
    <3> QED BY <3>3
  <2> QED BY <1>6, <2>1, <2>2, <2>3, <2>4, <2>5, <2>6
          DEF Continue, GateRefuses, DisplacedLate, StartConfirm, Denied
<1>7. ASSUME NEW e \in evicting, Evict(e)
      PROVE  \E m \in told' : m.to = c /\ m.room = r
  <2>1. e.room \in Rooms BY DEF TypeOK, Eviction
  <2> QED BY <1>3, <1>7, <2>1 DEF Evict
<1> QED BY <1>4, <1>5, <1>6, <1>7 DEF Next, EvictAsk, TombstoneExpires, DropExpires

(* Whoever is taken out of a call by somebody else is told: the notice goes   *)
(* to every registered socket of the user (evict_user_from_voice_room, read   *)
(* after its await) or to each displaced one (displace_own_conns), and a      *)
(* member is registered, there being no ghosts.                               *)
THEOREM Notices == Spec => EvictedAreTold
<1>1. TypeOK /\ NoGhosts /\ [Next]_vars =>
        [\A c \in Conns, r \in Rooms :
         c \in rooms[r].member /\ c \notin rooms'[r].member =>
            Own(c) \/ \E m \in told' : m.to = c /\ m.room = r]_vars
  BY ToldOrOwn
<1> QED BY <1>1, TypeCorrect, Ghosts, PTL DEF Spec, EvictedAreTold

-----------------------------------------------------------------------------
(* Voice exclusivity.  A join takes stock of the rooms to vacate once, after  *)
(* its gate, vacates them one await at a time, and then enters its own.  From *)
(* the stock to the entry it stays complete, while nobody else of the account *)
(* is between the two.                                                        *)

\* The account's joins between stock and entry; unless they raced, there is one.
Lone(u) == \A j, k \in Conns : UserOf(j) = u /\ UserOf(k) = u /\ Switching(j) /\ Switching(k) => j = k

\* What a vacating join still has to leave.
ToVacate(t) == t.left \cup (IF t.at = "vacating" THEN {t.old} ELSE {})
Stocked(u) ==
    \A c \in Conns : UserOf(c) = u /\ Switching(c) =>
        \A r \in Rooms : In(u, r) => r = task[c].room \/ r \in ToVacate(task[c])

OneRoom(u) == \A r, s \in Rooms : In(u, r) /\ In(u, s) => r = s

Exclusive == \A u \in Users \ raced : Lone(u) /\ Stocked(u) /\ OneRoom(u)

(* A room's members only grow by a join's insert.                             *)
LEMMA MembersShrink ==
    ASSUME TypeOK, Next, \A c \in Conns : ~VacateNext(c), NEW r \in Rooms
    PROVE  rooms'[r].member \subseteq rooms[r].member
<1>0. rooms[r] \in Room
  BY DEF TypeOK
<1>1. CASE rooms'[r] = rooms[r]
  BY <1>1
<1>2. ASSUME NEW u, rooms'[r] = Settled(WithoutUser(rooms[r], u))
      PROVE  rooms'[r].member \subseteq rooms[r].member
  BY <1>2 DEF Settled, WithoutUser, NoRoom
<1>3. ASSUME NEW u, NEW S, rooms'[r] = Settled(WithoutConns(rooms[r], S, u))
      PROVE  rooms'[r].member \subseteq rooms[r].member
  <2>1. WithoutConns(rooms[r], S, u).member \subseteq rooms[r].member
    BY DEF WithoutConns, WithoutUser
  <2> QED
    BY <1>3, <2>1 DEF Settled, NoRoom
<1>4. ASSUME NEW c \in Conns, Disconnect(c)
      PROVE  rooms'[r].member \subseteq rooms[r].member
  BY <1>3, <1>4 DEF Disconnect, WithoutConn
<1>5. ASSUME NEW c \in Conns, NEW x, NEW mode, Displace(c, x, mode)
      PROVE  rooms'[r].member \subseteq rooms[r].member
  <2>1. \/ rooms'[r] = rooms[r]
        \/ rooms'[r] = Settled(WithoutConns(rooms[r], Displaced(c, x), UserOf(c)))
    BY <1>5 DEF Displace, TypeOK
  <2> QED
    BY <1>1, <1>3, <2>1
<1>6. ASSUME NEW c \in Conns, NEW x \in Rooms, Request(c, x)
      PROVE  rooms'[r].member \subseteq rooms[r].member
  <2>1. CASE Leave(c, x)
    <3>1. \/ rooms'[r] = rooms[r]
          \/ rooms'[r] = Settled(WithoutConns(rooms[r], {c}, UserOf(c)))
      BY <2>1 DEF Leave, WithoutConn, TypeOK
    <3> QED
      BY <1>1, <1>3, <3>1
  <2>2. CASE LeaveOwnVoice(c, x)
    BY <1>1, <1>5, <2>2 DEF LeaveOwnVoice
  <2> QED
    BY <1>1, <1>6, <2>1, <2>2 DEF Request, Replay, Join, StartAsk, StopAsk
<1>7. ASSUME NEW c \in Conns, Continue(c)
      PROVE  rooms'[r].member \subseteq rooms[r].member
  <2>1. CASE VacateOld(c)
    <3>1. rooms'[r] = rooms[r] \/ rooms'[r] = Settled(WithoutUser(rooms[r], UserOf(c)))
      BY <2>1 DEF VacateOld, TypeOK
    <3> QED
      BY <1>1, <1>2, <3>1
  <2>2. CASE RecheckRefuses(c)
    <3>1. \/ rooms'[r] = rooms[r]
          \/ rooms'[r] = Settled(WithoutConns(rooms[r], {c}, UserOf(c)))
      BY <2>2 DEF RecheckRefuses, WithoutConn, TypeOK
    <3> QED
      BY <1>1, <1>3, <3>1
  <2>3. CASE MoveHere(c)
    BY <1>5, <2>3 DEF MoveHere
  <2>4. CASE RecheckAllows(c) \/ Moved(c)
    <3>1. rooms'[r] = rooms[r] \/ rooms'[r] = Claimed(rooms[r], c)
      BY <2>4 DEF RecheckAllows, Moved, Finish, TypeOK
    <3>2. Claimed(rooms[r], c).member = rooms[r].member
      BY <1>0 DEF Claimed, Room
    <3> QED
      BY <3>1, <3>2
  <2>5. CASE StartSet(c) \/ StopClear(c)
    <3>1. task[c].room \in Rooms /\ task[c].kind \in {"stream", "share"}
      BY <2>5, TaskShapes DEF StartSet, StopClear, At, Kinds
    <3>2. rooms' = rooms \/ \E S : rooms' = [rooms EXCEPT ![task[c].room][task[c].kind] = S]
      BY <2>5 DEF StartSet, StopClear
    <3>3. ASSUME NEW S, rooms' = [rooms EXCEPT ![task[c].room][task[c].kind] = S]
          PROVE  rooms'[r].member = rooms[r].member
      <4>1. rooms'[r] = rooms[r] \/ rooms'[r] = [rooms[r] EXCEPT ![task[c].kind] = S]
        BY <3>1, <3>3 DEF TypeOK
      <4> QED
        BY <1>0, <3>1, <4>1 DEF Room
    <3> QED
      BY <3>2, <3>3
  <2> QED
    BY <1>1, <1>7, <2>1, <2>2, <2>3, <2>4, <2>5
       DEF Continue, GateAllows, GateRefuses, DisplacedLate, StartConfirm, Denied
<1>8. ASSUME NEW e \in evicting, Evict(e)
      PROVE  rooms'[r].member \subseteq rooms[r].member
  <2>1. rooms'[r] = rooms[r] \/ rooms'[r] = Settled(WithoutUser(rooms[r], e.user))
    BY <1>8 DEF Evict, TypeOK
  <2> QED
    BY <1>1, <1>2, <2>1
<1> QED
  BY <1>1, <1>4, <1>6, <1>7, <1>8
     DEF Next, Socket, Connect, FallSilent, EvictAsk, TombstoneExpires, DropExpires

(* Only a gate's answer can add to the accounts that raced.                   *)
LEMMA RacedStays ==
    ASSUME Next, \A c \in Conns : ~GateAllows(c)
    PROVE  raced' = raced
<1>1. ASSUME NEW c \in Conns, Continue(c)
      PROVE  raced' = raced
  BY <1>1 DEF Continue, GateRefuses, VacateOld, VacateNext, RecheckRefuses, RecheckAllows,
              MoveHere, DisplacedLate, Moved, StartConfirm, StartSet, StopClear, Denied
<1>2. ASSUME NEW c \in Conns, NEW r \in Rooms, Request(c, r)
      PROVE  raced' = raced
  BY <1>2 DEF Request, Replay, Leave, LeaveOwnVoice, Join, StartAsk, StopAsk
<1> QED
  BY <1>1, <1>2
     DEF Next, Socket, Connect, FallSilent, Disconnect, EvictAsk, Evict, TombstoneExpires, DropExpires

(* A join that is vacating got there by its own step, or stands where it was. *)
LEMMA Switches ==
    ASSUME TypeOK, Next, NEW k \in Conns, \A c \in Conns : ~GateAllows(c) /\ ~VacateNext(c),
           Switching(k)'
    PROVE  task'[k] = task[k] \/ VacateOld(k)
<1>1. ASSUME NEW c \in Conns, NEW t, Goto(c, t), t.at \notin {"vacating", "vacated"}
      PROVE  task'[k] = task[k]
  BY <1>1 DEF Goto, Switching, TypeOK
<1>2. ASSUME NEW c \in Conns, NEW r, NEW mode, Displace(c, r, mode)
      PROVE  task'[k] = task[k]
  <2>1. \E t : Goto(c, t) /\ t.at \in {"moved", "displaced"}
    BY <1>2 DEF Displace
  <2> QED
    BY <1>1, <2>1
<1>3. ASSUME NEW c \in Conns, NEW r \in Rooms, Request(c, r)
      PROVE  task'[k] = task[k]
  <2>1. CASE Replay(c, r)
    BY <1>1, <2>1 DEF Replay
  <2>2. CASE LeaveOwnVoice(c, r)
    BY <1>2, <2>2 DEF LeaveOwnVoice
  <2>3. ASSUME NEW mode, Join(c, r, mode)
        PROVE  task'[k] = task[k]
    BY <1>1, <2>3 DEF Join
  <2>4. ASSUME NEW kind, StartAsk(c, r, kind) \/ StopAsk(c, r, kind)
        PROVE  task'[k] = task[k]
    <3>1. \E t : Goto(c, t) /\ t.at \in {"starting", "confirming", "stopping"}
      BY <2>4 DEF StartAsk, StopAsk
    <3> QED
      BY <1>1, <3>1
  <2> QED
    BY <1>3, <2>1, <2>2, <2>3, <2>4 DEF Request, Leave
<1>4. ASSUME NEW c \in Conns, Continue(c)
      PROVE  task'[k] = task[k] \/ VacateOld(k)
  <2>1. CASE VacateOld(c)
    BY <2>1 DEF VacateOld, Goto, TypeOK
  <2>2. CASE MoveHere(c)
    BY <1>2, <2>2 DEF MoveHere
  <2>3. CASE DisplacedLate(c) \/ StartConfirm(c)
    <3>1. task'[c].at \notin {"vacating", "vacated"} /\ \A j \in Conns \ {c} : task'[j] = task[j]
      BY <2>3, TaskShapes DEF DisplacedLate, StartConfirm, Goto, At, TypeOK, Idle
    <3> QED
      BY <3>1 DEF Switching
  <2>4. CASE Goto(c, Idle)
    BY <1>1, <2>4 DEF Idle
  <2>5. CASE Moved(c)
    BY <1>1, <2>5 DEF Moved, Finish, Idle
  <2> QED
    BY <1>4, <2>1, <2>2, <2>3, <2>4, <2>5
       DEF Continue, GateRefuses, RecheckRefuses, RecheckAllows, Finish, StartSet, StopClear, Denied
<1> QED
  BY <1>3, <1>4
     DEF Next, Socket, Connect, FallSilent, Disconnect, EvictAsk, Evict, TombstoneExpires, DropExpires

(* The way on: into the next room to vacate, or into the one it joins.        *)
LEMMA AdvanceExclusive ==
    ASSUME TypeOK, NEW c \in Conns, NEW L \in SUBSET Rooms, Advance(c, L), task[c].room \in Rooms,
           \A r \in Rooms : In(UserOf(c), r) => r = task[c].room \/ r \in L,
           \A k \in Conns \ {c} : UserOf(k) = UserOf(c) => ~Switching(k)
    PROVE  /\ Lone(UserOf(c))' /\ Stocked(UserOf(c))'
           /\ OneRoom(UserOf(c)) => OneRoom(UserOf(c))'
<1> DEFINE u == UserOf(c)
           t == task[c]
           still == {x \in L : In(u, x)}
<1>0. \A k \in Conns : UserOf(k)' = UserOf(k)
  BY DEF UserOf
<1>1. CASE /\ still = {}
           /\ rooms' = [rooms EXCEPT ![t.room].member = @ \cup {c}]
           /\ Goto(c, [at |-> "recheck", room |-> t.room, mode |-> t.mode,
                      known |-> t.room \in joined[c] \/ In(u, t.room)])
  <2>1. \A k \in Conns : UserOf(k) = u => ~Switching(k)'
    BY <1>1 DEF Goto, Switching, TypeOK
  <2>2. \A r \in Rooms : In(u, r)' => r = t.room
    <3>1. \A r \in Rooms \ {t.room} : rooms'[r] = rooms[r]
      BY <1>1 DEF TypeOK
    <3>2. \A r \in Rooms : In(u, r) => r = t.room
      BY <1>1
    <3> QED
      BY <3>1, <3>2 DEF In, OfUser, UserOf
  <2> QED
    BY <2>1, <2>2 DEF Lone, Stocked, OneRoom, UserOf
<1>2. ASSUME NEW old \in still, UNCHANGED rooms,
             Goto(c, [at |-> "vacating", room |-> t.room, mode |-> t.mode, left |-> still \ {old},
                      old |-> old, held |-> OfUser(rooms[old].member, u)])
      PROVE  /\ Lone(u)' /\ Stocked(u)' /\ (OneRoom(u) => OneRoom(u)')
  <2>1. \A k \in Conns \ {c} : UserOf(k) = u => ~Switching(k)'
    BY <1>2 DEF Goto, Switching, TypeOK
  <2>2. /\ task'[c].room = t.room /\ task'[c].at = "vacating"
        /\ task'[c].left = still \ {old} /\ task'[c].old = old
    BY <1>2 DEF Goto, TypeOK
  <2>3. ToVacate(task'[c]) = still
    BY <2>2 DEF ToVacate
  <2>4. \A r \in Rooms : In(u, r)' <=> In(u, r)
    BY <1>2 DEF In, OfUser, UserOf
  <2>5. \A r \in Rooms : In(u, r)' => r = task'[c].room \/ r \in ToVacate(task'[c])
    BY <2>2, <2>3, <2>4
  <2>6. Stocked(u)'
    <3>1. \A k \in Conns : UserOf(k) = u /\ Switching(k)' => k = c
      BY <2>1
    <3> QED
      BY <2>5, <3>1 DEF Stocked, UserOf, ToVacate
  <2> QED
    BY <2>1, <2>4, <2>6 DEF Lone, OneRoom, UserOf
<1> QED
  BY <1>1, <1>2 DEF Advance

(* An account whose joins do not race is in one room before and after.        *)
LEMMA ExclusiveStep ==
    ASSUME TypeOK, Exclusive, Next
    PROVE  Exclusive'
<1> SUFFICES ASSUME NEW u \in Users, u \notin raced'
             PROVE  Lone(u)' /\ Stocked(u)' /\ OneRoom(u)'
  BY DEF Exclusive, Users
<1>1. CASE \A c \in Conns : ~GateAllows(c) /\ ~VacateNext(c)
  <2>1. u \notin raced /\ Lone(u) /\ Stocked(u) /\ OneRoom(u)
    <3>1. raced' = raced
      BY <1>1, RacedStays
    <3> QED
      BY <3>1 DEF Exclusive
  <2>2. \A r \in Rooms : In(u, r)' => In(u, r)
    BY <1>1, MembersShrink DEF In, OfUser, UserOf
  <2>3. \A k \in Conns : Switching(k)' => Switching(k)
    BY <1>1, Switches DEF Switching, VacateOld, At
  <2>4. ASSUME NEW k \in Conns, UserOf(k) = u, Switching(k)', NEW r \in Rooms, In(u, r)'
        PROVE  r = task'[k].room \/ r \in ToVacate(task'[k])
    <3>1. r = task[k].room \/ r \in ToVacate(task[k])
      BY <2>1, <2>2, <2>3, <2>4 DEF Stocked
    <3>2. CASE task'[k] = task[k]
      BY <3>1, <3>2
    <3>3. CASE VacateOld(k)
      <4>1. task[k].at = "vacating" /\ task[k].old \in Rooms
        BY <3>3, TaskShapes DEF VacateOld, At
      <4>2. /\ task'[k].room = task[k].room /\ task'[k].left = task[k].left
            /\ task'[k].at = "vacated"
        BY <3>3 DEF VacateOld, Goto, TypeOK
      <4>3. r # task[k].old
        <5>1. rooms'[task[k].old] = Settled(WithoutUser(rooms[task[k].old], u))
          BY <2>4, <3>3, <4>1 DEF VacateOld, TypeOK
        <5>2. OfUser(rooms'[task[k].old].member, u) = {}
          BY <5>1 DEF Settled, WithoutUser, NoRoom, OfUser
        <5>3. OfUser(rooms'[r].member, u) # {}
          BY <2>4 DEF In, OfUser, UserOf
        <5> QED
          BY <5>2, <5>3
      <4> QED
        BY <3>1, <4>1, <4>2, <4>3 DEF ToVacate
    <3> QED
      BY <1>1, <2>4, <3>2, <3>3, Switches
  <2> QED
    BY <2>1, <2>2, <2>3, <2>4 DEF Lone, Stocked, OneRoom, UserOf, ToVacate
<1>2. ASSUME NEW c \in Conns, GateAllows(c)
      PROVE  Lone(u)' /\ Stocked(u)' /\ OneRoom(u)'
  <2>1. u \notin raced /\ Lone(u) /\ Stocked(u) /\ OneRoom(u)
    BY <1>2 DEF GateAllows, Exclusive
  <2>2. \A r \in Rooms : In(u, r)' <=> In(u, r)
    BY <1>2 DEF GateAllows, In, OfUser, UserOf
  <2>3. \A k \in Conns \ {c} : task'[k] = task[k]
    BY <1>2 DEF GateAllows, Goto, TypeOK
  <2>4. CASE UserOf(c) = u
    <3>1. \A k \in Conns : UserOf(k) = u /\ Switching(k)' => k = c
      BY <1>2, <2>3, <2>4 DEF GateAllows, Switching
    <3>2. \A r \in Rooms : In(u, r)' => r = task'[c].room \/ r \in ToVacate(task'[c])
      <4>1. task'[c].room = task[c].room /\ task'[c].left = OtherRooms(c, task[c].room)
        BY <1>2 DEF GateAllows, Goto, TypeOK
      <4> QED
        BY <2>2, <2>4, <4>1 DEF OtherRooms, ToVacate
    <3> QED
      BY <2>1, <2>2, <3>1, <3>2 DEF Lone, Stocked, OneRoom, UserOf, ToVacate
  <2>5. CASE UserOf(c) # u
    <3>1. \A k \in Conns : UserOf(k) = u => task'[k] = task[k]
      BY <2>3, <2>5
    <3> QED
      BY <2>1, <2>2, <3>1 DEF Lone, Stocked, OneRoom, UserOf, Switching, ToVacate
  <2> QED
    BY <2>4, <2>5
<1>3. ASSUME NEW c \in Conns, VacateNext(c)
      PROVE  Lone(u)' /\ Stocked(u)' /\ OneRoom(u)'
  <2>0. u \notin raced /\ Lone(u) /\ Stocked(u) /\ OneRoom(u)
    BY <1>3 DEF VacateNext, Exclusive
  <2>1. PICK L \in SUBSET Rooms :
          /\ Advance(c, L) /\ task[c].room \in Rooms
          /\ UserOf(c) = u => \A r \in Rooms : In(u, r) => r = task[c].room \/ r \in L
    <3>1. /\ Advance(c, task[c].left) /\ task[c].room \in Rooms
          /\ task[c].left \in SUBSET Rooms /\ task[c].at = "vacated"
      BY <1>3, TaskShapes DEF VacateNext, At
    <3>2. UserOf(c) = u => \A r \in Rooms : In(u, r) => r = task[c].room \/ r \in task[c].left
      BY <2>0, <3>1 DEF Stocked, Switching, ToVacate
    <3> QED
      BY <3>1, <3>2
  <2>2. CASE UserOf(c) = u
    <3>1. \A k \in Conns \ {c} : UserOf(k) = u => ~Switching(k)
      BY <1>3, <2>0, <2>2 DEF VacateNext, At, Lone, Switching
    <3> QED
      BY <2>0, <2>1, <2>2, <3>1, AdvanceExclusive DEF Lone, Stocked, OneRoom, UserOf
  <2>3. CASE UserOf(c) # u
    <3>1. \A k \in Conns : UserOf(k) = u => task'[k] = task[k]
      BY <2>1, <2>3 DEF Advance, Goto, TypeOK
    <3>2. \A r \in Rooms : In(u, r)' <=> In(u, r)
      <4>1. UNCHANGED rooms \/ rooms' = [rooms EXCEPT ![task[c].room].member = @ \cup {c}]
        BY <2>1 DEF Advance
      <4>2. \A r \in Rooms : rooms'[r].member \in {rooms[r].member, rooms[r].member \cup {c}}
        BY <4>1 DEF TypeOK, Room
      <4> QED
        BY <2>3, <4>2 DEF In, OfUser, UserOf
    <3> QED
      BY <2>0, <3>1, <3>2 DEF Lone, Stocked, OneRoom, UserOf, Switching, ToVacate
  <2> QED
    BY <2>2, <2>3
<1> QED
  BY <1>1, <1>2, <1>3

(* One call per account: a join vacates every other room its user is in       *)
(* before it enters (voice exclusivity in JoinRoom), however many awaits that *)
(* takes and whatever is left, replayed or evicted meanwhile, unless another  *)
(* join of the account stands between its stock and its entry at the same     *)
(* time, with rooms to vacate or with none.                                   *)
THEOREM OneCallEach == Spec => []ExclusiveUnlessRaced
<1>1. Init => Exclusive
  <2> SUFFICES ASSUME Init PROVE Exclusive
    OBVIOUS
  <2>1. \A c \in Conns : ~Switching(c)
    BY DEF Init, Switching, Idle
  <2>2. \A u \in Users, r \in Rooms : ~In(u, r)
    BY DEF Init, In, OfUser, NoRoom
  <2> QED
    BY <2>1, <2>2 DEF Exclusive, Lone, Stocked, OneRoom
<1>2. TypeOK /\ Exclusive /\ [Next]_vars => Exclusive'
  <2>1. CASE UNCHANGED vars
    BY <2>1 DEF vars, Exclusive, Lone, Stocked, OneRoom, In, OfUser, UserOf, Switching, ToVacate, Users
  <2> QED
    BY <2>1, ExclusiveStep
<1>3. Exclusive => ExclusiveUnlessRaced
  <2> SUFFICES ASSUME Exclusive, NEW u \in Users \ raced
               PROVE  Cardinality({r \in Rooms : In(u, r)}) <= 1
    BY DEF ExclusiveUnlessRaced, OneCall
  <2> DEFINE S == {r \in Rooms : In(u, r)}
  <2>1. \A r, s \in S : r = s
    BY DEF Exclusive, OneRoom
  <2>2. S = {} \/ \E r : S = {r}
    <3> HIDE DEF S
    <3> QED
      BY <2>1
  <2>3. Cardinality(S) \in {0, 1}
    <3> HIDE DEF S
    <3> QED
      BY <2>2, FS_EmptySet, FS_Singleton
  <2> QED
    BY <2>3
<1> QED
  BY <1>1, <1>2, <1>3, TypeCorrect, PTL DEF Spec
=============================================================================
