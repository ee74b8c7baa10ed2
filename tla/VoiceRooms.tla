----------------------------- MODULE VoiceRooms -----------------------------
(***************************************************************************)
(* Voice calls: Room (state.rs) and the handlers of ws.rs that change who  *)
(* is in a voice room and who holds media there.  Membership and media are *)
(* counted per socket; what a user is or holds is what any of their        *)
(* sockets does.  One account may be signed in on several devices          *)
(* (sessions), and only one of them should be in a call.                   *)
(*                                                                         *)
(* A handler is split where it awaits: task[c] says where the handler of   *)
(* socket c stands, and a step is what happens between two awaits.  The    *)
(* frames to other members, the call's speak rights, games and the SFU are *)
(* not part of this module.  Camera and screen share are treated alike by  *)
(* Room; share stands for both.                                            *)
(***************************************************************************)
EXTENDS Naturals, Sequences, FiniteSets

CONSTANTS
    Rooms,      \* voice rooms
    Sid,        \* sequence of sessions: socket c is opened by session Sid[c]
    Account,    \* [sessions -> users]
    MaxEvents,  \* bound: requests made (replays aside), sockets fallen silent, expiries
    None        \* Option::None

Conns == DOMAIN Sid     \* each opened at most once, a session's in this order
Sessions == DOMAIN Account
Users == {Account[s] : s \in Sessions}

ASSUME VoiceAssumption ==
    /\ Sid \in Seq(Sessions)
    /\ MaxEvents \in Nat /\ None \notin Rooms

VARIABLES
    conn,     \* per socket: is it open, and what is still to be replayed on it
    task,     \* per socket: the handler under way
    rooms,    \* AppState.rooms: who is in, who holds which media
    joined,   \* per socket: the handler's joined_rooms
    tomb,     \* voice_tombstones
    drops,    \* voice_drops
    recalls,  \* per session: the client's joinedRooms, replayed on reconnect
    evicting, \* evictions by others, between their look at the room and its change
    raced,    \* accounts that ever overlapped two channel switches
    events,   \* how many of the bounded events happened
    told      \* the RoomLeft frames of the last step

vars == <<conn, task, rooms, joined, tomb, drops, recalls, evicting, raced, events, told>>

UserOf(c) == Account[Sid[c]]

Kinds == {"stream", "share"}
Room == [member : SUBSET Conns, stream : SUBSET Conns, share : SUBSET Conns]
NoRoom == [member |-> {}, stream |-> {}, share |-> {}]

Modes == {"join", "takeover", "replay"}
Idle == [at |-> "idle"]
Task ==
    {Idle}
        \cup [at : {"gate"}, room : Rooms, mode : Modes]
        \cup [at : {"vacating"}, room : Rooms, mode : Modes, left : SUBSET Rooms,
              old : Rooms, held : SUBSET Conns]
        \cup [at : {"vacated"}, room : Rooms, mode : Modes, left : SUBSET Rooms]
        \cup [at : {"recheck"}, room : Rooms, mode : Modes, known : BOOLEAN]
        \cup [at : {"displaced", "moved"}, room : Rooms, mode : {"takeover", "leave"},
              gone : SUBSET Conns]
        \cup [at : {"starting", "confirming", "stopping"}, room : Rooms, kind : Kinds]

Eviction == [user : Users, room : Rooms, ended : BOOLEAN, held : SUBSET Conns]

\* Types; and a room that nobody is in holds nothing, whatever was started in it
\* while the last member left (settle_room drops it, set_media makes none).
TypeOK ==
    /\ conn \in [Conns -> [stage : {"none", "up", "silent", "gone"}, todo : SUBSET Rooms]]
    /\ task \in [Conns -> Task]
    /\ rooms \in [Rooms -> Room]
    /\ \A r \in Rooms : rooms[r].member = {} => rooms[r] = NoRoom
    /\ joined \in [Conns -> SUBSET Rooms]
    /\ tomb \in [Sessions -> Rooms \cup {None}]
    /\ drops \in [Sessions -> Rooms \cup {None}]
    /\ recalls \in [Sessions -> SUBSET Rooms]
    /\ evicting \in SUBSET Eviction
    /\ raced \in SUBSET Users
    /\ events \in 0..MaxEvents
    /\ told \in SUBSET [to : Conns, room : Rooms]

Init ==
    /\ conn = [c \in Conns |-> [stage |-> "none", todo |-> {}]]
    /\ task = [c \in Conns |-> Idle]
    /\ rooms = [r \in Rooms |-> NoRoom]
    /\ joined = [c \in Conns |-> {}]
    /\ tomb = [s \in Sessions |-> None]
    /\ drops = [s \in Sessions |-> None]
    /\ recalls = [s \in Sessions |-> {}]
    /\ evicting = {}
    /\ raced = {}
    /\ events = 0
    /\ told = {}

-----------------------------------------------------------------------------
(* One room.  A room without members is dropped with whatever it holds     *)
(* (settle_room), in the step that empties it.                             *)

OfUser(S, u) == {c \in S : UserOf(c) = u}
In(u, r) == OfUser(rooms[r].member, u) # {}
Settled(rm) == IF rm.member = {} THEN NoRoom ELSE rm

\* remove_member
WithoutUser(rm, u) ==
    [member |-> rm.member \ OfUser(rm.member, u),
     stream |-> rm.stream \ OfUser(rm.stream, u),
     share  |-> rm.share \ OfUser(rm.share, u)]

\* Faulty: a share outlives its socket.
WithoutConnsKeepsShare(rm, S, u) ==
    LET heirs == OfUser(rm.member, u) \ S
    IN IF OfUser(rm.member, u) # {} /\ heirs = {} THEN WithoutUser(rm, u)
       ELSE [rm EXCEPT !.member = @ \ S,
                       !.stream = IF @ \cap S = {} THEN @ ELSE (@ \ S) \cup heirs]
\* Faulty: voice is dropped with its socket.
WithoutConnsNoHeir(rm, S, u) ==
    IF OfUser(rm.member, u) # {} /\ OfUser(rm.member, u) \subseteq S THEN WithoutUser(rm, u)
    ELSE [member |-> rm.member \ S, stream |-> rm.stream \ S, share |-> rm.share \ S]

\* remove_member_conn on some sockets of u: their media goes with them, except
\* that the voice of a user who is still in the room passes to their other
\* sockets there (inherit_stream_claim).
WithoutConns(rm, S, u) ==
    LET heirs == OfUser(rm.member, u) \ S
        voice == OfUser(rm.stream, u)
    IN IF OfUser(rm.member, u) # {} /\ heirs = {} THEN WithoutUser(rm, u)
       ELSE [member |-> rm.member \ S,
             stream |-> (rm.stream \ S)
                        \cup (IF voice # {} /\ voice \subseteq S THEN heirs ELSE {}),
             share  |-> rm.share \ S]
WithoutConn(rm, c) == WithoutConns(rm, {c}, UserOf(c))

-----------------------------------------------------------------------------
(* Sockets and what is sent to them.                                       *)

Registered(c) == conn[c].stage \in {"up", "silent"}
Free(c) == Registered(c) /\ task[c] = Idle
Hears(c) == conn[c].stage = "up"
\* One of the bounded events.
Event == events < MaxEvents /\ events' = events + 1

\* The client sends on a live socket, its replays first.
Frame(c) == Free(c) /\ Hears(c) /\ conn[c].todo = {} /\ Event
SocketsOf(u) == {c \in Conns : Registered(c) /\ UserOf(c) = u}

Left(S, r) == {[to |-> c, room |-> r] : c \in S}

\* A RoomLeft that arrives takes the room off the client's rejoin list.
Forget(known, msgs) ==
    [s \in Sessions |->
        known[s] \ {m.room : m \in {n \in msgs : Hears(n.to) /\ Sid[n.to] = s}}]
Send(msgs) == told' = msgs /\ recalls' = Forget(recalls, msgs)

\* tombstone_voice, for the sessions of some registered sockets
Tombstoned(S, r) ==
    [s \in Sessions |-> IF \E k \in S : Registered(k) /\ Sid[k] = s THEN r ELSE tomb[s]]

\* The handler writes and waits: it never goes on in the same step.
Goto(c, t) == task' = [task EXCEPT ![c] = t]
At(c, step) == Registered(c) /\ task[c].at = step

\* A client opens one socket at a time and replays what it remembers first.
Connect(c) ==
    /\ conn[c].stage = "none"
    /\ \A k \in Conns : Sid[k] = Sid[c] => ~Hears(k) /\ (k < c => conn[k].stage # "none")
    /\ conn' = [conn EXCEPT ![c] = [stage |-> "up", todo |-> recalls[Sid[c]]]]
    /\ told' = {}
    /\ UNCHANGED <<task, rooms, joined, tomb, drops, recalls, evicting, raced, events>>

\* The network is gone and the server does not know: the socket stays
\* registered, and what is sent to it is lost.
FallSilent(c) ==
    /\ Hears(c) /\ Event
    /\ conn' = [conn EXCEPT ![c] = [stage |-> "silent", todo |-> {}]]
    /\ told' = {}
    /\ UNCHANGED <<task, rooms, joined, tomb, drops, recalls, evicting, raced>>

\* note_voice_drop for each voice room the socket's death takes the user out of:
\* the last one stands.
Dropped(c) ==
    LET left == {r \in Rooms : OfUser(rooms[r].member, UserOf(c)) = {c}}
    IN IF left = {} THEN {drops[Sid[c]]} ELSE left

\* The socket closes between two frames: unregister_session takes it out of
\* every room and notes the drop.
Disconnect(c) ==
    /\ Free(c)
    /\ conn' = [conn EXCEPT ![c] = [stage |-> "gone", todo |-> {}]]
    /\ rooms' = [r \in Rooms |-> Settled(WithoutConn(rooms[r], c))]
    /\ \E d \in Dropped(c) : drops' = [drops EXCEPT ![Sid[c]] = d]
    /\ joined' = [joined EXCEPT ![c] = {}]
    /\ told' = {}
    /\ UNCHANGED <<task, tomb, recalls, evicting, raced, events>>

-----------------------------------------------------------------------------
(* JoinRoom.                                                               *)

\* voice_call_on_another_session
CallElsewhere(c) ==
    \E r \in Rooms : \E k \in OfUser(rooms[r].member, UserOf(c)) \ {c} :
        Registered(k) /\ Sid[k] # Sid[c]

\* A replay meets the session's tombstone, or a call on another device.
ReplayRefused(c, r) == tomb[Sid[c]] = r \/ CallElsewhere(c)

Replay(c, r) ==
    /\ Free(c) /\ r \in conn[c].todo
    /\ conn' = [conn EXCEPT ![c].todo = @ \ {r}]
    /\ IF ReplayRefused(c, r)
       THEN /\ tomb' = [tomb EXCEPT ![Sid[c]] = r]
            /\ joined' = [joined EXCEPT ![c] = @ \ {r}]
            /\ Send(Left({c}, r))
            /\ UNCHANGED task
       ELSE /\ Goto(c, [at |-> "gate", room |-> r, mode |-> "replay"])
            /\ Send({})
            /\ UNCHANGED <<tomb, joined>>
    /\ UNCHANGED <<rooms, drops, evicting, raced, events>>

\* A join somebody pressed.
Join(c, r, mode) ==
    /\ Frame(c)
    /\ tomb' = [tomb EXCEPT ![Sid[c]] = None]
    /\ recalls' = [recalls EXCEPT ![Sid[c]] = @ \cup {r}]
    /\ Goto(c, [at |-> "gate", room |-> r, mode |-> mode])
    /\ told' = {}
    /\ UNCHANGED <<conn, rooms, joined, drops, evicting, raced>>

\* Voice exclusivity: on to the next other room the user is in, or into the room.
Advance(c, left) ==
    LET t == task[c]
        u == UserOf(c)
        still == {x \in left : In(u, x)}
    IN \/ /\ still = {}
          /\ rooms' = [rooms EXCEPT ![t.room].member = @ \cup {c}]
          /\ joined' = [joined EXCEPT ![c] = @ \cup {t.room}]
          /\ Goto(c, [at |-> "recheck", room |-> t.room, mode |-> t.mode,
                      known |-> t.room \in joined[c] \/ In(u, t.room)])
       \/ \E old \in still :
          /\ Goto(c, [at |-> "vacating", room |-> t.room, mode |-> t.mode, left |-> still \ {old},
                      old |-> old, held |-> OfUser(rooms[old].member, u)])
          /\ UNCHANGED <<rooms, joined>>

\* Faulty: only the rooms this socket is in are vacated.
OwnOtherRooms(c, r) == {x \in Rooms \ {r} : c \in rooms[x].member}

OtherRooms(c, r) == {x \in Rooms \ {r} : In(UserOf(c), x)}

\* Between the stock and the entry.
Switching(c) == task[c].at \in {"vacating", "vacated"}

\* The permission gate's answer, then the stock of the rooms to vacate.  Another
\* task of the account may run between that and the entry, rooms to vacate or not.
GateAllows(c) ==
    /\ At(c, "gate")
    /\ LET t == task[c]
       IN Goto(c, [at |-> "vacated", room |-> t.room, mode |-> t.mode,
                   left |-> OtherRooms(c, t.room)])
    /\ raced' = IF \E k \in Conns \ {c} : UserOf(k) = UserOf(c) /\ Switching(k)
                THEN raced \cup {UserOf(c)} ELSE raced
    /\ Send({})
    /\ UNCHANGED <<conn, rooms, joined, tomb, drops, evicting, events>>

\* A refused replay whose channel is gone for good is told so and tombstoned;
\* every other refusal is an Error frame.
GateRefuses(c) ==
    /\ At(c, "gate")
    /\ LET t == task[c]
       IN \/ /\ t.mode = "replay"
             /\ tomb' = [tomb EXCEPT ![Sid[c]] = t.room]
             /\ joined' = [joined EXCEPT ![c] = @ \ {t.room}]
             /\ Send(Left({c}, t.room))
          \/ /\ Send({})
             /\ UNCHANGED <<tomb, joined>>
    /\ Goto(c, Idle)
    /\ UNCHANGED <<conn, rooms, drops, evicting, raced, events>>

\* Faulty: only the sockets seen in the room before the await are told.
EvictionNoticesHeld(u, r, held) == Left(SocketsOf(u) \cap held, r)

\* Every socket of the user is told, whichever held the call.
EvictionNotices(u, r, held) == Left(SocketsOf(u), r)

\* evict_user_from_voice_room(Displaced), after its await.
VacateOld(c) ==
    /\ At(c, "vacating")
    /\ LET t == task[c]
           u == UserOf(c)
       IN /\ rooms' = [rooms EXCEPT ![t.old] = Settled(WithoutUser(@, u))]
          /\ tomb' = Tombstoned({k \in t.held \ {c} : Sid[k] # Sid[c]}, t.old)
          /\ Send(EvictionNotices(u, t.old, t.held))
          /\ Goto(c, [at |-> "vacated", room |-> t.room, mode |-> t.mode, left |-> t.left])
    /\ UNCHANGED <<conn, joined, drops, evicting, raced, events>>

VacateNext(c) ==
    /\ At(c, "vacated")
    /\ Advance(c, task[c].left)
    /\ Send({})
    /\ UNCHANGED <<conn, tomb, drops, evicting, raced, events>>

\* withdraw_refused_join
RecheckRefuses(c) ==
    /\ At(c, "recheck")
    /\ LET t == task[c]
       IN /\ rooms' = [rooms EXCEPT ![t.room] = Settled(WithoutConn(@, c))]
          /\ joined' = [joined EXCEPT ![c] = @ \ {t.room}]
          /\ Send(IF t.known THEN Left({c}, t.room) ELSE {})
    /\ Goto(c, Idle)
    /\ UNCHANGED <<conn, tomb, drops, evicting, raced, events>>

\* recent_voice_drops of the account's other sessions
DropsTombstoned(known, c, only) ==
    [s \in Sessions |->
        IF /\ s # Sid[c] /\ Account[s] = UserOf(c)
           /\ drops[s] # None /\ drops[s] \in only
        THEN drops[s] ELSE known[s]]

\* The rest of a join that was not withdrawn: drops of the account's other
\* devices are tombstoned, and the voice claim is asserted if nobody of the
\* account holds it.
Claimed(rm, c) ==
    IF rm.member # {} /\ OfUser(rm.stream, UserOf(c)) = {}
    THEN [rm EXCEPT !.stream = @ \cup {c}] ELSE rm

Finish(c, r, mode, known) ==
    /\ tomb' = IF mode = "replay" THEN known ELSE DropsTombstoned(known, c, Rooms)
    /\ rooms' = [rooms EXCEPT ![r] = Claimed(@, c)]
    /\ Goto(c, Idle)

\* displace_own_conns
Displaced(c, r) == OfUser(rooms[r].member, UserOf(c)) \ {c}
TakesOver(c) == task[c].mode = "takeover" /\ Displaced(c, task[c].room) # {}

RecheckAllows(c) ==
    /\ At(c, "recheck") /\ ~TakesOver(c)
    /\ Finish(c, task[c].room, task[c].mode, tomb)
    /\ Send({})
    /\ UNCHANGED <<conn, joined, drops, evicting, raced, events>>

\* The account's other sockets leave the room and are told.  If the user is still
\* in it (Move here) their sessions are tombstoned at once, otherwise after the
\* roster's audience has been read.
Displace(c, r, mode) ==
    LET S == Displaced(c, r)
        foreign == {k \in S : Sid[k] # Sid[c]}
        here == c \in rooms[r].member
    IN /\ rooms' = [rooms EXCEPT ![r] = Settled(WithoutConns(@, S, UserOf(c)))]
       /\ Send(Left(S, r))
       /\ tomb' = IF here THEN Tombstoned(foreign, r) ELSE tomb
       /\ Goto(c, [at |-> IF here THEN "moved" ELSE "displaced", room |-> r, mode |-> mode,
                   gone |-> foreign])

MoveHere(c) ==
    /\ At(c, "recheck") /\ TakesOver(c)
    /\ Displace(c, task[c].room, "takeover")
    /\ UNCHANGED <<conn, joined, drops, evicting, raced, events>>

DisplacedLate(c) ==
    /\ At(c, "displaced")
    /\ tomb' = Tombstoned(task[c].gone, task[c].room)
    /\ Goto(c, [task[c] EXCEPT !.at = "moved"])
    /\ Send({})
    /\ UNCHANGED <<conn, rooms, joined, drops, evicting, raced, events>>

\* Back in the handler that displaced: the join goes on, the leave is done.
Moved(c) ==
    /\ At(c, "moved")
    /\ LET t == task[c]
       IN IF t.mode = "takeover" THEN Finish(c, t.room, t.mode, tomb)
          ELSE /\ tomb' = DropsTombstoned(tomb, c, {t.room})
               /\ Goto(c, Idle)
               /\ UNCHANGED rooms
    /\ Send({})
    /\ UNCHANGED <<conn, joined, drops, evicting, raced, events>>

-----------------------------------------------------------------------------
(* Leaving, here or on another device, and being put out.                  *)

\* Of a room neither side lists it changes nothing, and is left out.
Leave(c, r) ==
    /\ Frame(c) /\ r \in joined[c] \cup recalls[Sid[c]]
    /\ rooms' = [rooms EXCEPT ![r] = Settled(WithoutConn(@, c))]
    /\ joined' = [joined EXCEPT ![c] = @ \ {r}]
    /\ Send(Left({c}, r))
    /\ UNCHANGED <<conn, task, tomb, drops, evicting, raced>>

\* LeaveOwnVoice: the account's call on its other devices, or one that just
\* dropped; anything else changes nothing, and is left out.
LeaveOwnVoice(c, r) ==
    /\ Frame(c)
    /\ Displaced(c, r) # {} \/ \E s \in Sessions \ {Sid[c]} : drops[s] = r
    /\ IF Displaced(c, r) # {} THEN Displace(c, r, "leave")
       ELSE /\ tomb' = DropsTombstoned(tomb, c, {r})
            /\ Send({})
            /\ UNCHANGED <<rooms, task>>
    /\ UNCHANGED <<conn, joined, drops, evicting, raced>>

\* evict_user_from_voice_room by others: a kick, a ban, a permission sweep (Gone)
\* or the end of the channel.  It looks who holds the call, ...
EvictAsk(u, r, ended) ==
    /\ In(u, r) /\ Event
    /\ evicting' = evicting \cup
            {[user |-> u, room |-> r, ended |-> ended, held |-> OfUser(rooms[r].member, u)]}
    /\ Send({})
    /\ UNCHANGED <<conn, task, rooms, joined, tomb, drops, raced>>

\* ... and after its await takes every socket of the user out; a channel's end
\* tombstones the sockets it saw.
Evict(e) ==
    /\ evicting' = evicting \ {e}
    /\ rooms' = [rooms EXCEPT ![e.room] = Settled(WithoutUser(@, e.user))]
    /\ tomb' = IF e.ended THEN Tombstoned(e.held, e.room) ELSE tomb
    /\ Send(EvictionNotices(e.user, e.room, e.held))
    /\ UNCHANGED <<conn, task, joined, drops, raced, events>>

-----------------------------------------------------------------------------
(* Media: StartStream, ScreenShareStart, StopStream, ScreenShareStop.      *)

OnOtherSocketOnly(c, r) == In(UserOf(c), r) /\ c \notin rooms[r].member

\* start_from_displaced_conn, then can_mutate_room's membership test.
StartAsk(c, r, kind) ==
    /\ Frame(c)
    /\ ~OnOtherSocketOnly(c, r) /\ In(UserOf(c), r)
    /\ Goto(c, [at |-> IF kind = "stream" THEN "starting" ELSE "confirming",
                room |-> r, kind |-> kind])
    /\ Send({})
    /\ UNCHANGED <<conn, rooms, joined, tomb, drops, evicting, raced>>

\* A share asks a second time, for its own permission bit.
StartConfirm(c) ==
    /\ At(c, "confirming")
    /\ Goto(c, IF In(UserOf(c), task[c].room) THEN [task[c] EXCEPT !.at = "starting"] ELSE Idle)
    /\ Send({})
    /\ UNCHANGED <<conn, rooms, joined, tomb, drops, evicting, raced, events>>

\* Faulty: a claim makes the room it is for.
StartSetAnyRoom(c) ==
    /\ At(c, "starting")
    /\ rooms' = [rooms EXCEPT ![task[c].room][task[c].kind] = @ \cup {c}]
    /\ Goto(c, Idle)
    /\ Send({})
    /\ UNCHANGED <<conn, joined, tomb, drops, evicting, raced, events>>

\* set_media: the room is looked up again, the membership is not.
StartSet(c) ==
    /\ At(c, "starting")
    /\ LET t == task[c]
       IN rooms' = IF rooms[t.room].member = {} THEN rooms
                   ELSE [rooms EXCEPT ![t.room][t.kind] = @ \cup {c}]
    /\ Goto(c, Idle)
    /\ Send({})
    /\ UNCHANGED <<conn, joined, tomb, drops, evicting, raced, events>>

\* A stop is heeded from a socket in the room only...
StopAsk(c, r, kind) ==
    /\ Frame(c) /\ c \in rooms[r].member
    /\ Goto(c, [at |-> "stopping", room |-> r, kind |-> kind])
    /\ Send({})
    /\ UNCHANGED <<conn, rooms, joined, tomb, drops, evicting, raced>>

\* ... and clears the user's claims on every socket (clear_media).
StopClear(c) ==
    /\ At(c, "stopping")
    /\ LET t == task[c]
       IN rooms' = [rooms EXCEPT ![t.room][t.kind] = @ \ OfUser(@, UserOf(c))]
    /\ Goto(c, Idle)
    /\ Send({})
    /\ UNCHANGED <<conn, joined, tomb, drops, evicting, raced, events>>

\* The permission lookup denies, or the database fails.
Denied(c) ==
    /\ \E step \in {"confirming", "starting", "stopping"} : At(c, step)
    /\ Goto(c, Idle)
    /\ Send({})
    /\ UNCHANGED <<conn, rooms, joined, tomb, drops, evicting, raced, events>>

-----------------------------------------------------------------------------
\* VOICE_TOMBSTONE_TTL and VOICE_DROP_TTL (or the shorter window drops are read in).
TombstoneExpires(s) ==
    /\ tomb[s] # None /\ Event
    /\ tomb' = [tomb EXCEPT ![s] = None]
    /\ Send({})
    /\ UNCHANGED <<conn, task, rooms, joined, drops, evicting, raced>>

DropExpires(s) ==
    /\ drops[s] # None /\ Event
    /\ drops' = [drops EXCEPT ![s] = None]
    /\ Send({})
    /\ UNCHANGED <<conn, task, rooms, joined, tomb, evicting, raced>>

Socket(c) == Connect(c) \/ FallSilent(c) \/ Disconnect(c)
Continue(c) ==
    \/ GateAllows(c) \/ GateRefuses(c) \/ VacateOld(c) \/ VacateNext(c)
    \/ RecheckRefuses(c) \/ RecheckAllows(c) \/ MoveHere(c) \/ DisplacedLate(c) \/ Moved(c)
    \/ StartConfirm(c) \/ StartSet(c) \/ StopClear(c) \/ Denied(c)
Request(c, r) ==
    \/ Replay(c, r) \/ Leave(c, r) \/ LeaveOwnVoice(c, r)
    \/ \E mode \in {"join", "takeover"} : Join(c, r, mode)
    \/ \E kind \in Kinds : StartAsk(c, r, kind) \/ StopAsk(c, r, kind)

Next ==
    \/ \E c \in Conns : Socket(c) \/ Continue(c) \/ \E r \in Rooms : Request(c, r)
    \/ \E u \in Users, r \in Rooms, ended \in BOOLEAN : EvictAsk(u, r, ended)
    \/ \E e \in evicting : Evict(e)
    \/ \E s \in Sessions : TombstoneExpires(s) \/ DropExpires(s)

Spec == Init /\ [][Next]_vars

-----------------------------------------------------------------------------
(* Properties.                                                             *)

\* No ghosts: whatever a room holds, a socket whose disconnect is still to come
\* answers for it, so a dead device never stays in a call or keeps a tile.
NoGhosts ==
    \A r \in Rooms :
        rooms[r].member \cup rooms[r].stream \cup rooms[r].share \subseteq {c \in Conns : Registered(c)}

\* A user who stays in the call stays on the roster: whichever of their sockets
\* dies or is displaced, voice presence only ends by a stop they sent.
Stopping(u) == \E c \in Conns : UserOf(c) = u /\ StopClear(c)
VoiceOutlivesItsSocket ==
    [][\A r \in Rooms, u \in Users :
         /\ In(u, r) /\ In(u, r)'
         /\ OfUser(rooms[r].stream, u) # {} /\ OfUser(rooms[r].stream, u)' = {}
         => Stopping(u)]_vars

\* A socket that is taken out of a call by somebody else is told, whenever it
\* got in: media is peer to peer, so nothing else makes its client stop.
Own(c) == task'[c] # task[c] \/ Disconnect(c) \/ \E r \in Rooms : Leave(c, r)
EvictedAreTold ==
    [][\A c \in Conns, r \in Rooms :
         c \in rooms[r].member /\ c \notin rooms'[r].member =>
            Own(c) \/ \E m \in told' : m.to = c /\ m.room = r]_vars

\* Voice exclusivity: an account is in one voice room at a time, unless one of its joins
\* took its stock of the rooms to vacate while another had taken its own and was not
\* yet in its room.
OneCall(u) == Cardinality({r \in Rooms : In(u, r)}) <= 1
ExclusiveUnlessRaced == \A u \in Users \ raced : OneCall(u)
=============================================================================
