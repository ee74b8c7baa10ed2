--------------------------- MODULE FileTransfers ---------------------------
(***************************************************************************)
(* One file sent from one device to another (ws.rs File*, state.rs         *)
(* file_transfers, frontend/src/api/fileTransferManager.ts).               *)
(*                                                                         *)
(* The server only introduces the two ends: it relays an offer to every    *)
(* device of the recipient, or parks it until one connects, admits one     *)
(* accept, and relays the connection's descriptions.  The recipient is     *)
(* another account or the sender's own ("PC to phone").                    *)
(*                                                                         *)
(* A frame of a client and the server's handling of it are one step, taken *)
(* when the socket's task is free; frames to clients queue per socket.     *)
(* Nothing compares ages, so a transfer may expire at any time.            *)
(* Definitions commented "Faulty" are mutants, not part of the model.      *)
(***************************************************************************)
EXTENDS Naturals, FiniteSets, Sequences

CONSTANTS
    Devices,        \* the devices of both accounts
    Offerer,        \* the device that holds the file
    Users,          \* the accounts
    Cases,          \* who may own which device, send to whom, and hide
    NoDevice,       \* no device
    MaxConn,        \* bound: sockets ever opened
    MaxBreaks       \* bound: sockets that break

ASSUME FilesAssumption ==
    /\ Offerer \in Devices /\ NoDevice \notin Devices
    /\ Cases \subseteq [owner : [Devices -> Users], target : Users, hides : BOOLEAN]
    /\ \A k \in Cases : /\ \E d \in Devices \ {Offerer} : k.owner[d] = k.target
                        /\ k.hides => k.target # k.owner[Offerer]
    /\ MaxConn \in Nat \ {0} /\ MaxBreaks \in Nat

VARIABLES
    owner,      \* the account of each device
    target,     \* the account the file is for
    hides,      \* that account hides its presence
    conn,       \* the sockets, as the server knows them
    xfer,       \* the server's record of the transfer
    down,       \* frames on their way to the client of each socket
    sock,       \* the socket each client uses, 0 when it has none
    cl,         \* the transfer manager of each device
    hist        \* history, read by properties only

vars == <<owner, target, hides, conn, xfer, down, sock, cl, hist>>
fixed == <<owner, target, hides>>

-----------------------------------------------------------------------------
Conns == 1 .. MaxConn
Live == {"offered", "connecting", "transferring"}
NoXfer == [is |-> FALSE]
Self == target = owner[Offerer]

Unused == [dev |-> NoDevice, delivery |-> FALSE, at |-> "unused", net |-> FALSE,
           attested |-> FALSE, ok |-> FALSE]
NoCard == [card |-> "none", flow |-> "none", note |-> "none",
           checks |-> {}, dials |-> {}, fp |-> NoDevice, pc |-> FALSE, remote |-> NoDevice]

Registered(c) == conn[c].at \notin {"unused", "gone"}
UserOf(c) == owner[conn[c].dev]
Socks(u) == {c \in Conns : Registered(c) /\ UserOf(c) = u}

\* The background socket of a phone does not make its user reachable.
Visible(u) == {c \in Socks(u) : ~conn[c].delivery}

-----------------------------------------------------------------------------
(* Frames to clients *)

Frame(k, why, by) == [k |-> k, why |-> why, by |-> by]
Offered == Frame("offered", "", Offerer)
Parked(why) == Frame("parked", why, NoDevice)
Cancelled(why) == Frame("cancelled", why, NoDevice)

\* A background socket drops transfer frames unread, a broken one carries nothing.
Sent(q, S, f) ==
    [c \in Conns |-> IF c \in S /\ Registered(c) /\ conn[c].net /\ ~conn[c].delivery
                     THEN Append(q[c], f) ELSE q[c]]

-----------------------------------------------------------------------------
(* FileOffer *)

\* Somebody is there to see the offer: of one's own account, a second device.
Deliverable == IF Self THEN Cardinality(Visible(target)) >= 2 ELSE Visible(target) # {}

\* Whether the two may write to each other is looked up first.
FileOffer(c) == conn' = [conn EXCEPT ![c].at = "vet"]

\* They may not, the sender has too many transfers, or the id is taken: an error goes
\* back that names no transfer, and the card takes no notice.
RefuseOffer(c) ==
    /\ conn[c].at = "vet"
    /\ conn' = [conn EXCEPT ![c].at = "idle"]
    /\ hist' = [hist EXCEPT !.refused = TRUE]
    /\ UNCHANGED <<fixed, xfer, down, sock, cl>>

\* They may.  The answer to "is anybody there" is kept across the lookup of the
\* recipient's presence setting.
AdmitOffer(c) ==
    /\ conn[c].at = "vet"
    /\ conn' = [conn EXCEPT ![c].at = "ask", ![c].ok = Deliverable]
    /\ UNCHANGED <<fixed, xfer, down, sock, cl, hist>>

\* Faulty: the sender of an offer that went straight out is told nothing.
InsertOfferUnmasked(c) ==
    /\ conn[c].at = "ask"
    /\ conn' = [conn EXCEPT ![c].at = "idle", ![c].ok = FALSE]
    /\ xfer' = [is |-> TRUE, fromConn |-> c, toConn |-> 0, accepted |-> FALSE,
                parked |-> ~conn[c].ok, hidden |-> hides /\ ~Self]
    /\ down' = IF conn[c].ok THEN Sent(down, Socks(target) \ {c}, Offered)
               ELSE Sent(down, {c}, Parked("offline"))
    /\ UNCHANGED <<fixed, sock, cl, hist>>

InsertOffer(c) ==
    /\ conn[c].at = "ask"
    /\ conn' = [conn EXCEPT ![c].at = "idle", ![c].ok = FALSE]
    /\ xfer' = [is |-> TRUE, fromConn |-> c, toConn |-> 0, accepted |-> FALSE,
                parked |-> ~conn[c].ok, hidden |-> hides /\ ~Self]
    /\ LET out == IF conn[c].ok THEN Sent(down, Socks(target) \ {c}, Offered) ELSE down
       IN  down' = IF ~conn[c].ok \/ xfer'.hidden
                   THEN Sent(out, {c}, Parked("offline")) ELSE out
    /\ UNCHANGED <<fixed, sock, cl, hist>>

-----------------------------------------------------------------------------
(* Sockets: register, collect what is parked, prove the device, leave *)

\* The device a socket has proved to be.
DeviceOf(c) == IF Registered(c) /\ conn[c].attested THEN conn[c].dev ELSE NoDevice

\* An offer to oneself never goes back to the socket or, once both are proved, to the
\* device it came from.
Qualifies(c) ==
    /\ xfer.is /\ xfer.parked /\ UserOf(c) = target
    /\ IF Self THEN /\ xfer.fromConn # c
                    /\ ~(DeviceOf(xfer.fromConn) # NoDevice
                         /\ DeviceOf(xfer.fromConn) = DeviceOf(c))
       ELSE conn[c].ok

\* Faulty: a note "reached them" for whoever it reached.
DeliverTold(c) ==
    IF ~Qualifies(c) THEN UNCHANGED <<xfer, down>>
    ELSE IF ~Registered(xfer.fromConn)
    THEN /\ xfer' = NoXfer
         /\ down' = Sent(down, Socks(owner[Offerer]), Cancelled("dead"))
    ELSE /\ xfer' = [xfer EXCEPT !.parked = FALSE]
         /\ down' = Sent(Sent(down, {c}, Offered), Socks(owner[Offerer]), Parked("reached"))

\* deliver_parked_offers.  With the offering socket gone nobody can honour an accept.
Deliver(c) ==
    IF ~Qualifies(c) THEN UNCHANGED <<xfer, down>>
    ELSE IF ~Registered(xfer.fromConn)
    THEN /\ xfer' = NoXfer
         /\ down' = IF xfer.hidden THEN down
                    ELSE Sent(down, Socks(owner[Offerer]), Cancelled("dead"))
    ELSE /\ xfer' = [xfer EXCEPT !.parked = FALSE]
         /\ down' = LET out == Sent(down, {c}, Offered)
                    IN  IF xfer.hidden THEN out
                        ELSE Sent(out, Socks(owner[Offerer]), Parked("reached"))

\* A client connects; its former socket, if it broke, may still be registered.
Register(d, delivery) ==
    \E c \in Conns :
        /\ conn[c].at = "unused" /\ \A b \in Conns : b < c => conn[b].at # "unused"
        /\ delivery => d # Offerer
        /\ ~delivery => sock[d] = 0
        /\ conn' = [conn EXCEPT ![c] = [Unused EXCEPT
              !.dev = d, !.delivery = delivery, !.net = TRUE,
              !.at = IF delivery THEN "idle" ELSE "arrive"]]
        /\ sock' = IF delivery THEN sock ELSE [sock EXCEPT ![d] = c]
        /\ UNCHANGED <<fixed, xfer, down, cl, hist>>

\* A recipient may since have blocked the sender: asked again, in an await, for each
\* sender who has an offer parked at that moment.
Verdict(c) == xfer.is /\ xfer.parked /\ ~Self /\ UserOf(c) = target

Resolve(c) ==
    /\ conn[c].at = "arrive"
    /\ conn' = [conn EXCEPT ![c].at = "greet", ![c].ok = Verdict(c)]
    /\ UNCHANGED <<fixed, xfer, down, sock, cl, hist>>

Attest(c) ==
    /\ conn[c].at = "idle" /\ conn[c].net /\ ~conn[c].delivery /\ ~conn[c].attested
    /\ conn' = [conn EXCEPT ![c].at = "greet", ![c].attested = TRUE, ![c].ok = Verdict(c)]
    /\ UNCHANGED <<fixed, xfer, down, sock, cl, hist>>

Collect(c) ==
    /\ conn[c].at = "greet"
    /\ Deliver(c)
    /\ conn' = [conn EXCEPT ![c].at = "idle", ![c].ok = FALSE]
    /\ UNCHANGED <<fixed, sock, cl, hist>>

\* The connection breaks: what is on its way is lost, and the server learns of it later.
Break(c) ==
    /\ Registered(c) /\ conn[c].net
    /\ Cardinality({b \in Conns : conn[b].at # "unused" /\ ~conn[b].net}) < MaxBreaks
    /\ conn' = [conn EXCEPT ![c].net = FALSE]
    /\ down' = [down EXCEPT ![c] = <<>>]
    /\ sock' = [d \in Devices |-> IF sock[d] = c THEN 0 ELSE sock[d]]
    /\ hist' = [hist EXCEPT !.cut = @ \/ sock[Offerer] = c]
    /\ UNCHANGED <<fixed, xfer, cl>>

\* The cleanup after the receive loop: an account nobody sees any more takes its
\* transfers along, and nobody is told.
Unregister(c) ==
    /\ conn[c].at = "idle" /\ ~conn[c].net
    /\ conn' = [conn EXCEPT ![c].at = "gone", ![c].attested = FALSE]
    /\ LET alone == Visible(UserOf(c)) \ {c} = {} /\ UserOf(c) \in {owner[Offerer], target}
       IN  /\ xfer' = IF alone THEN NoXfer ELSE xfer
           /\ hist' = [hist EXCEPT !.purged = @ \/ (alone /\ xfer.is)]
    /\ UNCHANGED <<fixed, down, sock, cl>>

\* Faulty: an offer that expires unanswered is dropped without a word.
ExpireQuietly ==
    /\ xfer.is
    /\ xfer' = NoXfer
    /\ down' = IF xfer.accepted
               THEN Sent(down, Socks(owner[Offerer]) \cup Socks(target), Cancelled("quiet"))
               ELSE down
    /\ UNCHANGED <<fixed, conn, sock, cl, hist>>

\* reap_stale_transfers: both accounts are told.
Expire ==
    /\ xfer.is
    /\ xfer' = NoXfer
    /\ down' = LET why == IF xfer.accepted THEN "quiet"
                          ELSE IF xfer.parked \/ xfer.hidden THEN "never" ELSE "ignored"
               IN  Sent(down, Socks(owner[Offerer]) \cup Socks(target), Cancelled(why))
    /\ UNCHANGED <<fixed, conn, sock, cl, hist>>

-----------------------------------------------------------------------------
(* What else the server does with a client's frame.  q is what is queued   *)
(* for clients, admitted the devices whose accept has passed.              *)

Ignored(q) == xfer' = xfer /\ down' = q /\ hist' = hist

Involves(c) == UserOf(c) \in {owner[Offerer], target}

\* Faulty: of a transfer to oneself, whoever writes is taken for the sender.
OppositeOfSender(c) ==
    IF ~Self \/ xfer.toConn = 0
    THEN IF UserOf(c) = owner[Offerer] THEN Socks(target) ELSE Socks(owner[Offerer])
    ELSE {xfer.toConn}

\* Whom a frame of c about the transfer is for.  Between two accounts all of the
\* other's sockets; on one account the socket at the other end, once there is one.
Opposite(c) ==
    IF ~Self THEN IF UserOf(c) = owner[Offerer] THEN Socks(target) ELSE Socks(owner[Offerer])
    ELSE IF c # xfer.fromConn THEN {xfer.fromConn}
    ELSE IF xfer.toConn # 0 THEN {xfer.toConn} ELSE Socks(target)

\* Faulty: a second device may accept too.
FileAcceptAgain(c, q) ==
    IF xfer.is /\ UserOf(c) = target /\ ~(Self /\ c = xfer.fromConn)
    THEN /\ xfer' = [xfer EXCEPT !.accepted = TRUE, !.toConn = c, !.parked = FALSE]
         /\ down' = Sent(q, IF Self THEN {xfer.fromConn} ELSE Socks(owner[Offerer]),
                         Frame("accepted", "", conn[c].dev))
         /\ hist' = [hist EXCEPT !.admitted = @ \cup {conn[c].dev}]
    ELSE Ignored(q)

\* Faulty: whose socket accepted is not put on the record.
FileAcceptUnplaced(c, q) ==
    IF xfer.is /\ UserOf(c) = target /\ ~xfer.accepted /\ ~(Self /\ c = xfer.fromConn)
    THEN /\ xfer' = [xfer EXCEPT !.accepted = TRUE, !.parked = FALSE]
         /\ down' = Sent(q, IF Self THEN {xfer.fromConn} ELSE Socks(owner[Offerer]),
                         Frame("accepted", "", conn[c].dev))
         /\ hist' = [hist EXCEPT !.admitted = @ \cup {conn[c].dev}]
    ELSE Ignored(q)

\* Single-shot, and never by the socket that made the offer.
FileAccept(c, q) ==
    IF xfer.is /\ UserOf(c) = target /\ ~xfer.accepted /\ ~(Self /\ c = xfer.fromConn)
    THEN /\ xfer' = [xfer EXCEPT !.accepted = TRUE, !.toConn = c, !.parked = FALSE]
         /\ down' = Sent(q, IF Self THEN {xfer.fromConn} ELSE Socks(owner[Offerer]),
                         Frame("accepted", "", conn[c].dev))
         /\ hist' = [hist EXCEPT !.admitted = @ \cup {conn[c].dev}]
    ELSE Ignored(q)

FileReject(c, q) ==
    IF xfer.is /\ UserOf(c) = target
    THEN /\ xfer' = NoXfer
         /\ down' = Sent(q, Socks(owner[Offerer]), Frame("rejected", "", NoDevice))
         /\ hist' = hist
    ELSE Ignored(q)

FileComplete(c, q) ==
    IF xfer.is /\ Involves(c) THEN xfer' = NoXfer /\ down' = q /\ hist' = hist ELSE Ignored(q)

FileCancel(c, q) ==
    IF xfer.is /\ Involves(c)
    THEN xfer' = NoXfer /\ down' = Sent(q, Opposite(c), Cancelled("peer")) /\ hist' = hist
    ELSE Ignored(q)

FileSignal(c, q, sd) ==
    IF xfer.is /\ Involves(c)
    THEN /\ xfer' = xfer /\ hist' = hist
         /\ down' = Sent(q, Opposite(c), Frame("signal", sd, conn[c].dev))
    ELSE Ignored(q)

\* A client speaks when its socket's task is free; without a socket its frame is lost.
Free(d) == \A c \in Conns : sock[d] = c => conn[c].at = "idle"
Says(d, q, k) ==
    LET c == sock[d]
    IN  IF c = 0 THEN Ignored(q)
        ELSE CASE k = "accept" -> FileAccept(c, q)
               [] k = "reject" -> FileReject(c, q)
               [] k = "complete" -> FileComplete(c, q)
               [] k = "cancel" -> FileCancel(c, q)
               [] k \in {"offer", "answer"} -> FileSignal(c, q, k)

-----------------------------------------------------------------------------
(* The sender's transfer manager *)

Peers == Devices \ {Offerer}
Become(d, t) == cl' = [cl EXCEPT ![d] = t]
Torn(t, card) == [t EXCEPT !.card = card, !.pc = FALSE, !.remote = NoDevice]

\* The file has been read and digested.  An offer made without a socket is lost, and the
\* card waits all the same.
OfferFile ==
    /\ cl[Offerer].card = "none" /\ Free(Offerer)
    /\ Become(Offerer, [cl[Offerer] EXCEPT !.card = "offered"])
    /\ IF sock[Offerer] = 0
       THEN hist' = [hist EXCEPT !.cut = TRUE] /\ UNCHANGED conn
       ELSE FileOffer(sock[Offerer]) /\ UNCHANGED hist
    /\ UNCHANGED <<fixed, xfer, down, sock>>

\* onAccepted, after the key of the peer has been looked up in an await: what became of
\* the card meanwhile is not asked again.
AcceptVerified(by) ==
    /\ by \in cl[Offerer].checks
    /\ Become(Offerer, [cl[Offerer] EXCEPT !.checks = @ \ {by}, !.dials = @ \cup {by},
                          !.fp = by, !.card = "connecting", !.note = "none"])
    /\ UNCHANGED <<fixed, conn, xfer, down, sock, hist>>

\* The connection has been made; its offer goes out.
Dial(by) ==
    /\ by \in cl[Offerer].dials /\ Free(Offerer)
    /\ Become(Offerer, [cl[Offerer] EXCEPT !.dials = @ \ {by}, !.pc = TRUE,
                          !.remote = NoDevice])
    /\ IF sock[Offerer] = 0 THEN xfer' = xfer /\ down' = down
       ELSE LET c == sock[Offerer]
            IN  /\ xfer' = xfer
                /\ down' = IF xfer.is THEN Sent(down, Opposite(c),
                                                Frame("signal", "offer", Offerer))
                           ELSE down
    /\ hist' = [hist EXCEPT !.dialled = @ + 1]
    /\ UNCHANGED <<fixed, conn, sock>>

\* A cancel by the user, at either end, while the card is live.
Cancel(d) ==
    /\ cl[d].card \in IF d = Offerer THEN Live ELSE Live \ {"offered"}
    /\ Free(d)
    /\ Become(d, Torn(cl[d], "cancelled"))
    /\ Says(d, down, "cancel")
    /\ UNCHANGED <<fixed, conn, sock>>

-----------------------------------------------------------------------------
(* The recipient's transfer managers, one per device *)

\* The offer's authenticity has been checked; until then no card can be cancelled.
OfferChecked(d) ==
    /\ cl[d].card = "checking"
    /\ Become(d, [cl[d] EXCEPT !.card = "offered"])
    /\ UNCHANGED <<fixed, conn, xfer, down, sock, hist>>

\* accept: first a place for the file, perhaps from a dialog ...
Accept(d) ==
    /\ d # Offerer /\ cl[d].card = "offered" /\ cl[d].flow = "none"
    /\ Become(d, [cl[d] EXCEPT !.flow = "dialog"])
    /\ UNCHANGED <<fixed, conn, xfer, down, sock, hist>>

\* ... after which the card connects, whatever became of it meanwhile ...
PlaceChosen(d) ==
    /\ cl[d].flow = "dialog"
    /\ Become(d, [cl[d] EXCEPT !.flow = "building",
                    !.card = IF @ = "gone" THEN @ ELSE "connecting"])
    /\ UNCHANGED <<fixed, conn, xfer, down, sock, hist>>

\* ... then the connection, and the frame once it can take the sender's offer.
SendAccept(d) ==
    /\ cl[d].flow = "building" /\ Free(d)
    /\ Become(d, [cl[d] EXCEPT !.flow = "none", !.pc = TRUE])
    /\ Says(d, down, "accept")
    /\ UNCHANGED <<fixed, conn, sock>>

\* Declined on the card, which goes at once; a dialog that is open stays open.
Reject(d) ==
    /\ d # Offerer /\ cl[d].card = "offered" /\ Free(d)
    /\ Become(d, [cl[d] EXCEPT !.card = "gone"])
    /\ Says(d, down, "reject")
    /\ UNCHANGED <<fixed, conn, sock>>

\* Declined in the dialog, or no place for the file.
NoPlace(d) ==
    /\ cl[d].flow = "dialog" /\ Free(d)
    /\ Become(d, [cl[d] EXCEPT !.card = "gone", !.flow = "none"])
    /\ Says(d, down, "reject")
    /\ UNCHANGED <<fixed, conn, sock>>

-----------------------------------------------------------------------------
(* Frames from the server *)

HasCard(t) == t.card \notin {"none", "checking", "gone"}

\* Faulty: whichever answer comes first is taken.
TakesAnswerUnbound(t, f) == t.pc /\ t.remote = NoDevice
\* The answer must show the certificate that the accept named.
TakesAnswer(t, f) == t.pc /\ t.remote = NoDevice /\ f.by = t.fp

\* onOffered, onAccepted, onEnded and the note of a parked offer.
After(d, t, f) ==
    CASE f.k = "offered" /\ t.card = "none" -> [t EXCEPT !.card = "checking"]
      [] f.k = "parked" /\ t.card = "offered" /\ d = Offerer -> [t EXCEPT !.note = f.why]
      [] f.k = "accepted" /\ t.card = "offered" /\ d = Offerer ->
            [t EXCEPT !.checks = @ \cup {f.by}]
      [] f.k \in {"rejected", "cancelled"} /\ HasCard(t) /\ t.card # "complete" ->
            Torn(t, IF f.k = "rejected" THEN "failed" ELSE "cancelled")
      [] OTHER -> t

Receive(d) ==
    LET c == sock[d]
        f == Head(down[c])
        q == [down EXCEPT ![c] = Tail(@)]
        t == cl[d]
    IN  /\ c # 0 /\ down[c] # <<>> /\ Free(d)
        /\ IF f.k # "signal" THEN Become(d, After(d, t, f)) /\ Ignored(q)
           ELSE IF ~HasCard(t) \/ ~t.pc \/ t.remote # NoDevice
                   \/ (f.why = "answer") # (d = Offerer)
           THEN UNCHANGED cl /\ Ignored(q)
           ELSE IF d # Offerer
           THEN Become(d, [t EXCEPT !.remote = f.by]) /\ Says(d, q, "answer")
           ELSE IF TakesAnswer(t, f)
           THEN Become(d, [t EXCEPT !.remote = f.by]) /\ Ignored(q)
           ELSE Become(d, Torn(t, "failed")) /\ Says(d, q, "cancel")
        /\ UNCHANGED <<fixed, conn, sock>>

-----------------------------------------------------------------------------
(* The connection between the two ends (external: WebRTC) *)

Joined(d) == /\ cl[Offerer].pc /\ cl[Offerer].remote = d
             /\ cl[d].pc /\ cl[d].remote = Offerer

ChannelOpens(d) ==
    /\ Joined(d) /\ cl[Offerer].card = "connecting" /\ cl[d].card = "connecting"
    /\ cl' = [cl EXCEPT ![Offerer].card = "transferring", ![d].card = "transferring"]
    /\ UNCHANGED <<fixed, conn, xfer, down, sock, hist>>

\* All bytes are there and verified.
Received(d) ==
    /\ Joined(d) /\ cl[Offerer].card = "transferring" /\ cl[d].card = "transferring"
    /\ Free(d)
    /\ Become(d, [cl[d] EXCEPT !.card = "complete"])
    /\ Says(d, down, "complete")
    /\ UNCHANGED <<fixed, conn, sock>>

\* The recipient's word that it has them.
Acknowledged ==
    /\ cl[Offerer].card = "transferring" /\ cl[cl[Offerer].remote].card = "complete"
    /\ Free(Offerer)
    /\ Become(Offerer, Torn(cl[Offerer], "complete"))
    /\ Says(Offerer, down, "complete")
    /\ UNCHANGED <<fixed, conn, sock>>

\* The connection fails, or the other end's is gone.
Fail(d) ==
    /\ cl[d].pc /\ cl[d].remote # NoDevice /\ cl[d].card \in {"connecting", "transferring"}
    /\ Free(d)
    /\ Become(d, Torn(cl[d], "failed"))
    /\ Says(d, down, "complete")
    /\ UNCHANGED <<fixed, conn, sock>>

-----------------------------------------------------------------------------
\* The sender's app is up, and any of the others that have a socket.
Init ==
    /\ \E k \in Cases : owner = k.owner /\ target = k.target /\ hides = k.hides
    /\ \E n \in Conns : \E dev \in [1 .. n -> Devices] :
          /\ dev[1] = Offerer /\ \A b, c \in 1 .. n : dev[b] = dev[c] => b = c
          /\ conn = [c \in Conns |-> IF c > n THEN Unused
                       ELSE [Unused EXCEPT !.dev = dev[c], !.at = "idle", !.net = TRUE,
                                           !.attested = TRUE]]
    /\ sock = [d \in Devices |-> IF \E c \in Conns : conn[c].dev = d
                                 THEN CHOOSE c \in Conns : conn[c].dev = d ELSE 0]
    /\ xfer = NoXfer
    /\ down = [c \in Conns |-> <<>>]
    /\ cl = [d \in Devices |-> NoCard]
    /\ hist = [cut |-> FALSE, refused |-> FALSE, purged |-> FALSE, admitted |-> {}, dialled |-> 0]

Next ==
    \/ \E d \in Devices, delivery \in BOOLEAN : Register(d, delivery)
    \/ \E c \in Conns : \/ Resolve(c) \/ Attest(c) \/ Collect(c)
                        \/ RefuseOffer(c) \/ AdmitOffer(c) \/ InsertOffer(c)
                        \/ Break(c) \/ Unregister(c)
    \/ Expire \/ OfferFile \/ Acknowledged
    \/ \E d \in Devices :
          \/ AcceptVerified(d) \/ Dial(d) \/ Cancel(d) \/ OfferChecked(d) \/ Accept(d)
          \/ PlaceChosen(d) \/ SendAccept(d) \/ Reject(d) \/ NoPlace(d) \/ Receive(d)
          \/ ChannelOpens(d) \/ Received(d) \/ Fail(d)

Spec == Init /\ [][Next]_vars

-----------------------------------------------------------------------------
(* Properties *)

Cards == {"none", "checking", "gone", "complete", "failed", "cancelled"} \cup Live
FrameKinds == {"offered", "parked", "accepted", "rejected", "cancelled", "signal"}

\* Types.  The record names the accepting socket exactly when an accept has passed (on one
\* account it alone says whom the sender's frames are for), and nothing stays parked then,
\* or the next device to connect would be offered what another has taken.
TypeOK ==
    /\ xfer \in {NoXfer}
         \cup [is : {TRUE}, fromConn : Conns, toConn : {0}, accepted : {FALSE},
               parked : BOOLEAN, hidden : BOOLEAN]
         \cup [is : {TRUE}, fromConn : Conns, toConn : Conns, accepted : {TRUE},
               parked : {FALSE}, hidden : BOOLEAN]
    /\ conn \in [Conns -> [dev : Devices \cup {NoDevice}, delivery : BOOLEAN,
          at : {"unused", "arrive", "greet", "idle", "vet", "ask", "gone"}, net : BOOLEAN,
          attested : BOOLEAN, ok : BOOLEAN]]
    /\ sock \in [Devices -> {0} \cup Conns]
    /\ \A c \in Conns : \A i \in DOMAIN down[c] : down[c][i].k \in FrameKinds
    /\ cl \in [Devices -> [card : Cards, flow : {"none", "dialog", "building"},
          note : {"none", "offline", "reached"}, checks : SUBSET Devices,
          dials : SUBSET Devices, fp : Devices \cup {NoDevice}, pc : BOOLEAN,
          remote : Devices \cup {NoDevice}]]

\* The server has yet to answer the offer that came over c.
Asking(c) == conn[c].at \in {"vet", "ask"}

\* A sender whose card waits for an answer has something to wait for: the offer is being
\* handled, the server holds it (and will tell when it expires), or the answer is on its
\* way; whichever of accepts, declines, cancels, deliveries and expiries met.  Except
\* that its own connection was cut, the server refused the offer, or it forgot the
\* transfer with the last visible socket of an account: then the card waits for ever.
SenderHears ==
    LET t == cl[Offerer]
        c == sock[Offerer]
    IN  t.card = "offered" /\ ~hist.cut /\ ~hist.refused /\ ~hist.purged =>
          \/ Asking(c) \/ xfer.is \/ t.checks # {}
          \/ \E i \in DOMAIN down[c] : down[c][i].k \in {"accepted", "rejected", "cancelled"}

\* One device gets the file: the sender dials once, and only the device whose accept the
\* server admitted receives, though every device of the account saw the offer and may
\* have accepted, and each is sent the sender's description.
OneReceiver ==
    /\ hist.dialled <= 1
    /\ \A d \in Peers : cl[d].card \in {"transferring", "complete"} => hist.admitted = {d}

\* Between two devices of one account neither is sent what it said itself, although the
\* frames of both carry the same user.
NoEcho ==
    Self => \A c \in Conns : \A i \in DOMAIN down[c] :
              down[c][i].k = "signal" => down[c][i].by # conn[c].dev

\* Of somebody who hides their presence the sender learns, until they answer, just what
\* it would of somebody offline: parked at once, never reached, and at last expired; with
\* one exception, that their last visible socket leaves, which no expiry follows.
HiddenLooksOffline ==
    LET c == sock[Offerer]
        comes(F) == \E i \in DOMAIN down[c] : down[c][i] \in F
        ends == {Frame("rejected", "", NoDevice), Cancelled("peer"), Cancelled("never")}
    IN  ~Self /\ hides =>
          /\ \A b \in Conns : \A i \in DOMAIN down[b] :
                conn[b].dev = Offerer =>
                  down[b][i] \notin {Parked("reached"), Cancelled("ignored"), Cancelled("dead")}
          /\ cl[Offerer].card = "offered" /\ ~hist.cut /\ ~hist.refused
               /\ ~Asking(c) /\ hist.admitted = {} =>
                /\ cl[Offerer].note = "offline" \/ comes({Parked("offline")})
                /\ xfer.is \/ comes(ends) \/ hist.purged
=============================================================================
