------------------------ MODULE FileTransfersProofs ------------------------
(***************************************************************************)
(* Theorems about FileTransfers, for every set of devices, ownership,      *)
(* number of sockets and of breaks.                                        *)
(***************************************************************************)
EXTENDS FileTransfers, FiniteSetTheorems, TLAPS

Whys == {"", "offline", "reached", "peer", "quiet", "never", "ignored", "dead", "offer", "answer"}
Frames == [k : FrameKinds, why : Whys, by : Devices \cup {NoDevice}]
Transfers == [is : {TRUE}, fromConn : Conns, toConn : {0} \cup Conns, accepted : BOOLEAN,
              parked : BOOLEAN, hidden : BOOLEAN]
Sockets == [dev : Devices \cup {NoDevice}, delivery : BOOLEAN,
            at : {"unused", "arrive", "greet", "idle", "vet", "ask", "gone"}, net : BOOLEAN,
            attested : BOOLEAN, ok : BOOLEAN]
Managers == [card : Cards, flow : {"none", "dialog", "building"},
             note : {"none", "offline", "reached"}, checks : SUBSET Devices,
             dials : SUBSET Devices, fp : Devices \cup {NoDevice}, pc : BOOLEAN,
             remote : Devices \cup {NoDevice}]
Histories == [cut : BOOLEAN, refused : BOOLEAN, purged : BOOLEAN, admitted : SUBSET Devices,
              dialled : Nat]
Queues == [Conns -> Seq(Frames)]

Queued(f, s) == \E i \in DOMAIN s : s[i] = f

\* A frame sent to such a socket gets on its way.
Reachable(c) == Registered(c) /\ conn[c].net /\ ~conn[c].delivery

Answers == {"accepted", "rejected", "cancelled"}
Ends == {Frame("rejected", "", NoDevice), Cancelled("peer"), Cancelled("never")}

\* The offer that came over such a socket is being handled.
Asks == {"vet", "ask"}
Telling == {Parked("reached"), Cancelled("ignored"), Cancelled("dead")}

-----------------------------------------------------------------------------
(* The inductive invariant *)

Types ==
    /\ owner \in [Devices -> Users] /\ target \in Users /\ hides \in BOOLEAN
    /\ conn \in [Conns -> Sockets] /\ xfer \in Transfers \cup {NoXfer}
    /\ down \in Queues /\ sock \in [Devices -> {0} \cup Conns]
    /\ cl \in [Devices -> Managers] /\ hist \in Histories

\* What a frame on its way to the client of c says is true and is for that client.
Sound(f, c) ==
    /\ f.k = "offered" => UserOf(c) = target /\ cl[Offerer].card # "none"
    /\ f.k = "parked" => f \in {Parked("offline"), Parked("reached")}
    /\ f.k = "accepted" => f.by \in hist.admitted
    /\ f.k = "signal" => /\ f.why # "answer" => hist.dialled > 0
                         /\ Self => f.by # conn[c].dev
    /\ ~Self /\ hides /\ conn[c].dev = Offerer => f \notin Telling

Told == \A c \in Conns : \A f \in Frames : Queued(f, down[c]) => Sound(f, c)

\* A client and its socket know each other, and only such sockets carry frames.
Wired ==
    /\ \A d \in Devices : sock[d] # 0 => Reachable(sock[d]) /\ conn[sock[d]].dev = d
    /\ \A c \in Conns :
          /\ Reachable(c) => sock[conn[c].dev] = c
          /\ conn[c].at # "unused" => conn[c].dev \in Devices
          /\ ~Reachable(c) => down[c] = <<>>

\* One offer is made, by the offering device; one accept passes, of another one.
OneOffer ==
    /\ cl[Offerer].card = "none" =>
          ~xfer.is /\ hist.admitted = {} /\ \A c \in Conns : conn[c].at \notin Asks
    /\ cl[Offerer].card \notin {"checking", "gone"}
    /\ \A c \in Conns : conn[c].at \in Asks =>
          /\ ~xfer.is /\ hist.admitted = {} /\ conn[c].dev = Offerer
          /\ \A b \in Conns : conn[b].at \in Asks => b = c
    /\ xfer.is =>
          /\ conn[xfer.fromConn].at # "unused" /\ conn[xfer.fromConn].dev = Offerer
          /\ xfer.hidden = (hides /\ ~Self)
          /\ xfer.accepted => /\ xfer.toConn # 0 /\ conn[xfer.toConn].at # "unused"
                              /\ conn[xfer.toConn].dev # Offerer
                              /\ ~xfer.parked /\ hist.admitted # {}
          /\ ~xfer.accepted => xfer.toConn = 0 /\ hist.admitted = {}

\* What the sender's manager makes of accepts goes back to the one that passed.
OneAccept ==
    /\ \A d, e \in hist.admitted : d = e
    /\ Offerer \notin hist.admitted /\ cl[Offerer].flow = "none"
    /\ cl[Offerer].checks \subseteq hist.admitted /\ cl[Offerer].dials \subseteq hist.admitted
    /\ cl[Offerer].fp \in hist.admitted \cup {NoDevice}
    /\ cl[Offerer].remote \in hist.admitted \cup {NoDevice}
    /\ \A d \in Peers : cl[d].card \in {"transferring", "complete"} => hist.admitted = {d}

\* The sender dials once, after the card has left "offered".
OneDial ==
    LET t == cl[Offerer]
    IN  /\ t.card \in {"none", "offered"} \/ t.checks # {} => t.dials = {} /\ hist.dialled = 0
        /\ t.dials # {} => hist.dialled = 0
        /\ hist.dialled <= 1

\* Only devices of the recipient take part, and they are dialled before they fail.
Partners ==
    \A d \in Peers :
        /\ cl[d].card # "none" \/ cl[d].flow # "none" => owner[d] = target
        /\ cl[d].remote # NoDevice => hist.dialled > 0

\* While the sender's connection stands it is the one the offer was made on.
Uncut ==
    ~hist.cut =>
        /\ sock[Offerer] # 0
        /\ xfer.is => xfer.fromConn = sock[Offerer]
        /\ \A c \in Conns : conn[c].at \in Asks => c = sock[Offerer]

\* SenderHears.
Hearing ==
    LET t == cl[Offerer]
        c == sock[Offerer]
    IN  t.card = "offered" /\ ~hist.cut /\ ~hist.refused /\ ~hist.purged =>
          \/ conn[c].at \in Asks \/ xfer.is \/ t.checks # {}
          \/ \E f \in Frames : f.k \in Answers /\ Queued(f, down[c])

\* The second part of HiddenLooksOffline.
Hiding ==
    LET t == cl[Offerer]
        c == sock[Offerer]
    IN  ~Self /\ hides /\ t.card = "offered" /\ ~hist.cut /\ ~hist.refused
          /\ conn[c].at \notin Asks /\ hist.admitted = {} =>
            /\ t.note = "offline" \/ Queued(Parked("offline"), down[c])
            /\ xfer.is \/ hist.purged \/ \E f \in Ends : Queued(f, down[c])

IInv == /\ Types /\ Told /\ Wired /\ OneOffer /\ OneAccept /\ OneDial /\ Partners /\ Uncut
        /\ Hearing /\ Hiding

-----------------------------------------------------------------------------
(* Frames and queues *)

LEMMA FrameType ==
    ASSUME NEW k \in FrameKinds, NEW why \in Whys, NEW by \in Devices \cup {NoDevice}
    PROVE  /\ Frame(k, why, by) \in Frames
           /\ Frame(k, why, by).k = k /\ Frame(k, why, by).why = why
           /\ Frame(k, why, by).by = by
BY DEF Frame, Frames

\* What is queued after sending is what was queued and, where it arrives, the frame.
LEMMA SentFrames ==
    ASSUME NEW q \in Queues, NEW S, NEW f \in Frames
    PROVE  /\ Sent(q, S, f) \in Queues
           /\ \A c \in Conns :
                 /\ \A g : Queued(g, Sent(q, S, f)[c]) =>
                              Queued(g, q[c]) \/ (g = f /\ c \in S /\ Reachable(c))
                 /\ \A g : Queued(g, q[c]) => Queued(g, Sent(q, S, f)[c])
                 /\ c \in S /\ Reachable(c) => Queued(f, Sent(q, S, f)[c])
                 /\ ~Reachable(c) => Sent(q, S, f)[c] = q[c]
<1>1. \A c \in Conns : q[c] \in Seq(Frames) /\ Append(q[c], f) \in Seq(Frames)
  BY DEF Queues
<1>2. Sent(q, S, f) = [c \in Conns |-> IF c \in S /\ Reachable(c) THEN Append(q[c], f) ELSE q[c]]
  BY DEF Sent, Reachable
<1>3. Sent(q, S, f) \in Queues
  BY <1>1, <1>2 DEF Queues
<1>4. ASSUME NEW s \in Seq(Frames)
      PROVE  /\ \A g : Queued(g, Append(s, f)) => Queued(g, s) \/ g = f
             /\ \A g : Queued(g, s) => Queued(g, Append(s, f))
             /\ Queued(f, Append(s, f))
  <2>1. Len(s) \in Nat /\ DOMAIN s = 1 .. Len(s) /\ Append(s, f) \in Seq(Frames)
    OBVIOUS
  <2>2. Len(Append(s, f)) = Len(s) + 1 /\ Append(s, f)[Len(s) + 1] = f
        /\ \A i \in 1 .. Len(s) : Append(s, f)[i] = s[i]
    BY <2>1
  <2>3. DOMAIN Append(s, f) = 1 .. Len(s) + 1
    BY <2>1, <2>2
  <2>4. \A i \in 1 .. Len(s) + 1 : i \in 1 .. Len(s) \/ i = Len(s) + 1
    BY <2>1
  <2>5. 1 .. Len(s) \subseteq 1 .. Len(s) + 1 /\ Len(s) + 1 \in 1 .. Len(s) + 1
    BY <2>1
  <2> QED  BY <2>1, <2>2, <2>3, <2>4, <2>5 DEF Queued
<1> QED  BY <1>1, <1>2, <1>3, <1>4

\* Taking the first frame off a queue.
LEMMA TailFrames ==
    ASSUME NEW s \in Seq(Frames), s # <<>>
    PROVE  /\ Head(s) \in Frames /\ Queued(Head(s), s) /\ Tail(s) \in Seq(Frames)
           /\ \A g : Queued(g, Tail(s)) => Queued(g, s)
           /\ \A g : Queued(g, s) => g = Head(s) \/ Queued(g, Tail(s))
<1>1. Len(s) \in Nat \ {0} /\ Head(s) = s[1] /\ 1 \in DOMAIN s /\ s[1] \in Frames
  OBVIOUS
<1>2. Tail(s) \in Seq(Frames) /\ Len(Tail(s)) = Len(s) - 1
      /\ \A i \in 1 .. Len(s) - 1 : Tail(s)[i] = s[i + 1]
  BY <1>1
<1>3. DOMAIN s = 1 .. Len(s) /\ DOMAIN Tail(s) = 1 .. Len(s) - 1
  BY <1>1, <1>2
<1>4. \A g : Queued(g, Tail(s)) => Queued(g, s)
  BY <1>1, <1>2, <1>3 DEF Queued
<1>5. ASSUME NEW g, Queued(g, s) PROVE g = Head(s) \/ Queued(g, Tail(s))
  <2>1. PICK i \in 1 .. Len(s) : s[i] = g
    BY <1>3, <1>5 DEF Queued
  <2>2. CASE i = 1  BY <2>1, <2>2, <1>1
  <2>3. CASE i # 1
    <3>1. i - 1 \in 1 .. Len(s) - 1 /\ Tail(s)[i - 1] = s[(i - 1) + 1] /\ (i - 1) + 1 = i
      BY <2>3, <1>1, <1>2
    <3> QED  BY <3>1, <2>1, <1>3 DEF Queued
  <2> QED  BY <2>2, <2>3
<1> QED  BY <1>1, <1>2, <1>4, <1>5 DEF Queued

-----------------------------------------------------------------------------
(* What the server does with a client's frame *)

\* Queues with nothing new in them.
Left(q) ==
    /\ q \in Queues
    /\ \A c \in Conns : /\ \A g : Queued(g, q[c]) => Queued(g, down[c])
                        /\ ~Reachable(c) => q[c] = <<>>

Replied(d, q, k) ==
    \/ Ignored(q)
    \/ /\ k = "accept" /\ d # Offerer /\ sock[d] # 0 /\ xfer.is /\ ~xfer.accepted
       /\ xfer' = [xfer EXCEPT !.accepted = TRUE, !.toConn = sock[d], !.parked = FALSE]
       /\ hist' = [hist EXCEPT !.admitted = @ \cup {d}]
       /\ \E S : down' = Sent(q, S, Frame("accepted", "", d))
    \/ /\ k \in {"complete", "cancel", "reject"} /\ xfer' = NoXfer /\ hist' = hist
       /\ \/ k = "complete" /\ down' = q
          \/ /\ k # "complete"
             /\ \E S : \E f \in {Cancelled("peer"), Frame("rejected", "", NoDevice)} :
                   /\ down' = Sent(q, S, f)
                   /\ d # Offerer /\ ~hist.cut => sock[Offerer] \in S
    \/ /\ k = "answer" /\ xfer' = xfer /\ hist' = hist
       /\ \E S : /\ down' = Sent(q, S, Frame("signal", "answer", d))
                 /\ \A c \in S : Self /\ Reachable(c) => conn[c].dev # d

LEMMA XferType ==
    ASSUME Types
    PROVE  xfer.is \in BOOLEAN /\ (xfer.is => xfer \in Transfers) /\ (~xfer.is => xfer = NoXfer)
<1>1. CASE xfer = NoXfer  BY <1>1 DEF NoXfer
<1>2. CASE xfer \in Transfers  BY <1>2 DEF Transfers
<1> QED  BY <1>1, <1>2 DEF Types

\* Between two devices of one account a frame goes to the other one.
LEMMA OppositeEnd ==
    ASSUME IInv, NEW d \in Devices, sock[d] # 0, xfer.is,
           d = Offerer => xfer.accepted,
           NEW c \in Opposite(sock[d]), Self, Reachable(c)
    PROVE  conn[c].dev # d
<1>1. xfer.fromConn \in Conns /\ xfer.toConn \in {0} \cup Conns /\ sock[d] \in Conns
  BY XferType DEF IInv, Types, Transfers
<1>2. conn[xfer.fromConn].dev = Offerer /\ conn[sock[d]].dev = d /\ Reachable(sock[d])
  BY DEF IInv, Wired, OneOffer
<1>3. Reachable(xfer.fromConn) => sock[Offerer] = xfer.fromConn
  BY <1>1, <1>2 DEF IInv, Wired
<1>4. xfer.accepted => conn[xfer.toConn].dev # Offerer /\ xfer.toConn # 0
  BY DEF IInv, OneOffer
<1>5. CASE d = Offerer
  BY <1>1, <1>2, <1>3, <1>4, <1>5 DEF Opposite
<1>6. CASE d # Offerer
  BY <1>1, <1>2, <1>6 DEF Opposite
<1> QED  BY <1>5, <1>6

\* The sender is told, while its connection stands.
LEMMA SenderReached ==
    ASSUME IInv, ~hist.cut
    PROVE  /\ sock[Offerer] \in Socks(owner[Offerer]) /\ Reachable(sock[Offerer])
           /\ \A d \in Peers : owner[d] = target /\ sock[d] # 0 /\ xfer.is =>
                 sock[Offerer] \in Opposite(sock[d])
<1>1. /\ sock[Offerer] \in Conns /\ Reachable(sock[Offerer])
      /\ conn[sock[Offerer]].dev = Offerer
  BY FilesAssumption DEF IInv, Types, Wired, Uncut
<1>2. sock[Offerer] \in Socks(owner[Offerer])
  BY <1>1 DEF Socks, UserOf, Reachable
<1>3. ASSUME NEW d \in Peers, owner[d] = target, sock[d] # 0, xfer.is
      PROVE  sock[Offerer] \in Opposite(sock[d])
  <2>1. conn[sock[d]].dev = d /\ d # Offerer /\ UserOf(sock[d]) = target
    BY <1>3 DEF IInv, Wired, Peers, UserOf
  <2>2. xfer.fromConn = sock[Offerer] /\ sock[d] # sock[Offerer]
    BY <1>1, <1>3, <2>1 DEF IInv, Uncut
  <2> QED  BY <1>2, <2>1, <2>2 DEF Opposite, Self
<1> QED  BY <1>1, <1>2, <1>3

LEMMA SaysReplied ==
    ASSUME IInv, NEW d \in Devices, NEW q,
           NEW k \in {"accept", "reject", "complete", "cancel", "answer"}, Says(d, q, k),
           k \in {"accept", "answer"} => d # Offerer,
           d # Offerer => owner[d] = target
    PROVE  Replied(d, q, k)
<1>1. CASE sock[d] = 0  BY <1>1 DEF Says, Replied
<1>2. CASE sock[d] # 0
  <2>1. conn[sock[d]].dev = d  BY <1>2 DEF IInv, Wired
  <2>2. CASE k = "accept"
    BY <1>2, <2>1, <2>2 DEF Says, FileAccept, Replied
  <2>3. CASE k = "reject"
    BY <1>2, <2>3, SenderReached DEF Says, FileReject, Replied
  <2>4. CASE k = "complete"
    BY <1>2, <2>4 DEF Says, FileComplete, Replied
  <2>5. CASE k = "cancel"
    <3>1. FileCancel(sock[d], q)  BY <1>2, <2>5 DEF Says
    <3>2. CASE ~xfer.is \/ ~Involves(sock[d])
      BY <3>1, <3>2 DEF FileCancel, Replied
    <3>3. CASE xfer.is /\ Involves(sock[d])
      BY <1>2, <2>5, <3>1, <3>3, SenderReached DEF FileCancel, Replied, Peers
    <3> QED  BY <3>2, <3>3
  <2>6. CASE k = "answer"
    <3>1. FileSignal(sock[d], q, "answer")  BY <1>2, <2>6 DEF Says
    <3>2. CASE ~xfer.is \/ ~Involves(sock[d])
      BY <3>1, <3>2 DEF FileSignal, Replied
    <3>3. CASE xfer.is /\ Involves(sock[d])
      BY <1>2, <2>1, <2>6, <3>1, <3>3, OppositeEnd DEF FileSignal, Replied
    <3> QED  BY <3>2, <3>3
  <2> QED  BY <2>2, <2>3, <2>4, <2>5, <2>6
<1> QED  BY <1>1, <1>2

Speaks(d, q, k) ==
    /\ Left(q) /\ \A c \in Conns : c # sock[d] => q[c] = down[c]
    /\ Replied(d, q, k) /\ UNCHANGED <<fixed, conn, sock>>

LEMMA LeftDown == ASSUME IInv PROVE Left(down)
BY DEF IInv, Types, Wired, Left

\* What is left once a client has taken its first frame.
LEMMA Taken ==
    ASSUME IInv, NEW d \in Devices, sock[d] # 0, down[sock[d]] # <<>>
    PROVE  /\ sock[d] \in Conns /\ conn[sock[d]].dev = d /\ Reachable(sock[d])
           /\ Head(down[sock[d]]) \in Frames
           /\ Sound(Head(down[sock[d]]), sock[d])
           /\ Left([down EXCEPT ![sock[d]] = Tail(@)])
           /\ \A g : Queued(g, down[sock[d]]) =>
                 g = Head(down[sock[d]]) \/ Queued(g, [down EXCEPT ![sock[d]] = Tail(@)][sock[d]])
           /\ \A c \in Conns \ {sock[d]} : [down EXCEPT ![sock[d]] = Tail(@)][c] = down[c]
<1> DEFINE c == sock[d]
           q == [down EXCEPT ![c] = Tail(@)]
<1>1. c \in Conns /\ conn[c].dev = d /\ Reachable(c)
  BY DEF IInv, Types, Wired
<1>2. down \in [Conns -> Seq(Frames)] /\ down[c] \in Seq(Frames)
  BY <1>1 DEF IInv, Types, Queues
<1>3. /\ Head(down[c]) \in Frames /\ Queued(Head(down[c]), down[c])
      /\ Tail(down[c]) \in Seq(Frames)
      /\ \A g : Queued(g, Tail(down[c])) => Queued(g, down[c])
      /\ \A g : Queued(g, down[c]) => g = Head(down[c]) \/ Queued(g, Tail(down[c]))
  BY <1>2, TailFrames
<1>4. q \in Queues /\ q[c] = Tail(down[c]) /\ \A b \in Conns \ {c} : q[b] = down[b]
  BY <1>1, <1>2, <1>3 DEF Queues
<1>5. Left(q)
  <2>1. \A b \in Conns : ~Reachable(b) => b # c /\ down[b] = <<>>
    BY <1>1 DEF IInv, Wired
  <2> HIDE DEF q, c
  <2> QED  BY <1>3, <1>4, <2>1 DEF Left
<1>6. Sound(Head(down[c]), c)
  BY <1>1, <1>3 DEF IInv, Told
<1> HIDE DEF q
<1>7. /\ c \in Conns /\ conn[c].dev = d /\ Reachable(c)
      /\ Head(down[c]) \in Frames
      /\ Sound(Head(down[c]), c)
      /\ Left(q)
      /\ \A g : Queued(g, down[c]) => g = Head(down[c]) \/ Queued(g, q[c])
      /\ \A b \in Conns \ {c} : q[b] = down[b]
  BY <1>1, <1>3, <1>4, <1>5, <1>6
<1> QED  BY <1>7 DEF q

Client(d) ==
    \/ Cancel(d) \/ SendAccept(d) \/ Reject(d) \/ NoPlace(d) \/ Receive(d)
    \/ Received(d) \/ Fail(d) \/ (d = Offerer /\ Acknowledged)

\* A step of a client's that may send a frame, as the server sees it.
LEMMA ClientSpeaks ==
    ASSUME IInv, NEW d \in Devices, Client(d)
    PROVE  \E q, k : /\ Speaks(d, q, k)
                     /\ k = "complete" => Received(d) \/ Fail(d) \/ d = Offerer
<1>1. d # Offerer /\ (cl[d].card # "none" \/ cl[d].flow # "none") => owner[d] = target
  BY DEF IInv, Partners, Peers
<1>2. cl[Offerer].flow = "none"
  BY DEF IInv, OneAccept
<1>3. CASE Cancel(d)
  <2>1. Says(d, down, "cancel") /\ cl[d].card # "none" /\ UNCHANGED <<fixed, conn, sock>>
    BY <1>3 DEF Cancel, Live
  <2> QED  BY <1>1, <2>1, LeftDown, SaysReplied DEF Speaks
<1>4. CASE SendAccept(d)
  <2>1. Says(d, down, "accept") /\ cl[d].flow = "building" /\ UNCHANGED <<fixed, conn, sock>>
    BY <1>4 DEF SendAccept
  <2> QED  BY <1>1, <1>2, <2>1, LeftDown, SaysReplied DEF Speaks
<1>5. CASE Reject(d) \/ NoPlace(d)
  <2>1. Says(d, down, "reject") /\ UNCHANGED <<fixed, conn, sock>>
        /\ (cl[d].card = "offered" \/ cl[d].flow = "dialog")
    BY <1>5 DEF Reject, NoPlace
  <2> QED  BY <1>1, <2>1, LeftDown, SaysReplied DEF Speaks
<1>6. CASE Received(d) \/ Fail(d) \/ (d = Offerer /\ Acknowledged)
  <2>1. Says(d, down, "complete") /\ UNCHANGED <<fixed, conn, sock>>
    BY <1>6 DEF Received, Fail, Acknowledged
  <2>2. d # Offerer => cl[d].card # "none"
    BY <1>6 DEF Received, Fail
  <2> QED  BY <1>1, <1>6, <2>1, <2>2, LeftDown, SaysReplied DEF Speaks
<1>7. CASE Receive(d)
  <2> DEFINE q == [down EXCEPT ![sock[d]] = Tail(@)]
  <2>1. sock[d] # 0 /\ down[sock[d]] # <<>> /\ UNCHANGED <<fixed, conn, sock>>
    BY <1>7 DEF Receive
  <2>2. Left(q) /\ \A c \in Conns : c # sock[d] => q[c] = down[c]
    BY <2>1, Taken
  <2>3. \/ Ignored(q)
        \/ d # Offerer /\ HasCard(cl[d]) /\ Says(d, q, "answer")
        \/ d = Offerer /\ Says(d, q, "cancel")
    BY <1>7 DEF Receive
  <2> HIDE DEF q
  <2>4. CASE Ignored(q)
    <3>1. Speaks(d, q, "answer")  BY <2>1, <2>2, <2>4 DEF Speaks, Replied
    <3> QED  BY <3>1
  <2>5. CASE d # Offerer /\ HasCard(cl[d]) /\ Says(d, q, "answer")
    BY <1>1, <2>1, <2>2, <2>5, SaysReplied DEF Speaks, HasCard
  <2>6. CASE d = Offerer /\ Says(d, q, "cancel")
    BY <2>1, <2>2, <2>6, SaysReplied DEF Speaks
  <2> QED  BY <2>3, <2>4, <2>5, <2>6
<1> QED  BY <1>3, <1>4, <1>5, <1>6, <1>7 DEF Client

-----------------------------------------------------------------------------
(* What a step makes of the managers *)

LEMMA BecomeType ==
    ASSUME Types, NEW d \in Devices, NEW t \in Managers, Become(d, t)
    PROVE  /\ cl' \in [Devices -> Managers] /\ cl'[d] = t
           /\ \A e \in Devices \ {d} : cl'[e] = cl[e]
BY DEF Types, Become

LEMMA TornType ==
    ASSUME NEW t \in Managers, NEW card \in Cards
    PROVE  /\ Torn(t, card) \in Managers
           /\ Torn(t, card).card = card /\ Torn(t, card).remote = NoDevice
           /\ Torn(t, card).checks = t.checks /\ Torn(t, card).dials = t.dials
           /\ Torn(t, card).fp = t.fp /\ Torn(t, card).flow = t.flow
           /\ Torn(t, card).pc = FALSE
BY DEF Torn, Managers

\* What a frame f other than a description makes of the manager t of d.
Took(d, f, t, u) ==
    /\ u \in Managers /\ u.flow = t.flow /\ u.fp = t.fp /\ u.dials = t.dials
    /\ \/ u.checks = t.checks
       \/ /\ d = Offerer /\ t.card = "offered" /\ f.k = "accepted"
          /\ u.checks = t.checks \cup {f.by} /\ f.by \in hist.admitted
    /\ u.remote \in {t.remote, NoDevice}
    /\ \/ u.card = t.card
       \/ t.card = "none" /\ f.k = "offered" /\ u.card = "checking"
       \/ /\ t.card # "none" /\ f.k \in {"rejected", "cancelled"}
          /\ u.card \in {"failed", "cancelled"}
    /\ t.card = "offered" /\ d = Offerer =>
          /\ f.k = "accepted" => u.checks # {}
          /\ f.k \in {"rejected", "cancelled"} => u.card # "offered"
          /\ u.card = "offered" /\ t.note = "offline" /\ f # Parked("reached") =>
                u.note = "offline"
          /\ f = Parked("offline") => u.note = "offline"

LEMMA AfterTook ==
    ASSUME IInv, NEW d \in Devices, NEW c \in Conns, NEW f \in Frames, Sound(f, c)
    PROVE  Took(d, f, cl[d], After(d, cl[d], f))
<1> DEFINE t == cl[d]
           u == After(d, t, f)
<1>1. t \in Managers  BY DEF IInv, Types
<1>2. f.k = "parked" => f \in {Parked("offline"), Parked("reached")}
  BY DEF Sound
<1>3. /\ Parked("offline").k = "parked" /\ Parked("offline").why = "offline"
      /\ Parked("reached").k = "parked" /\ Parked("reached").why = "reached"
  BY DEF Parked, Frame
<1>4. CASE f.k = "offered" /\ t.card = "none"
  <2>1. u = [t EXCEPT !.card = "checking"]  BY <1>4 DEF After
  <2> HIDE DEF t, u
  <2>9. Took(d, f, t, u)
    BY <1>1, <1>3, <1>4, <2>1 DEF Managers, Cards, Took
  <2> QED  BY <2>9 DEF t, u
<1>5. CASE f.k = "parked" /\ t.card = "offered" /\ d = Offerer
  <2>1. u = [t EXCEPT !.note = f.why]  BY <1>5 DEF After
  <2> HIDE DEF t, u
  <2>9. Took(d, f, t, u)
    BY <1>1, <1>2, <1>3, <1>5, <2>1 DEF Managers, Took
  <2> QED  BY <2>9 DEF t, u
<1>6. CASE f.k = "accepted" /\ t.card = "offered" /\ d = Offerer
  <2>1. u = [t EXCEPT !.checks = @ \cup {f.by}]  BY <1>6 DEF After
  <2>2. f.by \in hist.admitted /\ hist.admitted \subseteq Devices
    BY <1>6 DEF Sound, IInv, Types, Histories
  <2> HIDE DEF t, u
  <2>9. Took(d, f, t, u)
    BY <1>1, <1>3, <1>6, <2>1, <2>2 DEF Managers, Took
  <2> QED  BY <2>9 DEF t, u
<1>7. CASE f.k \in {"rejected", "cancelled"} /\ HasCard(t) /\ t.card # "complete"
  <2>1. u = Torn(t, IF f.k = "rejected" THEN "failed" ELSE "cancelled")
    BY <1>7 DEF After
  <2>2. t.card # "none"  BY <1>7 DEF HasCard
  <2>3. "failed" \in Cards /\ "cancelled" \in Cards  BY DEF Cards
  <2> HIDE DEF t, u
  <2>9. Took(d, f, t, u)
    BY <1>1, <1>3, <1>7, <2>1, <2>2, <2>3, TornType DEF Took
  <2> QED  BY <2>9 DEF t, u
<1>8. CASE /\ ~(f.k = "offered" /\ t.card = "none")
           /\ ~(f.k = "parked" /\ t.card = "offered" /\ d = Offerer)
           /\ ~(f.k = "accepted" /\ t.card = "offered" /\ d = Offerer)
           /\ ~(f.k \in {"rejected", "cancelled"} /\ HasCard(t) /\ t.card # "complete")
  <2>1. u = t  BY <1>8 DEF After
  <2> HIDE DEF t, u
  <2>9. Took(d, f, t, u)
    BY <1>1, <1>3, <1>8, <2>1 DEF HasCard, Took
  <2> QED  BY <2>9 DEF t, u
<1> QED  BY <1>4, <1>5, <1>6, <1>7, <1>8

\* Histories only grow, and one accept at most is admitted.
Grows ==
    /\ hist' \in Histories
    /\ hist.cut => hist'.cut
    /\ hist.refused => hist'.refused
    /\ hist.purged => hist'.purged
    /\ \/ hist'.admitted = hist.admitted
       \/ /\ hist.admitted = {} /\ xfer.is
          /\ \E d \in Peers : hist'.admitted = {d}
    /\ hist'.dialled >= hist.dialled

LEMMA SpeaksHist ==
    ASSUME IInv, NEW d \in Devices, NEW q, NEW k, Speaks(d, q, k)
    PROVE  /\ hist' \in Histories
           /\ hist'.cut = hist.cut /\ hist'.purged = hist.purged /\ hist'.refused = hist.refused
           /\ hist'.dialled = hist.dialled
           /\ \/ hist'.admitted = hist.admitted
              \/ /\ k = "accept" /\ d # Offerer /\ xfer.is /\ hist.admitted = {}
                 /\ hist'.admitted = {d}
<1>1. hist \in Histories  BY DEF IInv, Types
<1>2. CASE hist' = hist  BY <1>1, <1>2
<1>3. CASE /\ k = "accept" /\ d # Offerer /\ xfer.is /\ ~xfer.accepted
           /\ hist' = [hist EXCEPT !.admitted = @ \cup {d}]
  <2>1. hist.admitted = {}  BY <1>3 DEF IInv, OneOffer
  <2>2. hist'.admitted = {d} /\ hist' \in Histories
    BY <1>1, <1>3, <2>1 DEF Histories
  <2> QED  BY <1>1, <1>3, <2>1, <2>2 DEF Histories
<1> QED  BY <1>2, <1>3 DEF Speaks, Replied, Ignored

\* The manager d becomes u, in a step that may admit an accept.
Turns(d, u) ==
    /\ Become(d, u) /\ u \in Managers
    /\ d = Offerer =>
          /\ u.flow = "none" /\ u.card \notin {"checking", "gone"}
          /\ u.checks \subseteq hist'.admitted /\ u.dials \subseteq hist'.admitted
          /\ u.fp \in hist'.admitted \cup {NoDevice}
          /\ u.remote \in hist'.admitted \cup {NoDevice}
          /\ u.card \in {"none", "offered"} \/ u.checks # {} =>
                u.dials = {} /\ hist'.dialled = 0
          /\ u.dials # {} => hist'.dialled = 0
          /\ hist'.dialled <= 1
          /\ u.card = "none" <=> cl[d].card = "none"
    /\ d # Offerer =>
          /\ hist'.dialled = hist.dialled
          /\ u.card \in {"transferring", "complete"} => hist'.admitted = {d}
          /\ u.card # "none" \/ u.flow # "none" => owner[d] = target
          /\ u.remote # NoDevice => hist.dialled > 0

\* What the managers' part of the invariant needs of such a step.
LEMMA TurnsStep ==
    ASSUME IInv, NEW d \in Devices, NEW u, Turns(d, u), Grows, UNCHANGED fixed
    PROVE  /\ cl' \in [Devices -> Managers] /\ OneAccept' /\ OneDial' /\ Partners'
           /\ cl'[Offerer].card \notin {"checking", "gone"}
           /\ cl'[Offerer].card = "none" <=> cl[Offerer].card = "none"
<1>1. /\ cl' \in [Devices -> Managers] /\ cl'[d] = u
      /\ \A e \in Devices \ {d} : cl'[e] = cl[e]
  BY BecomeType DEF Turns, IInv, Types
<1>2. Offerer \in Devices /\ Peers = Devices \ {Offerer} /\ NoDevice \notin Devices
  BY FilesAssumption DEF Peers
<1>3. hist \in Histories /\ hist' \in Histories  BY DEF IInv, Types, Grows
<1>4. \/ hist'.admitted = hist.admitted
      \/ hist.admitted = {} /\ \E e \in Peers : hist'.admitted = {e}
  BY DEF Grows
<1>5. hist.admitted \subseteq hist'.admitted  BY <1>4
<1>6. hist.dialled \in Nat /\ hist'.dialled \in Nat /\ hist'.dialled >= hist.dialled
  BY <1>3 DEF Histories, Grows
<1>7. OneAccept'
  <2>1. \A e, g \in hist'.admitted : e = g
    BY <1>4 DEF IInv, OneAccept
  <2>2. Offerer \notin hist'.admitted
    BY <1>2, <1>4 DEF IInv, OneAccept
  <2>3. /\ cl'[Offerer].flow = "none"
        /\ cl'[Offerer].checks \subseteq hist'.admitted
        /\ cl'[Offerer].dials \subseteq hist'.admitted
        /\ cl'[Offerer].fp \in hist'.admitted \cup {NoDevice}
        /\ cl'[Offerer].remote \in hist'.admitted \cup {NoDevice}
    BY <1>1, <1>2, <1>5 DEF IInv, OneAccept, Turns
  <2>4. ASSUME NEW e \in Peers, cl'[e].card \in {"transferring", "complete"}
        PROVE  hist'.admitted = {e}
    <3>1. CASE e = d  BY <1>1, <1>2, <2>4, <3>1 DEF Turns
    <3>2. CASE e # d
      <4>1. hist.admitted = {e}  BY <1>1, <1>2, <2>4, <3>2 DEF IInv, OneAccept
      <4> QED  BY <1>4, <4>1
    <3> QED  BY <3>1, <3>2
  <2> QED  BY <2>1, <2>2, <2>3, <2>4 DEF OneAccept
<1>8. OneDial'
  <2>1. CASE d = Offerer  BY <1>1, <2>1 DEF Turns, OneDial
  <2>2. CASE d # Offerer
    BY <1>1, <1>2, <2>2 DEF Turns, OneDial, IInv
  <2> QED  BY <2>1, <2>2
<1>9. Partners'
  <2>1. ASSUME NEW e \in Peers
        PROVE  /\ cl'[e].card # "none" \/ cl'[e].flow # "none" => owner[e] = target
               /\ cl'[e].remote # NoDevice => hist'.dialled > 0
    <3>1. CASE e = d  BY <1>1, <1>2, <1>6, <3>1 DEF Turns
    <3>2. CASE e # d  BY <1>1, <1>2, <1>6, <3>2 DEF IInv, Partners
    <3> QED  BY <3>1, <3>2
  <2> QED  BY <2>1 DEF Partners, fixed, Peers
<1> QED  BY <1>1, <1>2, <1>7, <1>8, <1>9 DEF Turns, IInv, OneOffer

\* Where a manager stands.
LEMMA Stands ==
    ASSUME IInv, NEW d \in Devices
    PROVE  /\ cl[d] \in Managers /\ hist \in Histories /\ Offerer \in Devices
           /\ NoDevice \notin Devices
           /\ d = Offerer =>
                 /\ cl[d].flow = "none" /\ cl[d].card \notin {"checking", "gone"}
                 /\ cl[d].checks \subseteq hist.admitted /\ cl[d].dials \subseteq hist.admitted
                 /\ cl[d].fp \in hist.admitted \cup {NoDevice}
                 /\ cl[d].remote \in hist.admitted \cup {NoDevice}
                 /\ cl[d].card \in {"none", "offered"} \/ cl[d].checks # {} =>
                       cl[d].dials = {} /\ hist.dialled = 0
                 /\ cl[d].dials # {} => hist.dialled = 0
                 /\ hist.dialled <= 1
           /\ d # Offerer =>
                 /\ cl[d].card \in {"transferring", "complete"} => hist.admitted = {d}
                 /\ cl[d].card # "none" \/ cl[d].flow # "none" => owner[d] = target
                 /\ cl[d].remote # NoDevice => hist.dialled > 0
BY FilesAssumption DEF IInv, Types, OneOffer, OneAccept, OneDial, Partners, Peers

\* A manager that moves on by itself.
LEMMA QuietTurns ==
    ASSUME IInv, NEW d \in Devices,
           OfferChecked(d) \/ Accept(d) \/ PlaceChosen(d)
    PROVE  Grows /\ \E u : Turns(d, u)
<1> DEFINE t == cl[d]
<1> USE Stands
<1>1. Grows  BY DEF OfferChecked, Accept, PlaceChosen, Grows, Histories
<1>2. d # Offerer  BY DEF OfferChecked, Accept, PlaceChosen
<1>3. hist' = hist  BY DEF OfferChecked, Accept, PlaceChosen
<1>4. CASE OfferChecked(d)
  <2> DEFINE u == [t EXCEPT !.card = "offered"]
  <2>1. u \in Managers /\ t.card = "checking" /\ Become(d, u)
    BY <1>4 DEF OfferChecked, Managers, Cards, Live
  <2>2. Turns(d, u)  BY <1>2, <1>3, <2>1 DEF Turns, Managers
  <2> QED  BY <1>1, <2>2
<1>5. CASE Accept(d)
  <2> DEFINE u == [t EXCEPT !.flow = "dialog"]
  <2>1. u \in Managers /\ t.card = "offered" /\ Become(d, u)
    BY <1>5 DEF Accept, Managers
  <2>2. Turns(d, u)  BY <1>2, <1>3, <2>1 DEF Turns, Managers
  <2> QED  BY <1>1, <2>2
<1>6. CASE PlaceChosen(d)
  <2> DEFINE card == IF t.card = "gone" THEN t.card ELSE "connecting"
             u == [t EXCEPT !.flow = "building", !.card = card]
  <2>1. t.flow = "dialog" /\ Become(d, u)
    BY <1>6, Zenon DEF PlaceChosen
  <2>4. card \in Cards /\ card \in {"gone", "connecting"}
    BY DEF Cards, Live
  <2>5. t \in Managers
    OBVIOUS
  <2> HIDE DEF card, t
  <2>3. u.card = card /\ u.flow = "building" /\ u.remote = t.remote /\ u \in Managers
    BY <2>4, <2>5 DEF Managers
  <2> HIDE DEF u
  <2>2. Turns(d, u)  BY <1>2, <1>3, <2>1, <2>3, <2>4 DEF Turns, t
  <2> QED  BY <1>1, <2>2
<1> QED  BY <1>4, <1>5, <1>6

LEMMA VerifiedTurns ==
    ASSUME IInv, NEW d \in Devices, AcceptVerified(d)
    PROVE  Grows /\ \E u : Turns(Offerer, u)
<1> DEFINE t == cl[Offerer]
           u == [t EXCEPT !.checks = @ \ {d}, !.dials = @ \cup {d},
                   !.fp = d, !.card = "connecting", !.note = "none"]
<1>1. d \in t.checks /\ Become(Offerer, u) /\ hist' = hist
  BY DEF AcceptVerified
<1>2. t \in Managers /\ u \in Managers
  <2>1. t \in Managers  BY FilesAssumption DEF IInv, Types
  <2> HIDE DEF t
  <2>2. "connecting" \in Cards  BY DEF Cards, Live
  <2> QED  BY <2>1, <2>2 DEF Managers
<1>3. /\ t.checks = {d} /\ d \in hist.admitted /\ hist.dialled = 0
      /\ t.remote \in hist.admitted \cup {NoDevice} /\ t.flow = "none"
      /\ t.card \notin {"none"} \/ t.card = "none"
  BY <1>1, Stands DEF IInv, OneAccept
<1>4. /\ u.checks = {} /\ u.dials = t.dials \cup {d} /\ u.fp = d /\ u.card = "connecting"
      /\ u.flow = "none" /\ u.remote = t.remote
  BY <1>2, <1>3 DEF Managers
<1>5. t.card # "none"
  BY <1>3 DEF IInv, OneOffer
<1>6. t.dials \subseteq hist.admitted  BY Stands
<1> HIDE DEF u
<1>7. Turns(Offerer, u)
  BY <1>1, <1>2, <1>3, <1>4, <1>5, <1>6 DEF Turns
<1> QED  BY <1>1, <1>7, Stands DEF Grows, Histories

LEMMA DialTurns ==
    ASSUME IInv, NEW d \in Devices, Dial(d)
    PROVE  /\ Grows /\ \E u : Turns(Offerer, u)
           /\ hist.admitted = {d} /\ hist'.dialled = 1
           /\ cl[Offerer].card \notin {"none", "offered"} /\ cl'[Offerer].card = cl[Offerer].card
<1> DEFINE t == cl[Offerer]
           u == [t EXCEPT !.dials = @ \ {d}, !.pc = TRUE, !.remote = NoDevice]
<1>1. d \in t.dials /\ Become(Offerer, u) /\ hist' = [hist EXCEPT !.dialled = @ + 1]
  BY DEF Dial
<1>2. t \in Managers /\ u \in Managers
  <2>1. t \in Managers  BY FilesAssumption DEF IInv, Types
  <2> HIDE DEF t
  <2> QED  BY <2>1 DEF Managers
<1>3. /\ t.dials = {d} /\ d \in hist.admitted /\ hist.dialled = 0 /\ t.checks = {}
      /\ t.card \notin {"none", "offered"} /\ hist.admitted = {d}
  BY <1>1, Stands DEF IInv, OneAccept
<1>4. /\ u.checks = {} /\ u.dials = {} /\ u.fp = t.fp /\ u.card = t.card
      /\ u.flow = t.flow /\ u.remote = NoDevice
  BY <1>2, <1>3 DEF Managers
<1>5. hist' \in Histories /\ hist'.dialled = 1 /\ hist'.admitted = hist.admitted
      /\ hist'.cut = hist.cut /\ hist'.purged = hist.purged /\ hist'.refused = hist.refused
  BY <1>1, <1>3, Stands DEF Histories
<1> HIDE DEF u
<1>6. Turns(Offerer, u)
  BY <1>1, <1>2, <1>3, <1>4, <1>5, Stands DEF Turns
<1>7. cl'[Offerer].card = t.card
  BY <1>1, <1>2, <1>4, BecomeType, Stands DEF IInv
<1> QED  BY <1>3, <1>5, <1>6, <1>7 DEF Grows

LEMMA ClientTurns ==
    ASSUME IInv, NEW d \in Devices, Client(d)
    PROVE  Grows /\ \E u : Turns(d, u)
<1> DEFINE t == cl[d]
<1>1. PICK q, k : Speaks(d, q, k)  BY ClientSpeaks
<1>2. /\ hist' \in Histories /\ hist'.cut = hist.cut /\ hist'.purged = hist.purged /\ hist'.refused = hist.refused
      /\ hist'.dialled = hist.dialled /\ hist.dialled \in Nat
      /\ \/ hist'.admitted = hist.admitted
         \/ d # Offerer /\ xfer.is /\ hist.admitted = {} /\ hist'.admitted = {d}
  BY <1>1, SpeaksHist, Stands DEF Histories
<1>3. Grows  BY <1>2 DEF Grows, Peers
<1>4. ASSUME NEW u \in Managers, Become(d, u),
             u.flow \in {t.flow, "none"}, u.checks = t.checks, u.dials = t.dials,
             u.fp = t.fp, u.remote \in {t.remote, NoDevice},
             d = Offerer => /\ u.card \notin {"checking", "gone"}
                            /\ t.card # "none" => u.card \notin {"none", "offered"}
                            /\ t.card = "none" => u.card = "none",
             d # Offerer => /\ t.card # "none" \/ t.flow # "none" \/ u.card = t.card
                            /\ u.card \in {"transferring", "complete"} =>
                                  t.card \in {"transferring", "complete"}
      PROVE  Turns(d, u)
  <2>1. CASE d = Offerer
    BY <1>2, <1>4, <2>1, Stands DEF Turns
  <2>2. CASE d # Offerer
    <3>1. u.card \in {"transferring", "complete"} => hist'.admitted = {d}
      BY <1>2, <1>4, <2>2, Stands
    <3> QED  BY <1>2, <1>4, <2>2, <3>1, Stands DEF Turns
  <2> QED  BY <2>1, <2>2
<1>5. t \in Managers /\ (d = Offerer => t.flow = "none" /\ t.card \notin {"checking", "gone"})
  BY Stands
<1>6. Live \cup {"cancelled", "complete", "failed", "gone"} \subseteq Cards
  BY DEF Cards
<1>7. CASE Cancel(d)
  <2>1. Become(d, Torn(t, "cancelled")) /\ t.card \in Live  BY <1>7 DEF Cancel
  <2>2. \E u : Turns(d, u)
    BY ZenonT(40), <1>4, <1>5, <1>6, <2>1, TornType DEF Live
  <2> QED  BY <1>3, <2>2
<1>8. CASE SendAccept(d)
  <2> DEFINE u == [t EXCEPT !.flow = "none", !.pc = TRUE]
  <2>1. Become(d, u) /\ t.flow = "building"  BY <1>8, Zenon DEF SendAccept
  <2> HIDE DEF t
  <2>2. /\ u \in Managers /\ u.flow = "none" /\ u.card = t.card /\ u.checks = t.checks
        /\ u.dials = t.dials /\ u.fp = t.fp /\ u.remote = t.remote
    BY <1>5 DEF Managers
  <2> HIDE DEF u
  <2>3. Turns(d, u)  BY <1>4, <1>5, <2>1, <2>2 DEF t
  <2> QED  BY <1>3, <2>3
<1>9. CASE Reject(d)
  <2> DEFINE u == [t EXCEPT !.card = "gone"]
  <2>1. Become(d, u) /\ t.card = "offered" /\ d # Offerer  BY <1>9, Zenon DEF Reject
  <2> HIDE DEF t
  <2>2. /\ u \in Managers /\ u.flow = t.flow /\ u.card = "gone" /\ u.checks = t.checks
        /\ u.dials = t.dials /\ u.fp = t.fp /\ u.remote = t.remote
    BY <1>5, <1>6 DEF Managers
  <2> HIDE DEF u
  <2>3. Turns(d, u)  BY <1>4, <1>5, <2>1, <2>2 DEF t
  <2> QED  BY <1>3, <2>3
<1>10. CASE NoPlace(d)
  <2> DEFINE u == [t EXCEPT !.card = "gone", !.flow = "none"]
  <2>1. Become(d, u) /\ t.flow = "dialog"  BY <1>10, Zenon DEF NoPlace
  <2> HIDE DEF t
  <2>2. /\ u \in Managers /\ u.flow = "none" /\ u.card = "gone" /\ u.checks = t.checks
        /\ u.dials = t.dials /\ u.fp = t.fp /\ u.remote = t.remote
    BY <1>5, <1>6 DEF Managers
  <2> HIDE DEF u
  <2>3. Turns(d, u)  BY <1>4, <1>5, <2>1, <2>2 DEF t
  <2> QED  BY <1>3, <2>3
<1>11. CASE Received(d)
  <2> DEFINE u == [t EXCEPT !.card = "complete"]
  <2>1. /\ Become(d, u) /\ t.card = "transferring"
        /\ cl[Offerer].remote = d
    BY <1>11, Zenon DEF Received, Joined
  <2>2. d # Offerer
    BY <2>1, Stands DEF IInv, OneAccept
  <2> HIDE DEF t
  <2>3. /\ u \in Managers /\ u.flow = t.flow /\ u.card = "complete" /\ u.checks = t.checks
        /\ u.dials = t.dials /\ u.fp = t.fp /\ u.remote = t.remote
    BY <1>5, <1>6 DEF Managers
  <2> HIDE DEF u
  <2>4. Turns(d, u)  BY <1>4, <1>5, <2>1, <2>2, <2>3 DEF t
  <2> QED  BY <1>3, <2>4
<1>12. CASE d = Offerer /\ Acknowledged
  <2> DEFINE u == Torn(t, "complete")
  <2>1. Become(d, u) /\ t.card = "transferring"
    BY <1>12 DEF Acknowledged
  <2>3. /\ u \in Managers /\ u.flow = t.flow /\ u.card = "complete" /\ u.checks = t.checks
        /\ u.dials = t.dials /\ u.fp = t.fp /\ u.remote = NoDevice
    BY <1>5, <1>6, TornType
  <2> HIDE DEF u
  <2>2. Turns(d, u)
    BY <1>4, <1>12, <2>1, <2>3
  <2> QED  BY <1>3, <2>2
<1>13. CASE Fail(d)
  <2>1. Become(d, Torn(t, "failed")) /\ t.card \in {"connecting", "transferring"}
    BY <1>13 DEF Fail
  <2>2. \E u : Turns(d, u)
    BY ZenonT(40), <1>4, <1>5, <1>6, <2>1, TornType DEF Live
  <2> QED  BY <1>3, <2>2
<1>14. CASE Receive(d)
  <2> DEFINE c == sock[d]
             f == Head(down[c])
  <2>1. c # 0 /\ down[c] # <<>>  BY <1>14 DEF Receive
  <2>2. c \in Conns /\ conn[c].dev = d /\ f \in Frames /\ Sound(f, c)
    BY <2>1, Taken
  <2>3. CASE f.k # "signal"
    <3> DEFINE u == After(d, t, f)
    <3>1. Become(d, u)  BY <1>14, <2>3 DEF Receive
    <3>2. Took(d, f, t, u)  BY <2>2, AfterTook
    <3>3. f.k = "offered" => owner[d] = target /\ cl[Offerer].card # "none"
      BY <2>2 DEF Sound, UserOf
    <3> HIDE DEF u, f
    <3>4. CASE d = Offerer
      <4>1. hist'.admitted = hist.admitted  BY <1>2, <3>4
      <4>2. u.card = t.card \/ (t.card # "none" /\ u.card \in {"failed", "cancelled"})
        BY <3>2, <3>3, <3>4 DEF Took
      <4>3. /\ u.checks \subseteq hist.admitted
            /\ u.checks = t.checks \/ t.card = "offered"
        BY <3>2, <3>4, Stands DEF Took
      <4> QED  BY <1>2, <1>3, <3>1, <3>2, <3>4, <4>1, <4>2, <4>3, Stands DEF Turns, Took
    <3>5. CASE d # Offerer
      <4>1. u.card \in {"transferring", "complete"} => hist'.admitted = {d}
        BY <1>2, <3>2, <3>5, Stands DEF Took
      <4>2. u.card # "none" \/ u.flow # "none" => owner[d] = target
        BY <3>2, <3>3, <3>5, Stands DEF Took
      <4>3. u.remote # NoDevice => hist.dialled > 0
        BY <3>2, <3>5, Stands DEF Took
      <4> QED  BY <1>2, <1>3, <3>1, <3>2, <3>5, <4>1, <4>2, <4>3 DEF Turns, Took
    <3> QED  BY <3>4, <3>5
  <2>4. CASE f.k = "signal"
    <3> DEFINE u == [t EXCEPT !.remote = f.by]
    <3>1. \/ UNCHANGED cl
          \/ /\ (f.why = "answer") = (d = Offerer) /\ HasCard(t)
             /\ d = Offerer => f.by = t.fp
             /\ Become(d, u)
          \/ HasCard(t) /\ d = Offerer /\ Become(d, Torn(t, "failed"))
      <4> DEFINE rest == [down EXCEPT ![c] = Tail(@)]
      <4>1. IF ~HasCard(t) \/ ~t.pc \/ t.remote # NoDevice
               \/ (f.why = "answer") # (d = Offerer)
            THEN UNCHANGED cl /\ Ignored(rest)
            ELSE IF d # Offerer
            THEN Become(d, u) /\ Says(d, rest, "answer")
            ELSE IF TakesAnswer(t, f)
            THEN Become(d, u) /\ Ignored(rest)
            ELSE Become(d, Torn(t, "failed")) /\ Says(d, rest, "cancel")
        BY <1>14, <2>4 DEF Receive
      <4> HIDE DEF rest, t, f, u
      <4> QED  BY <4>1 DEF TakesAnswer
    <3>2. CASE UNCHANGED cl
      <4>1. Become(d, t)  BY <3>2 DEF Become, IInv, Types
      <4>2. Turns(d, t)
        <5>1. CASE d = Offerer  BY <1>2, <4>1, <5>1, Stands DEF Turns
        <5>2. CASE d # Offerer
          <6>1. t.card \in {"transferring", "complete"} => hist'.admitted = {d}
            BY <1>2, <5>2, Stands
          <6> QED  BY <1>2, <4>1, <5>2, <6>1, Stands DEF Turns
        <5> QED  BY <5>1, <5>2
      <4> QED  BY <1>3, <4>2
    <3>3. CASE /\ (f.why = "answer") = (d = Offerer) /\ HasCard(t)
               /\ d = Offerer => f.by = t.fp
               /\ Become(d, u)
      <4>1. f.by \in Devices \cup {NoDevice}  BY <2>2 DEF Frames
      <4>2. d # Offerer => hist.dialled > 0  BY <2>2, <2>4, <3>3 DEF Sound
      <4> HIDE DEF t, f
      <4>3. /\ u \in Managers /\ u.flow = t.flow /\ u.card = t.card /\ u.checks = t.checks
            /\ u.dials = t.dials /\ u.fp = t.fp /\ u.remote = f.by
        BY <1>5, <4>1 DEF Managers
      <4> HIDE DEF u
      <4>4. Turns(d, u)
        <5>1. CASE d = Offerer
          BY <1>2, <3>3, <4>3, <5>1, Stands DEF Turns, t
        <5>2. CASE d # Offerer
          <6>1. u.card \in {"transferring", "complete"} => hist'.admitted = {d}
            BY <1>2, <4>3, <5>2, Stands DEF t
          <6> QED  BY <1>2, <3>3, <4>2, <4>3, <5>2, <6>1, Stands DEF Turns, t
        <5> QED  BY <5>1, <5>2
      <4> QED  BY <1>3, <4>4
    <3>4. CASE HasCard(t) /\ d = Offerer /\ Become(d, Torn(t, "failed"))
      <4>1. \E v : Turns(d, v)
        BY ZenonT(40), <1>4, <1>5, <1>6, <3>4, TornType DEF HasCard
      <4> QED  BY <1>3, <4>1
    <3> QED  BY <3>1, <3>2, <3>3, <3>4
  <2> QED  BY <2>3, <2>4
<1> QED
  BY <1>7, <1>8, <1>9, <1>10, <1>11, <1>12, <1>13, <1>14 DEF Client

LEMMA OpensStep ==
    ASSUME IInv, NEW d \in Devices, ChannelOpens(d)
    PROVE  /\ cl' \in [Devices -> Managers] /\ Grows /\ OneAccept' /\ OneDial' /\ Partners'
           /\ cl[Offerer].card = "connecting" /\ cl'[Offerer].card = "transferring"
<1>1. /\ cl[Offerer].remote = d /\ cl[Offerer].card = "connecting" /\ cl[d].card = "connecting"
      /\ UNCHANGED <<fixed, hist>>
      /\ cl' = [cl EXCEPT ![Offerer].card = "transferring", ![d].card = "transferring"]
  BY DEF ChannelOpens, Joined
<1>2. Offerer \in Devices /\ cl \in [Devices -> Managers] /\ NoDevice \notin Devices
  BY FilesAssumption DEF IInv, Types
<1>3. d # Offerer /\ hist.admitted = {d}
  BY <1>1, <1>2 DEF IInv, OneAccept
<1> DEFINE t == [cl[Offerer] EXCEPT !.card = "transferring"]
           u == [cl[d] EXCEPT !.card = "transferring"]
<1>4. cl'[Offerer] = t /\ cl'[d] = u /\ \A e \in Devices \ {Offerer, d} : cl'[e] = cl[e]
  BY <1>1, <1>2, <1>3
<1>5. /\ t \in Managers /\ t.card = "transferring" /\ t.flow = cl[Offerer].flow
      /\ t.checks = cl[Offerer].checks /\ t.dials = cl[Offerer].dials
      /\ t.fp = cl[Offerer].fp /\ t.remote = cl[Offerer].remote
  BY <1>2 DEF Managers, Cards, Live
<1>6. /\ u \in Managers /\ u.card = "transferring" /\ u.flow = cl[d].flow
      /\ u.remote = cl[d].remote
  BY <1>2 DEF Managers, Cards, Live
<1>7. cl' \in [Devices -> Managers]
  <2>1. cl' = [e \in Devices |-> cl'[e]]  BY <1>1, <1>2
  <2> HIDE DEF t, u
  <2> QED  BY <2>1, <1>2, <1>4, <1>5, <1>6
<1> HIDE DEF t, u
<1>8. OneAccept'
  BY <1>1, <1>2, <1>3, <1>4, <1>5, <1>6 DEF IInv, OneAccept, Peers
<1>9. OneDial'
  BY <1>1, <1>4, <1>5 DEF IInv, OneDial
<1>10. Partners'
  BY <1>1, <1>2, <1>3, <1>4, <1>6 DEF IInv, Partners, Peers, fixed
<1>11. Grows
  BY <1>1 DEF IInv, Types, Grows, Histories
<1> QED  BY <1>1, <1>4, <1>5, <1>7, <1>8, <1>9, <1>10, <1>11

LEMMA OfferStep ==
    ASSUME IInv, OfferFile
    PROVE  /\ cl' \in [Devices -> Managers] /\ Grows /\ OneAccept' /\ OneDial' /\ Partners'
           /\ hist'.admitted = {} /\ cl[Offerer].card = "none" /\ cl'[Offerer].card = "offered"
<1> DEFINE u == [cl[Offerer] EXCEPT !.card = "offered"]
<1>1. cl[Offerer].card = "none" /\ Become(Offerer, u) /\ UNCHANGED fixed
  BY DEF OfferFile
<1>2. Offerer \in Devices /\ cl \in [Devices -> Managers]
  BY FilesAssumption DEF IInv, Types
<1>3. hist.admitted = {}  BY <1>1 DEF IInv, OneOffer
<1>4. /\ hist' \in Histories /\ hist'.admitted = {} /\ hist'.dialled = hist.dialled
      /\ hist'.purged = hist.purged /\ hist'.refused = hist.refused
      /\ hist.cut => hist'.cut
  <2>1. CASE UNCHANGED hist  BY <1>3, <2>1 DEF IInv, Types
  <2>2. CASE hist' = [hist EXCEPT !.cut = TRUE]
    BY <1>3, <2>2 DEF IInv, Types, Histories
  <2> QED  BY <2>1, <2>2 DEF OfferFile
<1>5. /\ u \in Managers /\ u.card = "offered" /\ u.flow = cl[Offerer].flow
      /\ u.checks = cl[Offerer].checks /\ u.dials = cl[Offerer].dials
      /\ u.fp = cl[Offerer].fp /\ u.remote = cl[Offerer].remote
  BY <1>2 DEF Managers, Cards, Live
<1> HIDE DEF u
<1>6. /\ cl' \in [Devices -> Managers] /\ cl'[Offerer] = u
      /\ \A e \in Devices \ {Offerer} : cl'[e] = cl[e]
  BY <1>1, <1>2, <1>5, BecomeType DEF IInv
<1>7. OneAccept'
  BY <1>3, <1>4, <1>5, <1>6 DEF IInv, OneAccept, Peers
<1>8. OneDial'
  BY <1>1, <1>4, <1>5, <1>6 DEF IInv, OneDial
<1>9. Partners'
  BY <1>1, <1>4, <1>6 DEF IInv, Partners, Peers, fixed
<1>10. hist'.dialled >= hist.dialled
  <2>1. hist.dialled \in Nat  BY DEF IInv, Types, Histories
  <2> QED  BY <1>4, <2>1
<1>11. Grows  BY <1>3, <1>4, <1>10 DEF Grows
<1> QED  BY <1>1, <1>4, <1>5, <1>6, <1>7, <1>8, <1>9, <1>11

\* A step of the server's alone.
Server ==
    \/ \E d \in Devices, delivery \in BOOLEAN : Register(d, delivery)
    \/ \E c \in Conns : \/ Resolve(c) \/ Attest(c) \/ Collect(c)
                        \/ RefuseOffer(c) \/ AdmitOffer(c) \/ InsertOffer(c)
                        \/ Break(c) \/ Unregister(c)
    \/ Expire

LEMMA ServerStep ==
    ASSUME IInv, Server
    PROVE  /\ UNCHANGED cl /\ UNCHANGED fixed /\ Grows
           /\ hist'.admitted = hist.admitted /\ hist'.dialled = hist.dialled
           /\ OneAccept' /\ OneDial' /\ Partners'
<1>1. UNCHANGED cl /\ UNCHANGED fixed
  BY DEF Server, Register, Resolve, Attest, Collect, RefuseOffer, AdmitOffer, InsertOffer,
         Break, Unregister, Expire
<1>2. hist \in Histories  BY DEF IInv, Types
<1>3. /\ hist' \in Histories
      /\ hist.cut => hist'.cut
      /\ hist.refused => hist'.refused
      /\ hist.purged => hist'.purged
      /\ hist'.admitted = hist.admitted /\ hist'.dialled = hist.dialled
  <2>1. CASE UNCHANGED hist  BY <1>2, <2>1
  <2>2. CASE \E c \in Conns : Break(c)
    <3>1. PICK b \in BOOLEAN : hist' = [hist EXCEPT !.cut = b] /\ (hist.cut => b)
      BY <1>2, <2>2 DEF Break, Histories
    <3> QED  BY <1>2, <3>1 DEF Histories
  <2>3. CASE \E c \in Conns : Unregister(c)
    <3>1. PICK b \in BOOLEAN : hist' = [hist EXCEPT !.purged = b] /\ (hist.purged => b)
      <4>1. PICK c \in Conns : Unregister(c)  BY <2>3
      <4>2. PICK alone \in BOOLEAN :
              hist' = [hist EXCEPT !.purged = @ \/ (alone /\ xfer.is)]
        BY <4>1 DEF Unregister
      <4>3. hist.purged \in BOOLEAN /\ xfer.is \in BOOLEAN
        BY <1>2, XferType DEF Histories, IInv
      <4> QED  BY <4>2, <4>3
    <3> QED  BY <1>2, <3>1 DEF Histories
  <2>4. CASE \E c \in Conns : RefuseOffer(c)
    <3>1. hist' = [hist EXCEPT !.refused = TRUE]  BY <2>4 DEF RefuseOffer
    <3> QED  BY <1>2, <3>1 DEF Histories
  <2> QED
    BY <2>1, <2>2, <2>3, <2>4 DEF Server, Register, Resolve, Attest, Collect, AdmitOffer,
       InsertOffer, Expire
<1>4. hist'.dialled >= hist.dialled
  <2>1. hist.dialled \in Nat  BY <1>2 DEF Histories
  <2> QED  BY <1>3, <2>1
<1>5. Grows  BY <1>3, <1>4 DEF Grows
<1>6. OneAccept' /\ OneDial' /\ Partners'
  BY <1>1, <1>3 DEF IInv, OneAccept, OneDial, Partners, Peers, fixed
<1> QED  BY <1>1, <1>3, <1>5, <1>6

\* What any step makes of the managers and of the history.
LEMMA ManagersStep ==
    ASSUME IInv, Next
    PROVE  /\ cl' \in [Devices -> Managers] /\ Grows /\ UNCHANGED fixed
           /\ OneAccept' /\ OneDial' /\ Partners'
           /\ cl'[Offerer].card \notin {"checking", "gone"}
           /\ cl[Offerer].card # "none" => cl'[Offerer].card # "none"
           /\ ~OfferFile => (cl[Offerer].card = "none" => cl'[Offerer].card = "none")
<1>1. CASE Server
  BY <1>1, ServerStep DEF IInv, Types, OneOffer
<1>2. CASE OfferFile
  <2>1. UNCHANGED fixed  BY <1>2 DEF OfferFile
  <2> QED  BY <1>2, <2>1, OfferStep
<1>3. CASE \E d \in Devices : ChannelOpens(d)
  <2>1. UNCHANGED fixed  BY <1>3 DEF ChannelOpens
  <2> QED  BY <1>3, <2>1, OpensStep
<1>4. CASE \E d \in Devices : Client(d) \/ OfferChecked(d) \/ Accept(d) \/ PlaceChosen(d)
                              \/ AcceptVerified(d) \/ Dial(d)
  <2>1. UNCHANGED fixed
    <3>1. CASE \E d \in Devices : Client(d)  BY <3>1, ClientSpeaks DEF Speaks
    <3> QED  BY <1>4, <3>1 DEF OfferChecked, Accept, PlaceChosen, AcceptVerified, Dial
  <2>2. Grows /\ \E e \in Devices : \E u : Turns(e, u)
    BY <1>4, ClientTurns, QuietTurns, VerifiedTurns, DialTurns, Stands, FilesAssumption
  <2>3. PICK e \in Devices : \E u : Turns(e, u)  BY <2>2
  <2>4. PICK u : Turns(e, u)  BY <2>3
  <2> QED  BY <2>1, <2>2, <2>4, TurnsStep
<1> QED
  BY <1>1, <1>2, <1>3, <1>4, FilesAssumption DEF Next, Server, Client

-----------------------------------------------------------------------------
(* What the frames say *)

LEMMA FrameNames ==
    ASSUME NEW why \in Whys
    PROVE  /\ Parked(why) \in Frames /\ Cancelled(why) \in Frames /\ Offered \in Frames
           /\ Parked(why).k = "parked" /\ Cancelled(why).k = "cancelled"
           /\ Parked(why).why = why /\ Cancelled(why).why = why /\ Offered.k = "offered"
<1>1. "parked" \in FrameKinds /\ "cancelled" \in FrameKinds /\ "offered" \in FrameKinds
  BY DEF FrameKinds
<1>2. Offerer \in Devices \cup {NoDevice} /\ NoDevice \in Devices \cup {NoDevice}
  BY FilesAssumption
<1>3. "" \in Whys
  BY DEF Whys
<1>4. \A k \in {"parked", "cancelled"} :
         LET f == Frame(k, why, NoDevice) IN f \in Frames /\ f.k = k /\ f.why = why
  BY <1>1, <1>2, FrameType
<1>5. Frame("offered", "", Offerer) \in Frames /\ Frame("offered", "", Offerer).k = "offered"
  <2>1. ASSUME NEW k \in FrameKinds, NEW w \in Whys
        PROVE  Frame(k, w, Offerer) \in Frames /\ Frame(k, w, Offerer).k = k
    BY <1>2, FrameType
  <2> QED  BY <1>1, <1>3, <2>1
<1> QED  BY <1>4, <1>5, Zenon DEF Parked, Cancelled, Offered

Plain == {Cancelled("peer"), Cancelled("quiet"), Cancelled("never"), Parked("offline"),
          Frame("rejected", "", NoDevice)}

LEMMA RejectedFrame ==
    Frame("rejected", "", NoDevice) \in Frames /\ Frame("rejected", "", NoDevice).k = "rejected"
BY SMT DEF Frame, Frames, FrameKinds, Whys

\* Some frames say nothing that could be wrong.
LEMMA PlainSound ==
    ASSUME NEW f \in Plain, NEW c
    PROVE  f \in Frames /\ Sound(f, c)' /\ (f # Parked("offline") => f.k \in Answers)
<1>1. Frame("rejected", "", NoDevice) \in Frames /\ Frame("rejected", "", NoDevice).k = "rejected"
  BY RejectedFrame
<1>2. \A why \in {"peer", "quiet", "never", "ignored", "dead", "offline", "reached"} :
          why \in Whys
  BY DEF Whys
<1>3. \A why \in {"peer", "quiet", "never", "ignored", "dead", "offline", "reached"} :
         /\ Parked(why) \in Frames /\ Cancelled(why) \in Frames
         /\ Parked(why).k = "parked" /\ Cancelled(why).k = "cancelled"
         /\ Parked(why).why = why /\ Cancelled(why).why = why
  BY <1>2, FrameNames
<1>4. f \in Frames /\ f.k \in {"parked", "cancelled", "rejected"}
      /\ (f # Parked("offline") => f.k \in {"cancelled", "rejected"})
  BY <1>1, <1>3 DEF Plain
<1>5. f \notin Telling
  BY ZenonT(40), <1>1, <1>3 DEF Plain, Telling
<1>6. f.k = "parked" => f = Parked("offline")
  BY <1>1, <1>3 DEF Plain
<1> QED  BY <1>4, <1>5, <1>6 DEF Sound, Answers

LEMMA SoundKept ==
    ASSUME NEW c \in Conns, NEW f \in Frames, Sound(f, c), IInv, Grows, UNCHANGED fixed,
           conn'[c].dev = conn[c].dev,
           cl[Offerer].card # "none" => cl'[Offerer].card # "none"
    PROVE  Sound(f, c)'
<1>1. UserOf(c)' = UserOf(c) /\ Self' = Self /\ target' = target /\ hides' = hides
  BY DEF UserOf, Self, fixed
<1>2. f.by \in hist.admitted => f.by \in hist'.admitted
  BY DEF Grows
<1>3. hist.dialled > 0 => hist'.dialled > 0
  BY DEF Grows, Histories, IInv, Types
<1> QED  BY <1>1, <1>2, <1>3 DEF Sound

\* Sent frames that say what is true reach sockets that are there.
Carries(q) ==
    /\ down' \in Queues
    /\ \A c \in Conns : /\ ~Reachable(c) => down'[c] = q[c]
                        /\ \A g : Queued(g, q[c]) => Queued(g, down'[c])
                        /\ \A g : Queued(g, down'[c]) =>
                              Queued(g, q[c]) \/ (Reachable(c) /\ g \in Frames /\ Sound(g, c)')

LEMMA ToldKept ==
    ASSUME IInv, Grows, UNCHANGED fixed, NEW q, Left(q), Carries(q),
           \A c \in Conns : conn'[c].dev = conn[c].dev \/ (down[c] = <<>> /\ ~Reachable(c)),
           cl[Offerer].card # "none" => cl'[Offerer].card # "none"
    PROVE  Told'
<1>1. ASSUME NEW c \in Conns, NEW f \in Frames, Queued(f, down'[c])
      PROVE  Sound(f, c)'
  <2>1. CASE Queued(f, q[c])
    <3>1. Queued(f, down[c])  BY <2>1 DEF Left
    <3>2. down[c] # <<>>  BY <3>1 DEF Queued
    <3>3. Sound(f, c)  BY <3>1 DEF IInv, Told
    <3> QED  BY <3>2, <3>3, SoundKept
  <2>2. CASE Sound(f, c)'  BY <2>2
  <2> QED  BY <1>1, <2>1, <2>2 DEF Carries
<1> QED  BY <1>1 DEF Told

LEMMA SendCarries ==
    ASSUME NEW q \in Queues, NEW S, NEW f \in Frames, down' = Sent(q, S, f),
           \A c \in Conns : c \in S /\ Reachable(c) => Sound(f, c)'
    PROVE  Carries(q)
BY SentFrames DEF Carries

LEMMA QuietCarries ==
    ASSUME NEW q \in Queues, down' = q
    PROVE  Carries(q)
BY DEF Carries

\* Frames about a device.
DeviceKinds == {"accepted", "signal"}

LEMMA DeviceFrames ==
    ASSUME NEW k \in DeviceKinds, NEW why \in Whys, NEW d \in Devices
    PROVE  /\ Frame(k, why, d) \in Frames /\ Frame(k, why, d).k = k
           /\ Frame(k, why, d).why = why /\ Frame(k, why, d).by = d
           /\ Frame(k, why, d) \notin Telling
<1>1. /\ Frame(k, why, d) \in Frames /\ Frame(k, why, d).k = k
      /\ Frame(k, why, d).why = why /\ Frame(k, why, d).by = d
  BY FrameType DEF FrameKinds, DeviceKinds
<1>2. \A w \in Whys : Parked(w).k = "parked" /\ Cancelled(w).k = "cancelled"
  BY FrameNames
<1>3. "reached" \in Whys /\ "ignored" \in Whys /\ "dead" \in Whys
  BY DEF Whys
<1>4. \A f \in Telling : f.k = "parked" \/ f.k = "cancelled"
  BY <1>2, <1>3 DEF Telling
<1>5. k # "parked" /\ k # "cancelled"
  BY DEF DeviceKinds
<1> QED  BY <1>1, <1>4, <1>5

LEMMA KindNames ==
    /\ "accepted" \in DeviceKinds /\ "signal" \in DeviceKinds
    /\ "" \in Whys /\ "offer" \in Whys /\ "answer" \in Whys
BY DEF DeviceKinds, Whys

LEMMA SpeaksCarries ==
    ASSUME IInv, NEW d \in Devices, NEW q, NEW k, Speaks(d, q, k)
    PROVE  Carries(q)
<1>1. q \in Queues  BY DEF Speaks, Left
<1>2. CASE down' = q  BY <1>1, <1>2, QuietCarries
<1>3. ASSUME NEW S, down' = Sent(q, S, Frame("accepted", "", d)), d \in hist'.admitted
      PROVE  Carries(q)
  <2> DEFINE f == Frame("accepted", "", d)
  <2>1. f \in Frames /\ f.k = "accepted" /\ f.by = d /\ f \notin Telling
    <3>1. ASSUME NEW a \in DeviceKinds, NEW b \in Whys
          PROVE  /\ Frame(a, b, d) \in Frames /\ Frame(a, b, d).k = a
                 /\ Frame(a, b, d).why = b /\ Frame(a, b, d).by = d
                 /\ Frame(a, b, d) \notin Telling
      BY DeviceFrames, FilesAssumption
    <3> QED  BY <3>1, KindNames
  <2> HIDE DEF f
  <2>2. \A c \in Conns : Sound(f, c)'
    BY <1>3, <2>1 DEF Sound, Telling, Parked, Cancelled
  <2> QED  BY <1>1, <1>3, <2>1, <2>2, SendCarries DEF f
<1>4. ASSUME NEW S, down' = Sent(q, S, Frame("signal", "answer", d)),
             \A c \in S : Self /\ Reachable(c) => conn[c].dev # d
      PROVE  Carries(q)
  <2> DEFINE f == Frame("signal", "answer", d)
  <2>1. f \in Frames /\ f.k = "signal" /\ f.why = "answer" /\ f.by = d /\ f \notin Telling
    <3>1. ASSUME NEW a \in DeviceKinds, NEW b \in Whys
          PROVE  /\ Frame(a, b, d) \in Frames /\ Frame(a, b, d).k = a
                 /\ Frame(a, b, d).why = b /\ Frame(a, b, d).by = d
                 /\ Frame(a, b, d) \notin Telling
      BY DeviceFrames, FilesAssumption
    <3> QED  BY <3>1, KindNames
  <2> HIDE DEF f
  <2>2. Self' = Self /\ conn' = conn  BY DEF Self, Speaks, fixed
  <2>3. \A c \in Conns : c \in S /\ Reachable(c) => Sound(f, c)'
    BY <1>4, <2>1, <2>2 DEF Sound, Telling, Parked, Cancelled
  <2> QED  BY <1>1, <1>4, <2>1, <2>3, SendCarries DEF f
<1>5. ASSUME NEW S, NEW f \in Plain, down' = Sent(q, S, f)
      PROVE  Carries(q)
  <2>1. \A c \in Conns : f \in Frames /\ Sound(f, c)'  BY PlainSound
  <2>2. f \in Frames  BY PlainSound
  <2> QED  BY <1>1, <1>5, <2>1, <2>2, SendCarries
<1>6. /\ Cancelled("peer") \in Plain /\ Frame("rejected", "", NoDevice) \in Plain
  BY DEF Plain
<1>7. hist \in Histories  BY DEF IInv, Types
<1>8. hist' = [hist EXCEPT !.admitted = @ \cup {d}] => d \in hist'.admitted
  BY <1>7 DEF Histories
<1> QED
  BY <1>2, <1>3, <1>4, <1>5, <1>6, <1>8 DEF Speaks, Replied, Ignored

LEMMA DialCarries ==
    ASSUME IInv, NEW d \in Devices, Dial(d)
    PROVE  Carries(down)
<1> DEFINE c == sock[Offerer]
           f == Frame("signal", "offer", Offerer)
<1>1. down \in Queues /\ Offerer \in Devices
  BY FilesAssumption DEF IInv, Types
<1>2. CASE down' = down  BY <1>1, <1>2, QuietCarries
<1>3. CASE c # 0 /\ xfer.is /\ down' = Sent(down, Opposite(c), f)
  <2>1. hist.admitted = {d} /\ hist'.dialled = 1 /\ UNCHANGED <<fixed, conn>>
    BY DialTurns DEF Dial
  <2>2. xfer.accepted  BY <1>3, <2>1 DEF IInv, OneOffer
  <2>3. f \in Frames /\ f.k = "signal" /\ f.by = Offerer /\ f \notin Telling
    <3>1. ASSUME NEW a \in DeviceKinds, NEW b \in Whys
          PROVE  /\ Frame(a, b, Offerer) \in Frames /\ Frame(a, b, Offerer).k = a
                 /\ Frame(a, b, Offerer).why = b /\ Frame(a, b, Offerer).by = Offerer
                 /\ Frame(a, b, Offerer) \notin Telling
      BY DeviceFrames, FilesAssumption
    <3> QED  BY <3>1, KindNames
  <2>4. \A b \in Opposite(c) : Self /\ Reachable(b) => conn[b].dev # Offerer
    BY <1>1, <1>3, <2>2, OppositeEnd
  <2>5. Self' = Self /\ conn' = conn  BY <2>1 DEF Self, fixed
  <2> HIDE DEF f
  <2>6. \A b \in Conns : b \in Opposite(c) /\ Reachable(b) => Sound(f, b)'
    BY <2>1, <2>3, <2>4, <2>5 DEF Sound, Telling, Parked, Cancelled
  <2> QED  BY <1>1, <1>3, <2>3, <2>6, SendCarries
<1> QED  BY <1>2, <1>3 DEF Dial

-----------------------------------------------------------------------------
(* The server's part of the invariant *)

ServerInv == Types /\ Told /\ Wired /\ OneOffer /\ Uncut

LEMMA WiredKept ==
    ASSUME IInv, UNCHANGED <<conn, sock>>, NEW q, Left(q), Carries(q)
    PROVE  Wired'
<1>1. \A c \in Conns : Reachable(c)' = Reachable(c)
  BY DEF Reachable, Registered
<1>2. \A c \in Conns : ~Reachable(c) => down'[c] = <<>>
  BY DEF Left, Carries
<1> QED  BY <1>1, <1>2 DEF IInv, Wired, Reachable, Registered

\* A step in which the server at most handles a client's frame.
LEMMA SpeaksStep ==
    ASSUME IInv, Next, ~OfferFile, NEW d \in Devices, NEW q, NEW k, Speaks(d, q, k)
    PROVE  ServerInv'
<1>1. /\ Carries(q) /\ Left(q) /\ UNCHANGED <<fixed, conn, sock>>
      /\ hist'.cut = hist.cut /\ hist' \in Histories
      /\ \/ hist'.admitted = hist.admitted
         \/ k = "accept" /\ d # Offerer /\ xfer.is /\ hist.admitted = {} /\ hist'.admitted = {d}
  BY SpeaksCarries, SpeaksHist DEF Speaks
<1>2. /\ cl' \in [Devices -> Managers] /\ Grows
      /\ cl'[Offerer].card \notin {"checking", "gone"}
      /\ (cl[Offerer].card = "none") = (cl'[Offerer].card = "none")
  BY ManagersStep
<1>3. Told'
  <2>1. \A c \in Conns : conn'[c].dev = conn[c].dev  BY <1>1
  <2>2. UNCHANGED fixed  BY <1>1
  <2>3. cl[Offerer].card # "none" => cl'[Offerer].card # "none"  BY <1>1, <1>2
  <2> QED  BY <1>1, <1>2, <2>1, <2>2, <2>3, ToldKept
<1>4. Wired'  BY <1>1, WiredKept
<1>5. sock[d] # 0 => conn[sock[d]].at # "unused" /\ conn[sock[d]].dev = d /\ sock[d] \in Conns
  BY DEF IInv, Types, Wired, Reachable, Registered
<1>6. \/ xfer' = xfer /\ hist' = hist
      \/ xfer' = NoXfer /\ hist' = hist
      \/ /\ sock[d] # 0 /\ xfer.is /\ ~xfer.accepted /\ d # Offerer
         /\ xfer' = [xfer EXCEPT !.accepted = TRUE, !.toConn = sock[d], !.parked = FALSE]
         /\ hist'.admitted # {}
  <2>1. hist \in Histories  BY DEF IInv, Types
  <2>2. hist' = [hist EXCEPT !.admitted = @ \cup {d}] => hist'.admitted # {}
    BY <2>1 DEF Histories
  <2> QED  BY <2>2 DEF Speaks, Replied, Ignored
<1>7. CASE xfer' = xfer /\ hist' = hist
  <2>1. Types'  BY <1>1, <1>2, <1>7 DEF IInv, Types, fixed, Carries
  <2>2. OneOffer'  BY <1>1, <1>2, <1>7 DEF IInv, OneOffer, fixed, Self
  <2>3. Uncut'  BY <1>1, <1>7 DEF IInv, Uncut
  <2> QED  BY <1>3, <1>4, <2>1, <2>2, <2>3 DEF ServerInv
<1>8. CASE xfer' = NoXfer /\ hist' = hist
  <2>1. ~xfer'.is  BY <1>8 DEF NoXfer
  <2>2. Types'  BY <1>1, <1>2, <1>8 DEF IInv, Types, fixed, Carries
  <2>3. OneOffer'  BY <1>1, <1>2, <1>8, <2>1 DEF IInv, OneOffer
  <2>4. Uncut'  BY <1>1, <1>8, <2>1 DEF IInv, Uncut
  <2> QED  BY <1>3, <1>4, <2>2, <2>3, <2>4 DEF ServerInv
<1>9. CASE /\ sock[d] # 0 /\ xfer.is /\ ~xfer.accepted /\ d # Offerer
           /\ xfer' = [xfer EXCEPT !.accepted = TRUE, !.toConn = sock[d], !.parked = FALSE]
           /\ hist'.admitted # {}
  <2>1. xfer \in Transfers  BY <1>9, XferType DEF IInv
  <2>2. /\ xfer' \in Transfers /\ xfer'.is /\ xfer'.fromConn = xfer.fromConn
        /\ xfer'.hidden = xfer.hidden /\ xfer'.accepted /\ xfer'.toConn = sock[d]
        /\ ~xfer'.parked
    BY <1>5, <1>9, <2>1 DEF Transfers
  <2>3. Types'  BY <1>1, <1>2, <2>2 DEF IInv, Types, fixed, Carries
  <2>4. /\ cl[Offerer].card # "none" /\ \A c \in Conns : conn[c].at \notin Asks
    BY <1>9 DEF IInv, OneOffer
  <2>5. Self' = Self /\ hides' = hides /\ conn' = conn  BY <1>1 DEF Self, fixed
  <2>6. OneOffer'
    BY <1>2, <1>5, <1>9, <2>2, <2>4, <2>5 DEF IInv, OneOffer
  <2>7. Uncut'  BY <1>1, <1>9, <2>2, <2>4 DEF IInv, Uncut
  <2> QED  BY <1>3, <1>4, <2>3, <2>6, <2>7 DEF ServerInv
<1> QED  BY <1>6, <1>7, <1>8, <1>9

LEMMA DialStep ==
    ASSUME IInv, Next, NEW d \in Devices, Dial(d)
    PROVE  ServerInv'
<1>1. /\ Carries(down) /\ Left(down) /\ UNCHANGED <<fixed, conn, sock, xfer>>
      /\ hist' = [hist EXCEPT !.dialled = @ + 1]
  BY DialCarries, LeftDown DEF Dial
<1>2. hist'.cut = hist.cut /\ hist'.admitted = hist.admitted
  BY <1>1 DEF IInv, Types, Histories
<1>3. /\ cl' \in [Devices -> Managers] /\ Grows
      /\ cl'[Offerer].card \notin {"checking", "gone", "none"}
      /\ cl[Offerer].card # "none"
  BY ManagersStep, DialTurns
<1>4. Told'
  <2>1. \A c \in Conns : conn'[c].dev = conn[c].dev  BY <1>1
  <2>2. UNCHANGED fixed  BY <1>1
  <2>3. cl[Offerer].card # "none" => cl'[Offerer].card # "none"  BY <1>1, <1>3
  <2> QED  BY <1>1, <1>3, <2>1, <2>2, <2>3, ToldKept
<1>5. Wired'  BY <1>1, WiredKept
<1>6. Types'  BY <1>1, <1>3 DEF IInv, Types, fixed, Carries, Grows
<1>7. OneOffer'  BY <1>1, <1>2, <1>3 DEF IInv, OneOffer, fixed, Self
<1>8. Uncut'  BY <1>1, <1>2 DEF IInv, Uncut
<1> QED  BY <1>4, <1>5, <1>6, <1>7, <1>8 DEF ServerInv

LEMMA OfferServerStep ==
    ASSUME IInv, Next, OfferFile
    PROVE  ServerInv'
<1>1. /\ cl' \in [Devices -> Managers] /\ Grows /\ UNCHANGED fixed /\ hist'.admitted = {}
      /\ cl[Offerer].card = "none" /\ cl'[Offerer].card = "offered"
  BY ManagersStep, OfferStep
<1>2. ~xfer.is /\ \A c \in Conns : conn[c].at \notin Asks
  BY <1>1 DEF IInv, OneOffer
<1>3. xfer' = xfer /\ down' = down /\ sock' = sock
  BY DEF OfferFile
<1>4. Left(down) /\ Carries(down)
  BY <1>3, LeftDown, QuietCarries DEF IInv, Types
<1>5. CASE sock[Offerer] = 0
  <2>1. conn' = conn /\ hist'.cut
    BY <1>5 DEF OfferFile, IInv, Types, Histories
  <2>2. Told'
    <3>1. \A c \in Conns : conn'[c].dev = conn[c].dev  BY <2>1
    <3> QED  BY <1>1, <1>4, <3>1, ToldKept
  <2>3. Wired'  BY <1>3, <1>4, <2>1, WiredKept
  <2>4. Types'  BY <1>1, <1>3, <2>1 DEF IInv, Types, fixed, Grows
  <2>5. OneOffer'  BY <1>1, <1>2, <1>3, <2>1 DEF OneOffer
  <2>6. Uncut'  BY <2>1 DEF Uncut
  <2> QED  BY <2>2, <2>3, <2>4, <2>5, <2>6 DEF ServerInv
<1>6. CASE sock[Offerer] # 0
  <2> DEFINE o == sock[Offerer]
  <2>1. conn' = [conn EXCEPT ![o].at = "vet"]
    BY <1>6 DEF OfferFile, FileOffer
  <2>2. /\ hist' = hist /\ o \in Conns /\ Reachable(o) /\ conn[o].dev = Offerer
        /\ conn \in [Conns -> Sockets]
    BY <1>6, FilesAssumption DEF OfferFile, IInv, Types, Wired
  <2> HIDE DEF o
  <2>3. /\ conn' \in [Conns -> Sockets]
        /\ conn'[o].at \in Asks /\ conn'[o].dev = Offerer /\ conn'[o].net = conn[o].net
        /\ conn'[o].delivery = conn[o].delivery
        /\ \A c \in Conns \ {o} : conn'[c] = conn[c]
    BY <2>1, <2>2 DEF Sockets, Asks
  <2>4. \A c \in Conns : /\ Reachable(c)' = Reachable(c) /\ conn'[c].dev = conn[c].dev
                         /\ (conn'[c].at = "unused") = (conn[c].at = "unused")
    BY <2>1, <2>2, <2>3 DEF Reachable, Registered, Sockets
  <2>5. Told'
    <3>1. \A c \in Conns : conn'[c].dev = conn[c].dev  BY <2>4
    <3> QED  BY <1>1, <1>4, <3>1, ToldKept
  <2>6. Wired'  BY <1>3, <2>4, <2>3 DEF IInv, Wired, Types
  <2>7. Types'  BY <1>1, <1>3, <2>3 DEF IInv, Types, fixed, Grows
  <2>8. OneOffer'
    BY <1>1, <1>2, <1>3, <2>2, <2>3 DEF OneOffer
  <2>9. Uncut'
    BY <1>2, <1>3, <1>6, <2>2, <2>3 DEF IInv, Uncut, o
  <2> QED  BY <2>5, <2>6, <2>7, <2>8, <2>9 DEF ServerInv
<1> QED  BY <1>5, <1>6 DEF IInv, Types

\* The server forgets the transfer, or changes what does not matter here.
Fades ==
    /\ xfer' \in Transfers \cup {NoXfer}
    /\ xfer'.is => /\ xfer.is /\ xfer'.fromConn = xfer.fromConn /\ xfer'.toConn = xfer.toConn
                   /\ xfer'.accepted = xfer.accepted /\ xfer'.hidden = xfer.hidden
                   /\ xfer'.parked => xfer.parked

\* Sockets keep their devices, and no offer begins to be handled.
KeepsSockets ==
    /\ conn' \in [Conns -> Sockets]
    /\ \A c \in Conns :
          /\ conn[c].at # "unused" => conn'[c].at # "unused" /\ conn'[c].dev = conn[c].dev
          /\ conn'[c].at \in Asks => conn[c].at \in Asks

LEMMA FadeStep ==
    ASSUME IInv, Server, Fades, KeepsSockets,
           hist'.cut \/ sock'[Offerer] = sock[Offerer]
    PROVE  OneOffer' /\ Uncut'
<1>1. /\ UNCHANGED cl /\ UNCHANGED fixed /\ hist'.admitted = hist.admitted
      /\ hist.cut => hist'.cut
  BY ServerStep DEF Grows
<1>2. xfer.is => xfer.fromConn \in Conns /\ xfer.toConn \in {0} \cup Conns
  BY XferType DEF IInv, Transfers
<1>3. Self' = Self /\ hides' = hides  BY <1>1 DEF Self, fixed
<1>4. OneOffer'
  <2>1. cl[Offerer].card = "none" =>
          ~xfer'.is /\ hist'.admitted = {} /\ \A c \in Conns : conn'[c].at \notin Asks
    <3>1. ASSUME cl[Offerer].card = "none"
          PROVE  ~xfer.is /\ hist.admitted = {} /\ \A c \in Conns : conn[c].at \notin Asks
      BY <3>1 DEF IInv, OneOffer
    <3> QED  BY <1>1, <3>1 DEF Fades, KeepsSockets
  <2>2. \A c \in Conns : conn'[c].at \in Asks =>
          /\ ~xfer'.is /\ hist'.admitted = {} /\ conn'[c].dev = Offerer
          /\ \A b \in Conns : conn'[b].at \in Asks => b = c
    <3>1. ASSUME NEW c \in Conns, conn'[c].at \in Asks
          PROVE  /\ ~xfer.is /\ hist.admitted = {} /\ conn[c].dev = Offerer
                 /\ conn[c].at # "unused" /\ \A b \in Conns : conn[b].at \in Asks => b = c
      BY <3>1 DEF IInv, OneOffer, KeepsSockets, Asks
    <3> QED  BY <1>1, <3>1 DEF Fades, KeepsSockets
  <2>3. ASSUME xfer'.is
        PROVE  /\ conn'[xfer'.fromConn].at # "unused" /\ conn'[xfer'.fromConn].dev = Offerer
               /\ xfer'.hidden = (hides /\ ~Self)
               /\ xfer'.accepted => /\ xfer'.toConn # 0 /\ conn'[xfer'.toConn].at # "unused"
                                    /\ conn'[xfer'.toConn].dev # Offerer
                                    /\ ~xfer'.parked /\ hist'.admitted # {}
               /\ ~xfer'.accepted => xfer'.toConn = 0 /\ hist'.admitted = {}
    BY <1>1, <1>2, <2>3 DEF IInv, OneOffer, Fades, KeepsSockets
  <2> QED  BY <1>1, <1>3, <2>1, <2>2, <2>3 DEF IInv, OneOffer
<1>5. Uncut'
  BY <1>1 DEF IInv, Uncut, Fades, KeepsSockets
<1> QED  BY <1>4, <1>5

\* The transfer as it was, or none, fades.
LEMMA FadesKept ==
    ASSUME IInv, xfer' \in {xfer, NoXfer} \/ (xfer.is /\ xfer' = [xfer EXCEPT !.parked = FALSE])
    PROVE  Fades
<1>1. CASE xfer' = xfer  BY <1>1 DEF IInv, Types, Fades
<1>2. CASE xfer' = NoXfer  BY <1>2 DEF Fades, NoXfer
<1>3. CASE xfer.is /\ xfer' = [xfer EXCEPT !.parked = FALSE]
  <2>1. xfer \in Transfers  BY <1>3, XferType DEF IInv
  <2> QED  BY <1>3, <2>1 DEF Transfers, Fades
<1> QED  BY <1>1, <1>2, <1>3

\* The state of one socket changes, but not whose it is or whether it is there.
Touches(c) ==
    /\ conn' \in [Conns -> Sockets] /\ sock' = sock
    /\ \A b \in Conns \ {c} : conn'[b] = conn[b]
    /\ conn'[c].dev = conn[c].dev /\ conn'[c].net = conn[c].net
    /\ conn'[c].delivery = conn[c].delivery
    /\ Registered(c) /\ Registered(c)'
    /\ conn'[c].at \in Asks => conn[c].at \in Asks

LEMMA TouchStep ==
    ASSUME IInv, Server, NEW c \in Conns, Touches(c), Carries(down),
           xfer' \in Transfers \cup {NoXfer}
    PROVE  /\ Types' /\ Told' /\ Wired' /\ KeepsSockets
           /\ \A b \in Conns : conn'[b].dev = conn[b].dev /\ Reachable(b)' = Reachable(b)
<1>1. UNCHANGED cl /\ UNCHANGED fixed /\ Grows
  BY ServerStep
<1>2. \A b \in Conns : /\ Reachable(b)' = Reachable(b) /\ conn'[b].dev = conn[b].dev
                       /\ (conn'[b].at = "unused") = (conn[b].at = "unused")
                       /\ conn'[b].at \in Asks => conn[b].at \in Asks
  BY DEF Touches, Reachable, Registered
<1>3. \A b \in Conns : ~Reachable(b) => down'[b] = <<>>
  BY DEF IInv, Wired, Carries
<1>4. Types'  BY <1>1 DEF IInv, Types, Touches, Carries, Grows, fixed
<1>5. Told'
  <2>1. cl[Offerer].card # "none" => cl'[Offerer].card # "none"  BY <1>1
  <2> QED  BY <1>1, <1>2, <2>1, LeftDown, ToldKept
<1>6. Wired'  BY <1>2, <1>3 DEF IInv, Wired, Types, Touches
<1> QED  BY <1>2, <1>4, <1>5, <1>6 DEF KeepsSockets, Touches

\* A socket changes what it is doing.
LEMMA TouchType ==
    ASSUME IInv, NEW c \in Conns, Registered(c), sock' = sock,
           NEW at \in {"greet", "idle", "ask"}, at = "ask" => conn[c].at = "vet",
           NEW proved \in BOOLEAN, NEW ok \in BOOLEAN,
           conn' = [conn EXCEPT ![c] = [conn[c] EXCEPT !.at = at, !.attested = proved, !.ok = ok]]
    PROVE  Touches(c)
<1> DEFINE r == conn[c]
           u == [r EXCEPT !.at = at, !.attested = proved, !.ok = ok]
<1>1. conn \in [Conns -> Sockets] /\ r \in Sockets  BY DEF IInv, Types
<1> HIDE DEF r
<1>2. /\ u \in Sockets /\ u.at = at /\ u.dev = r.dev /\ u.net = r.net
      /\ u.delivery = r.delivery
  BY <1>1 DEF Sockets
<1>3. conn' = [conn EXCEPT ![c] = u]  BY DEF r
<1> HIDE DEF u
<1>4. conn'[c] = u /\ (\A b \in Conns \ {c} : conn'[b] = conn[b]) /\ conn' \in [Conns -> Sockets]
  BY <1>1, <1>2, <1>3
<1>5. at # "unused" /\ at # "gone" /\ (at \in Asks => conn[c].at \in Asks)
  BY DEF Asks
<1>6. Registered(c)'  BY <1>2, <1>4, <1>5 DEF Registered
<1> QED  BY <1>2, <1>4, <1>5, <1>6 DEF Touches, r

LEMMA GreetStep ==
    ASSUME IInv, Server, NEW c \in Conns, Resolve(c) \/ Attest(c)
    PROVE  ServerInv'
<1>1. xfer' = xfer /\ down' = down /\ sock' = sock /\ hist' = hist
  BY DEF Resolve, Attest
<1>2. Registered(c) /\ conn[c].attested \in BOOLEAN
  BY DEF Resolve, Attest, Registered, IInv, Types, Sockets
<1>3. Verdict(c) \in BOOLEAN  BY DEF Verdict
<1>4. Touches(c)
  <2>1. \E b \in BOOLEAN : conn' = [conn EXCEPT ![c] =
                [conn[c] EXCEPT !.at = "greet", !.attested = b, !.ok = Verdict(c)]]
    <3>1. CASE Resolve(c)
      <4>1. conn' = [conn EXCEPT ![c] = [conn[c] EXCEPT !.at = "greet", !.ok = Verdict(c)]]
        BY <3>1 DEF Resolve
      <4>2. conn[c] = [conn[c] EXCEPT !.attested = conn[c].attested]
        BY DEF IInv, Types, Sockets
      <4> QED  BY <1>2, <4>1, <4>2
    <3>2. CASE Attest(c)
      <4>1. conn' = [conn EXCEPT ![c] =
                [conn[c] EXCEPT !.at = "greet", !.attested = TRUE, !.ok = Verdict(c)]]
        BY <3>2 DEF Attest
      <4> QED  BY <4>1
    <3> QED  BY <3>1, <3>2
  <2> QED  BY <1>1, <1>2, <1>3, <2>1, TouchType
<1>5. Carries(down) /\ Fades
  BY <1>1, QuietCarries, FadesKept DEF IInv, Types
<1>6. Types' /\ Told' /\ Wired' /\ KeepsSockets
  BY <1>4, <1>5, TouchStep DEF Fades
<1> QED  BY <1>1, <1>5, <1>6, FadeStep DEF ServerInv

LEMMA RefuseStep ==
    ASSUME IInv, Server, NEW c \in Conns, RefuseOffer(c)
    PROVE  ServerInv' /\ hist'.refused
<1>1. /\ xfer' = xfer /\ down' = down /\ sock' = sock /\ hist' = [hist EXCEPT !.refused = TRUE]
      /\ Registered(c) /\ conn' = [conn EXCEPT ![c] = [conn[c] EXCEPT !.at = "idle"]]
  BY DEF RefuseOffer, Registered
<1>2. conn[c] \in Sockets /\ hist \in Histories  BY DEF IInv, Types
<1>3. /\ conn[c].attested \in BOOLEAN /\ conn[c].ok \in BOOLEAN
      /\ [conn[c] EXCEPT !.at = "idle"]
            = [conn[c] EXCEPT !.at = "idle", !.attested = conn[c].attested, !.ok = conn[c].ok]
  <2> DEFINE r == conn[c]
  <2> HIDE DEF r
  <2>1. /\ r.attested \in BOOLEAN /\ r.ok \in BOOLEAN
        /\ [r EXCEPT !.at = "idle"] = [r EXCEPT !.at = "idle", !.attested = r.attested, !.ok = r.ok]
    BY <1>2 DEF Sockets, r
  <2> QED  BY <2>1 DEF r
<1>4. \E a, b \in BOOLEAN : conn' = [conn EXCEPT ![c] =
          [conn[c] EXCEPT !.at = "idle", !.attested = a, !.ok = b]]
  BY <1>1, <1>3, Zenon
<1>5. Touches(c)  BY <1>1, <1>4, TouchType
<1>6. Carries(down) /\ Fades
  BY <1>1, QuietCarries, FadesKept DEF IInv, Types
<1>7. Types' /\ Told' /\ Wired' /\ KeepsSockets
  BY <1>5, <1>6, TouchStep DEF Fades
<1>8. hist'.refused  BY <1>1, <1>2 DEF Histories
<1> QED  BY <1>1, <1>6, <1>7, <1>8, FadeStep DEF ServerInv

LEMMA DeliverableType == ASSUME IInv PROVE Deliverable \in BOOLEAN
<1>1. IsFiniteSet(Conns) /\ Visible(target) \subseteq Conns
  BY FilesAssumption, FS_Interval DEF Conns, Visible, Socks
<1>2. Cardinality(Visible(target)) \in Nat
  BY <1>1, FS_Subset, FS_CardinalityType
<1>3. \A n \in Nat : (n >= 2) \in BOOLEAN
  OBVIOUS
<1>4. CASE Self
  <2>1. Deliverable = (Cardinality(Visible(target)) >= 2)
    BY <1>4, Zenon DEF Deliverable
  <2> QED  BY <2>1, <1>2, <1>3, Zenon
<1>5. CASE ~Self
  <2>1. Deliverable = (Visible(target) # {})
    BY <1>5, Zenon DEF Deliverable
  <2> QED  BY <2>1, Zenon
<1> QED  BY <1>4, <1>5, Zenon

LEMMA AdmitStep ==
    ASSUME IInv, Server, NEW c \in Conns, AdmitOffer(c)
    PROVE  ServerInv'
<1>1. /\ xfer' = xfer /\ down' = down /\ sock' = sock /\ hist' = hist
      /\ Registered(c) /\ conn[c].at = "vet"
      /\ conn' = [conn EXCEPT ![c] = [conn[c] EXCEPT !.at = "ask", !.ok = Deliverable]]
  BY DEF AdmitOffer, Registered
<1>2. conn[c] \in Sockets  BY DEF IInv, Types
<1>3. \A b \in BOOLEAN :
          /\ conn[c].attested \in BOOLEAN
          /\ [conn[c] EXCEPT !.at = "ask", !.ok = b]
                = [conn[c] EXCEPT !.at = "ask", !.attested = conn[c].attested, !.ok = b]
  <2> DEFINE r == conn[c]
  <2> HIDE DEF r
  <2>1. \A b \in BOOLEAN : /\ r.attested \in BOOLEAN
          /\ [r EXCEPT !.at = "ask", !.ok = b]
                = [r EXCEPT !.at = "ask", !.attested = r.attested, !.ok = b]
    BY <1>2 DEF Sockets, r
  <2> QED  BY <2>1 DEF r
<1>4. \E a, b \in BOOLEAN : conn' = [conn EXCEPT ![c] =
          [conn[c] EXCEPT !.at = "ask", !.attested = a, !.ok = b]]
  BY <1>1, <1>3, DeliverableType, Zenon
<1>5. Touches(c)  BY <1>1, <1>4, TouchType
<1>6. Carries(down) /\ Fades
  BY <1>1, QuietCarries, FadesKept DEF IInv, Types
<1>7. Types' /\ Told' /\ Wired' /\ KeepsSockets
  BY <1>5, <1>6, TouchStep DEF Fades
<1> QED  BY <1>1, <1>6, <1>7, FadeStep DEF ServerInv

LEMMA CarriesTwice ==
    ASSUME NEW q \in Queues, NEW S, NEW T, NEW f \in Frames, NEW g \in Frames,
           down' = Sent(Sent(q, S, f), T, g),
           \A c \in Conns : c \in S /\ Reachable(c) => Sound(f, c)',
           \A c \in Conns : c \in T /\ Reachable(c) => Sound(g, c)'
    PROVE  Carries(q)
<1> DEFINE p == Sent(q, S, f)
<1>1. /\ p \in Queues
      /\ \A c \in Conns : /\ \A h : Queued(h, q[c]) => Queued(h, p[c])
                          /\ \A h : Queued(h, p[c]) => Queued(h, q[c]) \/ (h = f /\ c \in S /\ Reachable(c))
                          /\ ~Reachable(c) => p[c] = q[c]
  BY SentFrames
<1> HIDE DEF p
<1>2. down' = Sent(p, T, g)  BY DEF p
<1>3. Carries(p)  BY <1>1, <1>2, SendCarries
<1> QED  BY <1>1, <1>3 DEF Carries

LEMMA IdleTouches ==
    ASSUME IInv, NEW c \in Conns, Registered(c), sock' = sock,
           conn' = [conn EXCEPT ![c].at = "idle", ![c].ok = FALSE]
    PROVE  Touches(c)
<1>1. conn' = [conn EXCEPT ![c] = [conn[c] EXCEPT !.at = "idle", !.ok = FALSE]]
  OBVIOUS
<1>2. /\ conn[c].attested \in BOOLEAN
      /\ [conn[c] EXCEPT !.at = "idle", !.ok = FALSE]
            = [conn[c] EXCEPT !.at = "idle", !.attested = conn[c].attested, !.ok = FALSE]
  <2> DEFINE r == conn[c]
  <2>1. r \in Sockets  BY DEF IInv, Types
  <2> HIDE DEF r
  <2>2. /\ r.attested \in BOOLEAN
        /\ [r EXCEPT !.at = "idle", !.ok = FALSE]
              = [r EXCEPT !.at = "idle", !.attested = r.attested, !.ok = FALSE]
    BY <2>1 DEF Sockets
  <2> QED  BY <2>2 DEF r
<1>3. \E b \in BOOLEAN : conn' = [conn EXCEPT ![c] =
          [conn[c] EXCEPT !.at = "idle", !.attested = b, !.ok = FALSE]]
  BY <1>1, <1>2, Zenon
<1> QED  BY <1>3, TouchType

\* Frames that only somebody hidden would not expect.
LEMMA TellingSound ==
    ASSUME NEW f \in Telling, NEW c, ~(~Self /\ hides), UNCHANGED fixed
    PROVE  f \in Frames /\ Sound(f, c)' /\ (f # Parked("reached") => f.k \in Answers)
<1>1. \A w \in Whys : /\ Parked(w) \in Frames /\ Cancelled(w) \in Frames
                      /\ Parked(w).k = "parked" /\ Cancelled(w).k = "cancelled"
  BY FrameNames
<1>2. "reached" \in Whys /\ "ignored" \in Whys /\ "dead" \in Whys
  BY DEF Whys
<1>3. /\ f \in Frames /\ f.k \in {"parked", "cancelled"}
      /\ f.k = "parked" => f = Parked("reached")
  BY <1>1, <1>2 DEF Telling
<1>4. Self' = Self /\ hides' = hides  BY DEF Self, fixed
<1> QED  BY <1>3, <1>4 DEF Sound, Answers

LEMMA OfferedSound ==
    ASSUME NEW c \in Conns, UserOf(c) = target, UNCHANGED fixed, conn'[c].dev = conn[c].dev,
           cl'[Offerer].card # "none"
    PROVE  Offered \in Frames /\ Sound(Offered, c)'
<1>1. \A w \in Whys : /\ Offered \in Frames /\ Offered.k = "offered"
                      /\ Parked(w).k = "parked" /\ Cancelled(w).k = "cancelled"
  BY FrameNames
<1>2. "reached" \in Whys /\ "ignored" \in Whys /\ "dead" \in Whys
  BY DEF Whys
<1>3. Offered \in Frames /\ Offered.k = "offered" /\ Offered \notin Telling
  BY <1>1, <1>2 DEF Telling
<1>4. UserOf(c)' = target'  BY DEF UserOf, fixed
<1> HIDE DEF Offered
<1> QED  BY <1>3, <1>4 DEF Sound

LEMMA CollectStep ==
    ASSUME IInv, Server, NEW c \in Conns, Collect(c)
    PROVE  ServerInv' /\ Carries(down) /\ Fades
<1>1. /\ UNCHANGED <<fixed, sock, cl, hist>> /\ Registered(c)
      /\ conn' = [conn EXCEPT ![c].at = "idle", ![c].ok = FALSE]
  BY DEF Collect, Registered
<1>2. Touches(c)  BY <1>1, IdleTouches
<1>3. \A b \in Conns : conn'[b].dev = conn[b].dev  BY <1>2 DEF Touches
<1>4. down \in Queues  BY DEF IInv, Types
<1>5. UNCHANGED fixed  BY <1>1
<1>6. Carries(down) /\ Fades
  <2>1. CASE ~Qualifies(c)
    <3>1. down' = down /\ xfer' = xfer  BY <2>1 DEF Collect, Deliver
    <3> QED  BY <1>4, <3>1, QuietCarries, FadesKept
  <2>2. CASE Qualifies(c) /\ ~Registered(xfer.fromConn)
    <3>1. xfer' = NoXfer  BY <2>2 DEF Collect, Deliver
    <3>2. CASE xfer.hidden
      <4>1. down' = down  BY <2>2, <3>2 DEF Collect, Deliver
      <4> QED  BY <1>4, <3>1, <4>1, QuietCarries, FadesKept
    <3>3. CASE ~xfer.hidden
      <4>1. down' = Sent(down, Socks(owner[Offerer]), Cancelled("dead"))
        BY <2>2, <3>3 DEF Collect, Deliver
      <4>2. ~(~Self /\ hides)  BY <2>2, <3>3 DEF Qualifies, IInv, OneOffer
      <4>3. Cancelled("dead") \in Telling  BY DEF Telling
      <4>4. Cancelled("dead") \in Frames /\ \A b \in Conns : Sound(Cancelled("dead"), b)'
        BY <1>5, <4>2, <4>3, TellingSound
      <4> QED  BY <1>4, <3>1, <4>1, <4>4, SendCarries, FadesKept
    <3> QED  BY <3>2, <3>3
  <2>3. CASE Qualifies(c) /\ Registered(xfer.fromConn)
    <3>1. xfer.is /\ xfer' = [xfer EXCEPT !.parked = FALSE] /\ UserOf(c) = target
      BY <2>3 DEF Collect, Deliver, Qualifies
    <3>2. cl'[Offerer].card # "none"  BY <1>1, <3>1 DEF IInv, OneOffer
    <3>3. Offered \in Frames /\ Sound(Offered, c)'
      BY <1>3, <1>5, <3>1, <3>2, OfferedSound
    <3>4. CASE xfer.hidden
      <4>1. down' = Sent(down, {c}, Offered)
        BY <2>3, <3>4 DEF Collect, Deliver
      <4> QED  BY <1>4, <3>1, <3>3, <4>1, SendCarries, FadesKept
    <3>5. CASE ~xfer.hidden
      <4>1. down' = Sent(Sent(down, {c}, Offered), Socks(owner[Offerer]), Parked("reached"))
        BY <2>3, <3>5 DEF Collect, Deliver
      <4>2. ~(~Self /\ hides)  BY <3>1, <3>5 DEF IInv, OneOffer
      <4>3. Parked("reached") \in Telling  BY DEF Telling
      <4>4. Parked("reached") \in Frames /\ \A b \in Conns : Sound(Parked("reached"), b)'
        BY <1>5, <4>2, <4>3, TellingSound
      <4> QED  BY <1>4, <3>1, <3>3, <4>1, <4>4, CarriesTwice, FadesKept
    <3> QED  BY <3>4, <3>5
  <2> QED  BY <2>1, <2>2, <2>3
<1>7. Types' /\ Told' /\ Wired' /\ KeepsSockets
  BY <1>2, <1>6, TouchStep DEF Fades
<1> QED  BY <1>1, <1>6, <1>7, FadeStep DEF ServerInv

LEMMA InsertStep ==
    ASSUME IInv, Server, NEW c \in Conns, InsertOffer(c)
    PROVE  /\ ServerInv' /\ Carries(down) /\ xfer'.is
           /\ xfer'.hidden /\ Reachable(c) => Queued(Parked("offline"), down'[c])
<1>1. /\ UNCHANGED <<fixed, sock, cl, hist>> /\ Registered(c) /\ conn[c].at \in Asks
      /\ conn' = [conn EXCEPT ![c].at = "idle", ![c].ok = FALSE]
      /\ xfer' = [is |-> TRUE, fromConn |-> c, toConn |-> 0, accepted |-> FALSE,
                  parked |-> ~conn[c].ok, hidden |-> hides /\ ~Self]
  BY DEF InsertOffer, Registered, Asks
<1>2. Touches(c)  BY <1>1, IdleTouches
<1>3. \A b \in Conns : conn'[b].dev = conn[b].dev  BY <1>2 DEF Touches
<1>4. down \in Queues  BY DEF IInv, Types
<1>5. UNCHANGED fixed  BY <1>1
<1>6. /\ xfer' \in Transfers /\ xfer'.is /\ xfer'.fromConn = c /\ ~xfer'.accepted
      /\ xfer'.hidden = (hides /\ ~Self) /\ xfer'.toConn = 0
  <2>1. conn[c].ok \in BOOLEAN /\ (hides /\ ~Self) \in BOOLEAN
    BY DEF IInv, Types, Sockets
  <2> QED  BY <1>1, <2>1 DEF Transfers
<1>7. /\ hist.admitted = {} /\ conn[c].dev = Offerer /\ cl[Offerer].card # "none"
      /\ \A b \in Conns : conn[b].at \in Asks => b = c
      /\ ~hist.cut => c = sock[Offerer] /\ sock[Offerer] # 0
  BY <1>1 DEF IInv, OneOffer, Uncut
<1>8. \A b \in Conns : b \in Socks(target) \ {c} => Offered \in Frames /\ Sound(Offered, b)'
  BY <1>1, <1>3, <1>5, <1>7, OfferedSound DEF Socks
<1>9. /\ Parked("offline") \in Frames /\ Offered \in Frames
      /\ \A b \in Conns : Sound(Parked("offline"), b)'
  <2>1. Parked("offline") \in Plain  BY DEF Plain
  <2>2. \A w \in Whys : Offered \in Frames  BY FrameNames
  <2>3. "offline" \in Whys  BY DEF Whys
  <2> QED  BY <2>1, <2>2, <2>3, PlainSound
<1>10. Carries(down) /\ (xfer'.hidden /\ Reachable(c) => Queued(Parked("offline"), down'[c]))
  <2> DEFINE tells == ~conn[c].ok \/ xfer'.hidden
             out == IF conn[c].ok THEN Sent(down, Socks(target) \ {c}, Offered) ELSE down
  <2>1. down' = IF tells THEN Sent(out, {c}, Parked("offline")) ELSE out
    BY DEF InsertOffer
  <2>2. out \in Queues  BY <1>4, <1>9, SentFrames
  <2>3. CASE ~tells
    <3>1. down' = Sent(down, Socks(target) \ {c}, Offered)  BY <2>1, <2>3
    <3>2. Carries(down)  BY <1>4, <1>8, <1>9, <3>1, SendCarries
    <3> QED  BY <2>3, <3>2
  <2>4. CASE tells
    <3>1. down' = Sent(out, {c}, Parked("offline"))  BY <2>1, <2>4
    <3>2. Reachable(c) => Queued(Parked("offline"), down'[c])
      <4> HIDE DEF out
      <4> QED  BY <1>9, <2>2, <3>1, SentFrames
    <3>3. CASE conn[c].ok
      <4>1. down' = Sent(Sent(down, Socks(target) \ {c}, Offered), {c}, Parked("offline"))
        BY <3>1, <3>3
      <4> QED  BY <1>4, <1>8, <1>9, <3>2, <4>1, CarriesTwice
    <3>4. CASE ~conn[c].ok
      <4>1. down' = Sent(down, {c}, Parked("offline"))  BY <3>1, <3>4
      <4> QED  BY <1>4, <1>9, <3>2, <4>1, SendCarries
    <3> QED  BY <3>3, <3>4
  <2> QED  BY <2>3, <2>4
<1>11. /\ Types' /\ Told' /\ Wired' /\ KeepsSockets
  BY <1>2, <1>6, <1>10, TouchStep
<1>12. \A b \in Conns : conn'[b].at \notin Asks
  <2>1. conn'[c].at = "idle"  BY <1>1 DEF IInv, Types, Sockets
  <2> QED  BY <1>2, <1>7, <2>1 DEF Touches, Asks
<1>13. conn'[c].at # "unused" /\ conn'[c].dev = Offerer
  BY <1>2, <1>7 DEF Touches, Registered
<1>14. OneOffer'
  <2>1. Self' = Self /\ hides' = hides /\ cl' = cl /\ hist' = hist
    BY <1>1 DEF Self, fixed
  <2> QED  BY <1>6, <1>7, <1>12, <1>13, <2>1 DEF IInv, OneOffer
<1>15. Uncut'
  BY <1>1, <1>6, <1>7, <1>12 DEF Uncut
<1> QED  BY <1>6, <1>10, <1>11, <1>14, <1>15 DEF ServerInv

LEMMA ExpireStep ==
    ASSUME IInv, Server, Expire
    PROVE  /\ ServerInv' /\ Carries(down) /\ UNCHANGED <<fixed, conn, sock, cl, hist>>
           /\ xfer' = NoXfer
           /\ ~hist.cut => \E f \in Frames :
                 /\ f.k \in Answers /\ Queued(f, down'[sock[Offerer]])
                 /\ (~Self /\ hides /\ hist.admitted = {} => f \in Ends)
<1>1. UNCHANGED <<fixed, conn, sock, cl, hist>> /\ xfer.is /\ xfer' = NoXfer
  BY DEF Expire
<1>2. down \in Queues /\ Grows /\ UNCHANGED fixed
  BY ServerStep DEF IInv, Types
<1>3. \E f \in Frames : /\ down' = Sent(down, Socks(owner[Offerer]) \cup Socks(target), f)
                        /\ f.k \in Answers /\ \A c \in Conns : Sound(f, c)'
                        /\ (~Self /\ hides /\ hist.admitted = {} => f \in Ends)
  <2>0. /\ ~Self /\ hides => xfer.hidden
        /\ hist.admitted = {} => ~xfer.accepted
    BY <1>1 DEF IInv, OneOffer
  <2> DEFINE why == IF xfer.accepted THEN "quiet"
                    ELSE IF xfer.parked \/ xfer.hidden THEN "never" ELSE "ignored"
  <2>1. down' = Sent(down, Socks(owner[Offerer]) \cup Socks(target), Cancelled(why))
    BY DEF Expire
  <2>2. CASE why \in {"quiet", "never"}
    <3>1. Cancelled(why) \in Plain /\ Cancelled(why) # Parked("offline")
      <4>1. \A w \in Whys : Parked(w).k = "parked" /\ Cancelled(w).k = "cancelled"
        BY FrameNames
      <4>2. why \in Whys /\ "offline" \in Whys  BY <2>2 DEF Whys
      <4>3. Cancelled(why).k # Parked("offline").k  BY <4>1, <4>2
      <4>4. Cancelled(why) \in Plain  BY <2>2 DEF Plain
      <4> QED  BY <4>3, <4>4
    <3>2. ~Self /\ hides /\ hist.admitted = {} => Cancelled(why) \in Ends
      BY <2>0 DEF Ends
    <3> QED  BY <2>1, <3>1, <3>2, PlainSound
  <2>3. CASE why \notin {"quiet", "never"}
    <3>1. why = "ignored" /\ ~xfer.hidden  BY <2>3
    <3>2. ~(~Self /\ hides)  BY <1>1, <3>1 DEF IInv, OneOffer
    <3>3. Cancelled(why) \in Telling /\ Cancelled(why) # Parked("reached")
      <4>1. \A w \in Whys : Parked(w).k = "parked" /\ Cancelled(w).k = "cancelled"
        BY FrameNames
      <4>2. why \in Whys /\ "reached" \in Whys  BY <3>1 DEF Whys
      <4>3. Cancelled(why).k # Parked("reached").k  BY <4>1, <4>2
      <4>4. Cancelled(why) \in Telling  BY <3>1 DEF Telling
      <4> QED  BY <4>3, <4>4
    <3> QED  BY <1>2, <2>1, <3>2, <3>3, TellingSound
  <2> QED  BY <2>2, <2>3
<1>4. PICK f \in Frames : /\ down' = Sent(down, Socks(owner[Offerer]) \cup Socks(target), f)
                          /\ f.k \in Answers /\ \A c \in Conns : Sound(f, c)'
                          /\ (~Self /\ hides /\ hist.admitted = {} => f \in Ends)
  BY <1>3
<1>5. Carries(down)
  <2> DEFINE S == Socks(owner[Offerer]) \cup Socks(target)
  <2>1. down' = Sent(down, S, f) /\ \A c \in Conns : Sound(f, c)'  BY <1>4, Zenon
  <2> HIDE DEF S
  <2> QED  BY <1>2, <2>1, SendCarries
<1>6. ~hist.cut => Queued(f, down'[sock[Offerer]])
  BY <1>2, <1>4, SentFrames, SenderReached DEF Socks
<1>7. Fades  BY <1>1, FadesKept
<1>8. KeepsSockets  BY <1>1 DEF KeepsSockets, IInv, Types
<1>9. Wired'  BY <1>1, <1>5, LeftDown, WiredKept
<1>10. Told'
  <2>1. \A c \in Conns : conn'[c].dev = conn[c].dev  BY <1>1
  <2>2. cl[Offerer].card # "none" => cl'[Offerer].card # "none"  BY <1>1
  <2> QED  BY <1>2, <1>5, <2>1, <2>2, LeftDown, ToldKept
<1>11. Types'  BY <1>1, <1>5, <1>7 DEF IInv, Types, fixed, Carries, Fades
<1>12. OneOffer' /\ Uncut'  BY <1>1, <1>7, <1>8, FadeStep
<1>13. ~hist.cut => \E g \in Frames :
            /\ g.k \in Answers /\ Queued(g, down'[sock[Offerer]])
            /\ (~Self /\ hides /\ hist.admitted = {} => g \in Ends)
  BY <1>4, <1>6
<1> QED  BY <1>1, <1>5, <1>9, <1>10, <1>11, <1>12, <1>13 DEF ServerInv

LEMMA UnregisterStep ==
    ASSUME IInv, Server, NEW c \in Conns, Unregister(c)
    PROVE  /\ ServerInv' /\ UNCHANGED <<fixed, down, sock, cl>> /\ Fades
           /\ \A b \in Conns : Reachable(b) => conn'[b] = conn[b]
           /\ xfer' = xfer \/ hist'.purged
<1>1. /\ UNCHANGED <<fixed, down, sock, cl>> /\ conn[c].at = "idle" /\ ~conn[c].net
      /\ conn' = [conn EXCEPT ![c] = [conn[c] EXCEPT !.at = "gone", !.attested = FALSE]]
      /\ xfer' \in {xfer, NoXfer}
  BY DEF Unregister
<1>2. xfer' = xfer \/ hist'.purged
  <2>1. hist \in Histories /\ (~xfer.is => xfer = NoXfer)
    BY XferType DEF IInv, Types
  <2>2. PICK alone \in BOOLEAN :
          /\ xfer' = IF alone THEN NoXfer ELSE xfer
          /\ hist' = [hist EXCEPT !.purged = @ \/ (alone /\ xfer.is)]
    BY DEF Unregister
  <2>3. hist'.purged = (hist.purged \/ (alone /\ xfer.is))
    BY <2>1, <2>2 DEF Histories
  <2> QED  BY <2>1, <2>2, <2>3
<1> DEFINE r == conn[c]
           u == [r EXCEPT !.at = "gone", !.attested = FALSE]
<1>3. conn \in [Conns -> Sockets] /\ r \in Sockets  BY DEF IInv, Types
<1>4. conn' = [conn EXCEPT ![c] = u]  BY <1>1
<1>5. /\ u \in Sockets /\ u.at = "gone" /\ u.dev = r.dev /\ u.net = r.net
  <2> HIDE DEF r
  <2> QED  BY <1>3 DEF Sockets
<1> HIDE DEF u
<1>6. /\ conn' \in [Conns -> Sockets] /\ conn'[c] = u
      /\ \A b \in Conns \ {c} : conn'[b] = conn[b]
  BY <1>3, <1>4, <1>5
<1>7. ~Reachable(c) /\ ~Reachable(c)'
  BY <1>1, <1>5, <1>6 DEF Reachable, Registered
<1>8. \A b \in Conns : /\ Reachable(b)' = Reachable(b) /\ conn'[b].dev = conn[b].dev
                       /\ (conn'[b].at = "unused") = (conn[b].at = "unused")
                       /\ conn'[b].at \in Asks => conn[b].at \in Asks
  BY <1>1, <1>5, <1>6, <1>7 DEF Reachable, Registered, Asks
<1>9. Fades /\ KeepsSockets
  BY <1>1, <1>6, <1>8, FadesKept DEF KeepsSockets
<1>10. Grows /\ UNCHANGED fixed /\ Carries(down)
  BY <1>1, ServerStep, QuietCarries DEF IInv, Types
<1>11. Types'  BY <1>1, <1>6, <1>9, <1>10 DEF IInv, Types, Fades, Grows, fixed
<1>12. Told'
  <2>1. \A b \in Conns : conn'[b].dev = conn[b].dev  BY <1>8
  <2>2. cl[Offerer].card # "none" => cl'[Offerer].card # "none"  BY <1>1
  <2> QED  BY <1>10, <2>1, <2>2, LeftDown, ToldKept
<1>13. Wired'  BY <1>1, <1>8 DEF IInv, Wired, Types
<1>14. OneOffer' /\ Uncut'  BY <1>1, <1>9, FadeStep
<1> QED  BY <1>1, <1>2, <1>6, <1>7, <1>9, <1>11, <1>12, <1>13, <1>14 DEF ServerInv

LEMMA BreakStep ==
    ASSUME IInv, Server, NEW c \in Conns, Break(c)
    PROVE  /\ ServerInv' /\ UNCHANGED <<fixed, xfer, cl>>
           /\ \A b \in Conns : conn'[b].at = conn[b].at
           /\ ~hist'.cut => sock[Offerer] # c /\ sock'[Offerer] = sock[Offerer]
           /\ \A b \in Conns \ {c} : down'[b] = down[b]
<1>1. /\ UNCHANGED <<fixed, xfer, cl>> /\ Registered(c) /\ conn[c].net
      /\ conn' = [conn EXCEPT ![c].net = FALSE]
      /\ down' = [down EXCEPT ![c] = <<>>]
      /\ sock' = [d \in Devices |-> IF sock[d] = c THEN 0 ELSE sock[d]]
  BY DEF Break
<1>2. ~hist'.cut => sock[Offerer] # c
  BY DEF Break, IInv, Types, Histories
<1>3. Offerer \in Devices /\ sock \in [Devices -> {0} \cup Conns]
      /\ conn \in [Conns -> Sockets] /\ down \in [Conns -> Seq(Frames)]
  BY FilesAssumption DEF IInv, Types, Queues
<1>4. /\ conn' \in [Conns -> Sockets] /\ conn'[c].net = FALSE
      /\ conn'[c].at = conn[c].at /\ conn'[c].dev = conn[c].dev
      /\ \A b \in Conns \ {c} : conn'[b] = conn[b]
  BY <1>1, <1>3 DEF Sockets
<1>5. \A b \in Conns : conn'[b].at = conn[b].at /\ conn'[b].dev = conn[b].dev
  BY <1>4
<1>6. ~Reachable(c)' /\ \A b \in Conns \ {c} : Reachable(b)' = Reachable(b)
  BY <1>4 DEF Reachable, Registered
<1>7. sock' \in [Devices -> {0} \cup Conns]
  BY <1>1, <1>3
<1> DEFINE q == [down EXCEPT ![c] = <<>>]
<1>8. q \in Queues /\ q[c] = <<>> /\ \A b \in Conns \ {c} : q[b] = down[b]
  BY <1>3 DEF Queues
<1>9. Left(q) /\ Carries(q)
  <2>1. down' = q  BY <1>1
  <2>2. \A g : ~Queued(g, <<>>)  BY DEF Queued
  <2> HIDE DEF q
  <2>3. Left(q)  BY <1>8, <2>2 DEF Left, IInv, Wired
  <2> QED  BY <1>8, <2>1, <2>3, QuietCarries
<1>10. down' = q  BY <1>1
<1> HIDE DEF q
<1>11. Grows /\ UNCHANGED fixed  BY ServerStep
<1>12. Fades /\ KeepsSockets
  BY <1>1, <1>4, <1>5, FadesKept DEF KeepsSockets
<1>13. Types'
  BY <1>1, <1>4, <1>7, <1>8, <1>10, <1>11 DEF IInv, Types, Grows, fixed
<1>14. Told'
  <2>1. cl[Offerer].card # "none" => cl'[Offerer].card # "none"  BY <1>1
  <2> QED  BY <1>5, <1>9, <1>11, <2>1, ToldKept
<1>15. Wired'
  <2>1. ASSUME NEW d \in Devices, sock'[d] # 0
        PROVE  Reachable(sock[d])' /\ conn'[sock'[d]].dev = d
    <3>1. sock'[d] = sock[d] /\ sock[d] # c /\ sock[d] \in Conns
      BY <1>1, <1>3, <2>1
    <3>2. conn'[sock[d]] = conn[sock[d]]  BY <1>4, <3>1
    <3> QED  BY <2>1, <3>1, <3>2 DEF IInv, Wired, Reachable, Registered
  <2>2. ASSUME NEW b \in Conns, Reachable(b)'
        PROVE  sock'[conn'[b].dev] = b
    <3>1. b # c /\ Reachable(b) /\ conn'[b].dev = conn[b].dev  BY <1>4, <1>6, <2>2
    <3>2. sock[conn[b].dev] = b /\ conn[b].dev \in Devices
      BY <3>1 DEF IInv, Wired, Reachable, Registered
    <3> QED  BY <1>1, <3>1, <3>2
  <2>3. \A b \in Conns : conn'[b].at # "unused" => conn'[b].dev \in Devices
    BY <1>5 DEF IInv, Wired
  <2>4. \A b \in Conns : ~Reachable(b)' => down'[b] = <<>>
    BY <1>6, <1>8, <1>10 DEF IInv, Wired
  <2> QED  BY <2>1, <2>2, <2>3, <2>4 DEF Wired, Reachable, Registered
<1>16. ~hist'.cut => sock'[Offerer] = sock[Offerer]
  BY <1>1, <1>2, <1>3
<1>17. OneOffer' /\ Uncut'  BY <1>12, <1>16, FadeStep
<1> QED  BY <1>1, <1>2, <1>5, <1>8, <1>10, <1>13, <1>14, <1>15, <1>16, <1>17 DEF ServerInv

LEMMA RegisterStep ==
    ASSUME IInv, Server, NEW d \in Devices, NEW delivery \in BOOLEAN, Register(d, delivery)
    PROVE  /\ ServerInv' /\ UNCHANGED <<fixed, xfer, down, cl, hist>>
           /\ ~hist.cut => sock'[Offerer] = sock[Offerer]
           /\ \A b \in Conns : Reachable(b) => conn'[b] = conn[b]
<1>1. UNCHANGED <<fixed, xfer, down, cl, hist>> /\ (~delivery => sock[d] = 0)
  BY DEF Register
<1>2. PICK c \in Conns :
         /\ conn[c].at = "unused"
         /\ conn' = [conn EXCEPT ![c] = [Unused EXCEPT
                !.dev = d, !.delivery = delivery, !.net = TRUE,
                !.at = IF delivery THEN "idle" ELSE "arrive"]]
         /\ sock' = IF delivery THEN sock ELSE [sock EXCEPT ![d] = c]
  BY Zenon DEF Register
<1> DEFINE at == IF delivery THEN "idle" ELSE "arrive"
           u == [Unused EXCEPT !.dev = d, !.delivery = delivery, !.net = TRUE, !.at = at]
<1>3. Offerer \in Devices /\ sock \in [Devices -> {0} \cup Conns] /\ 0 \notin Conns
      /\ conn \in [Conns -> Sockets]
  BY FilesAssumption DEF IInv, Types, Conns
<1>4. conn' = [conn EXCEPT ![c] = u]  BY <1>2
<1>5. at \in {"idle", "arrive"}  OBVIOUS
<1> HIDE DEF at
<1>6. /\ u \in Sockets /\ u.dev = d /\ u.delivery = delivery /\ u.net = TRUE /\ u.at = at
  BY <1>5 DEF Sockets, Unused
<1> HIDE DEF u
<1>7. /\ conn' \in [Conns -> Sockets] /\ conn'[c] = u
      /\ \A b \in Conns \ {c} : conn'[b] = conn[b]
  BY <1>3, <1>4, <1>6
<1>8. ~Reachable(c) /\ Reachable(c)' = ~delivery
      /\ \A b \in Conns \ {c} : Reachable(b)' = Reachable(b)
  BY <1>2, <1>5, <1>6, <1>7 DEF Reachable, Registered
<1>9. sock' \in [Devices -> {0} \cup Conns]
      /\ \A e \in Devices : sock'[e] = IF ~delivery /\ e = d THEN c ELSE sock[e]
  BY <1>2, <1>3
<1>10. Fades /\ KeepsSockets
  BY <1>1, <1>2, <1>5, <1>6, <1>7, FadesKept DEF KeepsSockets, Asks
<1>11. Grows /\ UNCHANGED fixed /\ Carries(down)
  BY <1>1, ServerStep, QuietCarries DEF IInv, Types
<1>12. Types'
  BY <1>1, <1>7, <1>9, <1>11 DEF IInv, Types, Grows, fixed
<1>13. Told'
  <2>1. \A b \in Conns : conn'[b].dev = conn[b].dev \/ (down[b] = <<>> /\ ~Reachable(b))
    BY <1>7, <1>8 DEF IInv, Wired
  <2>2. cl[Offerer].card # "none" => cl'[Offerer].card # "none"  BY <1>1
  <2> QED  BY <1>11, <2>1, <2>2, LeftDown, ToldKept
<1>14. \A b \in Conns : Reachable(b) => conn[b].dev \in Devices /\ sock[conn[b].dev] = b
  BY DEF IInv, Wired, Reachable, Registered
<1>15. Wired'
  <2>1. ASSUME NEW e \in Devices, sock'[e] # 0
        PROVE  Reachable(sock[e])' /\ conn'[sock'[e]].dev = e
    <3>1. CASE ~delivery /\ e = d
      <4>1. sock'[e] = c  BY <1>9, <3>1
      <4> QED
        BY <1>5, <1>6, <1>7, <3>1, <4>1 DEF Reachable, Registered
    <3>2. CASE ~(~delivery /\ e = d)
      <4>1. sock'[e] = sock[e] /\ sock[e] # 0 /\ sock[e] \in Conns  BY <1>3, <1>9, <2>1, <3>2
      <4>2. Reachable(sock[e]) /\ conn[sock[e]].dev = e  BY <4>1 DEF IInv, Wired
      <4>3. sock[e] # c  BY <1>8, <4>2
      <4> QED  BY <1>7, <4>1, <4>2, <4>3 DEF Reachable, Registered
    <3> QED  BY <3>1, <3>2
  <2>2. ASSUME NEW b \in Conns, Reachable(b)'
        PROVE  sock'[conn'[b].dev] = b
    <3>1. CASE b = c  BY <1>6, <1>7, <1>8, <1>9, <2>2, <3>1
    <3>2. CASE b # c
      <4>1. Reachable(b) /\ conn'[b] = conn[b]  BY <1>7, <1>8, <2>2, <3>2
      <4>2. conn[b].dev \in Devices /\ sock[conn[b].dev] = b  BY <1>14, <4>1
      <4>3. ~(~delivery /\ conn[b].dev = d)
        BY <1>1, <1>3, <4>2
      <4> QED  BY <1>9, <4>1, <4>2, <4>3
    <3> QED  BY <3>1, <3>2
  <2>3. \A b \in Conns : conn'[b].at # "unused" => conn'[b].dev \in Devices
    BY <1>6, <1>7 DEF IInv, Wired
  <2>4. \A b \in Conns : ~Reachable(b)' => down'[b] = <<>>
    BY <1>1, <1>8 DEF IInv, Wired
  <2> QED  BY <2>1, <2>2, <2>3, <2>4 DEF Wired, Reachable, Registered
<1>16. ~hist.cut => sock'[Offerer] = sock[Offerer]
  BY <1>1, <1>3, <1>9 DEF IInv, Uncut
<1>17. OneOffer' /\ Uncut'
  <2>1. hist'.cut \/ sock'[Offerer] = sock[Offerer]  BY <1>1, <1>16
  <2> QED  BY <1>10, <2>1, FadeStep
<1> QED  BY <1>1, <1>7, <1>8, <1>12, <1>13, <1>15, <1>16, <1>17 DEF ServerInv

\* The server's part of the invariant is kept.
LEMMA ServerInvStep ==
    ASSUME IInv, Next
    PROVE  ServerInv'
<1>1. CASE Server
  BY <1>1, RegisterStep, GreetStep, CollectStep, RefuseStep, AdmitStep, InsertStep, BreakStep, UnregisterStep, ExpireStep
     DEF Server
<1>2. CASE OfferFile  BY <1>2, OfferServerStep
<1>3. CASE \E d \in Devices : Dial(d)  BY <1>3, DialStep
<1>4. ASSUME NEW d \in Devices,
             \/ Client(d) \/ OfferChecked(d) \/ Accept(d) \/ PlaceChosen(d)
             \/ AcceptVerified(d) \/ ChannelOpens(d)
      PROVE  ServerInv'
  <2>1. \E q, k : Speaks(d, q, k)
    <3>1. CASE Client(d)  BY <3>1, ClientSpeaks
    <3>2. CASE \/ OfferChecked(d) \/ Accept(d) \/ PlaceChosen(d)
               \/ AcceptVerified(d) \/ ChannelOpens(d)
      <4>1. UNCHANGED <<fixed, conn, xfer, down, sock, hist>>
        BY <3>2 DEF OfferChecked, Accept, PlaceChosen, AcceptVerified, ChannelOpens
      <4>2. Speaks(d, down, "")  BY <4>1, LeftDown DEF Speaks, Replied, Ignored
      <4> QED  BY <4>2
    <3> QED  BY <1>4, <3>1, <3>2
  <2>2. ~OfferFile \/ ServerInv'  BY OfferServerStep
  <2> QED  BY <2>1, <2>2, SpeaksStep
<1> QED  BY <1>1, <1>2, <1>3, <1>4, FilesAssumption DEF Next, Server, Client

-----------------------------------------------------------------------------
(* What the sender waits for *)

\* The sender's card is still waiting, and nothing told it otherwise.
Waiting == cl[Offerer].card = "offered" /\ ~hist.cut

\* What there is to wait for stays, in the server's steps ...
LEMMA ServerWaits ==
    ASSUME IInv, Server, Waiting'
    PROVE  Hearing' /\ Hiding'
<1> DEFINE c == sock[Offerer]
<1>1. /\ UNCHANGED cl /\ UNCHANGED fixed /\ Waiting /\ (hist.purged => hist'.purged)
      /\ (hist.refused => hist'.refused) /\ hist'.admitted = hist.admitted
  <2>1. UNCHANGED cl /\ UNCHANGED fixed /\ Grows /\ hist'.admitted = hist.admitted
    BY ServerStep
  <2> QED  BY <2>1 DEF Grows, Waiting
<1>2. /\ c \in Conns /\ Reachable(c) /\ (xfer.is => xfer.fromConn = c)
      /\ \A b \in Conns : conn[b].at \in Asks => b = c
  BY <1>1, SenderReached, FilesAssumption DEF IInv, Uncut, Types, Waiting
<1>3. Self' = Self /\ hides' = hides  BY <1>1 DEF Self, fixed
<1>4. ASSUME Fades, sock' = sock \/ sock'[Offerer] = c,
             conn[c].at \in Asks => conn'[c].at \in Asks,
             xfer.is => xfer'.is \/ hist'.purged
                        \/ \E f \in Frames :
                              /\ f.k \in Answers /\ Queued(f, down'[c])
                              /\ (~Self /\ hides /\ hist.admitted = {} => f \in Ends),
             \A g : Queued(g, down[c]) => Queued(g, down'[c])
      PROVE  Hearing' /\ Hiding'
  <2>1. sock'[Offerer] = c  BY <1>4
  <2> HIDE DEF c
  <2>2. Hearing'
    <3>1. ASSUME ~hist'.purged, ~hist'.refused
          PROVE  \/ conn'[c].at \in Asks \/ xfer'.is \/ cl'[Offerer].checks # {}
                 \/ \E f \in Frames : f.k \in Answers /\ Queued(f, down'[c])
      BY <1>1, <1>4, <3>1 DEF IInv, Hearing, Waiting, c
    <3> QED  BY <1>1, <2>1, <3>1 DEF Hearing
  <2>3. ASSUME ~Self, hides, ~hist'.refused, conn'[c].at \notin Asks, hist'.admitted = {}
        PROVE  /\ cl'[Offerer].note = "offline" \/ Queued(Parked("offline"), down'[c])
               /\ xfer'.is \/ hist'.purged \/ \E f \in Ends : Queued(f, down'[c])
    <3>1. /\ cl[Offerer].note = "offline" \/ Queued(Parked("offline"), down[c])
          /\ xfer.is \/ hist.purged \/ \E f \in Ends : Queued(f, down[c])
      BY <1>1, <1>4, <2>3 DEF IInv, Hiding, Waiting, c
    <3> QED  BY <1>1, <1>4, <2>3, <3>1
  <2>4. Hiding'  BY <1>1, <1>3, <2>1, <2>3 DEF Hiding
  <2> QED  BY <2>2, <2>4
<1>5. ASSUME NEW d \in Devices, NEW delivery \in BOOLEAN, Register(d, delivery)
      PROVE  Hearing' /\ Hiding'
  <2>1. /\ UNCHANGED <<xfer, down>> /\ sock'[Offerer] = c /\ conn'[c] = conn[c]
    BY <1>1, <1>2, <1>5, RegisterStep DEF Waiting
  <2>2. Fades  BY <2>1, FadesKept
  <2> QED  BY <1>4, <2>1, <2>2
<1>6. ASSUME NEW b \in Conns, Resolve(b) \/ Attest(b)
      PROVE  Hearing' /\ Hiding'
  <2>1. UNCHANGED <<xfer, down, sock>> /\ conn[b].at \notin Asks
        /\ \A e \in Conns \ {b} : conn'[e] = conn[e]
    BY <1>6 DEF Resolve, Attest, IInv, Types, Asks
  <2>2. Fades  BY <2>1, FadesKept
  <2> QED  BY <1>2, <1>4, <2>1, <2>2
<1>12. ASSUME NEW b \in Conns, RefuseOffer(b)
      PROVE  Hearing' /\ Hiding'
  <2>1. hist'.refused  BY <1>12, RefuseStep
  <2> QED  BY <2>1 DEF Hearing, Hiding
<1>13. ASSUME NEW b \in Conns, AdmitOffer(b)
      PROVE  Hearing' /\ Hiding'
  <2>1. UNCHANGED <<xfer, down, sock>> /\ conn'[b].at \in Asks
        /\ \A e \in Conns \ {b} : conn'[e] = conn[e]
    BY <1>13 DEF AdmitOffer, IInv, Types, Asks, Sockets
  <2>2. Fades  BY <2>1, FadesKept
  <2> QED  BY <1>2, <1>4, <2>1, <2>2
<1>7. ASSUME NEW b \in Conns, Collect(b)
      PROVE  Hearing' /\ Hiding'
  <2>1. sock' = sock /\ conn[b].at \notin Asks /\ \A e \in Conns \ {b} : conn'[e] = conn[e]
    BY <1>7 DEF Collect, IInv, Types, Asks
  <2>2. Carries(down) /\ Fades  BY <1>7, CollectStep
  <2>3. xfer.is => xfer'.is
    <3>1. CASE ~Qualifies(b)  BY <1>7, <3>1 DEF Collect, Deliver
    <3>2. CASE Qualifies(b)
      <4>1. xfer.is /\ Registered(xfer.fromConn)  BY <1>2, <3>2 DEF Qualifies, Reachable
      <4>2. xfer' = [xfer EXCEPT !.parked = FALSE]  BY <1>7, <3>2, <4>1 DEF Collect, Deliver
      <4> QED  BY <4>1, <4>2, XferType DEF IInv, Transfers
    <3> QED  BY <3>1, <3>2
  <2>4. \A g : Queued(g, down[c]) => Queued(g, down'[c])  BY <1>2, <2>2 DEF Carries
  <2> HIDE DEF c
  <2> QED  BY <1>2, <1>4, <2>1, <2>2, <2>3, <2>4
<1>8. ASSUME NEW b \in Conns, InsertOffer(b)
      PROVE  Hearing' /\ Hiding'
  <2>1. /\ xfer'.is /\ b = c /\ sock' = sock
        /\ xfer'.hidden => Queued(Parked("offline"), down'[c])
    BY <1>2, <1>8, InsertStep DEF InsertOffer, Asks
  <2>2. xfer'.hidden = (hides /\ ~Self)' /\ sock'[Offerer] = c
    BY <1>8, <2>1, InsertStep DEF ServerInv, OneOffer
  <2> HIDE DEF c
  <2> QED  BY <2>1, <2>2 DEF Hearing, Hiding
<1>9. ASSUME NEW b \in Conns, Break(b)
      PROVE  Hearing' /\ Hiding'
  <2>1. /\ xfer' = xfer /\ conn'[c].at = conn[c].at /\ b # c /\ sock'[Offerer] = c
        /\ down'[c] = down[c]
    BY <1>2, <1>9, BreakStep DEF Waiting
  <2>2. Fades  BY <2>1, FadesKept
  <2> QED  BY <1>4, <2>1, <2>2
<1>10. ASSUME NEW b \in Conns, Unregister(b)
      PROVE  Hearing' /\ Hiding'
  <2>1. /\ UNCHANGED <<down, sock>> /\ Fades /\ conn'[c] = conn[c]
        /\ xfer' = xfer \/ hist'.purged
    BY <1>2, <1>10, UnregisterStep
  <2> QED  BY <1>4, <2>1
<1>11. ASSUME Expire
      PROVE  Hearing' /\ Hiding'
  <2>1. /\ UNCHANGED <<conn, sock>> /\ xfer' = NoXfer /\ Carries(down)
        /\ \E f \in Frames : /\ f.k \in Answers /\ Queued(f, down'[c])
                              /\ (~Self /\ hides /\ hist.admitted = {} => f \in Ends)
    BY <1>1, <1>11, ExpireStep DEF Waiting
  <2>2. Fades  BY <2>1, FadesKept
  <2>3. \A g : Queued(g, down[c]) => Queued(g, down'[c])  BY <1>2, <2>1 DEF Carries
  <2> HIDE DEF c
  <2> QED  BY <1>4, <2>1, <2>2, <2>3
<1> QED  BY <1>5, <1>6, <1>7, <1>8, <1>9, <1>10, <1>11, <1>12, <1>13 DEF Server

\* ... in what the other devices do ...
LEMMA PeerWaits ==
    ASSUME IInv, NEW d \in Peers, Client(d), Waiting'
    PROVE  Hearing' /\ Hiding'
<1> DEFINE c == sock[Offerer]
<1>1. /\ d \in Devices /\ d # Offerer /\ Offerer \in Devices
  BY FilesAssumption DEF Peers
<1>2. PICK q, k : Speaks(d, q, k) /\ (k = "complete" => Received(d) \/ Fail(d))
  BY <1>1, ClientSpeaks
<1>3. /\ Carries(q) /\ UNCHANGED <<fixed, conn, sock>>
      /\ hist'.cut = hist.cut /\ hist'.purged = hist.purged /\ hist'.refused = hist.refused
  BY <1>1, <1>2, SpeaksCarries, SpeaksHist DEF Speaks
<1>4. cl'[Offerer] = cl[Offerer]
  BY <1>1 DEF Client, Cancel, SendAccept, Reject, NoPlace, Receive, Received, Fail, Become,
              IInv, Types
<1>5. Waiting  BY <1>3, <1>4 DEF Waiting
<1>6. c \in Conns /\ Reachable(c) /\ c # sock[d]
  BY <1>1, <1>5, SenderReached DEF IInv, Types, Uncut, Wired, Waiting
<1>7. \A g : Queued(g, down[c]) => Queued(g, down'[c])
  <2>1. q[c] = down[c]  BY <1>2, <1>6 DEF Speaks
  <2> HIDE DEF c
  <2> QED  BY <1>3, <1>6, <2>1 DEF Carries
<1>8. k # "complete"
  <2>1. ~Received(d)
    BY <1>1, <1>4, <1>5 DEF Received, Waiting
  <2>2. ~Fail(d)
    <3>1. cl[Offerer].card = "offered" => hist.dialled = 0
      BY DEF IInv, OneDial
    <3>2. cl[d].remote # NoDevice => hist.dialled > 0
      BY DEF IInv, Partners
    <3> QED  BY <1>5, <3>1, <3>2 DEF Fail, Waiting
  <2> QED  BY <1>2, <2>1, <2>2
<1>9. \/ xfer' = xfer
      \/ xfer.is /\ ~xfer.accepted /\ xfer'.is /\ xfer'.accepted
      \/ /\ xfer' = NoXfer
         /\ \E f \in Frames : f.k \in Answers /\ f \in Ends /\ Queued(f, down'[c])
  <2>1. CASE Ignored(q)  BY <2>1 DEF Ignored
  <2>2. CASE xfer.is /\ ~xfer.accepted
             /\ xfer' = [xfer EXCEPT !.accepted = TRUE, !.toConn = sock[d], !.parked = FALSE]
    <3>1. xfer \in Transfers  BY <2>2, XferType DEF IInv
    <3>2. xfer'.is /\ xfer'.accepted  BY <2>2, <3>1 DEF Transfers
    <3> QED  BY <2>2, <3>2
  <2>3. CASE /\ xfer' = NoXfer
             /\ \E S : \E f \in {Cancelled("peer"), Frame("rejected", "", NoDevice)} :
                   /\ down' = Sent(q, S, f)
                   /\ d # Offerer /\ ~hist.cut => sock[Offerer] \in S
    <3>1. PICK S : \E f \in {Cancelled("peer"), Frame("rejected", "", NoDevice)} :
                   /\ down' = Sent(q, S, f)
                   /\ d # Offerer /\ ~hist.cut => sock[Offerer] \in S
      BY <2>3
    <3>2. PICK f \in {Cancelled("peer"), Frame("rejected", "", NoDevice)} :
                   /\ down' = Sent(q, S, f)
                   /\ d # Offerer /\ ~hist.cut => sock[Offerer] \in S
      BY <3>1
    <3>3. f \in Plain  BY DEF Plain
    <3>4. f # Parked("offline")
      <4>1. \A w \in Whys : /\ Parked(w).k = "parked" /\ Cancelled(w).k = "cancelled"
        BY FrameNames
      <4>2. "offline" \in Whys /\ "peer" \in Whys  BY DEF Whys
      <4>3. Frame("rejected", "", NoDevice).k = "rejected"
        BY RejectedFrame
      <4> QED  BY <4>1, <4>2, <4>3
    <3>5. f \in Frames /\ f.k \in Answers /\ f \in Ends
      BY <3>3, <3>4, PlainSound DEF Ends
    <3>6. q \in Queues /\ c \in S  BY <1>1, <1>2, <1>5, <3>2 DEF Speaks, Left, Waiting
    <3>7. Queued(f, down'[c])  BY <1>6, <3>2, <3>5, <3>6, SentFrames
    <3> QED  BY <2>3, <3>5, <3>7
  <2>4. CASE xfer' = xfer  BY <2>4
  <2> QED  BY <1>2, <1>8, <2>1, <2>2, <2>3, <2>4 DEF Speaks, Replied
<1>10. sock'[Offerer] = c /\ conn' = conn /\ Self' = Self /\ hides' = hides
  BY <1>3 DEF Self, fixed
<1> HIDE DEF c
<1>11. Hearing'
  <2>1. ASSUME ~hist'.purged, ~hist'.refused
        PROVE  \/ conn'[c].at \in Asks \/ xfer'.is \/ cl'[Offerer].checks # {}
               \/ \E f \in Frames : f.k \in Answers /\ Queued(f, down'[c])
    BY <1>3, <1>4, <1>5, <1>7, <1>9, <1>10, <2>1 DEF IInv, Hearing, Waiting, c
  <2> QED  BY <1>10, <2>1 DEF Hearing
<1>12. Hiding'
  <2>1. ASSUME ~Self, hides, ~hist'.refused, conn'[c].at \notin Asks, hist'.admitted = {}
        PROVE  /\ cl'[Offerer].note = "offline" \/ Queued(Parked("offline"), down'[c])
               /\ xfer'.is \/ hist'.purged \/ \E f \in Ends : Queued(f, down'[c])
    <3>1. hist.admitted = {}
      BY <1>1, <1>2, <2>1, SpeaksHist
    <3>2. /\ cl[Offerer].note = "offline" \/ Queued(Parked("offline"), down[c])
          /\ xfer.is \/ hist.purged \/ \E f \in Ends : Queued(f, down[c])
      BY <1>3, <1>5, <1>10, <2>1, <3>1 DEF IInv, Hiding, Waiting, c
    <3> QED  BY <1>3, <1>4, <1>7, <1>9, <3>2
  <2> QED  BY <1>10, <2>1 DEF Hiding
<1> QED  BY <1>11, <1>12

\* ... in what the sender takes from its queue, which is all that leaves its card waiting ...
LEMMA SenderTakes ==
    ASSUME IInv, Client(Offerer), Waiting'
    PROVE  Receive(Offerer)
<1>1. Offerer \in Devices /\ cl[Offerer] \in Managers /\ NoDevice \notin Devices
  BY FilesAssumption, Stands
<1>2. ASSUME NEW card \in Cards, Become(Offerer, Torn(cl[Offerer], card))
      PROVE  card = "offered"
  BY <1>1, <1>2, TornType, BecomeType DEF IInv, Waiting
<1>3. "cancelled" \in Cards /\ "complete" \in Cards /\ "failed" \in Cards
  BY DEF Cards
<1>4. ~Cancel(Offerer) /\ ~Acknowledged /\ ~Fail(Offerer)
  BY <1>2, <1>3 DEF Cancel, Acknowledged, Fail
<1>5. ~SendAccept(Offerer) /\ ~NoPlace(Offerer) /\ ~Reject(Offerer)
  BY <1>1, Stands DEF SendAccept, NoPlace, Reject
<1>6. ~Received(Offerer)
  BY <1>1 DEF Received, Joined, IInv, OneAccept
<1> QED  BY <1>4, <1>5, <1>6 DEF Client

LEMMA SenderWaits ==
    ASSUME IInv, Client(Offerer), Waiting'
    PROVE  Hearing' /\ Hiding'
<1> DEFINE c == sock[Offerer]
           f == Head(down[c])
           q == [down EXCEPT ![c] = Tail(@)]
           t == cl[Offerer]
           u == cl'[Offerer]
<1>1. Receive(Offerer)  BY SenderTakes
<1>2. Offerer \in Devices /\ t \in Managers
  BY FilesAssumption, Stands
<1>3. /\ c # 0 /\ down[c] # <<>> /\ UNCHANGED <<fixed, conn, sock>>
  BY <1>1 DEF Receive
<1>4. /\ c \in Conns /\ conn[c].dev = Offerer /\ f \in Frames /\ Sound(f, c)
      /\ \A g : Queued(g, down[c]) => g = f \/ Queued(g, q[c])
  BY <1>2, <1>3, Taken
<1>5. u.card = "offered" /\ ~hist'.cut
  BY DEF Waiting
<1>6. ~Self /\ hides => f # Parked("reached")
  BY <1>4 DEF Sound, Telling
<1>7. Parked("offline").k = "parked"
  BY DEF Parked, Frame
<1>8. /\ Ignored(q) /\ t.card = "offered"
      /\ t.checks # {} \/ f.k \in Answers => u.checks # {}
      /\ f = Parked("offline") => u.note = "offline"
      /\ f.k \notin {"rejected", "cancelled"}
      /\ ~Self /\ hides /\ t.note = "offline" => u.note = "offline"
  <2>1. CASE f.k # "signal"
    <3>1. Become(Offerer, After(Offerer, t, f)) /\ Ignored(q)
      BY <1>1, <2>1 DEF Receive
    <3>2. Took(Offerer, f, t, After(Offerer, t, f))
      BY <1>2, <1>4, AfterTook
    <3>3. After(Offerer, t, f) \in Managers  BY <3>2 DEF Took
    <3>4. u = After(Offerer, t, f)
      BY <1>2, <3>1, <3>3, BecomeType DEF IInv
    <3>5. Took(Offerer, f, t, u)  BY <3>2, <3>4
    <3> HIDE DEF t, u, f, c
    <3>6. t.card = "offered"  BY <1>5, <3>5 DEF Took
    <3>7. t.checks # {} \/ f.k \in Answers => u.checks # {}
      BY <1>5, <3>5, <3>6 DEF Took, Answers
    <3> QED  BY <1>5, <1>6, <3>1, <3>5, <3>6, <3>7 DEF Took
  <2>2. CASE f.k = "signal"
    <3>1. /\ f.k \notin Answers /\ f # Parked("offline")
          /\ f.k \notin {"rejected", "cancelled"}
      BY <1>7, <2>2 DEF Answers
    <3>2. CASE UNCHANGED cl /\ Ignored(q)
      BY <1>5, <3>1, <3>2
    <3>3. CASE Become(Offerer, [t EXCEPT !.remote = f.by]) /\ Ignored(q)
      <4>1. [t EXCEPT !.remote = f.by] \in Managers
            /\ [t EXCEPT !.remote = f.by].card = t.card
            /\ [t EXCEPT !.remote = f.by].checks = t.checks
            /\ [t EXCEPT !.remote = f.by].note = t.note
        <5>1. f.by \in Devices \cup {NoDevice}  BY <1>4 DEF Frames
        <5> HIDE DEF t, f
        <5> QED  BY <1>2, <5>1 DEF Managers
      <4>2. u = [t EXCEPT !.remote = f.by]
        BY <1>2, <3>3, <4>1, BecomeType DEF IInv
      <4> HIDE DEF t, u, f, c, q
      <4> QED  BY <1>5, <3>1, <3>3, <4>1, <4>2
    <3>4. CASE Become(Offerer, Torn(t, "failed"))
      <4>1. "failed" \in Cards  BY DEF Cards
      <4>2. ASSUME NEW card \in Cards, Become(Offerer, Torn(t, card))
            PROVE  u.card = card
        <5>1. Torn(t, card) \in Managers /\ Torn(t, card).card = card
          BY <1>2, TornType
        <5>2. Types  BY DEF IInv
        <5> HIDE DEF t
        <5> QED  BY <1>2, <4>2, <5>1, <5>2, BecomeType
      <4> QED  BY <1>5, <3>4, <4>1, <4>2
    <3> QED  BY <1>1, <2>2, <3>2, <3>3, <3>4 DEF Receive
  <2> QED  BY <2>1, <2>2
<1>12. f \notin Ends
  <2>1. Cancelled("peer").k = "cancelled" /\ Cancelled("never").k = "cancelled"
    BY DEF Cancelled, Frame
  <2> QED  BY <1>8, <2>1, RejectedFrame DEF Ends
<1>9. /\ xfer' = xfer /\ hist' = hist /\ down' = q /\ conn' = conn /\ sock'[Offerer] = c
      /\ Self' = Self /\ hides' = hides
  BY <1>3, <1>8 DEF Ignored, Self, fixed
<1> HIDE DEF f, q, t, u, c
<1>10. Hearing'
  <2>1. ASSUME ~hist.purged, ~hist.refused
        PROVE  \/ conn[c].at \in Asks \/ xfer.is \/ u.checks # {}
               \/ \E g \in Frames : g.k \in Answers /\ Queued(g, q[c])
    <3>1. \/ conn[c].at \in Asks \/ xfer.is \/ t.checks # {}
          \/ \E g \in Frames : g.k \in Answers /\ Queued(g, down[c])
      BY <1>5, <1>8, <1>9, <2>1 DEF IInv, Hearing, t, c
    <3> QED  BY <1>4, <1>8, <3>1
  <2> QED  BY <1>9, <2>1 DEF Hearing, u
<1>11. Hiding'
  <2>1. ASSUME ~Self, hides, ~hist.refused, conn[c].at \notin Asks, hist.admitted = {}
        PROVE  /\ u.note = "offline" \/ Queued(Parked("offline"), q[c])
               /\ xfer.is \/ hist.purged \/ \E g \in Ends : Queued(g, q[c])
    <3>1. /\ t.note = "offline" \/ Queued(Parked("offline"), down[c])
          /\ xfer.is \/ hist.purged \/ \E g \in Ends : Queued(g, down[c])
      BY <1>5, <1>8, <1>9, <2>1 DEF IInv, Hiding, t, c
    <3> QED  BY <1>4, <1>8, <1>12, <2>1, <3>1
  <2> QED  BY <1>9, <2>1 DEF Hiding, u
<1> QED  BY <1>10, <1>11

\* ... and in everything else.
LEMMA OtherWaits ==
    ASSUME IInv, Waiting', NEW d \in Devices,
           \/ OfferChecked(d) \/ Accept(d) \/ PlaceChosen(d) \/ AcceptVerified(d)
           \/ Dial(d) \/ ChannelOpens(d) \/ OfferFile
    PROVE  Hearing' /\ Hiding'
<1>1. Offerer \in Devices /\ cl[Offerer] \in Managers
  BY FilesAssumption, Stands
<1>2. CASE OfferChecked(d) \/ Accept(d) \/ PlaceChosen(d)
  <2>1. d # Offerer
    BY <1>2, Stands DEF OfferChecked, Accept, PlaceChosen
  <2>2. /\ cl'[Offerer] = cl[Offerer] /\ UNCHANGED <<fixed, conn, xfer, down, sock, hist>>
    BY <1>1, <1>2, <2>1 DEF OfferChecked, Accept, PlaceChosen, Become, IInv, Types
  <2> QED  BY <2>2 DEF IInv, Hearing, Hiding, fixed, Self
<1>3. CASE AcceptVerified(d)
  <2> DEFINE u == [cl[Offerer] EXCEPT !.checks = @ \ {d}, !.dials = @ \cup {d},
                     !.fp = d, !.card = "connecting", !.note = "none"]
  <2>1. Become(Offerer, u)  BY <1>3 DEF AcceptVerified
  <2>2. cl'[Offerer] = u  BY <1>1, <2>1 DEF Become, IInv, Types
  <2>3. u.card = "connecting"  BY <1>1 DEF Managers
  <2> HIDE DEF u
  <2> QED  BY <2>2, <2>3 DEF Waiting
<1>4. CASE Dial(d)
  BY <1>4, DialTurns DEF Waiting
<1>5. CASE ChannelOpens(d)
  BY <1>5, OpensStep DEF Waiting
<1>6. CASE OfferFile
  <2>1. ~xfer.is  BY <1>6 DEF OfferFile, IInv, OneOffer
  <2>2. UNCHANGED <<xfer, sock>>  BY <1>6 DEF OfferFile
  <2>4. sock[Offerer] # 0
    <3>1. hist' = [hist EXCEPT !.cut = TRUE] => hist'.cut
      BY DEF IInv, Types, Histories
    <3> QED  BY <1>6, <3>1 DEF OfferFile, Waiting
  <2>5. conn'[sock[Offerer]].at \in Asks
    BY <1>1, <1>6, <2>4 DEF OfferFile, FileOffer, IInv, Types, Sockets, Asks
  <2> QED  BY <2>2, <2>5 DEF Hearing, Hiding
<1> QED  BY <1>2, <1>3, <1>4, <1>5, <1>6
-----------------------------------------------------------------------------
(* The invariant is inductive *)

LEMMA InvStep ==
    ASSUME IInv, Next
    PROVE  IInv'
<1>1. Types' /\ Told' /\ Wired' /\ OneOffer' /\ Uncut'
  BY ServerInvStep DEF ServerInv
<1>2. OneAccept' /\ OneDial' /\ Partners'
  BY ManagersStep
<1>3. ASSUME Waiting' PROVE Hearing' /\ Hiding'
  <2>1. CASE Server  BY <1>3, <2>1, ServerWaits
  <2>2. ASSUME NEW d \in Devices, Client(d) PROVE Hearing' /\ Hiding'
    BY <1>3, <2>2, PeerWaits, SenderWaits DEF Peers
  <2>3. ASSUME NEW d \in Devices,
               \/ OfferChecked(d) \/ Accept(d) \/ PlaceChosen(d) \/ AcceptVerified(d)
               \/ Dial(d) \/ ChannelOpens(d) \/ OfferFile
        PROVE  Hearing' /\ Hiding'
    BY <1>3, <2>3, OtherWaits
  <2> QED  BY <2>1, <2>2, <2>3, FilesAssumption DEF Next, Server, Client
<1>4. ASSUME ~Waiting' PROVE Hearing' /\ Hiding'
  <2>1. ~(cl'[Offerer].card = "offered" /\ ~hist'.cut)  BY <1>4 DEF Waiting
  <2>2. Hearing'  BY <2>1 DEF Hearing
  <2>3. Hiding'  BY <2>1 DEF Hiding
  <2> QED  BY <2>2, <2>3
<1> QED  BY <1>1, <1>2, <1>3, <1>4 DEF IInv

LEMMA InvStutter ==
    ASSUME IInv, UNCHANGED vars
    PROVE  IInv'
<1>1. /\ owner' = owner /\ target' = target /\ hides' = hides /\ conn' = conn /\ xfer' = xfer
      /\ down' = down /\ sock' = sock /\ cl' = cl /\ hist' = hist
  BY DEF vars
<1>2. Types'  BY <1>1 DEF IInv, Types
<1>3. Told'  BY <1>1 DEF IInv, Told, Sound, UserOf, Self
<1>4. Wired'  BY <1>1 DEF IInv, Wired, Reachable, Registered
<1>5. OneOffer'  BY <1>1 DEF IInv, OneOffer, Self
<1>6. OneAccept' /\ OneDial' /\ Partners' /\ Uncut'
  BY <1>1 DEF IInv, OneAccept, OneDial, Partners, Uncut
<1>7. Hearing' /\ Hiding'  BY <1>1 DEF IInv, Hearing, Hiding, Self
<1> QED  BY <1>2, <1>3, <1>4, <1>5, <1>6, <1>7 DEF IInv

LEMMA InvInit ==
    ASSUME Init
    PROVE  IInv
<1>1. PICK k \in Cases : owner = k.owner /\ target = k.target /\ hides = k.hides
  BY DEF Init
<1>2. /\ owner \in [Devices -> Users] /\ target \in Users /\ hides \in BOOLEAN
      /\ Offerer \in Devices /\ NoDevice \notin Devices /\ MaxConn \in Nat \ {0}
  BY <1>1, FilesAssumption
<1>3. PICK n \in Conns : \E dev \in [1 .. n -> Devices] :
          /\ dev[1] = Offerer /\ \A b, c \in 1 .. n : dev[b] = dev[c] => b = c
          /\ conn = [c \in Conns |-> IF c > n THEN Unused
                       ELSE [Unused EXCEPT !.dev = dev[c], !.at = "idle", !.net = TRUE,
                                           !.attested = TRUE]]
  BY DEF Init
<1>4. PICK dev \in [1 .. n -> Devices] :
          /\ dev[1] = Offerer /\ \A b, c \in 1 .. n : dev[b] = dev[c] => b = c
          /\ conn = [c \in Conns |-> IF c > n THEN Unused
                       ELSE [Unused EXCEPT !.dev = dev[c], !.at = "idle", !.net = TRUE,
                                           !.attested = TRUE]]
  BY <1>3
<1>5. xfer = NoXfer /\ ~xfer.is /\ hist \in Histories /\ ~hist.cut /\ hist.admitted = {}
      /\ hist.dialled = 0 /\ down = [c \in Conns |-> <<>>] /\ cl = [d \in Devices |-> NoCard]
  BY DEF Init, NoXfer, Histories
<1>6. NoCard \in Managers /\ NoCard.card = "none" /\ NoCard.flow = "none"
      /\ NoCard.checks = {} /\ NoCard.dials = {} /\ NoCard.fp = NoDevice
      /\ NoCard.remote = NoDevice
  BY DEF NoCard, Managers, Cards
<1>7. n \in Nat \ {0} /\ n \in 1 .. MaxConn /\ 1 \in 1 .. n /\ 1 .. n \subseteq Conns
      /\ \A c \in Conns : c > n <=> c \notin 1 .. n
  BY <1>2 DEF Conns
<1>8. /\ conn \in [Conns -> Sockets]
      /\ \A c \in 1 .. n : conn[c].dev = dev[c] /\ conn[c].at = "idle" /\ Reachable(c)
      /\ \A c \in Conns \ 1 .. n : /\ conn[c].dev = NoDevice /\ conn[c].at = "unused"
                                   /\ ~Reachable(c)
  <2> DEFINE s(d) == [Unused EXCEPT !.dev = d, !.at = "idle", !.net = TRUE, !.attested = TRUE]
  <2>1. ASSUME NEW d \in Devices
        PROVE  /\ s(d) \in Sockets /\ s(d).dev = d /\ s(d).at = "idle" /\ s(d).net
               /\ ~s(d).delivery
    BY DEF Unused, Sockets
  <2>2. Unused \in Sockets /\ Unused.dev = NoDevice /\ Unused.at = "unused"
    BY DEF Unused, Sockets
  <2>3. conn = [c \in Conns |-> IF c > n THEN Unused ELSE s(dev[c])]
    BY <1>4
  <2> HIDE DEF s
  <2>4. \A c \in 1 .. n : conn[c] = s(dev[c]) /\ dev[c] \in Devices
    BY <1>7, <2>3
  <2>5. \A c \in Conns \ 1 .. n : conn[c] = Unused
    BY <1>7, <2>3
  <2>6. \A c \in Conns : conn[c] \in Sockets
    BY <2>1, <2>2, <2>4, <2>5
  <2>7. conn \in [Conns -> Sockets]  BY <2>3, <2>6
  <2> QED  BY <2>1, <2>2, <2>4, <2>5, <2>7 DEF Reachable, Registered
<1>9. /\ sock \in [Devices -> {0} \cup Conns] /\ sock[Offerer] # 0
      /\ \A d \in Devices : sock[d] # 0 => sock[d] \in 1 .. n /\ dev[sock[d]] = d
      /\ \A c \in 1 .. n : sock[dev[c]] = c
  <2>1. sock = [d \in Devices |-> IF \E c \in Conns : conn[c].dev = d
                                  THEN CHOOSE c \in Conns : conn[c].dev = d ELSE 0]
    BY DEF Init
  <2>2. ASSUME NEW d \in Devices
        PROVE  \/ /\ sock[d] = 0 /\ \A c \in Conns : conn[c].dev # d
               \/ sock[d] \in 1 .. n /\ dev[sock[d]] = d
    <3>1. CASE \E c \in Conns : conn[c].dev = d
      <4>1. sock[d] \in Conns /\ conn[sock[d]].dev = d
        BY <2>1, <3>1
      <4> QED  BY <1>2, <1>8, <4>1
    <3>2. CASE ~ \E c \in Conns : conn[c].dev = d
      BY <2>1, <3>2
    <3> QED  BY <3>1, <3>2
  <2>3. ASSUME NEW c \in 1 .. n PROVE sock[dev[c]] = c
    <3>1. dev[c] \in Devices /\ conn[c].dev = dev[c] /\ c \in Conns
      BY <1>7, <1>8
    <3>2. sock[dev[c]] \in 1 .. n /\ dev[sock[dev[c]]] = dev[c]
      BY <2>2, <3>1
    <3> QED  BY <1>4, <3>2
  <2>4. 0 \notin 1 .. n  OBVIOUS
  <2>5. sock \in [Devices -> {0} \cup Conns]
    BY <1>7, <2>1, <2>2
  <2>6. sock[Offerer] # 0
    <3>1. dev[1] = Offerer  BY <1>4
    <3> QED  BY <1>7, <2>3, <3>1
  <2> QED  BY <2>2, <2>3, <2>5, <2>6
<1>10. down \in Queues /\ \A c \in Conns : down[c] = <<>> /\ \A f : ~Queued(f, down[c])
  BY <1>5 DEF Queues, Queued
<1>11. Types  BY <1>2, <1>5, <1>6, <1>8, <1>9, <1>10 DEF Types
<1>12. Told  BY <1>10 DEF Told
<1>13. Wired
  <2>1. \A d \in Devices : sock[d] # 0 => Reachable(sock[d]) /\ conn[sock[d]].dev = d
    BY <1>8, <1>9
  <2>2. ASSUME NEW c \in Conns
        PROVE  /\ Reachable(c) => sock[conn[c].dev] = c
               /\ conn[c].at # "unused" => conn[c].dev \in Devices
               /\ ~Reachable(c) => down[c] = <<>>
    <3>1. CASE c \in 1 .. n  BY <1>8, <1>9, <1>10, <3>1
    <3>2. CASE c \notin 1 .. n  BY <1>8, <1>10, <3>2
    <3> QED  BY <3>1, <3>2
  <2> QED  BY <2>1, <2>2 DEF Wired
<1>14. \A c \in Conns : conn[c].at \notin Asks
  BY <1>8 DEF Asks
<1>15. cl[Offerer] = NoCard /\ \A d \in Devices : cl[d] = NoCard
  BY <1>2, <1>5
<1>16. OneOffer  BY <1>5, <1>6, <1>14, <1>15 DEF OneOffer
<1>17. OneAccept  BY <1>5, <1>6, <1>15 DEF OneAccept, Peers
<1>18. OneDial  BY <1>5, <1>6, <1>15 DEF OneDial
<1>19. Partners  BY <1>6, <1>15 DEF Partners, Peers
<1>20. Uncut  BY <1>5, <1>9, <1>14 DEF Uncut
<1>21. Hearing /\ Hiding  BY <1>6, <1>15 DEF Hearing, Hiding
<1> QED  BY <1>11, <1>12, <1>13, <1>16, <1>17, <1>18, <1>19, <1>20, <1>21 DEF IInv

\* The strengthening holds throughout, whoever owns the devices and however many there are.
THEOREM Invariance == Spec => []IInv
<1>1. IInv /\ [Next]_vars => IInv'  BY InvStep, InvStutter
<1> QED  BY InvInit, <1>1, PTL DEF Spec

-----------------------------------------------------------------------------
(* What it implies *)

\* Frames in a queue, by their place and by their membership.
LEMMA Places ==
    ASSUME IInv, NEW c \in Conns
    PROVE  /\ \A i \in DOMAIN down[c] : down[c][i] \in Frames /\ Queued(down[c][i], down[c])
           /\ \A f : Queued(f, down[c]) => \E i \in DOMAIN down[c] : down[c][i] = f
<1>1. down[c] \in Seq(Frames)  BY DEF IInv, Types, Queues
<1>2. \A i \in DOMAIN down[c] : down[c][i] \in Frames  BY <1>1
<1> QED  BY <1>2 DEF Queued

\* The variables keep their types: sockets, the server's record, the managers and the
\* frames of every kind on their way.
THEOREM TypeCorrect == Spec => []TypeOK
<1>1. IInv => TypeOK
  <2> SUFFICES ASSUME IInv PROVE TypeOK  OBVIOUS
  <2>1. \A c \in Conns : \A i \in DOMAIN down[c] : down[c][i].k \in FrameKinds
    BY Places DEF Frames
  <2>2. xfer \in {NoXfer}
         \cup [is : {TRUE}, fromConn : Conns, toConn : {0}, accepted : {FALSE},
               parked : BOOLEAN, hidden : BOOLEAN]
         \cup [is : {TRUE}, fromConn : Conns, toConn : Conns, accepted : {TRUE},
               parked : {FALSE}, hidden : BOOLEAN]
    <3>1. CASE ~xfer.is  BY <3>1, XferType DEF IInv
    <3>2. CASE xfer.is
      <4>1. xfer \in Transfers  BY <3>2, XferType DEF IInv
      <4>2. /\ xfer.accepted => xfer.toConn # 0 /\ ~xfer.parked
            /\ ~xfer.accepted => xfer.toConn = 0
        BY <3>2 DEF IInv, OneOffer
      <4>3. CASE xfer.accepted  BY <4>1, <4>2, <4>3 DEF Transfers
      <4>4. CASE ~xfer.accepted  BY <4>1, <4>2, <4>4 DEF Transfers
      <4> QED  BY <4>3, <4>4
    <3> QED  BY <3>1, <3>2
  <2> QED  BY <2>1, <2>2 DEF IInv, Types, TypeOK, Sockets, Managers
<1> QED  BY Invariance, <1>1, PTL

\* A sender whose card waits has an answer coming, an expiry at the latest: once the offer
\* is admitted, accepts, declines, cancels, parked deliveries and the reaper never drop the
\* sender's word, unless its socket breaks or the last visible one of an account leaves.
THEOREM Hears == Spec => []SenderHears
<1>1. IInv => SenderHears
  <2> SUFFICES ASSUME IInv PROVE SenderHears  OBVIOUS
  <2>1. ~hist.cut => sock[Offerer] \in Conns
    BY SenderReached DEF Socks
  <2> QED  BY <2>1, Places DEF SenderHears, IInv, Hearing, Answers, Asking, Asks
<1> QED  BY Invariance, <1>1, PTL

\* One device gets the file, the one whose accept the server admitted, and the sender
\* dials once.
THEOREM OneReceives == Spec => []OneReceiver
<1>1. IInv => OneReceiver
  BY DEF IInv, OneAccept, OneDial, OneReceiver
<1> QED  BY Invariance, <1>1, PTL

\* Between two devices of one account neither is sent its own descriptions.
THEOREM Echoes == Spec => []NoEcho
<1>1. IInv => NoEcho
  <2> SUFFICES ASSUME IInv, Self, NEW c \in Conns, NEW i \in DOMAIN down[c],
                      down[c][i].k = "signal"
               PROVE  down[c][i].by # conn[c].dev
    BY DEF NoEcho
  <2>1. Sound(down[c][i], c)  BY Places DEF IInv, Told
  <2> QED  BY <2>1 DEF Sound
<1> QED  BY Invariance, <1>1, PTL

\* Until they answer, somebody who hides their presence is to the sender parked, never
\* reached and at last expired, as somebody offline is, unless their last visible socket
\* leaves, which forgets the offer without that expiry.
THEOREM Hidden == Spec => []HiddenLooksOffline
<1>1. IInv => HiddenLooksOffline
  <2> SUFFICES ASSUME IInv, ~Self, hides PROVE HiddenLooksOffline
    BY DEF HiddenLooksOffline
  <2>1. ASSUME NEW c \in Conns, NEW i \in DOMAIN down[c], conn[c].dev = Offerer
        PROVE  down[c][i] \notin {Parked("reached"), Cancelled("ignored"), Cancelled("dead")}
    <3>1. Sound(down[c][i], c)  BY Places DEF IInv, Told
    <3> QED  BY <2>1, <3>1 DEF Sound, Telling
  <2>2. ~hist.cut => sock[Offerer] \in Conns
    BY SenderReached DEF Socks
  <2>3. ASSUME cl[Offerer].card = "offered", ~hist.cut, ~hist.refused,
               ~Asking(sock[Offerer]), hist.admitted = {}
        PROVE  /\ \/ cl[Offerer].note = "offline"
                  \/ \E i \in DOMAIN down[sock[Offerer]] :
                        down[sock[Offerer]][i] \in {Parked("offline")}
               /\ \/ xfer.is \/ hist.purged
                  \/ \E i \in DOMAIN down[sock[Offerer]] : down[sock[Offerer]][i] \in Ends
    <3>1. /\ cl[Offerer].note = "offline" \/ Queued(Parked("offline"), down[sock[Offerer]])
          /\ xfer.is \/ hist.purged \/ \E f \in Ends : Queued(f, down[sock[Offerer]])
      BY <2>3 DEF IInv, Hiding, Asking, Asks
    <3> QED  BY <2>2, <2>3, <3>1, Places
  <2> QED  BY <2>1, <2>3, Zenon DEF HiddenLooksOffline, Ends
<1> QED  BY Invariance, <1>1, PTL
=============================================================================
