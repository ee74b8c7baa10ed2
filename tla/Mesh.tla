------------------------------- MODULE Mesh -------------------------------
(***************************************************************************)
(* The voice mesh between two members of one room                          *)
(* (frontend/src/api/rtc/manager.ts, and the voice panel that drives it).  *)
(*                                                                         *)
(* Each side keeps at most one peer connection to the other and finds the  *)
(* other's again after a rejoin, a lost offer or an ICE failure: "perfect  *)
(* negotiation" with an identifier per connection, a queue of signalling   *)
(* tasks, a watchdog on offers nobody answers, and a ladder for failures.  *)
(*                                                                         *)
(* m[u] is the manager of side u, as it stands towards the other side.     *)
(* Connections are numbered per side; 0 stands for none.  Epochs and       *)
(* generations are kept as marks: a build is "stale" once what it captured *)
(* at its start has moved on.  "lo" is the member with the lower user id.  *)
(* Definitions commented "Faulty" are mutants, not part of the model.      *)
(***************************************************************************)
EXTENDS Integers, Sequences

CONSTANTS
    MaxPcs,         \* connections, or chains of tasks, a side has in use at once
    SlowFetch,      \* ICE servers and keys are fetched, not at hand
    Leavers,        \* the sides that may leave voice
    MaxJoins,       \* entries into voice, of both together
    MaxMedia,       \* tracks added during the call
    MaxLost,        \* offers and answers that never arrive
    MaxFails,       \* ICE failures between two healthy ends
    MaxEarly        \* timers that run out while an answer is on its way

ASSUME MeshAssumption ==
    /\ MaxPcs \in Nat \ {0} /\ SlowFetch \in BOOLEAN
    /\ Leavers \subseteq {"lo", "hi"}
    /\ {MaxJoins, MaxMedia, MaxLost, MaxFails, MaxEarly} \subseteq Nat

VARIABLES
    m,              \* the two managers
    net,            \* net[u]: what is on its way to u, in order
    spent           \* how much of each bound is used up

vars == <<m, net, spent>>

-----------------------------------------------------------------------------
Sides == {"lo", "hi"}           \* by user id
Other(u) == IF u = "lo" THEN "hi" ELSE "lo"

\* Faulty: nobody yields when offers cross.
Impolite(u) == u \notin Sides
\* The higher id gives way.
Polite(u) == u = "hi"

Pcs == 1 .. MaxPcs
Chains == 0 .. MaxPcs
MAX_STUCK_REBUILDS == 4
MAX_RECONNECT_ATTEMPTS == 3

\* A connection that has not been made, and one that was closed.
Blank == [sig |-> "none", stale |-> FALSE, remote |-> 0, with |-> 0,
          need |-> FALSE, asked |-> FALSE, round |-> 0, conn |-> "new"]
Dead == [Blank EXCEPT !.sig = "closed"]

\* A manager before it ever enters voice.
Idle == [inVoice |-> FALSE, cur |-> 0, inflight |-> 0,
         pcs |-> [p \in Pcs |-> Blank], jobs |-> [c \in Chains |-> <<>>], chain |-> 0,
         watch |-> {}, again |-> [kind |-> "none", pc |-> 0],
         attempts |-> 0, rebuilds |-> 0, calls |-> 0]

IsOpen(pc) == pc.sig \in {"stable", "offering", "offered"}

-----------------------------------------------------------------------------
(* Signalling tasks.  A chain runs one task at a time, the oldest first;   *)
(* forgetting the chain starts another beside it.                          *)

Busy(s) == {c \in Chains : s.jobs[c] # <<>>}
Tasks(s) == UNION {{s.jobs[c][i] : i \in DOMAIN s.jobs[c]} : c \in Chains}

\* A browser never settles a description in flight on a closed connection.
Hung(s, j) == j.at \in {"remote", "local"} /\ s.pcs[j.pc].sig = "closed"

\* Tasks behind a hung one of a chain nobody adds to never run.
Pruned(s) ==
    [s EXCEPT !.jobs = [c \in Chains |->
        IF c # s.chain /\ c \in Busy(s) /\ Hung(s, Head(@[c])) THEN <<>> ELSE @[c]]]

\* A chain without tasks is forgotten, or never was.
Unused(s) == Chains \ Busy(s)
NewChain(s) == CHOOSE c \in Unused(s) : \A d \in Unused(s) : c <= d

Task(kind, pc, from, to, round) ==
    [kind |-> kind, at |-> "queued", pc |-> pc, from |-> from, to |-> to, round |-> round]

Enqueued(s, j) == [s EXCEPT !.jobs[s.chain] = Append(@, j)]
Finished(s, c) == [s EXCEPT !.jobs[c] = Tail(@)]
Moved(s, c, at, p) == [s EXCEPT !.jobs[c][1].at = at, !.jobs[c][1].pc = p]

-----------------------------------------------------------------------------
(* The life of a connection.                                               *)

\* An identifier nothing refers to any more.
Refers(u) ==
    LET s == m[u]
        t == m[Other(u)]
    IN  {s.cur, s.inflight, s.again.pc} \cup s.watch
          \cup {j.pc : j \in Tasks(s)} \cup {j.to : j \in Tasks(s)}
          \cup {j.from : j \in Tasks(t)}
          \cup {t.pcs[p].remote : p \in Pcs} \cup {t.pcs[p].with : p \in Pcs}
          \cup {net[u][i].to : i \in DOMAIN net[u]}
          \cup {net[Other(u)][i].from : i \in DOMAIN net[Other(u)]}
Free(u) == {p \in Pcs : ~IsOpen(m[u].pcs[p]) /\ m[u].pcs[p].sig # "building"}
             \ Refers(u)
Fresh(u) == CHOOSE p \in Free(u) : \A q \in Free(u) : p <= q

\* The bound MaxPcs: what may make a connection, or a chain, waits for its number.
Room(u) == Free(u) # {} /\ Unused(m[u]) # {}

\* A teardown makes every build under way stale.
TornDown(s, keepChain) ==
    Pruned([s EXCEPT
        !.pcs = [p \in Pcs |->
            IF p = s.cur THEN Dead
            ELSE [s.pcs[p] EXCEPT !.stale = @ \/ s.pcs[p].sig = "building"]],
        !.cur = 0, !.inflight = 0, !.watch = {}, !.attempts = 0,
        !.again = [kind |-> "none", pc |-> 0],
        !.chain = IF keepChain THEN @ ELSE NewChain(s)])

\* Leaving voice: the tasks stay scheduled, in chains nobody adds to.
ClosedAll(s) == [TornDown(s, FALSE) EXCEPT !.inVoice = FALSE, !.rebuilds = 0]

\* A caller finds the connection, shares the build under way, or starts one.
Called(s, p) ==
    IF s.cur # 0 \/ s.inflight # 0 THEN s
    ELSE [s EXCEPT !.inflight = p, !.pcs[p] = [Blank EXCEPT !.sig = "building"]]

\* The build's last part: the entry is set whatever it replaces, and a stale
\* build then takes its own entry back.
Built(s, p) ==
    LET bad == s.pcs[p].stale \/ ~s.inVoice
        waits == {c \in Busy(s) : Head(s.jobs[c]).at = "building" /\ Head(s.jobs[c]).pc = p}
    IN  IF bad
        THEN [s EXCEPT !.cur = 0, !.inflight = 0, !.pcs[p] = Dead,
                       !.jobs = [c \in Chains |-> IF c \in waits THEN Tail(@[c]) ELSE @[c]]]
        ELSE [s EXCEPT
                !.cur = p, !.inflight = 0,
                !.pcs[p] = [Blank EXCEPT !.sig = "stable", !.need = TRUE,
                    !.remote = IF waits = {} THEN 0
                               ELSE Head(s.jobs[CHOOSE c \in waits : TRUE]).from],
                !.jobs = [c \in Chains |->
                    IF c \in waits THEN Moved(s, c, "remote", p).jobs[c] ELSE @[c]]]

-----------------------------------------------------------------------------
(* What is sent.  The server relays between two members of one voice room. *)

Offer(p, round) == [type |-> "offer", from |-> p, to |-> 0, round |-> round]
Answer(p, q, round) == [type |-> "answer", from |-> p, to |-> q, round |-> round]
Started == [type |-> "started", from |-> 0, to |-> 0, round |-> 0]
Stopped == [type |-> "stopped", from |-> 0, to |-> 0, round |-> 0]

BothIn == m["lo"].inVoice /\ m["hi"].inVoice
Sent(u, msg) == IF BothIn THEN [net EXCEPT ![Other(u)] = Append(@, msg)] ELSE net

-----------------------------------------------------------------------------
(* The recovery timers.                                                    *)

\* Faulty: no watchdog.
Unarmed(s) == s

\* The watchdog is one timer per user, bound to the connection of now.
Armed(s) == IF s.watch # {} THEN s ELSE [s EXCEPT !.watch = {s.cur}]

\* The ladder of an ICE failure: a restart in place, then rebuilds.
Reconnecting(s) ==
    LET n == s.attempts + 1
    IN  IF n > MAX_RECONNECT_ATTEMPTS THEN [s EXCEPT !.attempts = 0]
        ELSE IF n = 1 /\ s.cur # 0
        THEN [s EXCEPT !.attempts = 1, !.pcs[s.cur].need = TRUE,
                       !.again = [kind |-> "deadline", pc |-> s.cur]]
        ELSE [s EXCEPT !.attempts = n, !.again = [kind |-> "backoff", pc |-> 0]]

-----------------------------------------------------------------------------
(* Nothing is on its way or being worked on: only timers are left.         *)

Building(u) == \E p \in Pcs : m[u].pcs[p].sig = "building"
Asking(u, p) ==
    LET pc == m[u].pcs[p] IN pc.sig = "stable" /\ pc.need /\ ~pc.asked
Running(u) ==
    \E c \in Busy(m[u]) : ~Hung(m[u], Head(m[u].jobs[c]))
Quiet ==
    \A u \in Sides :
        /\ net[u] = <<>> /\ ~Running(u) /\ ~Building(u) /\ m[u].calls = 0
        /\ \A p \in Pcs : ~Asking(u, p)

\* A task begins as soon as its chain is free and, with servers and keys at
\* hand, does not wait for them: all before the next message, timer or event.
HeadAt(u, at) == \E c \in Busy(m[u]) : Head(m[u].jobs[c]).at = at
Due(u) == HeadAt(u, "queued")
Awake(u) == /\ ~Due(u)
            /\ SlowFetch \/ ~(Building(u) \/ HeadAt(u, "keys"))

Spend(what, most) ==
    /\ spent[what] < most
    /\ spent' = [spent EXCEPT ![what] = @ + 1]

\* Seconds pass only when all is quiet, the three of the watchdog before the
\* ten and more of a deadline or an ICE timeout; else a timer counts as early.
Elapsed == IF Quiet THEN UNCHANGED spent ELSE Spend("early", MaxEarly)
LongElapsed(u) == Elapsed /\ (Quiet => m[u].watch = {})

-----------------------------------------------------------------------------
(* Entering and leaving voice, and what the room tells about it.           *)

\* The joiner calls whoever its roster shows; the roster may be out of date.
Join(u) ==
    LET there == m[Other(u)].inVoice
    IN  /\ ~m[u].inVoice /\ Awake(u) /\ Room(u)
        /\ Spend("joins", MaxJoins)
        /\ \E knows \in BOOLEAN :
            /\ knows => there \/ \E i \in DOMAIN net[u] : net[u][i] = Stopped
            /\ LET s == [m[u] EXCEPT !.inVoice = TRUE]
               IN  m' = [m EXCEPT ![u] = IF knows THEN Called(s, Fresh(u)) ELSE s]
        /\ net' = IF there THEN [v \in Sides |-> Append(net[v], Started)] ELSE net

Leave(u) ==
    /\ u \in Leavers /\ m[u].inVoice /\ Awake(u) /\ Room(u)
    /\ m' = [m EXCEPT ![u] = ClosedAll(@)]
    /\ net' = Sent(u, Stopped)
    /\ UNCHANGED spent

\* StreamStarted: the lower id calls, or whoever has no entry, in a moment.
HearStarted(u) ==
    /\ m' = [m EXCEPT ![u].calls =
              IF m[u].inVoice /\ (u = "lo" \/ m[u].cur = 0) THEN @ + 1 ELSE @]

\* StreamStopped: the departed member's connection is closed.
HearStopped(u) ==
    m' = [m EXCEPT ![u] = IF m[u].inVoice THEN TornDown(@, FALSE) ELSE @]

HearDescription(u, msg) ==
    m' = [m EXCEPT ![u] =
              Enqueued(@, Task(msg.type, 0, msg.from, msg.to, msg.round))]

Hear(u) ==
    /\ net[u] # <<>> /\ Awake(u) /\ Room(u)
    /\ net' = [net EXCEPT ![u] = Tail(@)]
    /\ LET msg == Head(net[u])
       IN  CASE msg = Started -> HearStarted(u)
             [] msg = Stopped -> HearStopped(u)
             [] OTHER -> HearDescription(u, msg)
    /\ UNCHANGED spent

\* The call promised half a second ago; nothing cancels it.
CallUser(u) ==
    /\ m[u].calls > 0 /\ Awake(u) /\ Room(u)
    /\ m' = [m EXCEPT ![u] = Called([m[u] EXCEPT !.calls = @ - 1], Fresh(u))]
    /\ UNCHANGED <<net, spent>>

FinishBuild(u) ==
    \E p \in Pcs :
        /\ m[u].pcs[p].sig = "building" /\ ~Due(u)
        /\ m' = [m EXCEPT ![u] = Built(@, p)]
        /\ UNCHANGED <<net, spent>>

-----------------------------------------------------------------------------
(* The signalling tasks, await by await.                                   *)

\* Faulty: the offer does not wait for the chain.
NegotiationUnqueued(u) ==
    \E p \in Pcs :
        LET s == m[u]
        IN  /\ Asking(u, p) /\ Awake(u) /\ Room(u)
            /\ m' = [m EXCEPT ![u].jobs[NewChain(s)] = <<Task("propose", p, 0, 0, 0)>>,
                             ![u].pcs[p].asked = TRUE]
            /\ UNCHANGED <<net, spent>>

\* The browser asks for a negotiation once, while the connection is stable.
NegotiationNeeded(u) ==
    \E p \in Pcs :
        /\ Asking(u, p) /\ Awake(u)
        /\ m' = [m EXCEPT ![u] =
                    [Enqueued(@, Task("propose", p, 0, 0, 0))
                        EXCEPT !.pcs[p].asked = TRUE]]
        /\ UNCHANGED <<net, spent>>

\* The task may go on: it is its chain's oldest, and stands where it says.
At(u, c, at) ==
    /\ Head(m[u].jobs[c]).at = at
    /\ Awake(u) \/ at = "queued" \/ (at = "keys" /\ ~Due(u))

\* makeOffer: only on the connection that stands.
BeginPropose(u, c) ==
    LET s == m[u]
        j == Head(s.jobs[c])
    IN  /\ At(u, c, "queued") /\ j.kind = "propose"
        /\ m' = [m EXCEPT ![u] = IF s.cur = j.pc THEN Moved(s, c, "keys", j.pc)
                                 ELSE Finished(s, c)]
        /\ UNCHANGED <<net, spent>>

\* Faulty: an answer is applied to a connection that is stable, too.
BeginAnswerStable(u, c) ==
    LET s == m[u]
        j == Head(s.jobs[c])
    IN  /\ At(u, c, "queued") /\ j.kind = "answer"
        /\ m' = [m EXCEPT ![u] =
                  IF ~s.inVoice \/ s.cur = 0 \/ j.to # s.cur THEN Finished(s, c)
                  ELSE [Moved(s, c, "remote", s.cur)
                            EXCEPT !.pcs[s.cur].remote = j.from]]
        /\ UNCHANGED <<net, spent>>

\* An answer belongs to the connection that asked, while it still waits.
BeginAnswer(u, c) ==
    LET s == m[u]
        j == Head(s.jobs[c])
        drop == \/ ~s.inVoice \/ s.cur = 0
                \/ j.to # s.cur
                \/ s.pcs[s.cur].sig = "stable"
    IN  /\ At(u, c, "queued") /\ j.kind = "answer"
        /\ m' = [m EXCEPT ![u] =
                  IF drop THEN Finished(s, c)
                  ELSE [Moved(s, c, "remote", s.cur)
                            EXCEPT !.pcs[s.cur].remote = j.from]]
        /\ UNCHANGED <<net, spent>>

\* A side is making an offer, or is applying an answer.
Doing(s, kind, at, p) ==
    \E c \in Busy(s) :
        Head(s.jobs[c]).kind = kind /\ Head(s.jobs[c]).at = at /\ Head(s.jobs[c]).pc = p
MakingOffer(s, p) == Doing(s, "propose", "local", p)
ApplyingAnswer(s, p) == Doing(s, "answer", "remote", p)
ReadyForOffer(s, p) ==
    ~MakingOffer(s, p) /\ (s.pcs[p].sig = "stable" \/ ApplyingAnswer(s, p))

\* Faulty: the offer's connection is not compared with the one before.
BeginOfferAnyone(u, c) ==
    LET s == m[u]
        j == Head(s.jobs[c])
        built == Called(s, Fresh(u))
        heard == [s EXCEPT !.pcs[s.cur].remote = j.from]
    IN  /\ At(u, c, "queued") /\ j.kind = "offer" /\ Room(u)
        /\ m' = [m EXCEPT ![u] =
                  IF ~s.inVoice THEN Finished(s, c)
                  ELSE IF s.cur = 0 THEN Moved(built, c, "building", built.inflight)
                  ELSE IF ~Polite(u) /\ ~ReadyForOffer(s, s.cur)
                  THEN Finished(heard, c)
                  ELSE Moved(heard, c, "remote", s.cur)]
        /\ UNCHANGED <<net, spent>>

\* An offer from another connection than before replaces ours; without one,
\* it makes one; else the impolite side ignores it when offers cross.
BeginOffer(u, c) ==
    LET s == m[u]
        j == Head(s.jobs[c])
        old == s.cur # 0 /\ s.pcs[s.cur].remote \notin {0, j.from}
        built == Called(IF old THEN TornDown(s, TRUE) ELSE s, Fresh(u))
        heard == [s EXCEPT !.pcs[s.cur].remote = j.from]
    IN  /\ At(u, c, "queued") /\ j.kind = "offer" /\ Room(u)
        /\ m' = [m EXCEPT ![u] =
                  IF ~s.inVoice THEN Finished(s, c)
                  ELSE IF old \/ s.cur = 0
                  THEN Moved(built, c, "building", built.inflight)
                  ELSE IF ~Polite(u) /\ ~ReadyForOffer(s, s.cur)
                  THEN Finished(heard, c)
                  ELSE Moved(heard, c, "remote", s.cur)]
        /\ UNCHANGED <<net, spent>>

\* setRemoteDescription settles.  The polite side's own offer is rolled back.
ApplyOffer(u, c) ==
    LET s == m[u]
        j == Head(s.jobs[c])
        pc == s.pcs[j.pc]
    IN  /\ At(u, c, "remote") /\ j.kind = "offer" /\ IsOpen(pc)
        /\ m' = [m EXCEPT ![u] =
                  [Moved(s, c, "keys", j.pc) EXCEPT
                      !.rebuilds = 0,
                      !.pcs[j.pc] = [pc EXCEPT
                          !.sig = "offered", !.with = j.from, !.asked = FALSE,
                          !.need = pc.need \/ pc.sig = "offering"]]]
        /\ UNCHANGED <<net, spent>>

\* A completed exchange may bring a failed transport back.
Revived(pc) == IF pc.conn = "failed" THEN {"failed", "new"} ELSE {pc.conn}

ApplyAnswer(u, c) ==
    LET s == m[u]
        j == Head(s.jobs[c])
        pc == s.pcs[j.pc]
        t == Finished(s, c)
    IN  /\ At(u, c, "remote") /\ j.kind = "answer" /\ IsOpen(pc)
        /\ \E conn \in Revived(pc) :
            m' = [m EXCEPT ![u] =
                  IF pc.sig # "offering" THEN Armed(t)
                  ELSE [t EXCEPT !.rebuilds = 0,
                            !.pcs[j.pc] = [pc EXCEPT
                                !.sig = "stable", !.with = j.from,
                                !.asked = FALSE, !.conn = conn]]]
        /\ UNCHANGED <<net, spent>>

\* The keys are at hand: an offer is made only from a stable connection, and
\* a closed one refuses to answer.
KeysReady(u, c) ==
    LET s == m[u]
        j == Head(s.jobs[c])
        may == IF j.kind = "propose" THEN s.pcs[j.pc].sig = "stable"
               ELSE IsOpen(s.pcs[j.pc])
    IN  /\ At(u, c, "keys")
        /\ m' = [m EXCEPT ![u] = IF may THEN Moved(s, c, "local", j.pc)
                                 ELSE Finished(s, c)]
        /\ UNCHANGED <<net, spent>>

\* setLocalDescription settles: what it makes depends on the state it finds.
SetLocal(u, c) ==
    LET s == m[u]
        j == Head(s.jobs[c])
        p == j.pc
        pc == s.pcs[p]
        t == Finished(s, c)
        offers == pc.sig # "offered"
        offered == [t EXCEPT !.pcs[p] = [pc EXCEPT
                        !.sig = "offering", !.need = FALSE, !.asked = FALSE,
                        !.round = pc.round + 1]]
    IN  /\ At(u, c, "local") /\ IsOpen(pc)
        /\ \/ /\ offers
              /\ m' = [m EXCEPT ![u] = IF j.kind = "offer" \/ s.cur = p
                                      THEN Armed(offered) ELSE offered]
              /\ net' = IF j.kind = "propose" /\ s.cur = p
                        THEN Sent(u, Offer(p, pc.round + 1)) ELSE net
           \/ /\ ~offers
              /\ \E need \in {FALSE, pc.need}, conn \in Revived(pc) :
                    m' = [m EXCEPT ![u] = [t EXCEPT !.pcs[p] = [pc EXCEPT
                              !.sig = "stable", !.asked = FALSE, !.need = need,
                              !.conn = conn]]]
              /\ net' = IF j.kind = "offer"
                        THEN Sent(u, Answer(p, j.from, j.round)) ELSE net
        /\ UNCHANGED spent

-----------------------------------------------------------------------------
(* The network between the two ends, and the timers.                       *)

\* Each of the two has applied a description of the other.
Paired(u, p) ==
    LET q == m[u].pcs[p].with
    IN  /\ q # 0 /\ IsOpen(m[u].pcs[p])
        /\ IsOpen(m[Other(u)].pcs[q]) /\ m[Other(u)].pcs[q].with = p

\* 'connected' clears the ladder and cancels what it had planned.
Connect(u) ==
    \E p \in Pcs :
        /\ Paired(u, p) /\ Awake(u)
        /\ m[u].pcs[p].sig = "stable" /\ m[u].pcs[p].conn = "new"
        /\ m' = [m EXCEPT ![u] =
                  [@ EXCEPT !.pcs[p].conn = "connected", !.attempts = 0,
                            !.again = [kind |-> "none", pc |-> 0], !.rebuilds = 0]]
        /\ UNCHANGED <<net, spent>>

\* 'failed': the far end is gone or is another, in time; or by misfortune.
Fail(u) ==
    \E p \in Pcs :
        LET pc == m[u].pcs[p]
        IN  /\ IsOpen(pc) /\ pc.with # 0 /\ pc.conn # "failed" /\ Awake(u)
            /\ IF Paired(u, p) THEN Spend("fails", MaxFails) ELSE LongElapsed(u)
            /\ m' = [m EXCEPT ![u] =
                      Reconnecting([@ EXCEPT !.pcs[p].conn = "failed"])]
            /\ UNCHANGED net

\* Faulty: the watchdog does not look whether the answer came.
StuckFiresAnyway(u) ==
    LET s == [m[u] EXCEPT !.watch = {}]
        n == s.rebuilds + 1
    IN  /\ m[u].watch # {} /\ Awake(u) /\ Elapsed /\ Room(u)
        /\ m' = [m EXCEPT ![u] =
                  IF m[u].watch # {s.cur} \/ s.cur = 0 \/ ~s.inVoice THEN s
                  ELSE IF n > MAX_STUCK_REBUILDS
                  THEN [TornDown(s, FALSE) EXCEPT !.rebuilds = 0]
                  ELSE Called([TornDown(s, FALSE) EXCEPT !.rebuilds = n], Fresh(u))]
        /\ UNCHANGED net

\* Three seconds after an offer of ours: still no answer, so start over.
StuckFires(u) ==
    LET s == [m[u] EXCEPT !.watch = {}]
        stuck == /\ m[u].watch = {s.cur} /\ s.cur # 0 /\ s.inVoice
                 /\ s.pcs[s.cur].sig # "stable"
        n == s.rebuilds + 1
    IN  /\ m[u].watch # {} /\ Awake(u) /\ Elapsed /\ Room(u)
        /\ m' = [m EXCEPT ![u] =
                  IF ~stuck THEN s
                  ELSE IF n > MAX_STUCK_REBUILDS
                  THEN [TornDown(s, FALSE) EXCEPT !.rebuilds = 0]
                  ELSE Called([TornDown(s, FALSE) EXCEPT !.rebuilds = n], Fresh(u))]
        /\ UNCHANGED net

\* Ten seconds after the restart: still failed, so climb the ladder.
DeadlineFires(u) ==
    LET s == [m[u] EXCEPT !.again = [kind |-> "none", pc |-> 0]]
        p == m[u].again.pc
    IN  /\ m[u].again.kind = "deadline" /\ Awake(u) /\ LongElapsed(u)
        /\ m' = [m EXCEPT ![u] =
                  IF s.inVoice /\ s.cur = p /\ s.pcs[p].conn = "failed"
                  THEN Reconnecting(s) ELSE s]
        /\ UNCHANGED net

\* Faulty: the failed connection is dropped from the map, not closed.
BackoffLeavesOpen(u) ==
    LET s == [m[u] EXCEPT !.again = [kind |-> "none", pc |-> 0]]
        well == s.cur # 0 /\ s.pcs[s.cur].conn = "connected"
    IN  /\ m[u].again.kind = "backoff" /\ Awake(u) /\ Elapsed /\ Room(u)
        /\ m' = [m EXCEPT ![u] =
                  IF ~s.inVoice \/ well THEN s
                  ELSE Called([s EXCEPT !.cur = 0], Fresh(u))]
        /\ UNCHANGED net

\* The rebuild of the ladder closes the connection itself: chain, watchdog
\* and generation stay as they are.
BackoffFires(u) ==
    LET s == [m[u] EXCEPT !.again = [kind |-> "none", pc |-> 0]]
        closed == IF s.cur = 0 THEN s
                  ELSE Pruned([s EXCEPT !.pcs[s.cur] = Dead, !.cur = 0])
        well == s.cur # 0 /\ s.pcs[s.cur].conn = "connected"
    IN  /\ m[u].again.kind = "backoff" /\ Awake(u) /\ Elapsed /\ Room(u)
        /\ m' = [m EXCEPT ![u] =
                  IF ~s.inVoice \/ well THEN s ELSE Called(closed, Fresh(u))]
        /\ UNCHANGED net

\* A camera or a share is added to the connection.
AddMedia(u) ==
    /\ m[u].cur # 0 /\ Awake(u) /\ Spend("media", MaxMedia)
    /\ m' = [m EXCEPT ![u].pcs[m[u].cur].need = TRUE]
    /\ UNCHANGED net

\* An offer or an answer is lost.
Lose(u) ==
    /\ net[u] # <<>> /\ Head(net[u]).type \in {"offer", "answer"}
    /\ Spend("lost", MaxLost)
    /\ net' = [net EXCEPT ![u] = Tail(@)]
    /\ UNCHANGED m

-----------------------------------------------------------------------------
Init ==
    /\ m = [u \in Sides |-> Idle]
    /\ net = [u \in Sides |-> <<>>]
    /\ spent = [joins |-> 0, media |-> 0, lost |-> 0,
                fails |-> 0, early |-> 0]

Signal(u) ==
    \E c \in Busy(m[u]) :
        \/ BeginPropose(u, c) \/ BeginAnswer(u, c) \/ BeginOffer(u, c)
        \/ ApplyOffer(u, c) \/ ApplyAnswer(u, c)
        \/ KeysReady(u, c) \/ SetLocal(u, c)

\* What goes on by itself, and the timers.
Works(u) ==
    Hear(u) \/ CallUser(u) \/ FinishBuild(u) \/ NegotiationNeeded(u) \/ Signal(u)
Timers(u) == StuckFires(u) \/ DeadlineFires(u) \/ BackoffFires(u)

Next ==
    \E u \in Sides :
        \/ Join(u) \/ Leave(u) \/ AddMedia(u) \/ Lose(u)
        \/ Works(u) \/ Connect(u) \/ Fail(u) \/ Timers(u)

Fairness ==
    \A u \in Sides :
        /\ WF_vars(Works(u)) /\ WF_vars(Connect(u))
        /\ WF_vars(Quiet /\ Timers(u))
        /\ WF_vars(Quiet /\ Fail(u) /\ spent' = spent)

Spec == Init /\ [][Next]_vars /\ Fairness

-----------------------------------------------------------------------------
(* Properties.                                                             *)

\* The task works on the connection.
WorksOn(s, c, p) == Head(s.jobs[c]).at \in {"remote", "keys", "local"} /\ Head(s.jobs[c]).pc = p

\* A side in voice has one connection to the other, the one in its map, and out
\* of voice it has none: nothing is left open that nobody can close, and nothing
\* closed is kept (peersInFlight, peerGeneration and voiceEpoch are there for
\* this).  And two signalling tasks never work on it at once, whatever teardowns
\* and rebuilds did to the chains (enqueueSignalingTask).
OneConnection ==
    \A u \in Sides :
        /\ m[u].cur # 0 => IsOpen(m[u].pcs[m[u].cur])
        /\ \A p \in Pcs : IsOpen(m[u].pcs[p]) =>
            /\ p = m[u].cur /\ m[u].inVoice
            /\ \A c, d \in Busy(m[u]) : WorksOn(m[u], c, p) /\ WorksOn(m[u], d, p) => c = d

\* No description meets a connection that would refuse it.  An offer: one negotiated
\* with another connection of the peer (the "m-lines order" error); connId sees every
\* rebuild, so rebuildAndAnswer is only for clients without it.  An answer: one that
\* does not wait for it, which would throw and rebuild a healthy call.
SameHistory ==
    \A u \in Sides : \A c \in Busy(m[u]) :
        LET j == Head(m[u].jobs[c])
        IN  j.at = "remote" /\ ~Hung(m[u], j) =>
              /\ j.kind = "offer" => m[u].pcs[j.pc].with \in {0, j.from}
              /\ j.kind = "answer" => m[u].pcs[j.pc].sig = "offering"

\* Each side has the other's present connection, negotiated and connected.
Linked == \A u \in Sides :
    /\ m[u].cur # 0 /\ Paired(u, m[u].cur)
    /\ m[u].pcs[m[u].cur].with = m[Other(u)].cur
    /\ m[u].pcs[m[u].cur].conn = "connected"
    /\ m[u].pcs[m[u].cur].sig = "stable"

\* Two members who stay in voice end up connected and stay so: no deadlock of
\* crossed offers, no endless rebuilding, no call left deaf, whatever rejoins,
\* lost descriptions and failures there were within the bounds.
Converges == <>[](BothIn => Linked)

\* A call that is up is not replaced while both stay in voice: late timers, offers,
\* answers, and calls of the join find nothing to do; a failure must be noticed first.
CallKept ==
    [][Linked /\ BothIn /\ BothIn' => \A u \in Sides : m'[u].cur = m[u].cur]_vars
=============================================================================
