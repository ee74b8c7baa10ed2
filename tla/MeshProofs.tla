----------------------------- MODULE MeshProofs -----------------------------
(* Proofs about Mesh, for any number of connections, entries, losses,        *)
(* failures, and timers.                                                     *)
EXTENDS Mesh, WellFoundedInduction, TLAPS

-----------------------------------------------------------------------------
(* The shapes.                                                               *)

Numbers == 0 .. MaxPcs
PcRecords == [sig : {"none", "building", "stable", "offering", "offered", "closed"},
              stale : BOOLEAN, remote : Numbers, with : Numbers, need : BOOLEAN,
              asked : BOOLEAN, round : Nat, conn : {"new", "connected", "failed"}]
TaskRecords ==
    {j \in [kind : {"propose", "offer", "answer"},
            at : {"queued", "building", "remote", "keys", "local"},
            pc : Numbers, from : Numbers, to : Numbers, round : Nat] :
     j.kind = "propose" => j.pc # 0}
Managers == [inVoice : BOOLEAN, cur : Numbers, inflight : Numbers, pcs : [Pcs -> PcRecords],
             jobs : [Chains -> Seq(TaskRecords)], chain : Chains, watch : SUBSET Numbers,
             again : [kind : {"none", "deadline", "backoff"}, pc : Numbers],
             attempts : Nat, rebuilds : Nat, calls : Nat]
Descriptions == [type : {"offer", "answer"}, from : Pcs, to : Numbers, round : Nat]
Counters == [joins : Nat, media : Nat, lost : Nat, fails : Nat, early : Nat]

TypeOK ==
    /\ m \in [Sides -> Managers]
    /\ net \in [Sides -> Seq(Descriptions \cup {Started, Stopped})]
    /\ spent \in Counters

-----------------------------------------------------------------------------
(* The invariant, first of one side by itself.                               *)

\* The tasks of the chain that is added to, the first of which may be at work.
Now(s) == s.jobs[s.chain]
\* There is no other chain, and only its first task is at work.
ChainOK(s) ==
    /\ \A c \in Busy(s) : c = s.chain
    /\ \A i \in DOMAIN Now(s) : i # 1 => Now(s)[i].at = "queued"

\* What the task at work works on.
TaskOK(s, j) ==
    /\ j.at = "building" => j.kind = "offer" /\ j.pc = s.inflight /\ j.pc # 0
    /\ j.at = "remote" => j.kind \in {"offer", "answer"}
    /\ j.at \in {"keys", "local"} => j.kind \in {"offer", "propose"}
    /\ j.at \in {"remote", "keys", "local"} =>
         j.pc # 0 /\ (j.pc = s.cur \/ s.pcs[j.pc].sig = "closed")
HeadOK(s) == Now(s) # <<>> => TaskOK(s, Head(Now(s)))

\* One connection, or one build.
PcsOK(s) ==
    /\ s.cur # 0 => s.inVoice /\ s.inflight = 0 /\ IsOpen(s.pcs[s.cur])
    /\ \A p \in Pcs : IsOpen(s.pcs[p]) => p = s.cur
    /\ \A p \in Pcs : s.pcs[p].sig = "building" <=> p = s.inflight

\* The first task works on the connection that stands.
AtWork(s, kind, at) ==
    /\ Now(s) # <<>> /\ Head(Now(s)).kind = kind /\ Head(Now(s)).at = at
    /\ Head(Now(s)).pc = s.cur

\* What the connection knows of the peer's: the one that the description at work came from.
PeerOK(s) ==
    s.cur # 0 =>
        LET pc == s.pcs[s.cur]
            j == Head(Now(s))
        IN  /\ pc.sig = "offered" => AtWork(s, "offer", "keys") \/ AtWork(s, "offer", "local")
            /\ AtWork(s, "offer", "remote") \/ AtWork(s, "answer", "remote") => pc.remote = j.from
            /\ AtWork(s, "answer", "remote") => pc.sig = "offering"
            /\ pc.with \in {0, pc.remote} \/ AtWork(s, "answer", "remote")

SideOK(s) == ChainOK(s) /\ HeadOK(s) /\ PcsOK(s) /\ PeerOK(s)

\* And then of both.

\* What a side knows of the other's connection c, and what it is yet to hear that is older.
KnowsOf(s, c) ==
    s.cur # 0 /\ c \in {s.pcs[s.cur].remote, s.pcs[s.cur].with}
Older(j, c) == j.kind # "propose" /\ j.from # c
OlderNews(msg, c) == msg = Stopped \/ (msg.type \in {"offer", "answer"} /\ msg.from # c)

\* A number that is being built has not been heard of, by a manager or in its messages.
Unheard(s, n, c) ==
    /\ \A p \in Pcs : s.pcs[p].remote # c /\ s.pcs[p].with # c
    /\ \A i \in DOMAIN Now(s) : Now(s)[i].from # c
    /\ \A i \in DOMAIN n : n[i].from # c

\* Once a side has heard of the present connection, it hears of no older one.
InOrder(s, n, c) ==
    /\ KnowsOf(s, c) =>
         /\ \A i \in DOMAIN Now(s) : ~Older(Now(s)[i], c)
         /\ \A i \in DOMAIN n : ~OlderNews(n[i], c)
    /\ \A i \in DOMAIN Now(s) : Now(s)[i].from = c =>
         /\ \A k \in DOMAIN Now(s) : i < k => ~Older(Now(s)[k], c)
         /\ \A k \in DOMAIN n : ~OlderNews(n[k], c)
    /\ \A i, k \in DOMAIN n : n[i].from = c /\ i < k => ~OlderNews(n[k], c)

\* What u hears of v.
Heard(u, v) ==
    /\ m[v].inflight # 0 => Unheard(m[u], net[u], m[v].inflight)
    /\ m[v].cur # 0 => InOrder(m[u], net[u], m[v].cur)
OrderOK == \A u \in Sides : Heard(u, Other(u))

EachOK == \A u \in Sides : SideOK(m[u])
IInv == TypeOK /\ EachOK /\ OrderOK
-----------------------------------------------------------------------------
(* The numbers of connections and chains.                                    *)

LEMMA Least ==
    ASSUME NEW T \in SUBSET Nat, T # {}
    PROVE  \E x \in T : \A y \in T : x <= y
<1> DEFINE Less == {p \in Nat \X Nat : p[1] < p[2]}
<1>1. IsWellFoundedOn(Less, Nat)
  BY NatLessThanWellFounded DEF OpToRel
<1>2. PICK x \in T : \A y \in T : ~(<<y, x>> \in Less)
  <2> HIDE DEF Less
  <2> QED BY <1>1, WFMin
<1>3. ASSUME NEW y \in T PROVE x <= y
  <2>1. x \in Nat /\ y \in Nat
    OBVIOUS
  <2>2. y < x => <<y, x>> \in Less
    BY <2>1
  <2> HIDE DEF Less
  <2> QED BY <1>2, <2>1, <2>2
<1> QED BY <1>3

LEMMA Bounds == MaxPcs \in Nat /\ MaxPcs # 0 /\ Pcs \subseteq Nat /\ Chains \subseteq Nat
                /\ Pcs \subseteq Numbers /\ Numbers \subseteq Nat /\ 0 \in Numbers /\ 0 \notin Pcs
  BY MeshAssumption DEF Pcs, Chains, Numbers

LEMMA Numbered ==
    ASSUME NEW p \in Numbers, p # 0
    PROVE  p \in Pcs
  BY MeshAssumption DEF Numbers, Pcs

LEMMA TaskFields ==
    ASSUME NEW j \in TaskRecords
    PROVE  /\ j.kind \in {"propose", "offer", "answer"}
           /\ j.at \in {"queued", "building", "remote", "keys", "local"}
           /\ j.pc \in Numbers /\ j.from \in Numbers /\ j.to \in Numbers /\ j.round \in Nat
  BY DEF TaskRecords

\* The new connection is not one that stands, nor one that anything refers to.
LEMMA FreshIsFree ==
    ASSUME NEW u \in Sides, Room(u)
    PROVE  Fresh(u) \in Free(u)
<1>1. Free(u) \in SUBSET Nat /\ Free(u) # {}
  BY Bounds DEF Free, Room
<1>2. \E p \in Free(u) : \A q \in Free(u) : p <= q
  BY <1>1, Least
<1> QED BY <1>2 DEF Fresh

LEMMA NewChainIsUnused ==
    ASSUME NEW s, Unused(s) # {}
    PROVE  NewChain(s) \in Chains /\ s.jobs[NewChain(s)] = <<>>
<1>1. Unused(s) \in SUBSET Nat
  BY Bounds DEF Unused
<1>2. \E c \in Unused(s) : \A d \in Unused(s) : c <= d
  BY <1>1, Least
<1>3. NewChain(s) \in Unused(s)
  BY <1>2 DEF NewChain
<1> QED BY <1>3 DEF Unused, Busy

-----------------------------------------------------------------------------
(* What is built from a manager.                                             *)

\* A connection that may be made.
Spare(s, p) ==
    /\ p \in Pcs /\ ~IsOpen(s.pcs[p]) /\ s.pcs[p].sig # "building"
    /\ p # s.cur /\ p # s.inflight
    /\ \A i \in DOMAIN Now(s) : Now(s)[i].pc # p

LEMMA FreshIsSpare ==
    ASSUME NEW u \in Sides, Room(u), m \in [Sides -> Managers]
    PROVE  Spare(m[u], Fresh(u))
<1>1. Fresh(u) \in Free(u)
  BY FreshIsFree
<1>2. m[u].chain \in Chains
  BY DEF Managers
<1>3. \A i \in DOMAIN Now(m[u]) : Now(m[u])[i] \in Tasks(m[u])
  BY <1>2 DEF Now, Tasks
<1> QED BY <1>1, <1>3 DEF Free, Refers, Spare

LEMMA NowType ==
    ASSUME NEW s \in Managers
    PROVE  /\ Now(s) \in Seq(TaskRecords)
           /\ Now(s) # <<>> => /\ Head(Now(s)) = Now(s)[1] /\ Head(Now(s)) \in TaskRecords
                               /\ 1 \in DOMAIN Now(s)
  BY DEF Now, Managers

LEMMA BlankType == Blank \in PcRecords /\ Dead \in PcRecords
  BY Bounds DEF Blank, Dead, PcRecords

LEMMA CalledType ==
    ASSUME NEW s \in Managers, NEW p \in Pcs
    PROVE  Called(s, p) \in Managers
  BY BlankType, Bounds, ZenonT(60) DEF Called, Managers, PcRecords, Blank

LEMMA CalledOK ==
    ASSUME NEW s \in Managers, SideOK(s), NEW p, Spare(s, p)
    PROVE  /\ SideOK(Called(s, p))
           /\ Called(s, p).jobs = s.jobs /\ Called(s, p).chain = s.chain
           /\ Called(s, p).cur = s.cur /\ Called(s, p).inVoice = s.inVoice
           /\ Called(s, p).inflight \in {s.inflight, p}
           /\ s.cur = 0 => Called(s, p).inflight # 0
           /\ \A q \in Pcs : Called(s, p).pcs[q] = s.pcs[q]
                             \/ (q = p /\ Called(s, p).pcs[q] = [Blank EXCEPT !.sig = "building"])
<1> DEFINE t == Called(s, p)
<1>1. CASE s.cur # 0 \/ s.inflight # 0
  <2>1. t = s
    BY <1>1 DEF Called
  <2> QED BY <1>1, <2>1
<1>2. CASE s.cur = 0 /\ s.inflight = 0
  <2>1. t = [s EXCEPT !.inflight = p, !.pcs[p] = [Blank EXCEPT !.sig = "building"]]
    BY <1>2 DEF Called
  <2>2. /\ t.jobs = s.jobs /\ t.chain = s.chain /\ t.cur = 0 /\ t.inflight = p
        /\ t.inVoice = s.inVoice /\ p # 0
        /\ \A q \in Pcs : q # p => t.pcs[q] = s.pcs[q]
        /\ t.pcs[p].sig = "building"
        /\ t.pcs[p] = [Blank EXCEPT !.sig = "building"]
    BY <1>2, <2>1, Bounds DEF Managers, Blank, Spare
  <2> HIDE DEF t
  <2>3. Now(t) = Now(s) /\ Busy(t) = Busy(s)
    BY <2>2 DEF Now, Busy
  <2>4. ChainOK(t)
    BY <2>2, <2>3 DEF SideOK, ChainOK
  <2>5. HeadOK(t)
    <3>1. SUFFICES ASSUME Now(s) # <<>> PROVE TaskOK(t, Head(Now(s)))
      BY <2>3 DEF HeadOK
    <3>2. TaskOK(s, Head(Now(s))) /\ Head(Now(s)).pc # p /\ Head(Now(s)).pc \in Numbers
      BY <3>1, NowType DEF SideOK, HeadOK, Spare, TaskRecords
    <3>3. Head(Now(s)).pc # 0 => Head(Now(s)).pc \in Pcs
      BY <3>2, Bounds DEF Numbers, Pcs
    <3> QED BY <1>2, <2>2, <3>2, <3>3 DEF TaskOK
  <2>6. PcsOK(t)
    BY <1>2, <2>2, Bounds, ZenonT(60) DEF SideOK, PcsOK, IsOpen, Spare
  <2>7. PeerOK(t)
    BY <2>2 DEF PeerOK
  <2> QED BY <1>2, <2>2, <2>4, <2>5, <2>6, <2>7 DEF SideOK, t
<1> QED BY <1>1, <1>2

\* What a step leaves when it tears a connection down while its task list is at rest.
AtRest(s) == \A c \in Busy(s) : Head(s.jobs[c]).at \notin {"queued", "building", "keys"}

LEMMA TornDownShape ==
    ASSUME NEW s \in Managers, NEW keep \in BOOLEAN, keep \/ Unused(s) # {}
    PROVE  LET t == TornDown(s, keep)
           IN  /\ t \in Managers
               /\ t.cur = 0 /\ t.inflight = 0 /\ t.inVoice = s.inVoice /\ t.calls = s.calls
               /\ t.chain = IF keep THEN s.chain ELSE NewChain(s)
               /\ \A p \in Pcs : p = s.cur => t.pcs[p] = Dead
               /\ \A p \in Pcs : p # s.cur => t.pcs[p].sig = s.pcs[p].sig
                    /\ t.pcs[p].remote = s.pcs[p].remote /\ t.pcs[p].with = s.pcs[p].with
               /\ \A c \in Chains : t.jobs[c] =
                    IF c # t.chain /\ s.jobs[c] # <<>> /\ Hung(t, Head(s.jobs[c])) THEN <<>>
                    ELSE s.jobs[c]
<1> DEFINE n == IF keep THEN s.chain ELSE NewChain(s)
           pcs == [p \in Pcs |->
                    IF p = s.cur THEN Dead
                    ELSE [s.pcs[p] EXCEPT !.stale = @ \/ s.pcs[p].sig = "building"]]
           r == [s EXCEPT !.pcs = pcs, !.cur = 0, !.inflight = 0, !.watch = {}, !.attempts = 0,
                          !.again = [kind |-> "none", pc |-> 0], !.chain = n]
           t == TornDown(s, keep)
<1>1. n \in Chains
  BY NewChainIsUnused DEF Managers
<1>2. pcs \in [Pcs -> PcRecords]
  <2>1. ASSUME NEW p \in Pcs PROVE pcs[p] \in PcRecords
    <3>1. s.pcs[p] \in PcRecords
      BY DEF Managers
    <3>2. (s.pcs[p].stale \/ s.pcs[p].sig = "building") \in BOOLEAN
      OBVIOUS
    <3>3. \A b \in BOOLEAN : [s.pcs[p] EXCEPT !.stale = b] \in PcRecords
      BY <3>1 DEF PcRecords
    <3>4. [s.pcs[p] EXCEPT !.stale = @ \/ s.pcs[p].sig = "building"] \in PcRecords
      BY <3>1, <3>2, <3>3
    <3> QED BY <3>4, BlankType
  <2> QED BY <2>1
<1>3. r \in Managers /\ r.jobs = s.jobs /\ r.chain = n /\ r.pcs = pcs /\ r.cur = 0
      /\ r.inflight = 0 /\ r.inVoice = s.inVoice /\ r.calls = s.calls
  <2> HIDE DEF n, pcs
  <2> QED BY <1>1, <1>2, Bounds DEF Managers
<1>4. t = Pruned(r)
  <2>1. [s EXCEPT !.pcs = pcs, !.cur = 0, !.inflight = 0, !.watch = {}, !.attempts = 0,
                  !.again = [kind |-> "none", pc |-> 0],
                  !.chain = IF keep THEN @ ELSE NewChain(s)] = r
    OBVIOUS
  <2> QED BY <2>1 DEF TornDown
<1> HIDE DEF r, t
<1>5. t = [r EXCEPT !.jobs = [c \in Chains |->
            IF c # r.chain /\ c \in Busy(r) /\ Hung(r, Head(r.jobs[c])) THEN <<>> ELSE r.jobs[c]]]
  BY <1>3, <1>4 DEF Pruned, Managers
<1>6. t \in Managers /\ t.pcs = pcs /\ t.cur = 0 /\ t.inflight = 0 /\ t.inVoice = s.inVoice
      /\ t.calls = s.calls /\ t.chain = n
  <2> HIDE DEF n, pcs
  <2> DEFINE left == [c \in Chains |->
                IF c # r.chain /\ c \in Busy(r) /\ Hung(r, Head(r.jobs[c])) THEN <<>> ELSE r.jobs[c]]
  <2>1. left \in [Chains -> Seq(TaskRecords)]
    BY <1>3 DEF Managers
  <2> HIDE DEF left
  <2>2. t = [r EXCEPT !.jobs = left]
    BY <1>5 DEF left
  <2> QED BY <1>3, <2>1, <2>2 DEF Managers
<1>7. \A j : Hung(r, j) = Hung(t, j)
  BY <1>3, <1>6 DEF Hung
<1>8. \A c \in Chains : t.jobs[c] =
        IF c # t.chain /\ s.jobs[c] # <<>> /\ Hung(t, Head(s.jobs[c])) THEN <<>> ELSE s.jobs[c]
  <2> HIDE DEF n, pcs
  <2>1. \A c \in Chains : t.jobs[c] =
          IF c # r.chain /\ c \in Busy(r) /\ Hung(r, Head(r.jobs[c])) THEN <<>> ELSE r.jobs[c]
    BY <1>3, <1>5 DEF Managers
  <2> QED BY <1>3, <1>6, <1>7, <2>1 DEF Busy
<1>9. \A p \in Pcs : p # s.cur =>
        pcs[p].sig = s.pcs[p].sig /\ pcs[p].remote = s.pcs[p].remote /\ pcs[p].with = s.pcs[p].with
  BY DEF Managers, PcRecords
<1>10. \A p \in Pcs : p = s.cur => pcs[p] = Dead
  OBVIOUS
<1> HIDE DEF pcs
<1> QED BY <1>6, <1>8, <1>9, <1>10 DEF t, n

\* Without tasks and without a connection or a build.
Clear(s) ==
    /\ s.cur = 0 /\ s.inflight = 0 /\ Now(s) = <<>> /\ \A c \in Chains : s.jobs[c] = <<>>
    /\ \A p \in Pcs : ~IsOpen(s.pcs[p]) /\ s.pcs[p].sig # "building"

LEMMA ClearOK ==
    ASSUME NEW s \in Managers, Clear(s)
    PROVE  SideOK(s)
<1>1. ChainOK(s)
  BY DEF Clear, ChainOK, Busy, Managers
<1>2. HeadOK(s)
  BY DEF Clear, HeadOK
<1>3. PcsOK(s)
  BY Bounds DEF Clear, PcsOK
<1>4. PeerOK(s)
  BY DEF Clear, PeerOK
<1> QED BY <1>1, <1>2, <1>3, <1>4 DEF SideOK

\* A teardown that begins a new chain leaves no task behind.
LEMMA TornDownClear ==
    ASSUME NEW s \in Managers, SideOK(s), AtRest(s), s.inflight = 0, Unused(s) # {}
    PROVE  Clear(TornDown(s, FALSE))
<1> DEFINE t == TornDown(s, FALSE)
<1>1. /\ t \in Managers
      /\ t.cur = 0 /\ t.inflight = 0 /\ t.chain = NewChain(s)
      /\ \A p \in Pcs : p = s.cur => t.pcs[p] = Dead
      /\ \A p \in Pcs : p # s.cur => t.pcs[p].sig = s.pcs[p].sig
      /\ \A c \in Chains : t.jobs[c] =
           IF c # t.chain /\ s.jobs[c] # <<>> /\ Hung(t, Head(s.jobs[c])) THEN <<>>
           ELSE s.jobs[c]
  BY TornDownShape
<1> HIDE DEF t
<1>2. \A p \in Pcs : ~IsOpen(t.pcs[p]) /\ (t.pcs[p].sig = "building" => s.pcs[p].sig = "building")
                     /\ (p = s.cur \/ s.pcs[p].sig = "closed" => t.pcs[p].sig = "closed")
  <2>1. ASSUME NEW p \in Pcs
        PROVE  /\ ~IsOpen(t.pcs[p]) /\ (t.pcs[p].sig = "building" => s.pcs[p].sig = "building")
               /\ (p = s.cur \/ s.pcs[p].sig = "closed" => t.pcs[p].sig = "closed")
    <3>1. CASE p = s.cur
      BY <1>1, <3>1 DEF IsOpen, Dead, Blank
    <3>2. CASE p # s.cur
      <4>1. t.pcs[p].sig = s.pcs[p].sig
        BY <1>1, <3>2
      <4> QED BY <3>2, <4>1 DEF SideOK, PcsOK, IsOpen
    <3> QED BY <3>1, <3>2
  <2> QED BY <2>1
<1>3. ASSUME NEW c \in Chains, s.jobs[c] # <<>>
      PROVE  t.jobs[c] = <<>>
  <2>1. c # t.chain
    BY <1>1, <1>3, NewChainIsUnused
  <2>2. c = s.chain /\ Head(s.jobs[c]) = Head(Now(s)) /\ Head(Now(s)) \in TaskRecords
        /\ TaskOK(s, Head(Now(s)))
    BY <1>3, NowType DEF SideOK, ChainOK, HeadOK, Busy, Now
  <2>3. Head(s.jobs[c]).at \in {"remote", "local"}
    BY <1>3, <2>2 DEF AtRest, Busy, TaskRecords
  <2>4. Head(s.jobs[c]).pc \in Pcs
    BY <2>2, <2>3, Bounds DEF TaskOK, TaskRecords, Numbers, Pcs
  <2>5. Hung(t, Head(s.jobs[c]))
    BY <1>2, <2>2, <2>3, <2>4 DEF TaskOK, Hung
  <2> QED BY <1>1, <1>3, <2>1, <2>5
<1>4. \A c \in Chains : t.jobs[c] = <<>>
  BY <1>1, <1>3
<1>5. \A p \in Pcs : t.pcs[p].sig # "building"
  BY <1>2, Bounds DEF SideOK, PcsOK
<1> QED BY <1>1, <1>2, <1>4, <1>5 DEF Clear, Now, t, Managers

KeptBy(s, t) ==
    /\ t \in Managers /\ SideOK(t) /\ t.jobs = s.jobs /\ t.chain = s.chain
    /\ t.cur = 0 /\ t.inflight = 0 /\ t.inVoice = s.inVoice
    /\ \A p \in Pcs : p = s.cur => t.pcs[p] = Dead
    /\ \A p \in Pcs : p # s.cur => t.pcs[p].sig = s.pcs[p].sig
         /\ t.pcs[p].remote = s.pcs[p].remote /\ t.pcs[p].with = s.pcs[p].with

\* A teardown that keeps the chain, while its first task is yet to begin.
LEMMA TornDownKept ==
    ASSUME NEW s \in Managers, SideOK(s), s.inflight = 0, Now(s) # <<>>,
           Head(Now(s)).at = "queued"
    PROVE  KeptBy(s, TornDown(s, TRUE))
<1> DEFINE t == TornDown(s, TRUE)
<1>1. /\ t \in Managers /\ t.cur = 0 /\ t.inflight = 0 /\ t.inVoice = s.inVoice
      /\ t.chain = s.chain
      /\ \A p \in Pcs : p = s.cur => t.pcs[p] = Dead
      /\ \A p \in Pcs : p # s.cur => t.pcs[p].sig = s.pcs[p].sig
           /\ t.pcs[p].remote = s.pcs[p].remote /\ t.pcs[p].with = s.pcs[p].with
      /\ \A c \in Chains : t.jobs[c] =
           IF c # t.chain /\ s.jobs[c] # <<>> /\ Hung(t, Head(s.jobs[c])) THEN <<>>
           ELSE s.jobs[c]
  BY TornDownShape
<1> HIDE DEF t
<1>2. t.jobs = s.jobs
  <2>1. \A c \in Chains : t.jobs[c] = s.jobs[c]
    BY <1>1 DEF SideOK, ChainOK, Busy
  <2> QED BY <1>1, <2>1 DEF Managers
<1>3. Now(t) = Now(s) /\ Busy(t) = Busy(s)
  BY <1>1, <1>2 DEF Now, Busy
<1>4. ChainOK(t)
  BY <1>1, <1>3 DEF SideOK, ChainOK
<1>5. HeadOK(t)
  BY <1>3 DEF HeadOK, TaskOK
<1>6. PcsOK(t)
  <2>1. ASSUME NEW p \in Pcs
        PROVE  ~IsOpen(t.pcs[p]) /\ t.pcs[p].sig # "building"
    <3>1. CASE p = s.cur
      BY <1>1, <3>1 DEF IsOpen, Dead, Blank
    <3>2. CASE p # s.cur
      BY <1>1, <3>2, Bounds DEF SideOK, PcsOK, IsOpen
    <3> QED BY <3>1, <3>2
  <2> QED BY <1>1, <2>1, Bounds DEF PcsOK
<1>7. PeerOK(t)
  BY <1>1 DEF PeerOK
<1> QED BY <1>1, <1>2, <1>4, <1>5, <1>6, <1>7 DEF SideOK, KeptBy, t

-----------------------------------------------------------------------------
(* From one state of a manager to the next.                                  *)

\* What a side comes to know of the other's connections, the first task tells it.
From(s) == IF Now(s) = <<>> THEN 0 ELSE Head(Now(s)).from
Learns(s, t) ==
    /\ \A p \in Pcs : t.pcs[p].remote \in {0, From(s), s.pcs[p].remote}
                      /\ t.pcs[p].with \in {0, From(s), s.pcs[p].with}
    /\ \A c \in Pcs : KnowsOf(t, c) => KnowsOf(s, c) \/ c = From(s)

\* The tasks go from the front, or all together; those of this side come at the end.
SameWords(q, r) ==
    Len(r) = Len(q) /\ \A i \in DOMAIN q : r[i].kind = q[i].kind /\ r[i].from = q[i].from
Shifts(s, t) ==
    \/ Now(t) = <<>>
    \/ SameWords(Now(s), Now(t))
    \/ Now(s) # <<>> /\ Now(t) = Tail(Now(s))
    \/ \E j \in TaskRecords : Now(t) = Append(Now(s), j) /\ j.kind = "propose" /\ j.from = 0

Turns(s, t) == t \in Managers /\ SideOK(t) /\ Learns(s, t) /\ Shifts(s, t)

\* A step that leaves tasks and connections what they are.
Alike(s, t) ==
    /\ t.jobs = s.jobs /\ t.chain = s.chain /\ t.cur = s.cur /\ t.inflight = s.inflight
    /\ s.inVoice => t.inVoice
    /\ \A p \in Pcs : t.pcs[p].sig = s.pcs[p].sig /\ t.pcs[p].remote = s.pcs[p].remote
                      /\ t.pcs[p].with = s.pcs[p].with

LEMMA AlikeTurns ==
    ASSUME NEW s \in Managers, SideOK(s), NEW t \in Managers, Alike(s, t)
    PROVE  Turns(s, t)
<1>1. Now(t) = Now(s) /\ Busy(t) = Busy(s)
  BY DEF Now, Busy, Alike
<1>2. s.cur # 0 => s.cur \in Pcs
  BY Bounds DEF Managers, Numbers, Pcs
<1>3. ChainOK(t)
  BY <1>1 DEF SideOK, ChainOK, Alike
<1>4. HeadOK(t)
  <2>1. SUFFICES ASSUME Now(s) # <<>> PROVE TaskOK(t, Head(Now(s)))
    BY <1>1 DEF HeadOK
  <2>2. TaskOK(s, Head(Now(s))) /\ Head(Now(s)).pc \in Numbers
    BY <2>1, NowType DEF SideOK, HeadOK, TaskRecords
  <2>3. Head(Now(s)).pc # 0 => Head(Now(s)).pc \in Pcs
    BY <2>2, Bounds DEF Numbers, Pcs
  <2> QED BY <2>2, <2>3 DEF TaskOK, Alike
<1>5. PcsOK(t)
  BY <1>2 DEF SideOK, PcsOK, IsOpen, Alike
<1>6. PeerOK(t)
  <2>1. \A kind, at : AtWork(t, kind, at) = AtWork(s, kind, at)
    BY <1>1 DEF AtWork, Alike
  <2> QED BY <1>1, <1>2, <2>1 DEF SideOK, PeerOK, Alike
<1>7. Learns(s, t)
  BY <1>2 DEF Learns, KnowsOf, Alike
<1>8. Shifts(s, t)
  BY <1>1 DEF Shifts, SameWords
<1> QED BY <1>3, <1>4, <1>5, <1>6, <1>7, <1>8 DEF Turns, SideOK

\* A step after which the side has neither tasks nor a connection.
LEMMA ClearTurns ==
    ASSUME NEW s \in Managers, NEW t \in Managers, Clear(t),
           \A p \in Pcs : t.pcs[p].remote \in {0, s.pcs[p].remote}
                          /\ t.pcs[p].with \in {0, s.pcs[p].with}
    PROVE  Turns(s, t)
<1>1. SideOK(t)
  BY ClearOK
<1>2. Learns(s, t)
  BY DEF Learns, KnowsOf, Clear
<1>3. Shifts(s, t)
  BY DEF Shifts, Clear
<1> QED BY <1>1, <1>2, <1>3 DEF Turns

\* The first task is done.
LEMMA DoneTurns ==
    ASSUME NEW s \in Managers, SideOK(s), Now(s) # <<>>, NEW t \in Managers,
           t.jobs = [s.jobs EXCEPT ![s.chain] = Tail(@)], t.chain = s.chain,
           t.cur = s.cur, t.inflight = s.inflight, t.inVoice = s.inVoice,
           \A p \in Pcs : /\ IsOpen(t.pcs[p]) = IsOpen(s.pcs[p])
                          /\ (t.pcs[p].sig = "building") = (s.pcs[p].sig = "building")
                          /\ t.pcs[p].remote \in {From(s), s.pcs[p].remote}
                          /\ t.pcs[p].with \in {From(s), s.pcs[p].with},
           s.cur # 0 => /\ t.pcs[s.cur].sig # "offered"
                        /\ t.pcs[s.cur].with \in {0, t.pcs[s.cur].remote}
    PROVE  Turns(s, t)
<1>1. Now(t) = Tail(Now(s)) /\ \A c \in Chains : c # s.chain => t.jobs[c] = s.jobs[c]
  BY DEF Now, Managers
<1>2. Now(s) \in Seq(TaskRecords) /\ Now(t) \in Seq(TaskRecords)
  BY NowType
<1>3. \A i \in DOMAIN Now(t) : i + 1 \in DOMAIN Now(s) /\ i + 1 # 1 /\ Now(t)[i] = Now(s)[i + 1]
  BY <1>1, <1>2
<1>4. \A i \in DOMAIN Now(t) : Now(t)[i].at = "queued"
  BY <1>3 DEF SideOK, ChainOK
<1>5. ChainOK(t)
  <2>1. \A c \in Busy(t) : c = t.chain
    BY <1>1 DEF SideOK, ChainOK, Busy
  <2> QED BY <1>4, <2>1 DEF ChainOK
<1>6. Now(t) # <<>> => Head(Now(t)).at = "queued"
  BY <1>4, NowType
<1>7. HeadOK(t)
  BY <1>6 DEF HeadOK, TaskOK
<1>8. s.cur # 0 => s.cur \in Pcs
  BY Bounds DEF Managers, Numbers, Pcs
<1>9. PcsOK(t)
  BY <1>8 DEF SideOK, PcsOK
<1>10. PeerOK(t)
  BY <1>6 DEF PeerOK, AtWork
<1>11. Learns(s, t)
  BY <1>8 DEF Learns, KnowsOf
<1>12. Shifts(s, t)
  BY <1>1 DEF Shifts
<1> QED BY <1>5, <1>7, <1>9, <1>10, <1>11, <1>12 DEF Turns, SideOK

\* The first task goes on.
LEMMA WorkTurns ==
    ASSUME NEW s \in Managers, SideOK(s), Now(s) # <<>>, NEW t \in Managers,
           NEW at, NEW p,
           t.jobs = [s.jobs EXCEPT ![s.chain][1].at = at, ![s.chain][1].pc = p],
           t.chain = s.chain, PcsOK(t), PeerOK(t), Learns(s, t),
           TaskOK(t, [Head(Now(s)) EXCEPT !.at = at, !.pc = p])
    PROVE  Turns(s, t)
<1>0. Now(s) \in Seq(TaskRecords) /\ Head(Now(s)) = Now(s)[1] /\ Now(s)[1] \in TaskRecords
      /\ 1 \in DOMAIN Now(s)
  BY NowType
<1>1. /\ Now(t) = [Now(s) EXCEPT ![1] = [Now(s)[1] EXCEPT !.at = at, !.pc = p]]
      /\ \A c \in Chains : c # s.chain => t.jobs[c] = s.jobs[c]
  <2> DEFINE k == [s.jobs EXCEPT ![s.chain][1].at = at]
  <2>1. s.jobs \in [Chains -> Seq(TaskRecords)] /\ s.chain \in Chains
    BY DEF Managers
  <2>2. /\ k[s.chain] = [Now(s) EXCEPT ![1].at = at] /\ DOMAIN k = Chains
        /\ \A c \in Chains : c # s.chain => k[c] = s.jobs[c]
    BY <2>1 DEF Now
  <2>3. t.jobs = [k EXCEPT ![s.chain][1].pc = p]
    OBVIOUS
  <2> HIDE DEF k
  <2>4. Now(t) = [k[s.chain] EXCEPT ![1].pc = p] /\ \A c \in Chains : c # s.chain => t.jobs[c] = k[c]
    BY <2>1, <2>2, <2>3 DEF Now
  <2>5. Now(t) = [[Now(s) EXCEPT ![1].at = at] EXCEPT ![1].pc = p]
    BY <2>2, <2>4
  <2> QED BY <1>0, <2>2, <2>4, <2>5
<1>2. /\ DOMAIN Now(t) = DOMAIN Now(s) /\ Len(Now(t)) = Len(Now(s)) /\ Now(t) # <<>>
      /\ Head(Now(t)) = [Now(s)[1] EXCEPT !.at = at, !.pc = p]
      /\ \A i \in DOMAIN Now(s) : i # 1 => Now(t)[i] = Now(s)[i]
  BY <1>0, <1>1
<1>3. \A i \in DOMAIN Now(s) : Now(t)[i].kind = Now(s)[i].kind /\ Now(t)[i].from = Now(s)[i].from
  BY <1>0, <1>1, <1>2, SMTT(30) DEF TaskRecords
<1>4. ChainOK(t)
  <2>1. \A c \in Busy(t) : c = t.chain
    BY <1>1 DEF SideOK, ChainOK, Busy
  <2> QED BY <1>2, <2>1 DEF SideOK, ChainOK
<1>5. HeadOK(t)
  BY <1>0, <1>2 DEF HeadOK
<1>6. Shifts(s, t)
  BY <1>2, <1>3 DEF Shifts, SameWords
<1> QED BY <1>4, <1>5, <1>6 DEF Turns, SideOK

-----------------------------------------------------------------------------
(* The steps of one side, when servers and keys are at hand.                 *)

Base == ~SlowFetch /\ TypeOK /\ EachOK

LEMMA Manager ==
    ASSUME Base, NEW u \in Sides
    PROVE  /\ m[u] \in Managers /\ SideOK(m[u]) /\ Other(u) \in Sides /\ Other(u) # u
           /\ (m[u].cur # 0 => m[u].cur \in Pcs) /\ (m[u].inflight # 0 => m[u].inflight \in Pcs)
<1>1. m[u] \in Managers /\ SideOK(m[u])
  BY DEF Base, TypeOK, EachOK
<1>2. Other(u) \in Sides /\ Other(u) # u
  BY DEF Sides, Other
<1>3. (m[u].cur # 0 => m[u].cur \in Pcs) /\ (m[u].inflight # 0 => m[u].inflight \in Pcs)
  BY <1>1, Bounds DEF Managers, Numbers, Pcs
<1> QED BY <1>1, <1>2, <1>3

\* One side has acted.
Steps(u) ==
    /\ m' = [m EXCEPT ![u] = m'[u]] /\ Turns(m[u], m'[u])
    /\ m'[u].cur \in {0, m[u].cur} \/ (m'[u].cur = m[u].inflight /\ net' = net)
    /\ m'[u].inflight \in {0, m[u].inflight} \/ (Room(u) /\ m'[u].inflight = Fresh(u))

\* Messages, timers and events find no task about to begin and no build under way.
LEMMA AwakeRests ==
    ASSUME Base, NEW u \in Sides, Awake(u)
    PROVE  AtRest(m[u]) /\ m[u].inflight = 0
<1> DEFINE s == m[u]
<1>1. s \in Managers /\ SideOK(s)
  BY Manager
<1>2. s.inflight = 0
  <2>1. \A p \in Pcs : s.pcs[p].sig # "building"
    BY DEF Base, Awake, Building
  <2> QED BY <1>1, <2>1, Manager DEF SideOK, PcsOK
<1>3. ASSUME NEW c \in Busy(s)
      PROVE  Head(s.jobs[c]).at \notin {"queued", "building", "keys"}
  <2>1. Head(s.jobs[c]).at \notin {"queued", "keys"}
    BY <1>3 DEF Base, Awake, Due, HeadAt
  <2>2. c = s.chain
    BY <1>1 DEF SideOK, ChainOK
  <2>3. TaskOK(s, Head(s.jobs[c]))
    BY <1>1, <2>2 DEF SideOK, HeadOK, Busy, Now
  <2> QED BY <1>2, <2>1, <2>3 DEF TaskOK
<1> QED BY <1>2, <1>3 DEF AtRest

\* A teardown that begins a new chain, and perhaps a new build at once.
LEMMA ClearCalledTurns ==
    ASSUME NEW s \in Managers, NEW t \in Managers, Clear(t), NEW p \in Pcs,
           \A q \in Pcs : t.pcs[q].remote \in {0, s.pcs[q].remote}
                          /\ t.pcs[q].with \in {0, s.pcs[q].with}
    PROVE  /\ Turns(s, Called(t, p))
           /\ Called(t, p).cur = 0 /\ Called(t, p).inflight = p
<1>1. SideOK(t)
  BY ClearOK
<1>2. Spare(t, p)
  BY Bounds DEF Spare, Clear
<1> DEFINE r == Called(t, p)
<1>3. /\ r \in Managers /\ SideOK(r) /\ r.jobs = t.jobs /\ r.chain = t.chain /\ r.cur = t.cur
      /\ r.inflight \in {t.inflight, p} /\ (t.cur = 0 => r.inflight # 0)
      /\ \A q \in Pcs : r.pcs[q] = t.pcs[q] \/ (q = p /\ r.pcs[q] = [Blank EXCEPT !.sig = "building"])
  BY <1>1, <1>2, CalledOK, CalledType
<1> HIDE DEF r
<1>4. r.cur = 0 /\ r.inflight = p /\ Now(r) = <<>>
  BY <1>3 DEF Clear, Now
<1>5. Learns(s, r)
  BY <1>3, <1>4 DEF Learns, KnowsOf, Blank
<1>6. Shifts(s, r)
  BY <1>4 DEF Shifts
<1> QED BY <1>3, <1>4, <1>5, <1>6 DEF Turns, r

LEMMA TornTurns ==
    ASSUME NEW s \in Managers, SideOK(s), AtRest(s), s.inflight = 0, Unused(s) # {}
    PROVE  LET t == TornDown(s, FALSE)
           IN  /\ t \in Managers /\ Clear(t) /\ Turns(s, t)
               /\ \A q \in Pcs : t.pcs[q].remote \in {0, s.pcs[q].remote}
                                 /\ t.pcs[q].with \in {0, s.pcs[q].with}
<1> DEFINE t == TornDown(s, FALSE)
<1>1. Clear(t)
  BY TornDownClear
<1>2. /\ t \in Managers
      /\ \A p \in Pcs : p = s.cur => t.pcs[p] = Dead
      /\ \A p \in Pcs : p # s.cur =>
           t.pcs[p].remote = s.pcs[p].remote /\ t.pcs[p].with = s.pcs[p].with
  BY TornDownShape
<1> HIDE DEF t
<1>3. \A p \in Pcs : t.pcs[p].remote \in {0, s.pcs[p].remote}
                     /\ t.pcs[p].with \in {0, s.pcs[p].with}
  BY <1>2 DEF Dead, Blank
<1>4. Turns(s, t)
  BY <1>1, <1>2, <1>3, ClearTurns
<1> QED BY <1>1, <1>2, <1>3, <1>4 DEF t

\* What only part of a manager says.
LEMMA SameSide ==
    ASSUME NEW s \in Managers, NEW r \in Managers, SideOK(s), Alike(s, r)
    PROVE  /\ SideOK(r) /\ (AtRest(s) => AtRest(r)) /\ Unused(r) = Unused(s)
           /\ Now(r) = Now(s) /\ From(r) = From(s)
           /\ \A t : Turns(r, t) => Turns(s, t)
           /\ \A p : Spare(s, p) => Spare(r, p)
<1>1. SideOK(r) /\ Busy(r) = Busy(s) /\ Now(r) = Now(s)
  BY AlikeTurns DEF Turns, Alike, Busy, Now
<1>2. From(r) = From(s) /\ Unused(r) = Unused(s) /\ (AtRest(s) => AtRest(r))
  BY <1>1 DEF From, Unused, AtRest, Alike
<1>3. s.cur # 0 => s.cur \in Pcs
  BY Bounds DEF Managers, Numbers, Pcs
<1>4. \A c : KnowsOf(r, c) = KnowsOf(s, c)
  BY <1>3 DEF KnowsOf, Alike
<1>5. ASSUME NEW t, Turns(r, t)
      PROVE  Turns(s, t)
  <2>1. Learns(s, t)
    BY <1>2, <1>4, <1>5 DEF Turns, Learns, Alike
  <2>2. Shifts(s, t)
    BY <1>1, <1>5 DEF Turns, Shifts
  <2> QED BY <1>5, <2>1, <2>2 DEF Turns
<1>6. \A p : Spare(s, p) => Spare(r, p)
  BY <1>1 DEF Spare, Alike, IsOpen
<1> QED BY <1>1, <1>2, <1>5, <1>6


\* A manager that was changed without its tasks; what it leads to, the old one leads to.
LEMMA Chained ==
    ASSUME NEW s, NEW r, NEW t, Now(r) = Now(s), Turns(r, t),
           \A p \in Pcs : r.pcs[p].remote \in {0, s.pcs[p].remote}
                          /\ r.pcs[p].with \in {0, s.pcs[p].with},
           \A c \in Pcs : KnowsOf(r, c) => KnowsOf(s, c)
    PROVE  Turns(s, t)
<1>1. From(r) = From(s)
  BY DEF From
<1>2. Learns(s, t)
  BY <1>1 DEF Turns, Learns
<1>3. Shifts(s, t)
  BY DEF Turns, Shifts
<1> QED BY <1>2, <1>3 DEF Turns

LEMMA CalledTurns ==
    ASSUME NEW s \in Managers, SideOK(s), NEW p, Spare(s, p)
    PROVE  Turns(s, Called(s, p))
<1> DEFINE t == Called(s, p)
<1>1. /\ t \in Managers /\ SideOK(t) /\ t.jobs = s.jobs /\ t.chain = s.chain /\ t.cur = s.cur
      /\ \A q \in Pcs : t.pcs[q] = s.pcs[q] \/ (q = p /\ t.pcs[q] = [Blank EXCEPT !.sig = "building"])
  BY CalledOK, CalledType DEF Spare
<1> HIDE DEF t
<1>2. s.cur # 0 => s.cur \in Pcs /\ s.cur # p
  BY Bounds DEF Managers, Numbers, Pcs, Spare
<1>3. Learns(s, t)
  BY <1>1, <1>2 DEF Learns, KnowsOf, Blank
<1>4. Shifts(s, t)
  BY <1>1 DEF Shifts, SameWords, Now
<1> QED BY <1>1, <1>3, <1>4 DEF Turns, t

LEMMA Acts ==
    ASSUME Base, NEW u \in Sides, NEW t, m' = [m EXCEPT ![u] = t], Turns(m[u], t),
           t.cur \in {0, m[u].cur},
           t.inflight \in {0, m[u].inflight} \/ (Room(u) /\ t.inflight = Fresh(u))
    PROVE  Steps(u)
<1>1. m'[u] = t
  BY DEF Base, TypeOK
<1> QED BY <1>1 DEF Steps

\* A call, after a change of something else.
LEMMA CalledSteps ==
    ASSUME Base, NEW u \in Sides, Room(u), NEW r \in Managers, Alike(m[u], r),
           m' = [m EXCEPT ![u] = Called(r, Fresh(u))]
    PROVE  Steps(u) /\ m'[u].cur = m[u].cur
<1> DEFINE t == Called(r, Fresh(u))
<1>1. m[u] \in Managers /\ SideOK(m[u]) /\ Spare(m[u], Fresh(u))
  BY Manager, FreshIsSpare DEF Base, TypeOK
<1>2. SideOK(r) /\ Spare(r, Fresh(u)) /\ \A x : Turns(r, x) => Turns(m[u], x)
  BY <1>1, SameSide
<1>3. Turns(m[u], t) /\ t.cur = r.cur /\ t.inflight \in {r.inflight, Fresh(u)}
  BY <1>2, CalledTurns, CalledOK
<1> HIDE DEF t
<1>4. t.cur = m[u].cur /\ t.inflight \in {m[u].inflight, Fresh(u)}
  BY <1>3 DEF Alike
<1>5. m' = [m EXCEPT ![u] = t] /\ m'[u] = t
  BY DEF t, Base, TypeOK
<1>6. t.cur = m[u].cur
  BY <1>3 DEF Alike
<1> QED BY <1>3, <1>4, <1>5, <1>6, Acts

LEMMA AlikeSteps ==
    ASSUME Base, NEW u \in Sides, NEW t \in Managers, Alike(m[u], t), m' = [m EXCEPT ![u] = t]
    PROVE  Steps(u) /\ m'[u].cur = m[u].cur
<1>1. Turns(m[u], t)
  BY Manager, AlikeTurns
<1>2. m'[u] = t
  BY DEF Base, TypeOK
<1> QED BY <1>1, <1>2, Acts DEF Alike

LEMMA JoinSteps ==
    ASSUME Base, NEW u \in Sides, Join(u)
    PROVE  Steps(u)
<1> DEFINE s == [m[u] EXCEPT !.inVoice = TRUE]
<1>1. PICK knows \in BOOLEAN :
        m' = [m EXCEPT ![u] = IF knows THEN Called(s, Fresh(u)) ELSE s]
  BY DEF Join
<1>2. m[u] \in Managers
  BY Manager
<1>3. s \in Managers /\ Alike(m[u], s)
  BY <1>2 DEF Managers, Alike
<1> HIDE DEF s
<1>4. CASE knows
  BY <1>1, <1>3, <1>4, CalledSteps DEF Join
<1>5. CASE ~knows
  BY <1>1, <1>3, <1>5, AlikeSteps
<1> QED BY <1>4, <1>5

LEMMA LeaveSteps ==
    ASSUME Base, NEW u \in Sides, Leave(u)
    PROVE  Steps(u) /\ m'[u].cur = 0 /\ m'[u].inflight = 0 /\ ~m'[u].inVoice
<1> DEFINE r == TornDown(m[u], FALSE)
           t == ClosedAll(m[u])
<1>1. /\ m[u] \in Managers /\ SideOK(m[u]) /\ AtRest(m[u]) /\ m[u].inflight = 0
      /\ Unused(m[u]) # {}
  BY Manager, AwakeRests DEF Leave, Room
<1>2. /\ r \in Managers /\ Clear(r)
      /\ \A q \in Pcs : r.pcs[q].remote \in {0, m[u].pcs[q].remote}
                        /\ r.pcs[q].with \in {0, m[u].pcs[q].with}
  BY <1>1, TornTurns
<1>3. t = [r EXCEPT !.inVoice = FALSE, !.rebuilds = 0]
  BY DEF ClosedAll
<1> HIDE DEF r, t
<1>4. /\ t \in Managers /\ t.cur = r.cur /\ t.inflight = r.inflight /\ t.jobs = r.jobs
      /\ t.chain = r.chain /\ t.pcs = r.pcs /\ ~t.inVoice
  BY <1>2, <1>3 DEF Managers
<1>5. Clear(t)
  BY <1>2, <1>4 DEF Clear, Now
<1>6. Turns(m[u], t)
  BY <1>1, <1>2, <1>4, <1>5, ClearTurns
<1>7. m' = [m EXCEPT ![u] = t]
  BY DEF Leave, t
<1>8. t.cur = 0 /\ t.inflight = 0
  BY <1>5 DEF Clear
<1>9. m'[u] = t
  BY <1>7 DEF Base, TypeOK
<1> QED BY <1>4, <1>6, <1>7, <1>8, <1>9, Acts

\* What the room tells; a description is another matter.
LEMMA HearStartedSteps ==
    ASSUME Base, NEW u \in Sides, HearStarted(u)
    PROVE  Steps(u) /\ m'[u].cur = m[u].cur
<1> DEFINE n == IF m[u].inVoice /\ (u = "lo" \/ m[u].cur = 0) THEN m[u].calls + 1 ELSE m[u].calls
           t == [m[u] EXCEPT !.calls = n]
<1>1. m[u] \in Managers /\ m \in [Sides -> Managers]
  BY Manager DEF Base, TypeOK
<1>2. n \in Nat
  BY <1>1 DEF Managers
<1>3. m' = [m EXCEPT ![u] = t]
  BY <1>1 DEF HearStarted, Managers
<1> HIDE DEF n
<1>4. t \in Managers /\ Alike(m[u], t)
  BY <1>1, <1>2 DEF Managers, Alike
<1> QED BY <1>3, <1>4, AlikeSteps

LEMMA HearStoppedSteps ==
    ASSUME Base, NEW u \in Sides, HearStopped(u), Awake(u), Room(u)
    PROVE  Steps(u)
<1> DEFINE t == TornDown(m[u], FALSE)
<1>1. /\ m[u] \in Managers /\ SideOK(m[u]) /\ AtRest(m[u]) /\ m[u].inflight = 0
      /\ Unused(m[u]) # {}
  BY Manager, AwakeRests DEF Room
<1>2. t \in Managers /\ Clear(t) /\ Turns(m[u], t)
  BY <1>1, TornTurns
<1>3. CASE m[u].inVoice
  <2>1. m' = [m EXCEPT ![u] = t]
    BY <1>3 DEF HearStopped
  <2> HIDE DEF t
  <2> QED BY <1>2, <2>1, Acts DEF Clear
<1>4. CASE ~m[u].inVoice
  <2>1. m' = [m EXCEPT ![u] = m[u]]
    BY <1>4 DEF HearStopped
  <2> QED BY <1>1, <2>1, AlikeSteps DEF Alike
<1> QED BY <1>3, <1>4

LEMMA CallUserSteps ==
    ASSUME Base, NEW u \in Sides, CallUser(u)
    PROVE  Steps(u) /\ m'[u].cur = m[u].cur
<1> DEFINE n == m[u].calls - 1
           s == [m[u] EXCEPT !.calls = n]
<1>1. m[u] \in Managers /\ Room(u) /\ m[u].calls > 0 /\ m[u].calls \in Nat
  BY Manager DEF CallUser, Managers
<1>2. n \in Nat
  BY <1>1
<1>3. s = [m[u] EXCEPT !.calls = @ - 1]
  BY <1>1 DEF Managers
<1>4. m' = [m EXCEPT ![u] = Called(s, Fresh(u))]
  <2>1. m' = [m EXCEPT ![u] = Called([m[u] EXCEPT !.calls = @ - 1], Fresh(u))]
    BY DEF CallUser
  <2> QED BY <1>3, <2>1
<1> HIDE DEF n
<1>5. s \in Managers /\ Alike(m[u], s)
  BY <1>1, <1>2 DEF Managers, Alike
<1> HIDE DEF s
<1> QED BY <1>1, <1>4, <1>5, CalledSteps

\* Timers and events that leave tasks and connections what they are.
LEMMA AlikeThrough ==
    ASSUME NEW s, NEW r, NEW t, Alike(s, r), Alike(r, t)
    PROVE  Alike(s, t)
  BY DEF Alike

\* A change to one connection of what it does not know of the peer's.
LEMMA PcAlike ==
    ASSUME NEW s \in Managers, NEW p \in Pcs, NEW pc \in PcRecords,
           pc.sig = s.pcs[p].sig, pc.remote = s.pcs[p].remote, pc.with = s.pcs[p].with
    PROVE  [s EXCEPT !.pcs[p] = pc] \in Managers /\ Alike(s, [s EXCEPT !.pcs[p] = pc])
  BY DEF Managers, Alike

LEMMA ReconnectingAlike ==
    ASSUME NEW s \in Managers
    PROVE  Reconnecting(s) \in Managers /\ Alike(s, Reconnecting(s))
<1>1. s.attempts \in Nat /\ s.attempts + 1 \in Nat /\ s.cur \in Numbers
  BY DEF Managers
<1>2. CASE s.attempts + 1 > MAX_RECONNECT_ATTEMPTS
  <2>1. Reconnecting(s) = [s EXCEPT !.attempts = 0]
    BY <1>2 DEF Reconnecting
  <2>2. [s EXCEPT !.attempts = 0] \in Managers /\ Alike(s, [s EXCEPT !.attempts = 0])
    BY DEF Managers, Alike
  <2> QED BY <2>1, <2>2
<1>3. CASE ~(s.attempts + 1 > MAX_RECONNECT_ATTEMPTS) /\ s.attempts + 1 = 1 /\ s.cur # 0
  <2>1. s.cur \in Pcs
    BY <1>1, <1>3, Bounds DEF Numbers, Pcs
  <2> DEFINE pc == [s.pcs[s.cur] EXCEPT !.need = TRUE]
             r == [s EXCEPT !.pcs[s.cur] = pc]
             t == [r EXCEPT !.attempts = 1, !.again = [kind |-> "deadline", pc |-> s.cur]]
  <2>2. s.pcs[s.cur] \in PcRecords
    BY <2>1 DEF Managers
  <2>3. pc \in PcRecords /\ pc.sig = s.pcs[s.cur].sig /\ pc.remote = s.pcs[s.cur].remote
        /\ pc.with = s.pcs[s.cur].with
    BY <2>2 DEF PcRecords
  <2>4. Reconnecting(s) = t
    BY <1>3, <2>1 DEF Reconnecting, Managers
  <2> HIDE DEF pc
  <2>5. r \in Managers /\ Alike(s, r)
    BY <2>1, <2>3, PcAlike
  <2> HIDE DEF r
  <2>6. t \in Managers /\ Alike(r, t)
    BY <1>1, <2>5 DEF Managers, Alike
  <2> QED BY <2>4, <2>5, <2>6, AlikeThrough
<1>4. CASE ~(s.attempts + 1 > MAX_RECONNECT_ATTEMPTS) /\ ~(s.attempts + 1 = 1 /\ s.cur # 0)
  <2> DEFINE n == s.attempts + 1
  <2>1. Reconnecting(s) = [s EXCEPT !.attempts = n, !.again = [kind |-> "backoff", pc |-> 0]]
    BY <1>4 DEF Reconnecting
  <2>2. n \in Nat
    BY <1>1
  <2> HIDE DEF n
  <2> DEFINE t == [s EXCEPT !.attempts = n, !.again = [kind |-> "backoff", pc |-> 0]]
  <2>3. t \in Managers /\ Alike(s, t)
    BY <2>2, Bounds DEF Managers, Alike
  <2> QED BY <2>1, <2>3
<1> QED BY <1>2, <1>3, <1>4

LEMMA FailSteps ==
    ASSUME Base, NEW u \in Sides, Fail(u)
    PROVE  Steps(u) /\ m'[u].cur = m[u].cur
<1> DEFINE s == m[u]
<1>1. PICK p \in Pcs : m' = [m EXCEPT ![u] = Reconnecting([s EXCEPT !.pcs[p].conn = "failed"])]
  BY DEF Fail
<1>2. s \in Managers /\ s.pcs[p] \in PcRecords
  BY Manager DEF Managers
<1> DEFINE pc == [s.pcs[p] EXCEPT !.conn = "failed"]
           r == [s EXCEPT !.pcs[p] = pc]
<1>3. pc \in PcRecords /\ pc.sig = s.pcs[p].sig /\ pc.remote = s.pcs[p].remote
      /\ pc.with = s.pcs[p].with
  BY <1>2 DEF PcRecords
<1>4. r = [s EXCEPT !.pcs[p].conn = "failed"]
  BY <1>2 DEF Managers
<1>5. m' = [m EXCEPT ![u] = Reconnecting(r)]
  BY <1>1, <1>4
<1> HIDE DEF pc
<1>6. r \in Managers /\ Alike(s, r)
  BY <1>2, <1>3, PcAlike
<1> HIDE DEF r
<1>7. Reconnecting(r) \in Managers /\ Alike(s, Reconnecting(r))
  BY <1>6, ReconnectingAlike, AlikeThrough
<1> QED BY <1>5, <1>7, AlikeSteps

LEMMA DeadlineFiresSteps ==
    ASSUME Base, NEW u \in Sides, DeadlineFires(u)
    PROVE  Steps(u) /\ m'[u].cur = m[u].cur
<1> DEFINE s == [m[u] EXCEPT !.again = [kind |-> "none", pc |-> 0]]
<1>1. m[u] \in Managers
  BY Manager
<1>2. s \in Managers /\ Alike(m[u], s)
  BY <1>1, Bounds DEF Managers, Alike
<1>3. m' = [m EXCEPT ![u] = Reconnecting(s)] \/ m' = [m EXCEPT ![u] = s]
  BY DEF DeadlineFires
<1> HIDE DEF s
<1>4. Reconnecting(s) \in Managers /\ Alike(m[u], Reconnecting(s))
  BY <1>2, ReconnectingAlike, AlikeThrough
<1> QED BY <1>2, <1>3, <1>4, AlikeSteps

LEMMA ConnectSteps ==
    ASSUME Base, NEW u \in Sides, Connect(u)
    PROVE  Steps(u) /\ m'[u].cur = m[u].cur
<1> DEFINE s == m[u]
<1>1. PICK p \in Pcs :
        m' = [m EXCEPT ![u] =
                [s EXCEPT !.pcs[p].conn = "connected", !.attempts = 0,
                          !.again = [kind |-> "none", pc |-> 0], !.rebuilds = 0]]
  BY DEF Connect
<1>2. s \in Managers /\ s.pcs[p] \in PcRecords
  BY Manager DEF Managers
<1> DEFINE pc == [s.pcs[p] EXCEPT !.conn = "connected"]
           r == [s EXCEPT !.pcs[p] = pc]
           t == [r EXCEPT !.attempts = 0, !.again = [kind |-> "none", pc |-> 0], !.rebuilds = 0]
<1>3. pc \in PcRecords /\ pc.sig = s.pcs[p].sig /\ pc.remote = s.pcs[p].remote
      /\ pc.with = s.pcs[p].with
  BY <1>2 DEF PcRecords
<1>4. r = [s EXCEPT !.pcs[p].conn = "connected"]
  BY <1>2 DEF Managers
<1>5. m' = [m EXCEPT ![u] = t]
  BY <1>1, <1>4
<1> HIDE DEF pc
<1>6. r \in Managers /\ Alike(s, r)
  BY <1>2, <1>3, PcAlike
<1> HIDE DEF r
<1>7. t \in Managers /\ Alike(r, t)
  BY <1>6, Bounds DEF Managers, Alike
<1> HIDE DEF t
<1> QED BY <1>5, <1>6, <1>7, AlikeThrough, AlikeSteps

LEMMA AddMediaSteps ==
    ASSUME Base, NEW u \in Sides, AddMedia(u)
    PROVE  Steps(u) /\ m'[u].cur = m[u].cur
<1> DEFINE s == m[u]
           p == m[u].cur
           pc == [s.pcs[p] EXCEPT !.need = TRUE]
           r == [s EXCEPT !.pcs[p] = pc]
<1>1. p \in Pcs
  BY Manager DEF AddMedia
<1>2. s \in Managers /\ s.pcs[p] \in PcRecords
  BY <1>1, Manager DEF Managers
<1>3. pc \in PcRecords /\ pc.sig = s.pcs[p].sig /\ pc.remote = s.pcs[p].remote
      /\ pc.with = s.pcs[p].with
  BY <1>2 DEF PcRecords
<1>4. m' = [m EXCEPT ![u] = r]
  BY <1>1, <1>2 DEF AddMedia, Managers, Base, TypeOK
<1> HIDE DEF pc
<1>5. r \in Managers /\ Alike(s, r)
  BY <1>1, <1>2, <1>3, PcAlike
<1> HIDE DEF r
<1> QED BY <1>4, <1>5, AlikeSteps

LEMMA StuckFiresSteps ==
    ASSUME Base, NEW u \in Sides, StuckFires(u)
    PROVE  /\ Steps(u)
           /\ m[u].cur # 0 /\ m[u].pcs[m[u].cur].sig = "stable" => m'[u].cur = m[u].cur
<1> DEFINE s == [m[u] EXCEPT !.watch = {}]
           n == s.rebuilds + 1
           t == TornDown(s, FALSE)
           r0 == [t EXCEPT !.rebuilds = 0]
           r1 == [t EXCEPT !.rebuilds = n]
           stuck == /\ m[u].watch = {s.cur} /\ s.cur # 0 /\ s.inVoice
                    /\ s.pcs[s.cur].sig # "stable"
<1>1. /\ m[u] \in Managers /\ SideOK(m[u]) /\ AtRest(m[u]) /\ m[u].inflight = 0
      /\ Unused(m[u]) # {} /\ Room(u) /\ m \in [Sides -> Managers]
  BY Manager, AwakeRests DEF StuckFires, Room, Base, TypeOK
<1>2. s \in Managers /\ Alike(m[u], s)
  BY <1>1 DEF Managers, Alike
<1>3. s.rebuilds \in Nat /\ n \in Nat
  BY <1>2 DEF Managers
<1>4. m' = [m EXCEPT ![u] = IF ~stuck THEN s ELSE IF n > MAX_STUCK_REBUILDS THEN r0
                            ELSE Called(r1, Fresh(u))]
  BY DEF StuckFires
<1>5. stuck => m[u].pcs[m[u].cur].sig # "stable"
  OBVIOUS
<1> HIDE DEF s, n, stuck
<1>6. /\ SideOK(s) /\ AtRest(s) /\ s.inflight = 0 /\ Unused(s) # {}
      /\ \A x : Turns(s, x) => Turns(m[u], x)
  BY <1>1, <1>2, SameSide DEF Alike
<1>7. /\ t \in Managers /\ Clear(t)
      /\ \A q \in Pcs : t.pcs[q].remote \in {0, s.pcs[q].remote}
                        /\ t.pcs[q].with \in {0, s.pcs[q].with}
  BY <1>2, <1>6, TornTurns
<1> HIDE DEF t
<1>8. r0 \in Managers /\ r1 \in Managers
  BY <1>3, <1>7 DEF Managers
<1>9. /\ r0.cur = t.cur /\ r0.inflight = t.inflight /\ r0.jobs = t.jobs
      /\ r0.chain = t.chain /\ r0.pcs = t.pcs
      /\ r1.cur = t.cur /\ r1.inflight = t.inflight /\ r1.jobs = t.jobs
      /\ r1.chain = t.chain /\ r1.pcs = t.pcs
  BY <1>7 DEF Managers
<1> HIDE DEF r0, r1
<1>10. Clear(r0) /\ Clear(r1)
  BY <1>7, <1>9 DEF Clear, Now
<1>11. CASE ~stuck
  <2>1. m' = [m EXCEPT ![u] = s]
    BY <1>4, <1>11
  <2>2. m'[u] = s
    BY <1>1, <2>1
  <2> QED BY <1>2, <2>1, <2>2, AlikeSteps DEF Alike
<1>12. CASE stuck /\ n > MAX_STUCK_REBUILDS
  <2>1. m' = [m EXCEPT ![u] = r0]
    BY <1>4, <1>12
  <2>2. Turns(m[u], r0)
    BY <1>2, <1>6, <1>7, <1>8, <1>9, <1>10, ClearTurns
  <2> QED BY <1>5, <1>10, <1>12, <2>1, <2>2, Acts DEF Clear
<1>13. CASE stuck /\ ~(n > MAX_STUCK_REBUILDS)
  <2>1. m' = [m EXCEPT ![u] = Called(r1, Fresh(u))]
    BY <1>4, <1>13
  <2>2. Fresh(u) \in Pcs
    BY <1>1, FreshIsFree DEF Free
  <2>3. /\ Turns(s, Called(r1, Fresh(u))) /\ Called(r1, Fresh(u)).cur = 0
        /\ Called(r1, Fresh(u)).inflight = Fresh(u)
    BY <1>2, <1>7, <1>8, <1>9, <1>10, <2>2, ClearCalledTurns
  <2> QED BY <1>1, <1>5, <1>6, <1>13, <2>1, <2>3, Acts
<1> QED BY <1>11, <1>12, <1>13

LEMMA BackoffFiresSteps ==
    ASSUME Base, NEW u \in Sides, BackoffFires(u)
    PROVE  /\ Steps(u)
           /\ m[u].cur # 0 /\ m[u].pcs[m[u].cur].conn = "connected" => m'[u].cur = m[u].cur
<1> DEFINE s == [m[u] EXCEPT !.again = [kind |-> "none", pc |-> 0]]
           pcs == [s.pcs EXCEPT ![s.cur] = Dead]
           r == [s EXCEPT !.pcs = pcs, !.cur = 0]
           closed == IF s.cur = 0 THEN s ELSE Pruned(r)
           well == s.cur # 0 /\ s.pcs[s.cur].conn = "connected"
           t == Called(closed, Fresh(u))
<1>1. /\ m[u] \in Managers /\ SideOK(m[u]) /\ AtRest(m[u]) /\ m[u].inflight = 0
      /\ Unused(m[u]) # {} /\ Room(u) /\ m \in [Sides -> Managers]
      /\ Spare(m[u], Fresh(u))
  BY Manager, AwakeRests, FreshIsSpare DEF BackoffFires, Room, Base, TypeOK
<1>2. s \in Managers /\ Alike(m[u], s)
  BY <1>1, Bounds DEF Managers, Alike
<1>3. m' = [m EXCEPT ![u] = IF ~s.inVoice \/ well THEN s ELSE t]
  <2>1. [s EXCEPT !.pcs[s.cur] = Dead, !.cur = 0] = r
    OBVIOUS
  <2> QED BY <2>1 DEF BackoffFires
<1>4. m[u].cur # 0 /\ m[u].pcs[m[u].cur].conn = "connected" => well
  BY <1>1 DEF Managers
<1> HIDE DEF s, well
<1>5. /\ SideOK(s) /\ AtRest(s) /\ s.inflight = 0 /\ Spare(s, Fresh(u))
      /\ \A x : Turns(s, x) => Turns(m[u], x)
  BY <1>1, <1>2, SameSide DEF Alike
<1>6. CASE ~s.inVoice \/ well
  <2>1. m' = [m EXCEPT ![u] = s]
    BY <1>3, <1>6
  <2>2. m'[u] = s
    BY <1>1, <2>1
  <2> QED BY <1>2, <2>1, <2>2, AlikeSteps DEF Alike
<1>7. CASE ~(~s.inVoice \/ well) /\ s.cur = 0
  <2>1. m' = [m EXCEPT ![u] = Called(s, Fresh(u))]
    BY <1>3, <1>7
  <2> QED BY <1>1, <1>2, <1>4, <1>7, <2>1, CalledSteps
<1>8. CASE ~(~s.inVoice \/ well) /\ s.cur # 0
  <2>1. closed = Pruned(r) /\ s.cur \in Pcs
    BY <1>2, <1>8, Bounds DEF Managers, Numbers, Pcs
  <2>2. pcs \in [Pcs -> PcRecords] /\ s.pcs \in [Pcs -> PcRecords] /\ pcs[s.cur] = Dead
        /\ \A p \in Pcs : p # s.cur => pcs[p] = s.pcs[p]
    BY <1>2, <2>1, BlankType DEF Managers
  <2> HIDE DEF pcs
  <2>3. /\ r \in Managers /\ r.pcs = pcs /\ r.cur = 0 /\ r.jobs = s.jobs /\ r.chain = s.chain
        /\ r.inflight = s.inflight /\ r.inVoice = s.inVoice
    BY <1>2, <2>2, Bounds DEF Managers
  <2> HIDE DEF r
  <2>4. Now(r) = Now(s) /\ Busy(r) = Busy(s)
    BY <2>3 DEF Now, Busy
  <2>5. ChainOK(r)
    BY <1>5, <2>3, <2>4 DEF SideOK, ChainOK
  <2>6. Pruned(r) = r
    <3>1. \A c \in Chains : (IF c # r.chain /\ c \in Busy(r) /\ Hung(r, Head(r.jobs[c])) THEN <<>>
                             ELSE r.jobs[c]) = r.jobs[c]
      BY <2>5 DEF ChainOK
    <3> DEFINE left == [c \in Chains |->
                 IF c # r.chain /\ c \in Busy(r) /\ Hung(r, Head(r.jobs[c])) THEN <<>>
                 ELSE r.jobs[c]]
    <3>2. left = r.jobs
      BY <2>3, <3>1 DEF Managers
    <3>3. Pruned(r) = [r EXCEPT !.jobs = left]
      BY <2>3 DEF Pruned, Managers
    <3> HIDE DEF left
    <3> QED BY <2>3, <3>2, <3>3 DEF Managers
  <2>7. HeadOK(r)
    <3>1. SUFFICES ASSUME Now(s) # <<>> PROVE TaskOK(r, Head(Now(s)))
      BY <2>4 DEF HeadOK
    <3>2. TaskOK(s, Head(Now(s))) /\ Head(Now(s)).pc \in Numbers
      BY <1>2, <1>5, <3>1, NowType DEF SideOK, HeadOK, TaskRecords
    <3>3. Head(Now(s)).pc # 0 => Head(Now(s)).pc \in Pcs
      BY <3>2, Bounds DEF Numbers, Pcs
    <3> QED BY <2>2, <2>3, <3>2, <3>3 DEF TaskOK, Dead, Blank
  <2>8. PcsOK(r)
    <3>1. ASSUME NEW p \in Pcs
          PROVE  ~IsOpen(r.pcs[p]) /\ r.pcs[p].sig # "building"
      <4>1. CASE p = s.cur
        BY <2>2, <2>3, <4>1 DEF IsOpen, Dead, Blank
      <4>2. CASE p # s.cur
        BY <1>5, <2>2, <2>3, <4>2, Bounds DEF SideOK, PcsOK, IsOpen
      <4> QED BY <4>1, <4>2
    <3> QED BY <1>5, <2>3, <3>1, Bounds DEF PcsOK
  <2>9. PeerOK(r)
    BY <2>3 DEF PeerOK
  <2>10. SideOK(r)
    BY <2>5, <2>7, <2>8, <2>9 DEF SideOK
  <2>11. Spare(r, Fresh(u))
    BY <1>5, <2>2, <2>3, <2>4, Bounds DEF Spare, IsOpen
  <2>12. t = Called(r, Fresh(u))
    BY <2>1, <2>6
  <2> HIDE DEF t
  <2>13. Turns(r, t) /\ t.cur = 0 /\ t.inflight \in {0, Fresh(u)}
    BY <1>5, <2>3, <2>10, <2>11, <2>12, CalledTurns, CalledOK
  <2>14. Turns(s, t)
    <3>1. \A p \in Pcs : r.pcs[p].remote \in {0, s.pcs[p].remote}
                         /\ r.pcs[p].with \in {0, s.pcs[p].with}
      BY <2>2, <2>3 DEF Dead, Blank
    <3>2. \A c \in Pcs : KnowsOf(r, c) => KnowsOf(s, c)
      BY <2>3 DEF KnowsOf
    <3> QED BY <2>4, <2>13, <3>1, <3>2, Chained
  <2>15. m' = [m EXCEPT ![u] = t]
    BY <1>3, <1>8
  <2> QED BY <1>1, <1>4, <1>5, <1>8, <2>13, <2>14, <2>15, Acts
<1> QED BY <1>6, <1>7, <1>8

-----------------------------------------------------------------------------
(* The tasks.                                                                *)

LEMMA TheChain ==
    ASSUME NEW s \in Managers, ChainOK(s), NEW c \in Busy(s)
    PROVE  /\ c = s.chain /\ s.chain \in Chains /\ s.jobs[c] = Now(s) /\ Now(s) # <<>>
           /\ Head(Now(s)) \in TaskRecords /\ s.jobs[c] \in Seq(TaskRecords)
           /\ From(s) = Head(Now(s)).from
<1>1. c = s.chain /\ s.chain \in Chains /\ s.jobs[c] # <<>> /\ s.jobs[c] = Now(s)
  BY DEF ChainOK, Busy, Managers, Now
<1> QED BY <1>1, NowType DEF From

LEMMA TheTask ==
    ASSUME NEW s \in Managers, SideOK(s), NEW c \in Busy(s)
    PROVE  /\ c = s.chain /\ s.chain \in Chains /\ s.jobs[c] = Now(s) /\ Now(s) # <<>>
           /\ Head(Now(s)) \in TaskRecords /\ TaskOK(s, Head(Now(s)))
           /\ Head(Now(s)).pc # 0 => Head(Now(s)).pc \in Pcs
           /\ s.jobs[c] \in Seq(TaskRecords) /\ From(s) = Head(Now(s)).from
           /\ (s.cur # 0 => s.cur \in Pcs)
<1>1. c = s.chain /\ s.chain \in Chains /\ s.jobs[c] # <<>> /\ s.jobs[c] = Now(s)
  BY DEF SideOK, ChainOK, Busy, Managers, Now
<1>2. Head(Now(s)) \in TaskRecords /\ TaskOK(s, Head(Now(s))) /\ Now(s) \in Seq(TaskRecords)
  BY <1>1, NowType DEF SideOK, HeadOK
<1>3. Head(Now(s)).pc # 0 => Head(Now(s)).pc \in Pcs
  BY <1>2, Bounds DEF TaskRecords, Numbers, Pcs
<1>4. s.cur # 0 => s.cur \in Pcs
  BY Bounds DEF Managers, Numbers, Pcs
<1> QED BY <1>1, <1>2, <1>3, <1>4 DEF From

LEMMA FinishedType ==
    ASSUME NEW s \in Managers, ChainOK(s), NEW c \in Busy(s)
    PROVE  LET t == Finished(s, c)
           IN  /\ t \in Managers /\ t.jobs = [s.jobs EXCEPT ![s.chain] = Tail(@)]
               /\ t.chain = s.chain /\ t.cur = s.cur /\ t.inflight = s.inflight
               /\ t.inVoice = s.inVoice /\ t.pcs = s.pcs
<1> DEFINE jobs == [s.jobs EXCEPT ![c] = Tail(@)]
<1>1. c = s.chain /\ s.jobs[c] \in Seq(TaskRecords) /\ s.jobs[c] # <<>>
  BY TheChain
<1>2. jobs \in [Chains -> Seq(TaskRecords)]
  BY <1>1 DEF Managers
<1>3. Finished(s, c) = [s EXCEPT !.jobs = jobs]
  BY DEF Finished
<1>4. jobs = [s.jobs EXCEPT ![s.chain] = Tail(@)]
  BY <1>1
<1> HIDE DEF jobs
<1> QED BY <1>2, <1>3, <1>4 DEF Managers

\* The first task goes on to "at", with the connection p; nothing else changes.
Goes(s, t, at, p) ==
    /\ t \in Managers
    /\ t.jobs = [s.jobs EXCEPT ![s.chain][1].at = at, ![s.chain][1].pc = p]
    /\ t.chain = s.chain /\ t.cur = s.cur /\ t.inflight = s.inflight
    /\ t.inVoice = s.inVoice /\ t.pcs = s.pcs
    /\ Now(t) # <<>> /\ Head(Now(t)) = [Head(Now(s)) EXCEPT !.at = at, !.pc = p]

MovedJobs(s, c, at, p) == [s.jobs EXCEPT ![c][1].at = at, ![c][1].pc = p]
WithJobs(s, jobs) == [s EXCEPT !.jobs = jobs]

LEMMA MovedIs ==
    ASSUME NEW s \in Managers, NEW c, NEW at, NEW p
    PROVE  Moved(s, c, at, p) = WithJobs(s, MovedJobs(s, c, at, p))
<1> DEFINE jobs == [s.jobs EXCEPT ![c][1].at = at, ![c][1].pc = p]
           k == [s.jobs EXCEPT ![c][1].at = at]
           r == [s EXCEPT !.jobs = k]
<1>1. r = [s EXCEPT !.jobs[c][1].at = at] /\ r.jobs = k
  BY DEF Managers
<1>2. jobs = [k EXCEPT ![c][1].pc = p]
  OBVIOUS
<1>3. Moved(s, c, at, p) = [r EXCEPT !.jobs[c][1].pc = p]
  BY <1>1 DEF Moved
<1> HIDE DEF k, jobs
<1>4. [r EXCEPT !.jobs[c][1].pc = p] = [r EXCEPT !.jobs = [k EXCEPT ![c][1].pc = p]]
  BY <1>1
<1>5. Moved(s, c, at, p) = [s EXCEPT !.jobs = jobs]
  BY <1>2, <1>3, <1>4 DEF Managers
<1> QED BY <1>5 DEF jobs, MovedJobs, WithJobs

LEMMA MovedType ==
    ASSUME NEW s \in Managers, ChainOK(s), NEW c \in Busy(s), NEW p \in Numbers,
           NEW at \in {"queued", "building", "remote", "keys", "local"},
           Head(Now(s)).kind = "propose" => p # 0
    PROVE  Goes(s, Moved(s, c, at, p), at, p)
<1> DEFINE jobs == [s.jobs EXCEPT ![c][1].at = at, ![c][1].pc = p]
           j == [Head(Now(s)) EXCEPT !.at = at, !.pc = p]
           q == [Now(s) EXCEPT ![1] = j]
<1>1. /\ c = s.chain /\ s.jobs[c] = Now(s) /\ Now(s) \in Seq(TaskRecords) /\ c \in Chains
      /\ s.jobs \in [Chains -> Seq(TaskRecords)] /\ Head(Now(s)) = Now(s)[1]
      /\ Now(s)[1] \in TaskRecords /\ 1 \in DOMAIN Now(s)
  BY TheChain, NowType DEF Managers
<1>2. j \in TaskRecords
  BY <1>1 DEF TaskRecords
<1>3. jobs = [s.jobs EXCEPT ![c] = q]
  <2>1. [Now(s)[1] EXCEPT !.at = at, !.pc = p] = [[Now(s)[1] EXCEPT !.at = at] EXCEPT !.pc = p]
    OBVIOUS
  <2> QED BY <1>1, <2>1
<1> HIDE DEF j
<1>4. q \in Seq(TaskRecords) /\ q # <<>> /\ Head(q) = j
  BY <1>1, <1>2
<1> HIDE DEF q
<1>5. jobs \in [Chains -> Seq(TaskRecords)] /\ jobs[c] = q
  BY <1>1, <1>3, <1>4, ZenonT(60)
<1>6. Moved(s, c, at, p) = [s EXCEPT !.jobs = jobs]
  <2>1. Moved(s, c, at, p) = WithJobs(s, MovedJobs(s, c, at, p))
    BY MovedIs
  <2>2. MovedJobs(s, c, at, p) = jobs
    BY DEF MovedJobs
  <2> HIDE DEF jobs
  <2> QED BY <2>1, <2>2 DEF WithJobs
<1>7. jobs = [s.jobs EXCEPT ![s.chain][1].at = at, ![s.chain][1].pc = p]
  BY <1>1
<1> HIDE DEF jobs
<1> QED BY <1>1, <1>4, <1>5, <1>6, <1>7 DEF Managers, Now, Goes, j

LEMMA FinishedTurns ==
    ASSUME NEW s \in Managers, SideOK(s), NEW c \in Busy(s),
           s.cur # 0 => s.pcs[s.cur].sig # "offered" /\ s.pcs[s.cur].with \in {0, s.pcs[s.cur].remote}
    PROVE  Turns(s, Finished(s, c))
<1> DEFINE t == Finished(s, c)
<1>1. /\ t \in Managers /\ t.jobs = [s.jobs EXCEPT ![s.chain] = Tail(@)]
      /\ t.chain = s.chain /\ t.cur = s.cur /\ t.inflight = s.inflight
      /\ t.inVoice = s.inVoice /\ t.pcs = s.pcs
  BY FinishedType DEF SideOK
<1> HIDE DEF t
<1>2. Now(s) # <<>>
  BY TheTask
<1>3. \A p \in Pcs : /\ IsOpen(t.pcs[p]) = IsOpen(s.pcs[p])
                     /\ (t.pcs[p].sig = "building") = (s.pcs[p].sig = "building")
                     /\ t.pcs[p].remote \in {From(s), s.pcs[p].remote}
                     /\ t.pcs[p].with \in {From(s), s.pcs[p].with}
  BY <1>1
<1>4. Turns(s, t)
  BY <1>1, <1>2, <1>3, DoneTurns, ZenonT(60)
<1> QED BY <1>4 DEF t

\* While a task is yet to begin no description is being applied.
LEMMA Queued ==
    ASSUME NEW s, SideOK(s), Head(Now(s)).at = "queued", s.cur # 0
    PROVE  /\ s.pcs[s.cur].sig \in {"stable", "offering"}
           /\ s.pcs[s.cur].with \in {0, s.pcs[s.cur].remote}
  BY DEF SideOK, PeerOK, AtWork, PcsOK, IsOpen

LEMMA BeginProposeSteps ==
    ASSUME Base, NEW u \in Sides, NEW c \in Busy(m[u]), BeginPropose(u, c)
    PROVE  Steps(u) /\ m'[u].cur = m[u].cur
<1> DEFINE s == m[u]
           j == Head(Now(s))
           t == Moved(s, c, "keys", j.pc)
<1>1. s \in Managers /\ SideOK(s) /\ m \in [Sides -> Managers]
  BY Manager DEF Base, TypeOK
<1>2. /\ c = s.chain /\ s.jobs[c] = Now(s) /\ Now(s) # <<>>
      /\ j \in TaskRecords /\ TaskOK(s, j) /\ (j.pc # 0 => j.pc \in Pcs)
  BY <1>1, TheTask
<1>3. j.at = "queued" /\ j.kind = "propose" /\ j.pc \in Pcs
  BY <1>2 DEF BeginPropose, At, TaskRecords
<1>4. CASE s.cur = j.pc
  <2>1. m' = [m EXCEPT ![u] = t]
    BY <1>2, <1>4 DEF BeginPropose
  <2>2. /\ t \in Managers
        /\ t.jobs = [s.jobs EXCEPT ![s.chain][1].at = "keys", ![s.chain][1].pc = j.pc]
        /\ t.chain = s.chain /\ t.cur = s.cur /\ t.inflight = s.inflight
        /\ t.inVoice = s.inVoice /\ t.pcs = s.pcs
        /\ Now(t) # <<>> /\ Head(Now(t)) = [j EXCEPT !.at = "keys", !.pc = j.pc]
    <3>1. ChainOK(s) /\ j.pc \in Numbers /\ j.pc # 0
      BY <1>1, <1>3, Bounds DEF SideOK
    <3>2. Goes(s, t, "keys", j.pc)
      BY <1>1, <3>1, MovedType
    <3> QED BY <3>2 DEF Goes
  <2> HIDE DEF t
  <2>3. PcsOK(t)
    BY <1>1, <2>2, SMTT(30) DEF SideOK, PcsOK
  <2>4. Head(Now(t)).kind = "propose" /\ Head(Now(t)).at = "keys"
    BY <1>2, <1>3, <2>2 DEF TaskRecords
  <2>5. PeerOK(t)
    BY <1>1, <1>3, <2>2, <2>4, Queued DEF PeerOK, AtWork
  <2>6. Learns(s, t)
    BY <2>2 DEF Learns, KnowsOf
  <2>7. TaskOK(t, [j EXCEPT !.at = "keys", !.pc = j.pc])
    BY <1>2, <1>3, <1>4, <2>2, Bounds DEF TaskOK, TaskRecords
  <2>8. Turns(s, t)
    BY <1>1, <1>2, <2>2, <2>3, <2>5, <2>6, <2>7, WorkTurns
  <2>9. m'[u] = t
    BY <1>1, <2>1
  <2> QED BY <2>1, <2>2, <2>8, <2>9, Acts
<1>5. CASE s.cur # j.pc
  <2>1. m' = [m EXCEPT ![u] = Finished(s, c)]
    BY <1>2, <1>5 DEF BeginPropose
  <2>2. Turns(s, Finished(s, c)) /\ Finished(s, c).cur = s.cur /\ Finished(s, c).inflight = s.inflight
    BY <1>1, <1>3, Queued, FinishedTurns, FinishedType DEF SideOK
  <2>3. m'[u] = Finished(s, c)
    BY <1>1, <2>1
  <2> QED BY <2>1, <2>2, <2>3, Acts
<1> QED BY <1>4, <1>5

\* A description is put to the connection that stands.
LEMMA Told ==
    ASSUME NEW s \in Managers, SideOK(s), NEW c \in Busy(s), s.cur # 0,
           Head(Now(s)).at = "queued", Head(Now(s)).kind \in {"offer", "answer"},
           Head(Now(s)).kind = "offer" => s.pcs[s.cur].with \in {0, Head(Now(s)).from},
           Head(Now(s)).kind = "answer" => s.pcs[s.cur].sig # "stable",
           NEW h, h = [s EXCEPT !.pcs[s.cur].remote = Head(Now(s)).from]
    PROVE  /\ Turns(s, Moved(h, c, "remote", s.cur)) /\ Moved(h, c, "remote", s.cur).cur = s.cur
           /\ Moved(h, c, "remote", s.cur).inflight = s.inflight
           /\ Head(Now(s)).kind = "offer" =>
                /\ Turns(s, Finished(h, c)) /\ Finished(h, c).cur = s.cur
                /\ Finished(h, c).inflight = s.inflight
<1> DEFINE j == Head(Now(s))
           p == s.cur
           pc == [s.pcs[p] EXCEPT !.remote = j.from]
           t == Moved(h, c, "remote", p)
           f == Finished(h, c)
<1>1. /\ c = s.chain /\ s.jobs[c] = Now(s) /\ Now(s) # <<>>
      /\ j \in TaskRecords /\ TaskOK(s, j) /\ p \in Pcs /\ From(s) = j.from
      /\ s.pcs[p] \in PcRecords /\ s.pcs \in [Pcs -> PcRecords]
  BY TheTask DEF Managers
<1>2. pc \in PcRecords /\ pc.sig = s.pcs[p].sig /\ pc.remote = j.from
      /\ pc.with = s.pcs[p].with
  BY <1>1 DEF PcRecords, TaskRecords
<1>3. h = [s EXCEPT !.pcs[p] = pc]
  BY <1>1 DEF Managers
<1>4. j.at = "queued" /\ s.pcs[p].sig \in {"stable", "offering"}
  BY Queued
<1>5. p \in Numbers /\ p # 0
  BY <1>1, Bounds
<1> HIDE DEF pc
<1>6. /\ h \in Managers /\ h.jobs = s.jobs /\ h.chain = s.chain /\ h.cur = s.cur
      /\ h.inflight = s.inflight /\ h.inVoice = s.inVoice /\ h.pcs[p] = pc
      /\ \A q \in Pcs : q # p => h.pcs[q] = s.pcs[q]
  <2> DEFINE pcs == [s.pcs EXCEPT ![p] = pc]
  <2>1. pcs \in [Pcs -> PcRecords] /\ pcs[p] = pc /\ \A q \in Pcs : q # p => pcs[q] = s.pcs[q]
    BY <1>1, <1>2
  <2>2. h = [s EXCEPT !.pcs = pcs]
    BY <1>3
  <2> HIDE DEF pcs
  <2> QED BY <2>1, <2>2 DEF Managers
<1>7. Now(h) = Now(s) /\ Busy(h) = Busy(s)
  BY <1>6 DEF Now, Busy
<1>8. ChainOK(h) /\ c \in Busy(h)
  BY <1>6, <1>7 DEF SideOK, ChainOK
<1>9. Turns(s, t) /\ t.cur = p /\ t.inflight = s.inflight
  <2>1. /\ t \in Managers
        /\ t.jobs = [h.jobs EXCEPT ![h.chain][1].at = "remote", ![h.chain][1].pc = p]
        /\ t.chain = h.chain /\ t.cur = h.cur /\ t.inflight = h.inflight
        /\ t.inVoice = h.inVoice /\ t.pcs = h.pcs
        /\ Now(t) # <<>> /\ Head(Now(t)) = [j EXCEPT !.at = "remote", !.pc = p]
    <3>1. Head(Now(h)).kind = "propose" => p # 0
      BY <1>5
    <3>2. Goes(h, t, "remote", p)
      BY <1>5, <1>6, <1>8, <3>1, MovedType
    <3> QED BY <1>7, <3>2 DEF Goes
  <2> HIDE DEF t
  <2>2. t.jobs = [s.jobs EXCEPT ![s.chain][1].at = "remote", ![s.chain][1].pc = p]
    BY <1>6, <2>1
  <2>3. t.chain = s.chain /\ t.cur = p /\ t.inflight = s.inflight /\ t.inVoice = s.inVoice
        /\ t.pcs[p] = pc /\ \A q \in Pcs : q # p => t.pcs[q] = s.pcs[q]
    BY <1>6, <2>1
  <2>4. PcsOK(t)
    BY <1>1, <1>2, <2>3 DEF SideOK, PcsOK, IsOpen
  <2>5. Head(Now(t)).kind = j.kind /\ Head(Now(t)).at = "remote" /\ Head(Now(t)).from = j.from
    BY <1>1, <2>1 DEF TaskRecords
  <2>6. PeerOK(t)
    <3>1. j.kind = "offer" => pc.with \in {0, pc.remote}
      BY <1>2
    <3>2. j.kind = "answer" => pc.sig = "offering" /\ AtWork(t, "answer", "remote")
      BY <1>1, <1>2, <1>4, <2>1, <2>3, <2>5 DEF AtWork, TaskRecords
    <3> QED BY <1>2, <1>4, <2>3, <2>5, <3>1, <3>2 DEF PeerOK, AtWork
  <2>7. Learns(s, t)
    BY <1>1, <1>2, <2>3 DEF Learns, KnowsOf
  <2>8. TaskOK(t, [j EXCEPT !.at = "remote", !.pc = p])
    BY <1>1, <1>5, <2>3 DEF TaskOK, TaskRecords
  <2>9. Turns(s, t)
    BY <1>1, <2>1, <2>2, <2>3, <2>4, <2>6, <2>7, <2>8, WorkTurns
  <2> QED BY <2>3, <2>9
<1>10. ASSUME j.kind = "offer"
       PROVE  Turns(s, f) /\ f.cur = s.cur /\ f.inflight = s.inflight
  <2>1. /\ f \in Managers /\ f.jobs = [h.jobs EXCEPT ![h.chain] = Tail(@)]
        /\ f.chain = h.chain /\ f.cur = h.cur /\ f.inflight = h.inflight
        /\ f.inVoice = h.inVoice /\ f.pcs = h.pcs
    BY <1>6, <1>8, FinishedType
  <2> HIDE DEF f
  <2>2. f.jobs = [s.jobs EXCEPT ![s.chain] = Tail(@)]
    BY <1>6, <2>1
  <2>3. f.chain = s.chain /\ f.cur = p /\ f.inflight = s.inflight /\ f.inVoice = s.inVoice
        /\ f.pcs[p] = pc /\ \A q \in Pcs : q # p => f.pcs[q] = s.pcs[q]
    BY <1>6, <2>1
  <2>4. \A q \in Pcs : /\ IsOpen(f.pcs[q]) = IsOpen(s.pcs[q])
                       /\ (f.pcs[q].sig = "building") = (s.pcs[q].sig = "building")
                       /\ f.pcs[q].remote \in {From(s), s.pcs[q].remote}
                       /\ f.pcs[q].with \in {From(s), s.pcs[q].with}
    BY <1>1, <1>2, <2>3 DEF IsOpen
  <2>5. f.pcs[s.cur].sig # "offered" /\ f.pcs[s.cur].with \in {0, f.pcs[s.cur].remote}
    BY <1>2, <1>4, <1>10, <2>3
  <2>6. Turns(s, f)
    BY <1>1, <2>1, <2>2, <2>3, <2>4, <2>5, DoneTurns
  <2> QED BY <2>3, <2>6
<1> QED BY <1>9, <1>10

LEMMA BeginAnswerSteps ==
    ASSUME Base, NEW u \in Sides, NEW c \in Busy(m[u]), BeginAnswer(u, c)
    PROVE  Steps(u) /\ m'[u].cur = m[u].cur
<1> DEFINE s == m[u]
           j == Head(Now(s))
           drop == ~s.inVoice \/ s.cur = 0 \/ j.to # s.cur \/ s.pcs[s.cur].sig = "stable"
           h == [s EXCEPT !.pcs[s.cur].remote = j.from]
<1>1. s \in Managers /\ SideOK(s) /\ m \in [Sides -> Managers]
  BY Manager DEF Base, TypeOK
<1>2. /\ c = s.chain /\ s.jobs[c] = Now(s) /\ Now(s) # <<>> /\ j \in TaskRecords
  BY <1>1, TheTask
<1>3. j.at = "queued" /\ j.kind = "answer"
  BY <1>2 DEF BeginAnswer, At
<1>4. m' = [m EXCEPT ![u] = IF drop THEN Finished(s, c)
                            ELSE [Moved(s, c, "remote", s.cur) EXCEPT !.pcs[s.cur].remote = j.from]]
  BY <1>2 DEF BeginAnswer
<1>5. CASE drop
  <2>1. m' = [m EXCEPT ![u] = Finished(s, c)]
    BY <1>4, <1>5
  <2>2. Turns(s, Finished(s, c)) /\ Finished(s, c).cur = s.cur /\ Finished(s, c).inflight = s.inflight
    BY <1>1, <1>3, Queued, FinishedTurns, FinishedType DEF SideOK
  <2>3. m'[u] = Finished(s, c)
    BY <1>1, <2>1
  <2> QED BY <2>1, <2>2, <2>3, Acts
<1>6. CASE ~drop
  <2> DEFINE t == Moved(h, c, "remote", s.cur)
  <2>1. s.cur # 0 /\ s.pcs[s.cur].sig # "stable"
    BY <1>6
  <2>2. [Moved(s, c, "remote", s.cur) EXCEPT !.pcs[s.cur].remote = j.from] = t
    <3> DEFINE jobs == MovedJobs(s, c, "remote", s.cur)
               pcs == [s.pcs EXCEPT ![s.cur].remote = j.from]
    <3>1. h = [s EXCEPT !.pcs = pcs]
      OBVIOUS
    <3>2. pcs \in [Pcs -> PcRecords]
      <4>1. s.cur \in Pcs /\ s.pcs[s.cur] \in PcRecords /\ j.from \in Numbers
        <5>1. s.cur \in Pcs
          BY <2>1, Manager
        <5>2. s.pcs[s.cur] \in PcRecords
          BY <1>1, <5>1 DEF Managers
        <5>3. j.from \in Numbers
          BY <1>2, TaskFields
        <5> QED BY <5>1, <5>2, <5>3
      <4>2. [s.pcs[s.cur] EXCEPT !.remote = j.from] \in PcRecords
        BY <4>1 DEF PcRecords
      <4> QED BY <1>1, <4>1, <4>2 DEF Managers
    <3> HIDE DEF pcs
    <3>3. h \in Managers /\ h.jobs = s.jobs
      BY <1>1, <3>1, <3>2 DEF Managers
    <3>4. MovedJobs(h, c, "remote", s.cur) = jobs
      BY <3>3 DEF MovedJobs
    <3>5. t = WithJobs(h, jobs) /\ Moved(s, c, "remote", s.cur) = WithJobs(s, jobs)
      BY <1>1, <3>3, <3>4, MovedIs
    <3> HIDE DEF jobs
    <3> QED BY <1>1, <3>1, <3>5 DEF Managers, WithJobs, pcs
  <2>3. m' = [m EXCEPT ![u] = t]
    BY <1>4, <1>6, <2>2
  <2>4. Turns(s, t) /\ t.cur = s.cur /\ t.inflight = s.inflight
    BY <1>1, <1>3, <2>1, Told
  <2> HIDE DEF t
  <2>5. m'[u] = t
    BY <1>1, <2>3
  <2> QED BY <2>3, <2>4, <2>5, Acts
<1> QED BY <1>5, <1>6

LEMMA KeysReadySteps ==
    ASSUME Base, NEW u \in Sides, NEW c \in Busy(m[u]), KeysReady(u, c)
    PROVE  Steps(u) /\ m'[u].cur = m[u].cur
<1> DEFINE s == m[u]
           j == Head(Now(s))
           may == IF j.kind = "propose" THEN s.pcs[j.pc].sig = "stable" ELSE IsOpen(s.pcs[j.pc])
           t == Moved(s, c, "local", j.pc)
<1>1. s \in Managers /\ SideOK(s) /\ m \in [Sides -> Managers]
  BY Manager DEF Base, TypeOK
<1>2. /\ c = s.chain /\ s.jobs[c] = Now(s) /\ Now(s) # <<>>
      /\ j \in TaskRecords /\ TaskOK(s, j) /\ (j.pc # 0 => j.pc \in Pcs) /\ (s.cur # 0 => s.cur \in Pcs)
  BY <1>1, TheTask
<1>3. j.at = "keys" /\ j.kind \in {"offer", "propose"} /\ j.pc \in Pcs /\ j.pc \in Numbers /\ j.pc # 0
      /\ (j.pc = s.cur \/ s.pcs[j.pc].sig = "closed")
  BY <1>2, Bounds DEF KeysReady, At, TaskOK
<1>4. m' = [m EXCEPT ![u] = IF may THEN t ELSE Finished(s, c)]
  BY <1>2 DEF KeysReady
<1>5. CASE may
  <2>1. m' = [m EXCEPT ![u] = t]
    BY <1>4, <1>5
  <2>2. j.pc = s.cur
    BY <1>3, <1>5 DEF IsOpen
  <2>3. Goes(s, t, "local", j.pc)
    BY <1>1, <1>3, MovedType DEF SideOK
  <2> HIDE DEF t
  <2>4. PcsOK(t)
    BY <1>1, <2>3, SMTT(30) DEF SideOK, PcsOK, Goes
  <2>5. Head(Now(t)).kind = j.kind /\ Head(Now(t)).at = "local" /\ Head(Now(t)).pc = j.pc
    BY <1>2, <2>3 DEF TaskRecords, Goes
  <2>6. PeerOK(t)
    BY <1>1, <1>3, <2>2, <2>3, <2>5 DEF SideOK, PeerOK, AtWork, Goes
  <2>7. Learns(s, t)
    BY <2>3 DEF Learns, KnowsOf, Goes
  <2>8. TaskOK(t, [j EXCEPT !.at = "local", !.pc = j.pc])
    BY <1>2, <1>3, <2>2, <2>3 DEF TaskOK, TaskRecords, Goes
  <2>9. Turns(s, t)
    BY <1>1, <1>2, <2>3, <2>4, <2>6, <2>7, <2>8, WorkTurns DEF Goes
  <2>10. m'[u] = t
    BY <1>1, <2>1
  <2> QED BY <2>1, <2>3, <2>9, <2>10, Acts DEF Goes
<1>6. CASE ~may
  <2>1. m' = [m EXCEPT ![u] = Finished(s, c)]
    BY <1>4, <1>6
  <2>2. s.cur # 0 => s.pcs[s.cur].sig # "offered" /\ s.pcs[s.cur].with \in {0, s.pcs[s.cur].remote}
    BY <1>1, <1>3, <1>6 DEF SideOK, PeerOK, AtWork, PcsOK
  <2>3. Turns(s, Finished(s, c)) /\ Finished(s, c).cur = s.cur /\ Finished(s, c).inflight = s.inflight
    BY <1>1, <2>2, FinishedTurns, FinishedType DEF SideOK
  <2>4. m'[u] = Finished(s, c)
    BY <1>1, <2>1
  <2> QED BY <2>1, <2>3, <2>4, Acts
<1> QED BY <1>5, <1>6

\* A task is added to the chain.
LEMMA EnqueuedOK ==
    ASSUME NEW s \in Managers, SideOK(s), NEW j \in TaskRecords, j.at = "queued"
    PROVE  LET t == Enqueued(s, j)
           IN  /\ t \in Managers /\ SideOK(t) /\ Now(t) = Append(Now(s), j) /\ t.cur = s.cur
               /\ t.inflight = s.inflight /\ t.pcs = s.pcs
<1> DEFINE jobs == [s.jobs EXCEPT ![s.chain] = Append(@, j)]
           t == Enqueued(s, j)
<1>1. Now(s) \in Seq(TaskRecords) /\ s.chain \in Chains /\ s.jobs \in [Chains -> Seq(TaskRecords)]
  BY NowType DEF Managers
<1>2. jobs \in [Chains -> Seq(TaskRecords)] /\ jobs[s.chain] = Append(Now(s), j)
      /\ \A c \in Chains : c # s.chain => jobs[c] = s.jobs[c]
  BY <1>1 DEF Now
<1>3. t = [s EXCEPT !.jobs = jobs]
  BY DEF Enqueued
<1> HIDE DEF jobs, t
<1>4. /\ t \in Managers /\ t.cur = s.cur /\ t.inflight = s.inflight /\ t.inVoice = s.inVoice
      /\ t.pcs = s.pcs /\ t.chain = s.chain /\ t.jobs = jobs
  BY <1>2, <1>3 DEF Managers
<1>5. Now(t) = Append(Now(s), j)
  BY <1>2, <1>4 DEF Now
<1>6. /\ DOMAIN Now(t) = 1 .. Len(Now(s)) + 1 /\ Now(t)[Len(Now(s)) + 1] = j
      /\ DOMAIN Now(s) = 1 .. Len(Now(s)) /\ Len(Now(s)) \in Nat
      /\ \A i \in DOMAIN Now(s) : Now(t)[i] = Now(s)[i]
      /\ Now(s) # <<>> => Head(Now(t)) = Head(Now(s)) /\ Now(t) # <<>>
      /\ Now(s) = <<>> => Head(Now(t)) = j
  BY <1>1, <1>5
<1>7. ChainOK(t)
  <2>1. \A c \in Busy(t) : c = t.chain
    BY <1>2, <1>4 DEF SideOK, ChainOK, Busy
  <2>2. ASSUME NEW i \in DOMAIN Now(t), i # 1
        PROVE  Now(t)[i].at = "queued"
    <3>1. i = Len(Now(s)) + 1 \/ i \in DOMAIN Now(s)
      BY <1>6, <2>2
    <3> QED BY <1>6, <2>2, <3>1 DEF SideOK, ChainOK
  <2> QED BY <2>1, <2>2 DEF ChainOK
<1>8. HeadOK(t)
  <2>1. CASE Now(s) = <<>>
    BY <1>6, <2>1 DEF HeadOK, TaskOK
  <2>2. CASE Now(s) # <<>>
    BY <1>4, <1>6, <2>2 DEF SideOK, HeadOK, TaskOK
  <2> QED BY <2>1, <2>2
<1>9. PcsOK(t)
  BY <1>4 DEF SideOK, PcsOK
<1>10. PeerOK(t)
  <2>1. ASSUME NEW kind, NEW at, at # "queued"
        PROVE  AtWork(t, kind, at) = AtWork(s, kind, at)
    BY <1>4, <1>6, <2>1 DEF AtWork
  <2>2. CASE Now(s) = <<>>
    <3>1. ~AtWork(s, "offer", "keys") /\ ~AtWork(s, "offer", "local") /\ ~AtWork(s, "offer", "remote")
          /\ ~AtWork(s, "answer", "remote")
      BY <2>2 DEF AtWork
    <3> QED BY <1>4, <2>1, <3>1 DEF SideOK, PeerOK
  <2>3. CASE Now(s) # <<>>
    BY <1>4, <1>6, <2>1, <2>3 DEF SideOK, PeerOK
  <2> QED BY <2>2, <2>3
<1> QED BY <1>4, <1>5, <1>7, <1>8, <1>9, <1>10 DEF SideOK, t

LEMMA NegotiationNeededSteps ==
    ASSUME Base, NEW u \in Sides, NegotiationNeeded(u)
    PROVE  Steps(u) /\ m'[u].cur = m[u].cur
<1> DEFINE s == m[u]
<1>1. PICK p \in Pcs :
        m' = [m EXCEPT ![u] = [Enqueued(s, Task("propose", p, 0, 0, 0)) EXCEPT !.pcs[p].asked = TRUE]]
  BY DEF NegotiationNeeded
<1>2. s \in Managers /\ SideOK(s) /\ m \in [Sides -> Managers] /\ s.pcs[p] \in PcRecords
      /\ p \in Numbers /\ p # 0
  <2>1. s \in Managers /\ SideOK(s)
    BY Manager
  <2>2. m \in [Sides -> Managers]
    BY DEF Base, TypeOK
  <2>3. s.pcs[p] \in PcRecords
    BY <2>1 DEF Managers
  <2>4. p \in Numbers /\ p # 0
    BY Bounds
  <2> QED BY <2>1, <2>2, <2>3, <2>4
<1> DEFINE j == Task("propose", p, 0, 0, 0)
           pc == [s.pcs[p] EXCEPT !.asked = TRUE]
           r == [s EXCEPT !.pcs[p] = pc]
           t == Enqueued(r, j)
<1>3. j \in TaskRecords /\ j.kind = "propose" /\ j.from = 0 /\ j.at = "queued"
  BY <1>2, Bounds DEF Task, TaskRecords
<1> HIDE DEF j
<1>4. [Enqueued(s, j) EXCEPT !.pcs[p].asked = TRUE] = t
  BY <1>2 DEF Enqueued, Managers
<1>5. m' = [m EXCEPT ![u] = t]
  BY <1>1, <1>4 DEF j
<1>6. pc \in PcRecords /\ pc.sig = s.pcs[p].sig /\ pc.remote = s.pcs[p].remote
      /\ pc.with = s.pcs[p].with
  BY <1>2 DEF PcRecords
<1> HIDE DEF pc
<1>7. r \in Managers /\ Alike(s, r)
  BY <1>2, <1>6, PcAlike
<1> HIDE DEF r
<1>8. SideOK(r) /\ \A x : Turns(r, x) => Turns(s, x)
  BY <1>2, <1>7, SameSide
<1>9. /\ t \in Managers /\ SideOK(t) /\ Now(t) = Append(Now(r), j) /\ t.cur = r.cur
      /\ t.inflight = r.inflight /\ t.pcs = r.pcs
  BY <1>3, <1>7, <1>8, EnqueuedOK
<1> HIDE DEF t
<1>10. Learns(r, t)
  BY <1>9 DEF Learns, KnowsOf
<1>11. Shifts(r, t)
  BY <1>3, <1>9 DEF Shifts
<1>12. Turns(s, t)
  BY <1>8, <1>9, <1>10, <1>11 DEF Turns
<1>13. t.cur = s.cur /\ t.inflight = s.inflight
  BY <1>7, <1>9 DEF Alike
<1>14. m'[u] = t
  BY <1>2, <1>5
<1> QED BY <1>5, <1>12, <1>13, <1>14, Acts

LEMMA ApplyOfferSteps ==
    ASSUME Base, NEW u \in Sides, NEW c \in Busy(m[u]), ApplyOffer(u, c)
    PROVE  Steps(u) /\ m'[u].cur = m[u].cur
<1> DEFINE s == m[u]
           j == Head(Now(s))
           p == s.cur
           g == Moved(s, c, "keys", p)
           need == s.pcs[p].need \/ s.pcs[p].sig = "offering"
           pc == [s.pcs[p] EXCEPT !.sig = "offered", !.with = j.from, !.asked = FALSE, !.need = need]
           pcs == [s.pcs EXCEPT ![p] = pc]
           t == [g EXCEPT !.rebuilds = 0, !.pcs = pcs]
<1>1. s \in Managers /\ SideOK(s) /\ m \in [Sides -> Managers]
  BY Manager DEF Base, TypeOK
<1>2. /\ c = s.chain /\ s.jobs[c] = Now(s) /\ Now(s) # <<>> /\ j \in TaskRecords
      /\ TaskOK(s, j) /\ (p # 0 => p \in Pcs) /\ From(s) = j.from
  BY <1>1, TheTask
<1>3. j.at = "remote" /\ j.kind = "offer" /\ j.pc = p /\ p \in Pcs /\ IsOpen(s.pcs[p])
  BY <1>2 DEF ApplyOffer, At, TaskOK, IsOpen
<1>4. s.pcs[p] \in PcRecords /\ s.pcs \in [Pcs -> PcRecords] /\ p \in Numbers /\ p # 0
  BY <1>1, <1>3, Bounds DEF Managers
<1>5. Goes(s, g, "keys", p)
  BY <1>1, <1>4, MovedType DEF SideOK
<1>6. m' = [m EXCEPT ![u] = t]
  <2> DEFINE i == Head(s.jobs[c])
  <2>1. m' = [m EXCEPT ![u] = [Moved(s, c, "keys", i.pc) EXCEPT !.rebuilds = 0,
                !.pcs[i.pc] = [s.pcs[i.pc] EXCEPT !.sig = "offered", !.with = i.from,
                   !.asked = FALSE, !.need = s.pcs[i.pc].need \/ s.pcs[i.pc].sig = "offering"]]]
    BY DEF ApplyOffer
  <2>2. i = j
    BY <1>2
  <2>3. m' = [m EXCEPT ![u] = [g EXCEPT !.rebuilds = 0, !.pcs[p] = pc]]
    <3> HIDE DEF i, j
    <3> QED BY <1>3, <2>1, <2>2
  <2>4. g \in Managers /\ g.pcs = s.pcs
    BY <1>5 DEF Goes
  <2> HIDE DEF g, pc
  <2>5. [g EXCEPT !.rebuilds = 0, !.pcs[p] = pc] = t
    BY <2>4 DEF Managers
  <2> QED BY <2>3, <2>5
<1>7. pc \in PcRecords /\ pc.sig = "offered" /\ pc.remote = s.pcs[p].remote /\ pc.with = j.from
  <2>1. need \in BOOLEAN
    OBVIOUS
  <2> HIDE DEF need
  <2> QED BY <1>2, <1>4, <2>1 DEF PcRecords, TaskRecords
<1> HIDE DEF g, pc
<1>8. pcs \in [Pcs -> PcRecords] /\ pcs[p] = pc /\ \A q \in Pcs : q # p => pcs[q] = s.pcs[q]
  BY <1>3, <1>4, <1>7
<1> HIDE DEF pcs
<1>9. /\ t \in Managers /\ t.jobs = g.jobs /\ t.chain = s.chain /\ t.cur = p
      /\ t.inflight = s.inflight /\ t.inVoice = s.inVoice /\ t.pcs = pcs
  BY <1>5, <1>8 DEF Managers, Goes
<1> HIDE DEF t
<1>10. Head(Now(t)).kind = "offer" /\ Head(Now(t)).at = "keys" /\ Head(Now(t)).pc = p /\ Now(t) # <<>>
  <2>1. Now(t) = Now(g)
    BY <1>5, <1>9 DEF Now, Goes
  <2> QED BY <1>2, <1>3, <1>5, <2>1, ZenonT(60) DEF TaskRecords, Goes
<1>11. PcsOK(t)
  BY <1>1, <1>3, <1>7, <1>8, <1>9 DEF SideOK, PcsOK, IsOpen
<1>12. PeerOK(t)
  <2>1. s.pcs[p].remote = j.from
    BY <1>1, <1>2, <1>3, <1>4 DEF SideOK, PeerOK, AtWork
  <2> QED BY <1>7, <1>8, <1>9, <1>10, <2>1 DEF PeerOK, AtWork
<1>13. Learns(s, t)
  BY <1>2, <1>7, <1>8, <1>9 DEF Learns, KnowsOf
<1>14. TaskOK(t, [j EXCEPT !.at = "keys", !.pc = p])
  BY <1>2, <1>3, <1>4, <1>9 DEF TaskOK, TaskRecords
<1>15. t.jobs = [s.jobs EXCEPT ![s.chain][1].at = "keys", ![s.chain][1].pc = p]
  BY <1>5, <1>9 DEF Goes
<1>16. Turns(s, t)
  BY <1>1, <1>2, <1>9, <1>11, <1>12, <1>13, <1>14, <1>15, WorkTurns
<1>17. m'[u] = t
  BY <1>1, <1>6
<1> QED BY <1>6, <1>9, <1>16, <1>17, Acts

\* The manager as it is when its first task settles, and the connection that stands is pc.
Settling(s, c, pc, watch, rebuilds) ==
    [Finished(s, c) EXCEPT !.pcs = [s.pcs EXCEPT ![s.cur] = pc], !.watch = watch,
                           !.rebuilds = rebuilds]

\* The last of a task's work is on the connection that stands: pc is what it makes of it,
\* and other fields, which no task reads, may change with it.
LEMMA Settled ==
    ASSUME Base, NEW u \in Sides, NEW c \in Busy(m[u]), m[u].cur # 0, NEW pc \in PcRecords,
           NEW watch \in SUBSET Numbers, NEW rebuilds \in Nat,
           pc.sig \in {"stable", "offering"}, pc.with \in {0, pc.remote},
           pc.remote = m[u].pcs[m[u].cur].remote,
           pc.with \in {From(m[u]), m[u].pcs[m[u].cur].with},
           m' = [m EXCEPT ![u] = Settling(m[u], c, pc, watch, rebuilds)]
    PROVE  Steps(u) /\ m'[u].cur = m[u].cur
<1> DEFINE s == m[u]
           p == s.cur
           f == Finished(s, c)
           pcs == [s.pcs EXCEPT ![p] = pc]
           t == [f EXCEPT !.pcs = pcs, !.watch = watch, !.rebuilds = rebuilds]
<1>1. s \in Managers /\ SideOK(s) /\ m \in [Sides -> Managers]
  BY Manager DEF Base, TypeOK
<1>2. p \in Pcs /\ Now(s) # <<>> /\ s.pcs \in [Pcs -> PcRecords] /\ IsOpen(s.pcs[p])
  BY <1>1, TheTask DEF Managers, SideOK, PcsOK
<1>3. pcs \in [Pcs -> PcRecords] /\ pcs[p] = pc /\ \A q \in Pcs : q # p => pcs[q] = s.pcs[q]
  BY <1>2
<1>4. /\ f \in Managers /\ f.jobs = [s.jobs EXCEPT ![s.chain] = Tail(@)]
      /\ f.chain = s.chain /\ f.cur = s.cur /\ f.inflight = s.inflight
      /\ f.inVoice = s.inVoice /\ f.pcs = s.pcs
  BY <1>1, FinishedType DEF SideOK
<1>5. m' = [m EXCEPT ![u] = t]
  BY DEF Settling
<1> HIDE DEF f, pcs
<1>6. /\ t \in Managers /\ t.jobs = f.jobs /\ t.chain = s.chain /\ t.cur = p
      /\ t.inflight = s.inflight /\ t.inVoice = s.inVoice /\ t.pcs = pcs
  BY <1>3, <1>4 DEF Managers
<1> HIDE DEF t
<1>7. \A q \in Pcs : /\ IsOpen(t.pcs[q]) = IsOpen(s.pcs[q])
                     /\ (t.pcs[q].sig = "building") = (s.pcs[q].sig = "building")
                     /\ t.pcs[q].remote \in {From(s), s.pcs[q].remote}
                     /\ t.pcs[q].with \in {From(s), s.pcs[q].with}
  BY <1>2, <1>3, <1>6 DEF IsOpen
<1>8. t.pcs[s.cur].sig # "offered" /\ t.pcs[s.cur].with \in {0, t.pcs[s.cur].remote}
  BY <1>3, <1>6
<1>9. t.jobs = [s.jobs EXCEPT ![s.chain] = Tail(@)]
  BY <1>4, <1>6
<1>10. Turns(s, t)
  BY <1>1, <1>2, <1>6, <1>7, <1>8, <1>9, DoneTurns
<1>11. m'[u] = t
  BY <1>1, <1>5
<1> QED BY <1>5, <1>6, <1>10, <1>11, Acts

LEMMA ApplyAnswerSteps ==
    ASSUME Base, NEW u \in Sides, NEW c \in Busy(m[u]), ApplyAnswer(u, c)
    PROVE  Steps(u) /\ m'[u].cur = m[u].cur
<1> DEFINE s == m[u]
           j == Head(Now(s))
           p == s.cur
           f == Finished(s, c)
<1>1. s \in Managers /\ SideOK(s) /\ m \in [Sides -> Managers]
  BY Manager DEF Base, TypeOK
<1>2. /\ c = s.chain /\ s.jobs[c] = Now(s) /\ Now(s) # <<>> /\ j \in TaskRecords
      /\ TaskOK(s, j) /\ (p # 0 => p \in Pcs) /\ From(s) = j.from
  BY <1>1, TheTask
<1>3. j.at = "remote" /\ j.kind = "answer" /\ j.pc = p /\ p \in Pcs /\ IsOpen(s.pcs[p])
  BY <1>2 DEF ApplyAnswer, At, TaskOK, IsOpen
<1>4. s.pcs[p] \in PcRecords /\ s.pcs \in [Pcs -> PcRecords] /\ p # 0 /\ s.watch \in SUBSET Numbers
  BY <1>1, <1>3, Bounds DEF Managers
<1>5. s.pcs[p].sig = "offering" /\ s.pcs[p].remote = j.from
  BY <1>1, <1>2, <1>3, <1>4 DEF SideOK, PeerOK, AtWork
<1>6. PICK conn \in Revived(s.pcs[p]) :
        m' = [m EXCEPT ![u] = [f EXCEPT !.rebuilds = 0,
                !.pcs[p] = [s.pcs[p] EXCEPT !.sig = "stable", !.with = j.from,
                              !.asked = FALSE, !.conn = conn]]]
  <2> DEFINE i == Head(s.jobs[c])
  <2>1. \E conn \in Revived(s.pcs[i.pc]) :
          m' = [m EXCEPT ![u] =
                  IF s.pcs[i.pc].sig # "offering" THEN Armed(f)
                  ELSE [f EXCEPT !.rebuilds = 0,
                          !.pcs[i.pc] = [s.pcs[i.pc] EXCEPT !.sig = "stable", !.with = i.from,
                                           !.asked = FALSE, !.conn = conn]]]
    BY DEF ApplyAnswer
  <2>2. i = j
    BY <1>2
  <2> HIDE DEF f, i, j
  <2> QED BY <1>3, <1>5, <2>1, <2>2
<1> DEFINE pc == [s.pcs[p] EXCEPT !.sig = "stable", !.with = j.from, !.asked = FALSE, !.conn = conn]
           pcs == [s.pcs EXCEPT ![p] = pc]
<1>7. pc \in PcRecords /\ pc.sig = "stable" /\ pc.with = j.from /\ pc.remote = j.from
  BY <1>2, <1>4, <1>5 DEF PcRecords, TaskRecords, Revived
<1>8. f \in Managers /\ f.pcs = s.pcs /\ f.watch = s.watch
  <2>1. f \in Managers /\ f.pcs = s.pcs
    BY <1>1, FinishedType DEF SideOK
  <2>2. f.watch = s.watch
    BY <1>1 DEF Finished, Managers
  <2> QED BY <2>1, <2>2
<1>9. m' = [m EXCEPT ![u] = Settling(s, c, pc, s.watch, 0)]
  <2> HIDE DEF f, pc
  <2>1. [f EXCEPT !.rebuilds = 0, !.pcs[p] = pc]
          = [f EXCEPT !.pcs = [s.pcs EXCEPT ![p] = pc], !.watch = s.watch, !.rebuilds = 0]
    BY <1>8 DEF Managers
  <2> QED BY <1>6, <2>1 DEF Settling, f, pc
<1> HIDE DEF pc
<1>10. pc.with \in {0, pc.remote} /\ pc.remote = m[u].pcs[m[u].cur].remote
       /\ pc.with \in {From(m[u]), m[u].pcs[m[u].cur].with} /\ 0 \in Nat
  BY <1>2, <1>5, <1>7
<1> QED BY <1>4, <1>7, <1>9, <1>10, Settled

LEMMA SetLocalSteps ==
    ASSUME Base, NEW u \in Sides, NEW c \in Busy(m[u]), SetLocal(u, c)
    PROVE  /\ Steps(u) /\ m'[u].cur = m[u].cur
           /\ m[u].cur # 0 /\ Head(Now(m[u])).pc = m[u].cur /\ m[u].jobs[c] = Now(m[u])
<1> DEFINE s == m[u]
           j == Head(Now(s))
           p == s.cur
           f == Finished(s, c)
           asks(q) == [s.pcs[q] EXCEPT !.sig = "offering", !.need = FALSE, !.asked = FALSE,
                                       !.round = s.pcs[q].round + 1]
           offered(q) == [f EXCEPT !.pcs[q] = asks(q)]
           answers(q, need, conn) ==
             [s.pcs[q] EXCEPT !.sig = "stable", !.asked = FALSE, !.need = need, !.conn = conn]
           answered(q, need, conn) == [f EXCEPT !.pcs[q] = answers(q, need, conn)]
<1>1. s \in Managers /\ SideOK(s) /\ m \in [Sides -> Managers]
  BY Manager DEF Base, TypeOK
<1>2. /\ c = s.chain /\ s.jobs[c] = Now(s) /\ Now(s) # <<>> /\ j \in TaskRecords
      /\ TaskOK(s, j) /\ (p # 0 => p \in Pcs) /\ From(s) = j.from
  BY <1>1, TheTask
<1>3. j.at = "local" /\ j.kind \in {"offer", "propose"} /\ j.pc = p /\ p \in Pcs /\ IsOpen(s.pcs[p])
  BY <1>2 DEF SetLocal, At, TaskOK, IsOpen
<1>4. /\ s.pcs[p] \in PcRecords /\ s.pcs \in [Pcs -> PcRecords] /\ p # 0 /\ p \in Numbers
      /\ s.watch \in SUBSET Numbers /\ s.rebuilds \in Nat
  BY <1>1, <1>3, Bounds DEF Managers
<1>5. s.pcs[p].with \in {0, s.pcs[p].remote}
  BY <1>1, <1>3, <1>4 DEF SideOK, PeerOK, AtWork
<1>6. /\ f \in Managers /\ f.pcs = s.pcs /\ f.watch = s.watch /\ f.rebuilds = s.rebuilds
      /\ f.cur = s.cur
  <2>1. f \in Managers /\ f.pcs = s.pcs /\ f.cur = s.cur
    BY <1>1, FinishedType DEF SideOK
  <2>2. f.watch = s.watch /\ f.rebuilds = s.rebuilds
    BY <1>1 DEF Finished, Managers
  <2> QED BY <2>1, <2>2
<1>7. \/ m' = [m EXCEPT ![u] = offered(p)]
      \/ m' = [m EXCEPT ![u] = Armed(offered(p))]
      \/ \E need \in {FALSE, s.pcs[p].need}, conn \in Revived(s.pcs[p]) :
            m' = [m EXCEPT ![u] = answered(p, need, conn)]
  <2> DEFINE i == Head(s.jobs[c])
  <2>1. \/ m' = [m EXCEPT ![u] = IF i.kind = "offer" \/ s.cur = i.pc THEN Armed(offered(i.pc))
                                 ELSE offered(i.pc)]
        \/ \E need \in {FALSE, s.pcs[i.pc].need}, conn \in Revived(s.pcs[i.pc]) :
            m' = [m EXCEPT ![u] = answered(i.pc, need, conn)]
    BY DEF SetLocal
  <2>2. i = j
    BY <1>2
  <2>3. i.pc = p
    BY <1>3, <2>2
  <2> HIDE DEF f, i, j, offered, answered
  <2>4. CASE m' = [m EXCEPT ![u] = IF i.kind = "offer" \/ s.cur = i.pc THEN Armed(offered(i.pc))
                                   ELSE offered(i.pc)]
    BY <2>3, <2>4
  <2>5. ASSUME NEW need \in {FALSE, s.pcs[i.pc].need}, NEW conn \in Revived(s.pcs[i.pc]),
               m' = [m EXCEPT ![u] = answered(i.pc, need, conn)]
        PROVE  \E need1 \in {FALSE, s.pcs[p].need}, conn1 \in Revived(s.pcs[p]) :
                 m' = [m EXCEPT ![u] = answered(p, need1, conn1)]
    <3>1. m' = [m EXCEPT ![u] = answered(p, need, conn)] /\ need \in {FALSE, s.pcs[p].need}
          /\ conn \in Revived(s.pcs[p])
      BY <2>3, <2>5
    <3> QED BY <3>1
  <2> QED BY <2>1, <2>4, <2>5
<1>8. asks(p) \in PcRecords /\ asks(p).sig = "offering" /\ asks(p).with = s.pcs[p].with
      /\ asks(p).remote = s.pcs[p].remote
  <2> DEFINE round == s.pcs[p].round + 1
  <2>1. round \in Nat
    BY <1>4 DEF PcRecords
  <2>2. asks(p) = [s.pcs[p] EXCEPT !.sig = "offering", !.need = FALSE, !.asked = FALSE, !.round = round]
    OBVIOUS
  <2> HIDE DEF round, asks
  <2> QED BY <1>4, <2>1, <2>2, ZenonT(60) DEF PcRecords
<1> HIDE DEF asks
<1>9. CASE m' = [m EXCEPT ![u] = offered(p)]
  <2> HIDE DEF f
  <2>1. offered(p) = [f EXCEPT !.pcs = [s.pcs EXCEPT ![p] = asks(p)], !.watch = s.watch, !.rebuilds = s.rebuilds]
    BY <1>6 DEF Managers
  <2>2. m' = [m EXCEPT ![u] = Settling(s, c, asks(p), s.watch, s.rebuilds)]
    BY <1>9, <2>1 DEF Settling, f
  <2> QED BY <1>2, <1>3, <1>4, <1>5, <1>8, <2>2, Settled
<1>10. CASE m' = [m EXCEPT ![u] = Armed(offered(p))]
  <2> HIDE DEF f
  <2> DEFINE watch == IF s.watch # {} THEN s.watch ELSE {p}
  <2>1. Armed(offered(p))
          = [f EXCEPT !.pcs = [s.pcs EXCEPT ![p] = asks(p)], !.watch = watch, !.rebuilds = s.rebuilds]
    BY <1>6 DEF Managers, Armed
  <2>2. m' = [m EXCEPT ![u] = Settling(s, c, asks(p), watch, s.rebuilds)]
    BY <1>10, <2>1 DEF Settling, f
  <2>3. watch \in SUBSET Numbers
    BY <1>4
  <2> HIDE DEF watch
  <2> QED BY <1>2, <1>3, <1>4, <1>5, <1>8, <2>2, <2>3, Settled
<1>11. ASSUME NEW need \in {FALSE, s.pcs[p].need}, NEW conn \in Revived(s.pcs[p]),
              m' = [m EXCEPT ![u] = answered(p, need, conn)]
       PROVE  Steps(u) /\ m'[u].cur = m[u].cur
  <2> DEFINE pc == answers(p, need, conn)
  <2>1. need \in BOOLEAN /\ conn \in {"new", "connected", "failed"}
    BY <1>4 DEF PcRecords, Revived
  <2>2. pc \in PcRecords /\ pc.sig = "stable" /\ pc.with = s.pcs[p].with /\ pc.remote = s.pcs[p].remote
    BY <1>4, <2>1 DEF PcRecords
  <2> HIDE DEF f, answers
  <2>3. [f EXCEPT !.pcs[p] = pc]
          = [f EXCEPT !.pcs = [s.pcs EXCEPT ![p] = pc], !.watch = s.watch, !.rebuilds = s.rebuilds]
    BY <1>6 DEF Managers
  <2>4. m' = [m EXCEPT ![u] = Settling(s, c, pc, s.watch, s.rebuilds)]
    BY <1>11, <2>3 DEF Settling, f
  <2> QED BY <1>2, <1>3, <1>4, <1>5, <2>2, <2>4, Settled
<1>12. Steps(u) /\ m'[u].cur = m[u].cur
  BY <1>7, <1>9, <1>10, <1>11
<1> QED BY <1>2, <1>3, <1>4, <1>12

LEMMA BeginOfferSteps ==
    ASSUME Base, NEW u \in Sides, NEW c \in Busy(m[u]), BeginOffer(u, c)
    PROVE  /\ Steps(u)
           /\ (m[u].cur # 0 => m[u].pcs[m[u].cur].remote \in {0, Head(Now(m[u])).from})
                => m'[u].cur = m[u].cur
<1> DEFINE s == m[u]
           j == Head(Now(s))
           p == s.cur
           old == p # 0 /\ s.pcs[p].remote \notin {0, j.from}
           r == IF old THEN TornDown(s, TRUE) ELSE s
           b == Called(r, Fresh(u))
           t == Moved(b, c, "building", b.inflight)
           h == [s EXCEPT !.pcs[p].remote = j.from]
<1>1. s \in Managers /\ SideOK(s) /\ m \in [Sides -> Managers] /\ Room(u) /\ Spare(s, Fresh(u))
  BY Manager, FreshIsSpare DEF Base, TypeOK, BeginOffer
<1>2. /\ c = s.chain /\ s.jobs[c] = Now(s) /\ Now(s) # <<>> /\ j \in TaskRecords
      /\ (p # 0 => p \in Pcs)
  BY <1>1, TheTask
<1>3. j.at = "queued" /\ j.kind = "offer"
  BY <1>2 DEF BeginOffer, At
<1>4. \/ m' = [m EXCEPT ![u] = Finished(s, c)]
      \/ (old \/ p = 0) /\ m' = [m EXCEPT ![u] = t]
      \/ p # 0 /\ ~old /\ m' = [m EXCEPT ![u] = Finished(h, c)]
      \/ p # 0 /\ ~old /\ m' = [m EXCEPT ![u] = Moved(h, c, "remote", p)]
  BY <1>2 DEF BeginOffer
<1>5. CASE m' = [m EXCEPT ![u] = Finished(s, c)]
  <2>1. Turns(s, Finished(s, c)) /\ Finished(s, c).cur = s.cur /\ Finished(s, c).inflight = s.inflight
    BY <1>1, <1>3, Queued, FinishedTurns, FinishedType DEF SideOK
  <2>2. m'[u] = Finished(s, c)
    BY <1>1, <1>5
  <2> QED BY <1>5, <2>1, <2>2, Acts
<1>6. CASE p # 0 /\ ~old /\ (m' = [m EXCEPT ![u] = Finished(h, c)]
                             \/ m' = [m EXCEPT ![u] = Moved(h, c, "remote", p)])
  <2>1. s.pcs[p].with \in {0, j.from}
    BY <1>1, <1>3, <1>6, Queued
  <2>2. /\ Turns(s, Moved(h, c, "remote", p)) /\ Moved(h, c, "remote", p).cur = p
        /\ Moved(h, c, "remote", p).inflight = s.inflight
        /\ Turns(s, Finished(h, c)) /\ Finished(h, c).cur = p /\ Finished(h, c).inflight = s.inflight
    BY <1>1, <1>3, <1>6, <2>1, Told, ZenonT(60)
  <2> HIDE DEF h
  <2>3. m'[u] = Finished(h, c) \/ m'[u] = Moved(h, c, "remote", p)
    BY <1>1, <1>6
  <2>4. m'[u].cur = s.cur
    BY <2>2, <2>3
  <2>5. CASE m' = [m EXCEPT ![u] = Finished(h, c)]
    BY <2>2, <2>4, <2>5, Acts
  <2>6. CASE m' = [m EXCEPT ![u] = Moved(h, c, "remote", p)]
    BY <2>2, <2>4, <2>6, Acts
  <2> QED BY <1>6, <2>4, <2>5, <2>6
<1>7. CASE (old \/ p = 0) /\ m' = [m EXCEPT ![u] = t]
  <2>0. ASSUME old
        PROVE  KeptBy(s, r)
    <3>1. r = TornDown(s, TRUE) /\ s.inflight = 0
      BY <1>1, <2>0 DEF SideOK, PcsOK
    <3> QED BY <1>1, <1>2, <1>3, <3>1, TornDownKept
  <2>1. /\ r \in Managers /\ SideOK(r) /\ r.jobs = s.jobs /\ r.chain = s.chain /\ r.cur = 0
        /\ r.inflight \in {0, s.inflight}
        /\ \A q \in Pcs : r.pcs[q].remote \in {0, s.pcs[q].remote}
                          /\ r.pcs[q].with \in {0, s.pcs[q].with}
    <3>1. CASE ~old
      BY <1>1, <1>7, <3>1
    <3>2. CASE old
      <4> HIDE DEF r
      <4> QED BY <2>0, <3>2 DEF KeptBy, Dead, Blank
    <3> QED BY <3>1, <3>2
  <2>2. Spare(r, Fresh(u))
    <3>1. CASE ~old
      BY <1>1, <3>1
    <3>2. CASE old
      <4>1. Now(r) = Now(s)
        BY <2>1 DEF Now
      <4> HIDE DEF r
      <4> QED BY <1>1, <2>0, <3>2, <4>1, Bounds DEF KeptBy, Spare, IsOpen
    <3> QED BY <3>1, <3>2
  <2> HIDE DEF r
  <2>3. Turns(r, b)
    BY <2>1, <2>2, CalledTurns
  <2>4. /\ b.jobs = s.jobs /\ b.chain = s.chain /\ b.cur = 0 /\ b.inflight # 0
        /\ b.inflight \in {r.inflight, Fresh(u)}
    BY <2>1, <2>2, CalledOK
  <2> HIDE DEF b
  <2>5. b \in Managers /\ SideOK(b) /\ ChainOK(b) /\ Now(b) = Now(s) /\ c \in Busy(b)
    BY <2>3, <2>4 DEF Turns, SideOK, Now, Busy
  <2>6. b.inflight \in Numbers
    BY <2>5 DEF Managers
  <2>7. Goes(b, t, "building", b.inflight)
    BY <1>3, <2>4, <2>5, <2>6, MovedType
  <2> HIDE DEF t
  <2>8. PcsOK(t)
    BY <2>5, <2>7 DEF SideOK, PcsOK, Goes
  <2>9. PeerOK(t)
    BY <2>4, <2>7 DEF PeerOK, Goes
  <2>10. Learns(b, t)
    BY <2>7 DEF Learns, KnowsOf, Goes
  <2>11. TaskOK(t, [j EXCEPT !.at = "building", !.pc = b.inflight])
    BY <1>2, <1>3, <2>4, <2>7 DEF TaskOK, TaskRecords, Goes
  <2>12. Turns(b, t)
    BY <1>2, <2>5, <2>7, <2>8, <2>9, <2>10, <2>11, WorkTurns DEF Goes
  <2>13. Turns(s, t)
    <3>1. \A q \in Pcs : /\ b.pcs[q].remote \in {0, From(r), r.pcs[q].remote}
                         /\ b.pcs[q].with \in {0, From(r), r.pcs[q].with}
      BY <2>3 DEF Turns, Learns
    <3>2. \A q \in Pcs : b.pcs[q].remote \in {0, s.pcs[q].remote} /\ b.pcs[q].with \in {0, s.pcs[q].with}
      <4>1. \A q \in Pcs : b.pcs[q] = r.pcs[q] \/ b.pcs[q] = [Blank EXCEPT !.sig = "building"]
        BY <2>1, <2>2, CalledOK DEF b
      <4> QED BY <2>1, <4>1 DEF Blank
    <3>3. \A q \in Pcs : KnowsOf(b, q) => KnowsOf(s, q)
      BY <2>4 DEF KnowsOf
    <3> QED BY <2>5, <2>12, <3>2, <3>3, Chained
  <2>14. t.cur = 0 /\ t.inflight \in {0, s.inflight, Fresh(u)}
    BY <2>1, <2>4, <2>7 DEF Goes
  <2>15. m'[u] = t
    BY <1>1, <1>7
  <2>16. (p # 0 => s.pcs[p].remote \in {0, j.from}) => t.cur = p
    BY <1>7, <2>14
  <2> QED BY <1>1, <1>7, <2>13, <2>14, <2>15, <2>16, Acts
<1> QED BY <1>4, <1>5, <1>6, <1>7

\* The end of a build, taken back or kept.
LEMMA BuiltTurns ==
    ASSUME NEW s \in Managers, SideOK(s), NEW p \in Pcs, s.pcs[p].sig = "building",
           Now(s) # <<>> => Head(Now(s)).at # "queued"
    PROVE  /\ s.cur = 0 /\ p = s.inflight /\ Turns(s, Built(s, p))
           /\ Built(s, p).cur \in {0, p} /\ Built(s, p).inflight = 0
<1> DEFINE t == Built(s, p)
           bad == s.pcs[p].stale \/ ~s.inVoice
           j == Head(Now(s))
           waits == {c \in Busy(s) : Head(s.jobs[c]).at = "building" /\ Head(s.jobs[c]).pc = p}
           w == Now(s) # <<>> /\ j.at = "building" /\ j.pc = p
           g == Moved(s, s.chain, "remote", p)
           tails == [c \in Chains |-> IF c \in waits THEN Tail(s.jobs[c]) ELSE s.jobs[c]]
           moves == [c \in Chains |-> IF c \in waits THEN Moved(s, c, "remote", p).jobs[c] ELSE s.jobs[c]]
           told == IF waits = {} THEN 0 ELSE Head(s.jobs[CHOOSE c \in waits : TRUE]).from
           pc == [Blank EXCEPT !.sig = "stable", !.need = TRUE, !.remote = told]
<1>1. /\ s.cur = 0 /\ p = s.inflight /\ p # 0 /\ p \in Numbers
      /\ \A q \in Pcs : ~IsOpen(s.pcs[q]) /\ (q # p => s.pcs[q].sig # "building")
      /\ ChainOK(s) /\ s.chain \in Chains /\ s.jobs \in [Chains -> Seq(TaskRecords)]
      /\ s.pcs \in [Pcs -> PcRecords]
  BY Bounds DEF SideOK, PcsOK, Managers
<1>2. /\ Now(s) \in Seq(TaskRecords)
      /\ Now(s) # <<>> => j \in TaskRecords /\ TaskOK(s, j) /\ j = Now(s)[1] /\ 1 \in DOMAIN Now(s)
                          /\ s.chain \in Busy(s)
  BY <1>1, NowType DEF SideOK, HeadOK, Busy, Now
<1>3. waits = (IF w THEN {s.chain} ELSE {})
  <2>1. \A c \in Busy(s) : c = s.chain /\ s.jobs[c] = Now(s) /\ Now(s) # <<>>
    BY <1>1, TheChain
  <2> QED BY <1>2, <2>1
<1>4. w => told = j.from /\ j.kind = "offer"
  BY <1>2, <1>3 DEF Now, TaskOK
<1>5. ~w => told = 0
  BY <1>3
<1>6. ~w /\ Now(s) # <<>> =>
        /\ j.at \in {"remote", "keys", "local"} /\ j.pc \in Pcs /\ j.pc # p
        /\ s.pcs[j.pc].sig = "closed"
  <2>1. SUFFICES ASSUME ~w, Now(s) # <<>>
                 PROVE  /\ j.at \in {"remote", "keys", "local"} /\ j.pc \in Pcs /\ j.pc # p
                        /\ s.pcs[j.pc].sig = "closed"
    OBVIOUS
  <2>2. j \in TaskRecords /\ TaskOK(s, j) /\ j.at # "queued"
    BY <1>2, <2>1
  <2>3. j.at # "building"
    BY <1>1, <2>1, <2>2 DEF TaskOK
  <2>4. j.at \in {"remote", "keys", "local"} /\ j.pc \in Numbers
    <3> HIDE DEF j
    <3> QED BY <2>2, <2>3, TaskFields
  <2>5. j.pc # 0 /\ (j.pc = s.cur \/ s.pcs[j.pc].sig = "closed")
    BY <2>2, <2>4 DEF TaskOK
  <2>6. j.pc \in Pcs
    BY <2>4, <2>5, Numbered
  <2>7. s.pcs[j.pc].sig = "closed" /\ j.pc # p
    BY <1>1, <2>5
  <2> QED BY <2>4, <2>6, <2>7
<1>7. w => Goes(s, g, "remote", p)
  BY <1>1, <1>2, MovedType
<1>8. t = IF bad
          THEN [s EXCEPT !.cur = 0, !.inflight = 0, !.pcs[p] = Dead, !.jobs = tails]
          ELSE [s EXCEPT !.cur = p, !.inflight = 0, !.pcs[p] = pc, !.jobs = moves]
  BY <1>1 DEF Built
<1>9. pc \in PcRecords /\ pc.sig = "stable" /\ pc.remote = told /\ pc.with = 0
  <2>1. told \in Numbers
    BY <1>2, <1>4, <1>5, Bounds DEF TaskRecords
  <2> HIDE DEF told
  <2> QED BY <2>1, Bounds DEF Blank, PcRecords
<1>10. tails = (IF w THEN [s.jobs EXCEPT ![s.chain] = Tail(@)] ELSE s.jobs)
  BY <1>1, <1>3
<1>11. moves = (IF w THEN g.jobs ELSE s.jobs)
  <2>1. ASSUME w
        PROVE  moves = g.jobs
    <3>1. /\ g.jobs \in [Chains -> Seq(TaskRecords)]
          /\ \A c \in Chains : c # s.chain => g.jobs[c] = s.jobs[c]
      BY <1>1, <1>7, <2>1 DEF Goes, Managers
    <3> HIDE DEF g, w
    <3>2. moves = [c \in Chains |-> IF c = s.chain THEN g.jobs[c] ELSE s.jobs[c]]
      BY <1>3, <2>1 DEF g
    <3> HIDE DEF moves
    <3> QED BY <3>1, <3>2
  <2>2. ASSUME ~w
        PROVE  moves = s.jobs
    BY <1>1, <1>3, <2>2
  <2> QED BY <2>1, <2>2
<1> HIDE DEF waits, told, pc, g, tails, moves, t
<1>12. CASE bad
  <2>1. tails \in [Chains -> Seq(TaskRecords)]
        /\ (w => tails[s.chain] = Tail(Now(s))) /\ (~w => tails = s.jobs)
        /\ \A c \in Chains : c # s.chain => tails[c] = s.jobs[c]
    BY <1>1, <1>2, <1>10 DEF Now
  <2> DEFINE pcs == [s.pcs EXCEPT ![p] = Dead]
  <2>2. pcs \in [Pcs -> PcRecords] /\ pcs[p] = Dead /\ \A q \in Pcs : q # p => pcs[q] = s.pcs[q]
    BY <1>1, BlankType
  <2>3. t = [s EXCEPT !.cur = 0, !.inflight = 0, !.pcs = pcs, !.jobs = tails]
    BY <1>8, <1>12
  <2> HIDE DEF pcs, bad
  <2>4. /\ t \in Managers /\ t.cur = 0 /\ t.inflight = 0 /\ t.pcs = pcs /\ t.jobs = tails
        /\ t.chain = s.chain /\ t.inVoice = s.inVoice
    BY <2>1, <2>2, <2>3, Bounds DEF Managers
  <2>5. \A q \in Pcs : ~IsOpen(t.pcs[q]) /\ t.pcs[q].sig # "building"
                       /\ t.pcs[q].remote \in {0, s.pcs[q].remote}
                       /\ t.pcs[q].with \in {0, s.pcs[q].with}
                       /\ (s.pcs[q].sig = "closed" => t.pcs[q].sig = "closed")
    BY <1>1, <2>2, <2>4 DEF IsOpen, Dead, Blank
  <2>6. (w => Now(t) = Tail(Now(s))) /\ (~w => Now(t) = Now(s))
    BY <1>1, <2>1, <2>4 DEF Now
  <2>7. ChainOK(t)
    <3>1. \A c \in Busy(t) : c = t.chain
      BY <1>1, <2>1, <2>4 DEF ChainOK, Busy
    <3>2. \A i \in DOMAIN Now(t) : i # 1 => Now(t)[i].at = "queued"
      <4>1. CASE ~w
        BY <1>1, <2>6, <4>1 DEF ChainOK
      <4>2. CASE w
        <5>1. \A i \in DOMAIN Now(t) : i + 1 \in DOMAIN Now(s) /\ i + 1 # 1 /\ Now(t)[i] = Now(s)[i + 1]
          BY <1>2, <2>6, <4>2
        <5> QED BY <1>1, <5>1 DEF ChainOK
      <4> QED BY <4>1, <4>2
    <3> QED BY <3>1, <3>2 DEF ChainOK
  <2>8. HeadOK(t)
    <3>1. CASE ~w
      BY <1>6, <2>5, <2>6, <1>2, <3>1 DEF HeadOK, TaskOK
    <3>2. CASE w
      <4>1. Now(t) # <<>> => Head(Now(t)) = Now(s)[2] /\ 2 \in DOMAIN Now(s)
        BY <1>2, <2>6, <3>2
      <4> QED BY <1>1, <4>1 DEF ChainOK, HeadOK, TaskOK
    <3> QED BY <3>1, <3>2
  <2>9. PcsOK(t)
    BY <2>4, <2>5, Bounds DEF PcsOK
  <2>10. PeerOK(t)
    BY <2>4 DEF PeerOK
  <2>11. Learns(s, t)
    BY <2>4, <2>5 DEF Learns, KnowsOf
  <2>12. Shifts(s, t)
    BY <2>6 DEF Shifts, SameWords
  <2> QED BY <1>1, <2>4, <2>7, <2>8, <2>9, <2>10, <2>11, <2>12 DEF Turns, SideOK, t
<1>13. CASE ~bad
  <2>1. moves \in [Chains -> Seq(TaskRecords)]
        /\ (w => moves[s.chain] = Now(g)) /\ (~w => moves = s.jobs)
        /\ \A c \in Chains : c # s.chain => moves[c] = s.jobs[c]
    BY <1>1, <1>7, <1>11 DEF Now, Goes, Managers
  <2> DEFINE pcs == [s.pcs EXCEPT ![p] = pc]
  <2>2. pcs \in [Pcs -> PcRecords] /\ pcs[p] = pc /\ \A q \in Pcs : q # p => pcs[q] = s.pcs[q]
    BY <1>1, <1>9
  <2>3. t = [s EXCEPT !.cur = p, !.inflight = 0, !.pcs = pcs, !.jobs = moves]
    BY <1>8, <1>13
  <2>4. s.inVoice
    BY <1>13
  <2> HIDE DEF pcs, bad
  <2>5. /\ t \in Managers /\ t.cur = p /\ t.inflight = 0 /\ t.pcs = pcs /\ t.jobs = moves
        /\ t.chain = s.chain /\ t.inVoice = s.inVoice
    BY <1>1, <2>1, <2>2, <2>3, Bounds DEF Managers
  <2>6. /\ t.pcs[p] = pc
        /\ \A q \in Pcs : q # p => t.pcs[q] = s.pcs[q]
    BY <2>2, <2>5
  <2>7. (w => Now(t) = Now(g)) /\ (~w => Now(t) = Now(s))
    BY <1>1, <2>1, <2>5 DEF Now
  <2>8. w => /\ Now(g) = [Now(s) EXCEPT ![1] = [j EXCEPT !.at = "remote", !.pc = p]]
             /\ Now(g) # <<>> /\ Head(Now(g)) = [j EXCEPT !.at = "remote", !.pc = p]
    <3> SUFFICES ASSUME w
                 PROVE  Now(g) = [Now(s) EXCEPT ![1] = [j EXCEPT !.at = "remote", !.pc = p]]
      BY <1>7 DEF Goes
    <3> DEFINE k == [s.jobs EXCEPT ![s.chain][1].at = "remote"]
    <3>1. g.jobs = [k EXCEPT ![s.chain][1].pc = p] /\ g.chain = s.chain
      BY <1>7 DEF Goes
    <3>2. k[s.chain] = [Now(s) EXCEPT ![1].at = "remote"] /\ DOMAIN k = Chains
      BY <1>1 DEF Now
    <3> HIDE DEF k
    <3>3. Now(g) = [k[s.chain] EXCEPT ![1].pc = p]
      BY <1>1, <3>1, <3>2, ZenonT(60) DEF Now
    <3>4. Now(g) = [[Now(s) EXCEPT ![1].at = "remote"] EXCEPT ![1].pc = p]
      BY <3>2, <3>3
    <3> QED BY <1>2, <3>4
  <2>9. w => /\ DOMAIN Now(t) = DOMAIN Now(s) /\ Len(Now(t)) = Len(Now(s)) /\ Now(t) # <<>>
             /\ Head(Now(t)) = [j EXCEPT !.at = "remote", !.pc = p]
             /\ Now(t)[1] = [j EXCEPT !.at = "remote", !.pc = p]
             /\ \A i \in DOMAIN Now(s) : i # 1 => Now(t)[i] = Now(s)[i]
    BY <1>2, <2>7, <2>8
  <2>10. w => /\ Head(Now(t)).kind = "offer" /\ Head(Now(t)).at = "remote" /\ Head(Now(t)).pc = p
              /\ Head(Now(t)).from = j.from
    BY <1>2, <1>4, <2>9 DEF TaskRecords
  <2>11. ChainOK(t)
    <3>1. \A c \in Busy(t) : c = t.chain
      BY <1>1, <2>1, <2>5 DEF ChainOK, Busy
    <3>2. \A i \in DOMAIN Now(t) : i # 1 => Now(t)[i].at = "queued"
      BY <1>1, <2>7, <2>9 DEF ChainOK
    <3> QED BY <3>1, <3>2 DEF ChainOK
  <2>12. HeadOK(t)
    <3>1. CASE ~w
      BY <1>2, <1>6, <2>6, <2>7, <3>1 DEF HeadOK, TaskOK
    <3>2. CASE w
      BY <1>1, <2>5, <2>10, <3>2 DEF HeadOK, TaskOK
    <3> QED BY <3>1, <3>2
  <2>13. PcsOK(t)
    BY <1>1, <1>9, <2>4, <2>5, <2>6, Bounds DEF PcsOK, IsOpen
  <2>14. PeerOK(t)
    <3>1. ~w => ~AtWork(t, "offer", "remote") /\ ~AtWork(t, "answer", "remote")
      BY <1>6, <2>5, <2>7 DEF AtWork
    <3>2. w => ~AtWork(t, "answer", "remote") /\ pc.remote = Head(Now(t)).from
      BY <1>4, <1>9, <2>10 DEF AtWork
    <3> QED BY <1>9, <2>5, <2>6, <3>1, <3>2 DEF PeerOK
  <2>15. told \in {0, From(s)}
    BY <1>4, <1>5 DEF From
  <2>16. Learns(s, t)
    <3>1. \A q \in Pcs : t.pcs[q].remote \in {0, From(s), s.pcs[q].remote}
                         /\ t.pcs[q].with \in {0, From(s), s.pcs[q].with}
      BY <1>9, <2>6, <2>15
    <3>2. \A q \in Pcs : KnowsOf(t, q) => q = From(s)
      BY <1>9, <2>5, <2>6, <2>15, Bounds DEF KnowsOf
    <3> QED BY <3>1, <3>2 DEF Learns
  <2>17. Shifts(s, t)
    <3>1. CASE ~w
      BY <2>7, <3>1 DEF Shifts, SameWords
    <3>2. CASE w
      <4>0. Now(t)[1].kind = Now(s)[1].kind /\ Now(t)[1].from = Now(s)[1].from
        BY <1>2, <2>9, <3>2 DEF TaskRecords
      <4>1. \A i \in DOMAIN Now(s) : Now(t)[i].kind = Now(s)[i].kind /\ Now(t)[i].from = Now(s)[i].from
        BY <2>9, <3>2, <4>0
      <4> QED BY <2>9, <3>2, <4>1 DEF Shifts, SameWords
    <3> QED BY <3>1, <3>2
  <2> QED BY <1>1, <2>5, <2>11, <2>12, <2>13, <2>14, <2>16, <2>17 DEF Turns, SideOK, t
<1> QED BY <1>12, <1>13

LEMMA FinishBuildSteps ==
    ASSUME Base, NEW u \in Sides, FinishBuild(u)
    PROVE  Steps(u) /\ m[u].cur = 0
<1>1. PICK p \in Pcs : m[u].pcs[p].sig = "building" /\ m' = [m EXCEPT ![u] = Built(m[u], p)]
  BY DEF FinishBuild
<1> DEFINE t == Built(m[u], p)
<1>2. m[u] \in Managers /\ SideOK(m[u]) /\ m \in [Sides -> Managers]
  BY Manager DEF Base, TypeOK
<1>3. Now(m[u]) # <<>> => Head(Now(m[u])).at # "queued"
  <2>1. m[u].chain \in Chains
    BY <1>2 DEF Managers
  <2> QED BY <2>1 DEF FinishBuild, Due, HeadAt, Busy, Now
<1>4. /\ m[u].cur = 0 /\ p = m[u].inflight /\ Turns(m[u], t) /\ t.cur \in {0, p} /\ t.inflight = 0
  BY <1>1, <1>2, <1>3, BuiltTurns
<1> HIDE DEF t
<1>5. m' = [m EXCEPT ![u] = t] /\ m'[u] = t
  BY <1>1, <1>2 DEF t
<1>6. net' = net
  BY DEF FinishBuild
<1> QED BY <1>4, <1>5, <1>6 DEF Steps

-----------------------------------------------------------------------------
(* The steps of the system: one side acts, and tells or hears at most one     *)
(* thing.                                                                     *)

Messages == Descriptions \cup {Started, Stopped}

\* A description is taken off the network, and becomes a task.
Learned(s, msg) == Enqueued(s, Task(msg.type, 0, msg.from, msg.to, msg.round))
HearsOf(u) ==
    /\ net[u] # <<>> /\ Head(net[u]) \in Descriptions
    /\ m' = [m EXCEPT ![u] = Learned(m[u], Head(net[u]))]
    /\ net' = [net EXCEPT ![u] = Tail(@)]

\* What a step does to the network, and with what.
Silent == net' = net
Announces == net' = [w \in Sides |-> Append(net[w], Started)]
Says(u, msg) == net' = [net EXCEPT ![Other(u)] = Append(@, msg)]
Takes(u) == net[u] # <<>> /\ net' = [net EXCEPT ![u] = Tail(@)]

Acted(u) ==
    \/ Steps(u) /\ (Silent \/ Announces \/ Takes(u))
    \/ Steps(u) /\ m'[u].cur = 0 /\ m'[u].inflight = 0 /\ Says(u, Stopped)
    \/ /\ Steps(u) /\ m[u].cur # 0 /\ m'[u].cur = m[u].cur
       /\ \E d \in Descriptions : d.from = m[u].cur /\ Says(u, d)
    \/ HearsOf(u)
    \/ m' = m /\ Takes(u)

LEMMA HearActed ==
    ASSUME Base, NEW u \in Sides, Hear(u)
    PROVE  Acted(u)
<1> DEFINE msg == Head(net[u])
<1>1. net[u] # <<>> /\ net[u] \in Seq(Messages) /\ msg \in Messages
  BY DEF Hear, Base, TypeOK, Messages
<1>2. Takes(u) /\ Awake(u) /\ Room(u)
  BY <1>1 DEF Hear, Takes
<1>3. CASE msg = Started
  <2>1. HearStarted(u)
    BY <1>3 DEF Hear, Started, Stopped
  <2> QED BY <1>2, <2>1, HearStartedSteps DEF Acted
<1>4. CASE msg = Stopped
  <2>1. HearStopped(u)
    BY <1>4 DEF Hear, Started, Stopped
  <2> QED BY <1>2, <2>1, HearStoppedSteps DEF Acted
<1>5. CASE msg # Started /\ msg # Stopped
  <2>1. HearDescription(u, msg)
    BY <1>5 DEF Hear
  <2>2. m' = [m EXCEPT ![u] = Learned(m[u], msg)]
    BY <2>1 DEF HearDescription, Learned
  <2> QED BY <1>1, <1>2, <1>5, <2>2 DEF Takes, HearsOf, Acted, Messages
<1> QED BY <1>3, <1>4, <1>5

LEMMA SetLocalActed ==
    ASSUME Base, NEW u \in Sides, NEW c \in Busy(m[u]), SetLocal(u, c)
    PROVE  Acted(u)
<1> DEFINE s == m[u]
           j == Head(Now(s))
           i == Head(s.jobs[c])
           round == s.pcs[i.pc].round + 1
<1>1. /\ Steps(u) /\ m'[u].cur = s.cur /\ s.cur # 0 /\ j.pc = s.cur /\ s.jobs[c] = Now(s)
  BY SetLocalSteps
<1>2. s \in Managers /\ j \in TaskRecords /\ s.cur \in Pcs
  BY <1>1, Manager, TheTask
<1>3. i = j
  BY <1>1
<1>4. \/ net' = net \/ net' = Sent(u, Offer(i.pc, round)) \/ net' = Sent(u, Answer(i.pc, i.from, i.round))
  BY DEF SetLocal
<1>5. s.pcs[s.cur] \in PcRecords
  BY <1>2 DEF Managers
<1>6. round \in Nat
  BY <1>1, <1>3, <1>5 DEF PcRecords
<1> HIDE DEF round, i, j
<1>7. /\ Offer(i.pc, round) \in Descriptions /\ Offer(i.pc, round).from = s.cur
      /\ Answer(i.pc, i.from, i.round) \in Descriptions /\ Answer(i.pc, i.from, i.round).from = s.cur
  BY <1>1, <1>2, <1>3, <1>6, Bounds DEF Offer, Answer, Descriptions, TaskRecords
<1>8. \A d : Sent(u, d) = net \/ Sent(u, d) = [net EXCEPT ![Other(u)] = Append(@, d)]
  BY DEF Sent
<1>9. Silent \/ \E d \in Descriptions : d.from = s.cur /\ Says(u, d)
  <2>1. CASE net' = net
    BY <2>1 DEF Silent
  <2>2. CASE net' = Sent(u, Offer(i.pc, round))
    BY <1>7, <1>8, <2>2 DEF Silent, Says
  <2>3. CASE net' = Sent(u, Answer(i.pc, i.from, i.round))
    BY <1>7, <1>8, <2>3 DEF Silent, Says
  <2> QED BY <1>4, <2>1, <2>2, <2>3
<1> QED BY <1>1, <1>9 DEF Acted

LEMMA SpentType ==
    ASSUME spent \in Counters, NEW what \in {"joins", "media", "lost", "fails", "early"},
           NEW most, Spend(what, most)
    PROVE  spent' \in Counters
<1> DEFINE n == spent[what] + 1
<1>1. n \in Nat
  BY DEF Counters
<1>2. spent' = [spent EXCEPT ![what] = n]
  BY DEF Spend
<1> HIDE DEF n
<1> QED BY <1>1, <1>2 DEF Counters

LEMMA NextActed ==
    ASSUME Base, Next
    PROVE  (\E u \in Sides : Acted(u)) /\ spent' \in Counters
<1> USE DEF Silent
<1>0. spent \in Counters
  BY DEF Base, TypeOK
<1>1. ASSUME NEW u \in Sides, Join(u)
      PROVE  Acted(u) /\ spent' \in Counters
  BY <1>0, <1>1, JoinSteps, SpentType DEF Join, Acted, Announces
<1>2. ASSUME NEW u \in Sides, Leave(u)
      PROVE  Acted(u) /\ spent' \in Counters
  <2>1. Silent \/ Says(u, Stopped)
    BY <1>2 DEF Leave, Sent, Says
  <2> QED BY <1>0, <1>2, <2>1, LeaveSteps DEF Leave, Acted
<1>3. ASSUME NEW u \in Sides, AddMedia(u)
      PROVE  Acted(u) /\ spent' \in Counters
  BY <1>0, <1>3, AddMediaSteps, SpentType DEF AddMedia, Acted
<1>4. ASSUME NEW u \in Sides, Lose(u)
      PROVE  Acted(u) /\ spent' \in Counters
  BY <1>0, <1>4, SpentType DEF Lose, Acted, Takes
<1>5. ASSUME NEW u \in Sides, Hear(u)
      PROVE  Acted(u) /\ spent' \in Counters
  BY <1>0, <1>5, HearActed DEF Hear
<1>6. ASSUME NEW u \in Sides, CallUser(u)
      PROVE  Acted(u) /\ spent' \in Counters
  BY <1>0, <1>6, CallUserSteps DEF CallUser, Acted
<1>7. ASSUME NEW u \in Sides, FinishBuild(u)
      PROVE  Acted(u) /\ spent' \in Counters
  BY <1>0, <1>7, FinishBuildSteps DEF FinishBuild, Acted
<1>8. ASSUME NEW u \in Sides, NegotiationNeeded(u)
      PROVE  Acted(u) /\ spent' \in Counters
  BY <1>0, <1>8, NegotiationNeededSteps DEF NegotiationNeeded, Acted
<1>9. ASSUME NEW u \in Sides, Signal(u)
      PROVE  Acted(u) /\ spent' \in Counters
  <2>1. PICK c \in Busy(m[u]) :
          \/ BeginPropose(u, c) \/ BeginAnswer(u, c) \/ BeginOffer(u, c)
          \/ ApplyOffer(u, c) \/ ApplyAnswer(u, c) \/ KeysReady(u, c) \/ SetLocal(u, c)
    BY <1>9 DEF Signal
  <2>2. CASE BeginPropose(u, c)
    BY <1>0, <2>2, BeginProposeSteps DEF BeginPropose, Acted
  <2>3. CASE BeginAnswer(u, c)
    BY <1>0, <2>3, BeginAnswerSteps DEF BeginAnswer, Acted
  <2>4. CASE BeginOffer(u, c)
    BY <1>0, <2>4, BeginOfferSteps DEF BeginOffer, Acted
  <2>5. CASE ApplyOffer(u, c)
    BY <1>0, <2>5, ApplyOfferSteps DEF ApplyOffer, Acted
  <2>6. CASE ApplyAnswer(u, c)
    BY <1>0, <2>6, ApplyAnswerSteps DEF ApplyAnswer, Acted
  <2>7. CASE KeysReady(u, c)
    BY <1>0, <2>7, KeysReadySteps DEF KeysReady, Acted
  <2>8. CASE SetLocal(u, c)
    BY <1>0, <2>8, SetLocalActed DEF SetLocal
  <2> QED BY <2>1, <2>2, <2>3, <2>4, <2>5, <2>6, <2>7, <2>8
<1>10. ASSUME NEW u \in Sides, Connect(u)
       PROVE  Acted(u) /\ spent' \in Counters
  BY <1>0, <1>10, ConnectSteps DEF Connect, Acted
<1>11. ASSUME NEW u \in Sides, Elapsed
       PROVE  spent' \in Counters
  BY <1>0, <1>11, SpentType DEF Elapsed
<1>12. ASSUME NEW u \in Sides, Fail(u)
       PROVE  Acted(u) /\ spent' \in Counters
  <2>1. Spend("fails", MaxFails) \/ Elapsed
    BY <1>12 DEF Fail, LongElapsed
  <2>2. net' = net
    BY <1>12 DEF Fail
  <2> QED BY <1>0, <1>11, <1>12, <2>1, <2>2, FailSteps, SpentType DEF Acted
<1>13. ASSUME NEW u \in Sides, Timers(u)
       PROVE  Acted(u) /\ spent' \in Counters
  <2>1. Elapsed /\ net' = net
    BY <1>13 DEF Timers, StuckFires, DeadlineFires, BackoffFires, LongElapsed
  <2> QED BY <1>11, <1>13, <2>1, StuckFiresSteps, DeadlineFiresSteps, BackoffFiresSteps DEF Timers, Acted
<1> QED BY <1>1, <1>2, <1>3, <1>4, <1>5, <1>6, <1>7, <1>8, <1>9, <1>10, <1>12, <1>13 DEF Next, Works

LEMMA LearnedOK ==
    ASSUME NEW s \in Managers, SideOK(s), NEW msg \in Descriptions
    PROVE  LET t == Learned(s, msg)
               j == Task(msg.type, 0, msg.from, msg.to, msg.round)
           IN  /\ t \in Managers /\ SideOK(t) /\ Now(t) = Append(Now(s), j) /\ t.cur = s.cur
               /\ t.inflight = s.inflight /\ t.pcs = s.pcs
               /\ j \in TaskRecords /\ j.kind # "propose" /\ j.from = msg.from
<1> DEFINE j == Task(msg.type, 0, msg.from, msg.to, msg.round)
<1>1. j \in TaskRecords /\ j.at = "queued" /\ j.kind # "propose" /\ j.from = msg.from
  BY Bounds DEF Task, TaskRecords, Descriptions
<1> HIDE DEF j
<1>2. LET t == Enqueued(s, j)
      IN  /\ t \in Managers /\ SideOK(t) /\ Now(t) = Append(Now(s), j) /\ t.cur = s.cur
          /\ t.inflight = s.inflight /\ t.pcs = s.pcs
  BY <1>1, EnqueuedOK
<1> QED BY <1>1, <1>2 DEF Learned, j

LEMMA ActedOK ==
    ASSUME Base, NEW u \in Sides, Acted(u)
    PROVE  m' \in [Sides -> Managers] /\ net' \in [Sides -> Seq(Messages)] /\ EachOK'
<1>1. /\ m \in [Sides -> Managers] /\ net \in [Sides -> Seq(Messages)]
      /\ \A w \in Sides : m[w] \in Managers /\ SideOK(m[w])
      /\ Other(u) \in Sides
  BY Manager DEF Base, TypeOK, EachOK, Messages
<1>2. Steps(u) => m' \in [Sides -> Managers] /\ EachOK'
  <2>1. SUFFICES ASSUME Steps(u) PROVE m' \in [Sides -> Managers] /\ EachOK'
    OBVIOUS
  <2> DEFINE t == m'[u]
  <2>2. m' = [m EXCEPT ![u] = t] /\ t \in Managers /\ SideOK(t)
    BY <2>1 DEF Steps, Turns
  <2> HIDE DEF t
  <2>3. m' \in [Sides -> Managers] /\ \A w \in Sides : m'[w] = m[w] \/ m'[w] = t
    BY <1>1, <2>2
  <2> QED BY <1>1, <2>2, <2>3 DEF EachOK
<1>3. Silent \/ Announces \/ Takes(u) => net' \in [Sides -> Seq(Messages)]
  <2>1. Silent => net' \in [Sides -> Seq(Messages)]
    BY <1>1 DEF Silent
  <2>2. Takes(u) => net' \in [Sides -> Seq(Messages)]
    BY <1>1 DEF Takes
  <2>3. Started \in Messages
    BY DEF Messages
  <2>4. Announces => net' \in [Sides -> Seq(Messages)]
    BY <1>1, <2>3 DEF Announces
  <2> QED BY <2>1, <2>2, <2>4
<1>4. \A d \in Messages : Says(u, d) => net' \in [Sides -> Seq(Messages)]
  BY <1>1 DEF Says
<1>5. CASE HearsOf(u)
  <2> DEFINE t == Learned(m[u], Head(net[u]))
  <2>1. t \in Managers /\ SideOK(t)
    BY <1>1, <1>5, LearnedOK DEF HearsOf
  <2>2. m' = [m EXCEPT ![u] = t]
    BY <1>5 DEF HearsOf
  <2>3. Takes(u)
    BY <1>5 DEF HearsOf, Takes
  <2> HIDE DEF t
  <2>4. m' \in [Sides -> Managers] /\ \A w \in Sides : m'[w] = m[w] \/ m'[w] = t
    BY <1>1, <2>1, <2>2
  <2> QED BY <1>1, <1>3, <2>1, <2>3, <2>4 DEF EachOK
<1>6. CASE m' = m /\ Takes(u)
  BY <1>1, <1>3, <1>6 DEF EachOK
<1>7. CASE Steps(u) /\ \E d \in Messages : Says(u, d)
  BY <1>2, <1>4, <1>7
<1>8. CASE Steps(u) /\ (Silent \/ Announces \/ Takes(u))
  BY <1>2, <1>3, <1>8
<1> QED BY <1>5, <1>6, <1>7, <1>8 DEF Acted, Messages

\* The first part of the invariant, which is about each side by itself, is inductive.
LEMMA InitBase ==
    ASSUME ~SlowFetch, Init
    PROVE  Base
<1>1. Blank \in PcRecords /\ Idle \in Managers
  BY BlankType, Bounds DEF Idle, Managers, Chains
<1>2. Clear(Idle)
  <2>1. 0 \in Chains
    BY Bounds DEF Chains
  <2> QED BY <2>1 DEF Idle, Clear, Now, Blank, IsOpen
<1>3. SideOK(Idle)
  BY <1>1, <1>2, ClearOK
<1>4. \A u \in Sides : m[u] = Idle
  BY DEF Init
<1>5. TypeOK
  BY <1>1 DEF Init, TypeOK, Counters
<1> QED BY <1>3, <1>4, <1>5 DEF Base, EachOK

LEMMA BaseKept ==
    ASSUME Base, [Next]_vars
    PROVE  Base'
<1>1. CASE Next
  <2>1. PICK u \in Sides : Acted(u)
    BY <1>1, NextActed
  <2>2. m' \in [Sides -> Managers] /\ net' \in [Sides -> Seq(Messages)] /\ EachOK'
    BY <2>1, ActedOK
  <2>3. spent' \in Counters
    BY <1>1, NextActed
  <2> QED BY <2>2, <2>3 DEF Base, TypeOK, Messages
<1>2. CASE UNCHANGED vars
  BY <1>2 DEF vars, Base, TypeOK, EachOK
<1> QED BY <1>1, <1>2

-----------------------------------------------------------------------------
(* What one side hears of the other, in order.                               *)

LEMMA NumberedPcs == \A c \in Pcs : c # 0 /\ c \in Numbers
  BY Bounds

\* The hearer's step.
LEMMA TurnHeard ==
    ASSUME NEW s \in Managers, NEW t \in Managers, Turns(s, t), NEW n \in Seq(Messages), NEW c \in Pcs
    PROVE  /\ InOrder(s, n, c) => InOrder(t, n, c)
           /\ Unheard(s, n, c) => Unheard(t, n, c)
<1> DEFINE q == Now(s)
           r == Now(t)
<1>1. q \in Seq(TaskRecords) /\ r \in Seq(TaskRecords) /\ c # 0
  BY NowType, NumberedPcs
<1>2. q # <<>> => From(s) = q[1].from /\ 1 \in DOMAIN q
  BY <1>1 DEF From
<1>3. q = <<>> => From(s) = 0
  BY DEF From
\* Every task of t was one of s, in the same order, or is t's own.
<1>4. \/ \A i \in DOMAIN r : i \in DOMAIN q /\ r[i].kind = q[i].kind /\ r[i].from = q[i].from
      \/ \A i \in DOMAIN r : i + 1 \in DOMAIN q /\ r[i].kind = q[i + 1].kind /\ r[i].from = q[i + 1].from
      \/ \A i \in DOMAIN r : \/ i \in DOMAIN q /\ r[i].kind = q[i].kind /\ r[i].from = q[i].from
                             \/ r[i].kind = "propose" /\ r[i].from = 0
  <2>1. CASE r = <<>>
    BY <1>1, <2>1
  <2>2. CASE SameWords(q, r)
    BY <1>1, <2>2 DEF SameWords
  <2>3. CASE q # <<>> /\ r = Tail(q)
    BY <1>1, <2>3
  <2>4. CASE \E j \in TaskRecords : r = Append(q, j) /\ j.kind = "propose" /\ j.from = 0
    <3>1. PICK j \in TaskRecords : r = Append(q, j) /\ j.kind = "propose" /\ j.from = 0
      BY <2>4
    <3>2. ASSUME NEW i \in DOMAIN r
          PROVE  \/ i \in DOMAIN q /\ r[i].kind = q[i].kind /\ r[i].from = q[i].from
                 \/ r[i].kind = "propose" /\ r[i].from = 0
      BY <1>1, <3>1, <3>2
    <3> QED BY <3>2
  <2> QED BY <2>1, <2>2, <2>3, <2>4 DEF Turns, Shifts
<1>5. DOMAIN q \subseteq Nat /\ DOMAIN r \subseteq Nat /\ DOMAIN n \subseteq Nat
      /\ \A i \in DOMAIN q : 1 <= i
  BY <1>1
<1>6. ASSUME Unheard(s, n, c)
      PROVE  Unheard(t, n, c)
  <2>1. From(s) # c
    BY <1>1, <1>2, <1>3, <1>6 DEF Unheard
  <2>2. \A i \in DOMAIN r : r[i].from # c
    BY <1>1, <1>4, <1>6 DEF Unheard
  <2> QED BY <1>1, <1>6, <2>1, <2>2 DEF Unheard, Turns, Learns
<1>7. ASSUME InOrder(s, n, c)
      PROVE  InOrder(t, n, c)
  <2>1. KnowsOf(t, c) => KnowsOf(s, c) \/ (q # <<>> /\ q[1].from = c)
    BY <1>1, <1>2, <1>3 DEF Turns, Learns
  <2>2. KnowsOf(t, c) => (\A i \in DOMAIN q : ~Older(q[i], c)) /\ \A i \in DOMAIN n : ~OlderNews(n[i], c)
    <3>1. CASE KnowsOf(s, c)
      BY <1>7, <3>1 DEF InOrder
    <3>2. CASE q # <<>> /\ q[1].from = c
      <4>1. \A k \in DOMAIN q : 1 < k => ~Older(q[k], c)
        BY <1>2, <1>7, <3>2 DEF InOrder
      <4>2. \A k \in DOMAIN q : k = 1 \/ 1 < k
        BY <1>5
      <4>3. ~Older(q[1], c)
        BY <3>2 DEF Older
      <4> QED BY <1>2, <1>7, <3>2, <4>1, <4>2, <4>3 DEF InOrder
    <3> QED BY <2>1, <3>1, <3>2
  <2>3. KnowsOf(t, c) => \A i \in DOMAIN r : ~Older(r[i], c)
    BY <1>1, <1>4, <2>2 DEF Older
  <2>4. ASSUME NEW i \in DOMAIN r, r[i].from = c
        PROVE  /\ \A k \in DOMAIN r : i < k => ~Older(r[k], c)
               /\ \A k \in DOMAIN n : ~OlderNews(n[k], c)
    <3>1. CASE \A x \in DOMAIN r : x \in DOMAIN q /\ r[x].kind = q[x].kind /\ r[x].from = q[x].from
      BY <1>7, <2>4, <3>1 DEF InOrder, Older
    <3>2. CASE \A x \in DOMAIN r : x + 1 \in DOMAIN q /\ r[x].kind = q[x + 1].kind
                                   /\ r[x].from = q[x + 1].from
      <4>1. i + 1 \in DOMAIN q /\ q[i + 1].from = c
        BY <2>4, <3>2
      <4>2. /\ \A k \in DOMAIN q : i + 1 < k => ~Older(q[k], c)
            /\ \A k \in DOMAIN n : ~OlderNews(n[k], c)
        BY <1>7, <4>1 DEF InOrder
      <4>3. ASSUME NEW k \in DOMAIN r, i < k
            PROVE  ~Older(r[k], c)
        <5>1. k + 1 \in DOMAIN q /\ i + 1 < k + 1
          BY <1>5, <3>2, <4>3
        <5>2. ~Older(q[k + 1], c)
          BY <4>2, <5>1
        <5> QED BY <3>2, <5>2 DEF Older
      <4> QED BY <4>2, <4>3
    <3>3. CASE \A x \in DOMAIN r : \/ x \in DOMAIN q /\ r[x].kind = q[x].kind /\ r[x].from = q[x].from
                                   \/ r[x].kind = "propose" /\ r[x].from = 0
      <4>1. i \in DOMAIN q /\ q[i].from = c
        BY <1>1, <2>4, <3>3
      <4> QED BY <1>7, <3>3, <4>1 DEF InOrder, Older
    <3> QED BY <1>4, <3>1, <3>2, <3>3
  <2>5. \A i, k \in DOMAIN n : n[i].from = c /\ i < k => ~OlderNews(n[k], c)
    BY <1>7 DEF InOrder
  <2>6. KnowsOf(t, c) => \A i \in DOMAIN n : ~OlderNews(n[i], c)
    BY <2>2
  <2> QED BY <2>3, <2>4, <2>5, <2>6 DEF InOrder
<1> QED BY <1>6, <1>7

\* A message is taken, or lost.
LEMMA TailHeard ==
    ASSUME NEW s, NEW n \in Seq(Messages), n # <<>>, NEW c
    PROVE  /\ InOrder(s, n, c) => InOrder(s, Tail(n), c)
           /\ Unheard(s, n, c) => Unheard(s, Tail(n), c)
<1> DEFINE k == Tail(n)
<1>1. \A i \in DOMAIN k : i \in Nat /\ i + 1 \in DOMAIN n /\ k[i] = n[i + 1]
  OBVIOUS
<1> HIDE DEF k
<1>2. ASSUME Unheard(s, n, c)
      PROVE  Unheard(s, k, c)
  BY <1>1, <1>2 DEF Unheard
<1>3. ASSUME InOrder(s, n, c)
      PROVE  InOrder(s, k, c)
  <2>1. ASSUME NEW i \in DOMAIN k, NEW x \in DOMAIN k, k[i].from = c, i < x
        PROVE  ~OlderNews(k[x], c)
    <3>1. i + 1 < x + 1 /\ n[i + 1].from = c /\ i + 1 \in DOMAIN n /\ x + 1 \in DOMAIN n
      BY <1>1, <2>1
    <3>2. ~OlderNews(n[x + 1], c)
      BY <1>3, <3>1 DEF InOrder
    <3> QED BY <1>1, <3>2
  <2> QED BY <1>1, <1>3, <2>1 DEF InOrder
<1> QED BY <1>2, <1>3 DEF k

\* A message is sent by the connection itself, or is of the room.
LEMMA AppendHeard ==
    ASSUME NEW s, NEW n \in Seq(Messages), NEW msg \in Messages, NEW c \in Pcs
    PROVE  /\ InOrder(s, n, c) /\ ~OlderNews(msg, c) => InOrder(s, Append(n, msg), c)
           /\ Unheard(s, n, c) /\ msg.from # c => Unheard(s, Append(n, msg), c)
<1> DEFINE k == Append(n, msg)
<1>1. /\ \A i \in DOMAIN k : i \in Nat /\ ((i \in DOMAIN n /\ k[i] = n[i]) \/ (i = Len(n) + 1 /\ k[i] = msg))
      /\ \A i \in DOMAIN n : i <= Len(n) /\ i \in Nat
      /\ Len(n) \in Nat
  OBVIOUS
<1> HIDE DEF k
<1>2. ASSUME Unheard(s, n, c), msg.from # c
      PROVE  Unheard(s, k, c)
  BY <1>1, <1>2 DEF Unheard
<1>3. ASSUME InOrder(s, n, c), ~OlderNews(msg, c)
      PROVE  InOrder(s, k, c)
  <2>1. ASSUME NEW i \in DOMAIN k, NEW x \in DOMAIN k, k[i].from = c, i < x
        PROVE  ~OlderNews(k[x], c)
    <3>1. CASE x = Len(n) + 1
      BY <1>1, <1>3, <2>1, <3>1
    <3>2. CASE x # Len(n) + 1
      <4>1. x \in DOMAIN n /\ k[x] = n[x] /\ i \in DOMAIN n /\ k[i] = n[i]
        BY <1>1, <2>1, <3>2
      <4> QED BY <1>3, <2>1, <4>1 DEF InOrder
    <3> QED BY <3>1, <3>2
  <2>2. (\A i \in DOMAIN n : ~OlderNews(n[i], c)) => \A i \in DOMAIN k : ~OlderNews(k[i], c)
    BY <1>1, <1>3
  <2> QED BY <1>3, <2>1, <2>2 DEF InOrder
<1> QED BY <1>2, <1>3 DEF k

\* A description goes from the network to the tasks.
LEMMA LearnedHeard ==
    ASSUME NEW s \in Managers, SideOK(s), NEW n \in Seq(Messages), n # <<>>,
           Head(n) \in Descriptions, NEW c \in Pcs
    PROVE  /\ InOrder(s, n, c) => InOrder(Learned(s, Head(n)), Tail(n), c)
           /\ Unheard(s, n, c) => Unheard(Learned(s, Head(n)), Tail(n), c)
<1> DEFINE msg == Head(n)
           t == Learned(s, msg)
           j == Task(msg.type, 0, msg.from, msg.to, msg.round)
           q == Now(s)
           r == Now(t)
           k == Tail(n)
<1>1. /\ t.cur = s.cur /\ t.pcs = s.pcs /\ r = Append(q, j)
      /\ j \in TaskRecords /\ j.kind # "propose" /\ j.from = msg.from
  BY LearnedOK
<1>2. q \in Seq(TaskRecords)
  BY NowType
<1>3. msg = n[1] /\ 1 \in DOMAIN n /\ msg.type \in {"offer", "answer"} /\ msg \in Descriptions
  BY DEF Descriptions
<1> HIDE DEF t, j
<1>4. /\ \A i \in DOMAIN r : i \in Nat /\ ((i \in DOMAIN q /\ r[i] = q[i]) \/ (i = Len(q) + 1 /\ r[i] = j))
      /\ \A i \in DOMAIN q : i <= Len(q) /\ i \in Nat
      /\ Len(q) \in Nat
  BY <1>1, <1>2
<1>5. \A i \in DOMAIN k : i \in Nat /\ 1 < i + 1 /\ i + 1 \in DOMAIN n /\ k[i] = n[i + 1]
  OBVIOUS
<1> HIDE DEF q, r, k
<1>6. ASSUME Unheard(s, n, c)
      PROVE  Unheard(t, k, c)
  <2>1. /\ \A i \in DOMAIN q : q[i].from # c
        /\ \A i \in DOMAIN n : n[i].from # c
        /\ \A p \in Pcs : s.pcs[p].remote # c /\ s.pcs[p].with # c
    BY <1>6 DEF Unheard, q
  <2>2. \A i \in DOMAIN r : r[i].from # c
    BY <1>1, <1>3, <1>4, <2>1
  <2>3. \A i \in DOMAIN k : k[i].from # c
    BY <1>5, <2>1
  <2> QED BY <1>1, <2>1, <2>2, <2>3 DEF Unheard, r
<1>7. ASSUME InOrder(s, n, c)
      PROVE  InOrder(t, k, c)
  <2>1. /\ KnowsOf(s, c) => /\ \A i \in DOMAIN q : ~Older(q[i], c)
                            /\ \A i \in DOMAIN n : ~OlderNews(n[i], c)
        /\ \A i \in DOMAIN q : q[i].from = c =>
             /\ \A x \in DOMAIN q : i < x => ~Older(q[x], c)
             /\ \A x \in DOMAIN n : ~OlderNews(n[x], c)
        /\ \A i, x \in DOMAIN n : n[i].from = c /\ i < x => ~OlderNews(n[x], c)
    BY <1>7 DEF InOrder, q
  <2>2. KnowsOf(t, c) = KnowsOf(s, c)
    BY <1>1 DEF KnowsOf
  <2>3. ~OlderNews(msg, c) => j.from = c /\ ~Older(j, c)
    BY <1>1, <1>3 DEF OlderNews, Older
  <2>4. (\A i \in DOMAIN n : ~OlderNews(n[i], c)) => ~OlderNews(msg, c) /\ \A i \in DOMAIN k : ~OlderNews(k[i], c)
    BY <1>3, <1>5
  <2>5. KnowsOf(t, c) => /\ \A i \in DOMAIN r : ~Older(r[i], c)
                         /\ \A i \in DOMAIN k : ~OlderNews(k[i], c)
    BY <1>4, <2>1, <2>2, <2>3, <2>4
  <2>6. ASSUME NEW i \in DOMAIN r, r[i].from = c
        PROVE  /\ \A x \in DOMAIN r : i < x => ~Older(r[x], c)
               /\ \A x \in DOMAIN k : ~OlderNews(k[x], c)
    <3>1. CASE i \in DOMAIN q /\ r[i] = q[i]
      <4>1. /\ \A x \in DOMAIN q : i < x => ~Older(q[x], c)
            /\ \A x \in DOMAIN n : ~OlderNews(n[x], c)
        BY <2>1, <2>6, <3>1
      <4> QED BY <1>4, <2>3, <2>4, <4>1
    <3>2. CASE i = Len(q) + 1 /\ r[i] = j
      <4>1. n[1].from = c
        BY <1>1, <1>3, <2>6, <3>2
      <4>2. \A x \in DOMAIN k : ~OlderNews(k[x], c)
        BY <1>3, <1>5, <2>1, <4>1
      <4>3. \A x \in DOMAIN r : ~(i < x)
        BY <1>4, <3>2
      <4> QED BY <4>2, <4>3
    <3> QED BY <1>4, <3>1, <3>2
  <2>7. ASSUME NEW i \in DOMAIN k, NEW x \in DOMAIN k, k[i].from = c, i < x
        PROVE  ~OlderNews(k[x], c)
    <3>1. i + 1 < x + 1 /\ n[i + 1].from = c /\ i + 1 \in DOMAIN n /\ x + 1 \in DOMAIN n
      BY <1>5, <2>7
    <3> QED BY <1>5, <2>1, <3>1
  <2> QED BY <2>5, <2>6, <2>7 DEF InOrder, r
<1> QED BY <1>6, <1>7 DEF t, k

LEMMA FreshUnheard ==
    ASSUME Base, NEW v \in Sides, Room(v)
    PROVE  Fresh(v) \in Pcs /\ Unheard(m[Other(v)], net[Other(v)], Fresh(v))
<1> DEFINE w == Other(v)
           c == Fresh(v)
<1>1. c \in Pcs /\ c \notin Refers(v)
  BY FreshIsFree DEF Free
<1>2. m[w].chain \in Chains
  BY Manager DEF Managers
<1>3. \A i \in DOMAIN Now(m[w]) : Now(m[w])[i] \in Tasks(m[w])
  BY <1>2 DEF Now, Tasks
<1> HIDE DEF c, w
<1>4. /\ \A j \in Tasks(m[w]) : j.from # c
      /\ \A p \in Pcs : m[w].pcs[p].remote # c /\ m[w].pcs[p].with # c
      /\ \A i \in DOMAIN net[w] : net[w][i].from # c
  BY <1>1 DEF Refers, w
<1>5. Unheard(m[w], net[w], c)
  BY <1>3, <1>4 DEF Unheard
<1> QED BY <1>1, <1>5 DEF c, w

LEMMA UnheardInOrder ==
    ASSUME NEW s \in Managers, NEW n, NEW c, Unheard(s, n, c)
    PROVE  InOrder(s, n, c)
<1>1. s.cur # 0 => s.cur \in Pcs
  BY Bounds DEF Managers, Numbers, Pcs
<1>2. ~KnowsOf(s, c)
  BY <1>1 DEF Unheard, KnowsOf
<1> QED BY <1>2 DEF Unheard, InOrder

LEMMA TellerHeard ==
    ASSUME Base, OrderOK, NEW v \in Sides, Acted(v)
    PROVE  Heard(Other(v), v)'
<1> DEFINE w == Other(v)
           s == m[w]
           n == net[w]
           c == m'[v].cur
           i == m'[v].inflight
<1>1. w \in Sides /\ w # v /\ Other(w) = v /\ s \in Managers /\ net \in [Sides -> Seq(Messages)]
      /\ n \in Seq(Messages) /\ m \in [Sides -> Managers]
  BY Manager DEF Base, TypeOK, Messages, Sides, Other
<1>2. m'[v] \in Managers /\ SideOK(m'[v])
  BY ActedOK DEF EachOK
<1>3. (c # 0 => c \in Pcs) /\ (i # 0 => i \in Pcs) /\ (c # 0 => i = 0)
  BY <1>2, Bounds DEF Managers, Numbers, Pcs, SideOK, PcsOK
<1>4. m'[w] = s
  BY <1>1 DEF Acted, Steps, HearsOf
<1>5. Heard(w, v)
  BY <1>1 DEF OrderOK
<1>6. (m[v].cur # 0 => InOrder(s, n, m[v].cur)) /\ (m[v].inflight # 0 => Unheard(s, n, m[v].inflight))
  BY <1>5 DEF Heard
<1> HIDE DEF s, n, c, i, w
<1>7. Steps(v) => (c # 0 => InOrder(s, n, c)) /\ (i # 0 => Unheard(s, n, i))
  <2>1. m[v].inflight # 0 => InOrder(s, n, m[v].inflight)
    BY <1>1, <1>6, UnheardInOrder
  <2>2. Room(v) => Unheard(s, n, Fresh(v))
    BY FreshUnheard DEF s, n, w
  <2> QED BY <1>6, <2>1, <2>2 DEF Steps, c, i
<1>8. SUFFICES (c # 0 => InOrder(s, net'[w], c)) /\ (i # 0 => Unheard(s, net'[w], i))
  BY <1>4 DEF Heard, c, i, w
<1>9. CASE Steps(v) /\ (Silent \/ Takes(v))
  <2>1. net'[w] = n
    BY <1>1, <1>9 DEF Silent, Takes, n
  <2> QED BY <1>7, <1>9, <2>1
<1>10. CASE Steps(v) /\ Announces
  <2>1. net'[w] = Append(n, Started)
    BY <1>1, <1>10 DEF Announces, n
  <2>2. Started \in Messages /\ Started.from = 0 /\ \A x : ~OlderNews(Started, x)
    BY DEF Started, Stopped, Messages, OlderNews
  <2>3. c # 0 => InOrder(s, Append(n, Started), c)
    BY <1>1, <1>3, <1>7, <1>10, <2>2, AppendHeard
  <2>4. i # 0 => Unheard(s, Append(n, Started), i)
    BY <1>1, <1>3, <1>7, <1>10, <2>2, AppendHeard
  <2> QED BY <2>1, <2>3, <2>4
<1>11. CASE c = 0 /\ i = 0
  BY <1>11
<1>12. CASE /\ Steps(v) /\ m[v].cur # 0 /\ c = m[v].cur
            /\ \E d \in Descriptions : d.from = m[v].cur /\ Says(v, d)
  <2>1. PICK d \in Descriptions : d.from = c /\ Says(v, d)
    BY <1>12
  <2>2. net'[w] = Append(n, d)
    BY <1>1, <2>1 DEF Says, n, w
  <2>3. ~OlderNews(d, c) /\ d \in Messages
    BY <2>1 DEF OlderNews, Descriptions, Stopped, Messages
  <2>4. InOrder(s, Append(n, d), c)
    BY <1>1, <1>3, <1>7, <1>12, <2>3, AppendHeard
  <2> QED BY <1>3, <1>12, <2>2, <2>4
<1>13. CASE HearsOf(v) \/ (m' = m /\ Takes(v))
  <2>1. net'[w] = n
    BY <1>1, <1>13 DEF HearsOf, Takes, n
  <2>2. c = m[v].cur /\ i = m[v].inflight
    <3>1. CASE m' = m
      BY <3>1 DEF c, i
    <3>2. CASE HearsOf(v)
      <4>1. m'[v] = Learned(m[v], Head(net[v])) /\ Head(net[v]) \in Descriptions
        BY <1>1, <3>2 DEF HearsOf
      <4> QED BY <4>1, Manager, LearnedOK DEF c, i
    <3> QED BY <1>13, <3>1, <3>2
  <2> QED BY <1>6, <2>1, <2>2
<1> QED BY <1>9, <1>10, <1>11, <1>12, <1>13 DEF Acted, c, i

LEMMA HearerHeard ==
    ASSUME Base, OrderOK, NEW u \in Sides, Acted(u)
    PROVE  Heard(u, Other(u))'
<1> DEFINE v == Other(u)
           s == m[u]
           t == m'[u]
           n == net[u]
           c == m[v].cur
           i == m[v].inflight
<1>1. v \in Sides /\ v # u /\ s \in Managers /\ SideOK(s) /\ net \in [Sides -> Seq(Messages)]
      /\ n \in Seq(Messages) /\ m \in [Sides -> Managers] /\ m[v] \in Managers
  BY Manager DEF Base, TypeOK, Messages
<1>2. (c # 0 => c \in Pcs) /\ (i # 0 => i \in Pcs)
  BY Manager, <1>1
<1>3. m'[v] = m[v]
  BY <1>1 DEF Acted, Steps, HearsOf
<1>4. (c # 0 => InOrder(s, n, c)) /\ (i # 0 => Unheard(s, n, i))
  BY DEF OrderOK, Heard
<1> HIDE DEF s, n, c, i, v, t
<1>5. Steps(u) => (c # 0 => InOrder(t, n, c)) /\ (i # 0 => Unheard(t, n, i))
  <2>1. Steps(u) => t \in Managers /\ Turns(s, t)
    BY DEF Steps, Turns, s, t
  <2> QED BY <1>1, <1>2, <1>4, <2>1, TurnHeard
<1>6. SUFFICES (c # 0 => InOrder(t, net'[u], c)) /\ (i # 0 => Unheard(t, net'[u], i))
  BY <1>3 DEF Heard, c, i, v, t
<1>7. CASE Steps(u) /\ (Silent \/ \E d : Says(u, d))
  <2>1. net'[u] = n
    BY <1>1, <1>7 DEF Silent, Says, n, v
  <2> QED BY <1>5, <1>7, <2>1
<1>8. CASE Steps(u) /\ Takes(u)
  <2>1. net'[u] = Tail(n) /\ n # <<>>
    BY <1>1, <1>8 DEF Takes, n
  <2> QED BY <1>1, <1>5, <1>8, <2>1, TailHeard
<1>9. CASE Steps(u) /\ Announces
  <2>1. net'[u] = Append(n, Started)
    BY <1>1, <1>9 DEF Announces, n
  <2>2. Started \in Messages /\ Started.from = 0 /\ \A x : ~OlderNews(Started, x)
    BY DEF Started, Stopped, Messages, OlderNews
  <2>3. c # 0 => InOrder(t, Append(n, Started), c)
    BY <1>1, <1>2, <1>5, <1>9, <2>2, AppendHeard
  <2>4. i # 0 => Unheard(t, Append(n, Started), i)
    BY <1>1, <1>2, <1>5, <1>9, <2>2, AppendHeard
  <2> QED BY <2>1, <2>3, <2>4
<1>10. CASE HearsOf(u)
  <2>1. t = Learned(s, Head(n)) /\ net'[u] = Tail(n) /\ n # <<>> /\ Head(n) \in Descriptions
    BY <1>1, <1>10 DEF HearsOf, s, t, n
  <2> QED BY <1>1, <1>2, <1>4, <2>1, LearnedHeard
<1>11. CASE m' = m /\ Takes(u)
  <2>1. net'[u] = Tail(n) /\ n # <<>> /\ t = s
    BY <1>1, <1>11 DEF Takes, n, s, t
  <2> QED BY <1>1, <1>4, <2>1, TailHeard
<1> QED BY <1>7, <1>8, <1>9, <1>10, <1>11 DEF Acted

LEMMA OrderKept ==
    ASSUME Base, OrderOK, [Next]_vars
    PROVE  OrderOK'
<1>1. CASE Next
  <2>1. PICK u \in Sides : Acted(u)
    BY <1>1, NextActed
  <2>2. Heard(u, Other(u))' /\ Heard(Other(u), u)'
    BY <2>1, TellerHeard, HearerHeard
  <2>3. \A w \in Sides : w = u \/ (w = Other(u) /\ Other(w) = u)
    BY DEF Sides, Other
  <2> QED BY <2>2, <2>3 DEF OrderOK
<1>2. CASE UNCHANGED vars
  BY <1>2 DEF vars, OrderOK, Heard
<1> QED BY <1>1, <1>2

LEMMA InitOrder ==
    ASSUME Init
    PROVE  OrderOK
  BY DEF Init, OrderOK, Heard, Idle, Sides, Other

-----------------------------------------------------------------------------
(* The theorems.  All are about servers and keys that are at hand: with slow  *)
(* fetches, OneConnection does not hold (README, section 5).                  *)

\* The strengthening of OneConnection and SameHistory that is inductive: in each side the chain
\* of the manager holds all its tasks, and only the first is at work (enqueueSignalingTask,
\* forgetSignalingChain); it works on the entry of peers or on one that was closed; and what
\* a connection knows of the peer's is what that task told it.
THEOREM SidesHold == ~SlowFetch => (Spec => []Base)
<1>1. ~SlowFetch /\ Init => Base
  BY InitBase
<1>2. Base /\ [Next]_vars => Base'
  BY BaseKept
<1> QED BY <1>1, <1>2, PTL DEF Spec

\* Type correctness of the mesh.
THEOREM TypeCorrect == ~SlowFetch => (Spec => []TypeOK)
<1>1. Base => TypeOK
  BY DEF Base
<1> QED BY <1>1, SidesHold, PTL

\* One connection a side, the one in its map, with one task at work on it at most.
THEOREM OneConnectionHolds == ~SlowFetch => (Spec => []OneConnection)
<1>1. Base => OneConnection
  <2>1. SUFFICES ASSUME Base, NEW u \in Sides
        PROVE  /\ m[u].cur # 0 => IsOpen(m[u].pcs[m[u].cur])
               /\ \A p \in Pcs : IsOpen(m[u].pcs[p]) =>
                   /\ p = m[u].cur /\ m[u].inVoice
                   /\ \A c, d \in Busy(m[u]) : WorksOn(m[u], c, p) /\ WorksOn(m[u], d, p) => c = d
    BY DEF OneConnection
  <2> QED BY <2>1, Manager, Bounds DEF SideOK, PcsOK, ChainOK
<1> QED BY <1>1, SidesHold, PTL

\* No offer meets a connection negotiated with another of the peer's, and no answer one that does
\* not wait for it.
THEOREM SameHistoryHolds == ~SlowFetch => (Spec => []SameHistory)
<1>1. Base => SameHistory
  <2>1. SUFFICES ASSUME Base, NEW u \in Sides, NEW c \in Busy(m[u]),
                        Head(m[u].jobs[c]).at = "remote", ~Hung(m[u], Head(m[u].jobs[c]))
        PROVE  LET j == Head(m[u].jobs[c])
               IN  /\ j.kind = "offer" => m[u].pcs[j.pc].with \in {0, j.from}
                   /\ j.kind = "answer" => m[u].pcs[j.pc].sig = "offering"
    BY DEF SameHistory
  <2> DEFINE s == m[u]
             j == Head(Now(s))
  <2>2. s \in Managers /\ SideOK(s)
    BY <2>1, Manager
  <2>3. s.jobs[c] = Now(s) /\ Now(s) # <<>> /\ TaskOK(s, j)
    BY <2>1, <2>2, TheTask
  <2>4. j.at = "remote" /\ s.pcs[j.pc].sig # "closed"
    BY <2>1, <2>3 DEF Hung
  <2>5. j.pc = s.cur /\ s.cur # 0
    BY <2>3, <2>4 DEF TaskOK
  <2>6. /\ j.kind = "offer" => s.pcs[j.pc].with \in {0, j.from}
        /\ j.kind = "answer" => s.pcs[j.pc].sig = "offering"
    BY <2>2, <2>3, <2>4, <2>5 DEF SideOK, PeerOK, AtWork
  <2> QED BY <2>3, <2>6
<1> QED BY <1>1, SidesHold, PTL

\* The invariant of both sides: what is on its way, and what waits in the chains, comes in the
\* order in which the peer made its connections.
THEOREM OrderHolds == ~SlowFetch => (Spec => []IInv)
<1>1. ~SlowFetch /\ Init => Base /\ OrderOK
  BY InitBase, InitOrder
<1>2. Base /\ OrderOK /\ [Next]_vars => (Base /\ OrderOK)'
  BY BaseKept, OrderKept
<1>3. Base /\ OrderOK => IInv
  BY DEF Base, IInv
<1> QED BY <1>1, <1>2, <1>3, PTL DEF Spec

\* What a linked side hears next is not of an older connection.
LEMMA LinkedHears ==
    ASSUME Base, OrderOK, Linked, NEW u \in Sides
    PROVE  LET s == m[u]
           IN  /\ s.cur # 0 /\ s.pcs[s.cur].sig = "stable" /\ s.pcs[s.cur].conn = "connected"
               /\ s.pcs[s.cur].with # 0
               /\ net[u] # <<>> => Head(net[u]) # Stopped
               /\ Now(s) # <<>> /\ Head(Now(s)).kind = "offer" => Head(Now(s)).from = s.pcs[s.cur].with
<1> DEFINE s == m[u]
           c == m[Other(u)].cur
<1>1. /\ s.cur # 0 /\ s.pcs[s.cur].sig = "stable" /\ s.pcs[s.cur].conn = "connected"
      /\ s.pcs[s.cur].with = c /\ c # 0
  BY Manager DEF Linked
<1>2. InOrder(s, net[u], c) /\ KnowsOf(s, c)
  BY <1>1 DEF OrderOK, Heard, KnowsOf
<1>3. net[u] \in Seq(Messages) /\ Now(s) \in Seq(TaskRecords)
  BY Manager, NowType DEF Base, TypeOK, Messages
<1>4. net[u] # <<>> => Head(net[u]) # Stopped
  BY <1>2, <1>3 DEF InOrder, OlderNews
<1>5. Now(s) # <<>> => ~Older(Head(Now(s)), c)
  BY <1>2, <1>3 DEF InOrder
<1> QED BY <1>1, <1>4, <1>5 DEF Older

LEMMA SignalKeeps ==
    ASSUME Base, OrderOK, Linked, NEW u \in Sides, Signal(u)
    PROVE  Steps(u) /\ m'[u].cur = m[u].cur
<1> DEFINE s == m[u]
<1>1. PICK c \in Busy(m[u]) :
        \/ BeginPropose(u, c) \/ BeginAnswer(u, c) \/ BeginOffer(u, c)
        \/ ApplyOffer(u, c) \/ ApplyAnswer(u, c) \/ KeysReady(u, c) \/ SetLocal(u, c)
  BY DEF Signal
<1>2. CASE BeginOffer(u, c)
  <2>1. s \in Managers /\ SideOK(s) /\ s.jobs[c] = Now(s) /\ Now(s) # <<>>
    BY Manager, TheTask
  <2>2. Head(Now(s)).at = "queued" /\ Head(Now(s)).kind = "offer"
    BY <1>2, <2>1 DEF BeginOffer, At
  <2>3. s.cur # 0 /\ s.pcs[s.cur].with # 0 /\ Head(Now(s)).from = s.pcs[s.cur].with
    BY <2>1, <2>2, LinkedHears
  <2>4. s.pcs[s.cur].remote = Head(Now(s)).from
    BY <2>1, <2>2, <2>3, Queued
  <2> QED BY <1>2, <2>4, BeginOfferSteps
<1> QED BY <1>1, <1>2, BeginProposeSteps, BeginAnswerSteps, ApplyOfferSteps, ApplyAnswerSteps,
           KeysReadySteps, SetLocalSteps

LEMMA HearKeeps ==
    ASSUME Base, OrderOK, Linked, NEW u \in Sides, Hear(u)
    PROVE  m' = [m EXCEPT ![u] = m'[u]] /\ m'[u].cur = m[u].cur
<1> DEFINE msg == Head(net[u])
<1>1. net[u] # <<>> /\ net[u] \in Seq(Messages) /\ msg \in Messages /\ m \in [Sides -> Managers]
  BY DEF Hear, Base, TypeOK, Messages
<1>2. msg # Stopped
  BY <1>1, LinkedHears
<1>3. CASE msg = Started
  <2>1. HearStarted(u)
    BY <1>3 DEF Hear, Started, Stopped
  <2> QED BY <2>1, HearStartedSteps DEF Steps
<1>4. CASE msg # Started
  <2>1. m' = [m EXCEPT ![u] = Learned(m[u], msg)] /\ msg \in Descriptions
    BY <1>1, <1>2, <1>4 DEF Hear, HearDescription, Learned, Messages
  <2>2. Learned(m[u], msg).cur = m[u].cur
    BY <2>1, Manager, LearnedOK
  <2> QED BY <1>1, <2>1, <2>2
<1> QED BY <1>3, <1>4

LEMMA LinkedKeeps ==
    ASSUME Base, OrderOK, Linked, BothIn, BothIn', Next
    PROVE  \A w \in Sides : m'[w].cur = m[w].cur
<1>1. m \in [Sides -> Managers]
  BY DEF Base, TypeOK
<1>2. PICK u \in Sides :
        \/ Join(u) \/ Leave(u) \/ AddMedia(u) \/ Lose(u)
        \/ Works(u) \/ Connect(u) \/ Fail(u) \/ Timers(u)
  BY DEF Next
<1>3. m[u].inVoice /\ m'[u].inVoice
  BY <1>2 DEF BothIn, Sides
<1>4. \/ m' = m
      \/ m' = [m EXCEPT ![u] = m'[u]] /\ m'[u].cur = m[u].cur
  <2>1. CASE Join(u)
    BY <1>3, <2>1 DEF Join
  <2>2. CASE Leave(u)
    BY <1>3, <2>2, LeaveSteps
  <2>3. CASE AddMedia(u) \/ Connect(u) \/ Fail(u)
    BY <2>3, AddMediaSteps, ConnectSteps, FailSteps DEF Steps
  <2>4. CASE Lose(u)
    BY <2>4 DEF Lose
  <2>5. CASE Hear(u)
    BY <2>5, HearKeeps
  <2>6. CASE CallUser(u) \/ NegotiationNeeded(u)
    BY <2>6, CallUserSteps, NegotiationNeededSteps DEF Steps
  <2>7. CASE FinishBuild(u)
    BY <2>7, FinishBuildSteps, LinkedHears
  <2>8. CASE Signal(u)
    BY <2>8, SignalKeeps DEF Steps
  <2>9. CASE Timers(u)
    <3>1. m[u].cur # 0 /\ m[u].pcs[m[u].cur].sig = "stable" /\ m[u].pcs[m[u].cur].conn = "connected"
      BY LinkedHears
    <3> QED BY <2>9, <3>1, StuckFiresSteps, DeadlineFiresSteps, BackoffFiresSteps DEF Timers, Steps
  <2> QED BY <1>2, <2>1, <2>2, <2>3, <2>4, <2>5, <2>6, <2>7, <2>8, <2>9 DEF Works
<1> QED BY <1>1, <1>4

\* A call that is up is not replaced, by a late offer, answer or timer, while both stay in voice.
THEOREM CallKeptHolds == ~SlowFetch => (Spec => CallKept)
<1>1. Base /\ OrderOK /\ [Next]_vars =>
        [Linked /\ BothIn /\ BothIn' => \A u \in Sides : m'[u].cur = m[u].cur]_vars
  BY LinkedKeeps
<1>2. ~SlowFetch /\ Init => Base /\ OrderOK
  BY InitBase, InitOrder
<1>3. Base /\ OrderOK /\ [Next]_vars => (Base /\ OrderOK)'
  BY BaseKept, OrderKept
<1> QED BY <1>1, <1>2, <1>3, PTL DEF Spec, CallKept
=============================================================================
