------------------------- MODULE PermsSweepProofs -------------------------
(* Proofs about PermsSweep, for every set of sockets, users and changes and *)
(* every bound.                                                             *)
EXTENDS PermsSweep, TLAPS

-----------------------------------------------------------------------------
(* The inductive invariant.                                                  *)

\* The entry lives as long as its runner; at most one run is owed beyond the
\* one started; nobody waits for a run that is not owed.
QueueOK ==
    /\ runner = NoRunner <=> queue = NoQueue
    /\ queue # NoQueue =>
         /\ queue.finished <= queue.started
         /\ queue.started <= queue.wanted /\ queue.wanted <= queue.started + 1
         /\ runner.at # "loop" => queue.finished < queue.started
    /\ \A k \in Changes : change[k].at = "waiting" =>
         IF queue = NoQueue THEN change[k].run = 0 ELSE change[k].run <= queue.wanted

\* A run that has not started will look at u for the sake of some change.
Asked(u) ==
    \E k \in Changes :
        /\ change[k].at \in {"committed", "waiting"} /\ change[k].user = u
        /\ change[k].at = "waiting" => queue # NoQueue /\ change[k].run = queue.started + 1

\* The run that is going on has u still before it, or has u's refusal in hand.
Coming(u) ==
    \/ runner.at \in {"starting", "started"}
    \/ runner.at \in {"scoping", "sweeping", "acting"} /\ u \in runner.todo
    \/ runner.at = "acting" /\ runner.user = u /\ runner.answer \in {"denied", "failed"}

Underway(u) ==
    /\ queue # NoQueue /\ Coming(u)
    /\ \E k \in Changes :
         change[k].at = "waiting" /\ change[k].user = u /\ change[k].run = queue.started

\* Somebody shut out is in the room only while somebody is still to look.
Covered ==
    \A u \in Users : perm[u] = "denied" /\ u \notin unsure =>
        Asked(u) \/ Underway(u) \/ \A c \in SocketsOf(u) : ToBeChecked(c)

\* A run about to keep a user by an answer that is out of date is not the last.
Stale ==
    runner.at = "acting" /\ runner.answer \in {"muted", "speaker"}
      /\ perm[runner.user] = "denied" => Asked(runner.user)

(* The flags.  Whoever is in the room with a flag that is not the            *)
(* database's is still to be looked at, by a run or by a join.               *)

\* A sweep is to come that is not yet counted in the epoch.
Uncounted(u) ==
    \/ \E k \in Changes : change[k].at = "committed" /\ change[k].user = u
    \/ queue # NoQueue /\ queue.wanted > queue.started
    \/ runner.at = "starting"

\* The run that is going on has u still before it, or u's answer in hand.
Before(u) ==
    \/ runner.at = "started"
    \/ runner.at \in {"scoping", "sweeping", "acting"} /\ u \in runner.todo
    \/ runner.at = "acting" /\ runner.user = u

\* A join that will ask for a sweep: one was counted since it read the epoch.
Outrun(c) ==
    /\ \/ join[c].at = "stored"
       \/ join[c].at = "answered" /\ join[c].answer \in {"muted", "speaker"}
    /\ join[c].epoch # epoch

\* A join that will set the flag right, or take its socket out.
Checks(c) ==
    \/ join[c].at \in {"inserted", "checking"}
    \/ join[c].at = "answered" /\ join[c].answer \in {perm[UserOf[c]], "denied", "failed"}

WrongFlag(u) == ~(u \in muted <=> perm[u] = "muted")

LookedAt(u) ==
    \/ Uncounted(u) \/ Before(u)
    \/ \E c \in Conns : UserOf[c] = u /\ Outrun(c)
    \/ \A c \in SocketsOf(u) : Checks(c)

Flags == \A u \in Present \ unsure : WrongFlag(u) => LookedAt(u)

\* An answer that is out of date was read before a change whose sweep is still
\* to come, or has overtaken the join that holds it.
OldInJoin ==
    \A c \in Conns :
        join[c].at = "answered" /\ join[c].answer \in {"muted", "speaker"}
          /\ join[c].answer # perm[UserOf[c]] => join[c].epoch # epoch \/ Uncounted(UserOf[c])

OldInRun ==
    runner.at = "acting" /\ runner.answer \in {"muted", "speaker"}
      /\ runner.answer # perm[runner.user] => Uncounted(runner.user)

\* No join has read an epoch that is still to come.
Epochs ==
    \A c \in Conns : join[c].at \in {"checking", "answered", "stored"} => join[c].epoch <= epoch

FlagInv == Flags /\ OldInJoin /\ OldInRun /\ Epochs

IInv ==
    TypeOK /\ QueueOK /\ RetriesKept /\ (Intact => Covered /\ Stale /\ FlagInv)

-----------------------------------------------------------------------------
(* What a request does to the entry.                                         *)

(* A request leaves an entry that owes one run more than it has started, the *)
(* run of its ticket, with at least the retries it brought.                  *)
LEMMA RequestedEntry ==
    ASSUME TypeOK, QueueOK, NEW n \in 0..MaxRetries
    PROVE  /\ Requested(n) \in Queue /\ Requested(n) # NoQueue
           /\ Requested(n).wanted = Requested(n).started + 1
           /\ Requested(n).finished <= Requested(n).started
           /\ n <= Requested(n).retries
           /\ Ticket = Requested(n).wanted /\ Ticket \in Nat
           /\ IF queue = NoQueue THEN Requested(n).started = 0
              ELSE /\ Requested(n).started = queue.started
                   /\ Requested(n).finished = queue.finished
                   /\ queue.retries <= Requested(n).retries
<1>1. MaxRetries \in Nat BY SweepAssumption
<1>2. CASE queue = NoQueue
  BY <1>1, <1>2, QueueAssumption DEF Requested, Queue, Ticket
<1>3. CASE queue # NoQueue
  <2>1. queue \in Queue BY <1>3 DEF TypeOK
  <2>2. MaxOf(queue.wanted, Ticket) = queue.started + 1 /\ Ticket = queue.started + 1
    BY <1>3, <2>1 DEF QueueOK, MaxOf, Ticket, Queue
  <2>3. MaxOf(queue.retries, n) \in 0..MaxRetries
        /\ n <= MaxOf(queue.retries, n) /\ queue.retries <= MaxOf(queue.retries, n)
    BY <1>1, <2>1 DEF MaxOf, Queue
  <2>4. Requested(n) = [queue EXCEPT !.wanted = queue.started + 1,
                                     !.retries = MaxOf(queue.retries, n)]
    BY <1>3, <2>2 DEF Requested
  <2>5. Requested(n) \in Queue
    <3>1. queue.started + 1 \in Nat BY <2>1 DEF Queue
    <3> DEFINE w == queue.started + 1
               r == MaxOf(queue.retries, n)
    <3> HIDE DEF w, r
    <3>2. [queue EXCEPT !.wanted = w, !.retries = r] \in Queue
      BY <2>1, <2>3, <3>1 DEF Queue, w, r
    <3> QED BY <2>4, <3>2 DEF w, r
  <2> QED BY <1>3, <2>1, <2>2, <2>3, <2>4, <2>5, QueueAssumption DEF QueueOK, Queue
<1> QED BY <1>2, <1>3

-----------------------------------------------------------------------------
(* Types.                                                                    *)

(* A request keeps the entry's and the runner's types.                       *)
LEMMA RequestType ==
    ASSUME TypeOK, QueueOK, NEW n \in 0..MaxRetries, RequestSweep(n)
    PROVE  queue' \in Queue /\ runner' \in Runner
BY RequestedEntry DEF RequestSweep, TypeOK, Runner

(* Sockets that leave take the flags of users who are out with them.         *)
LEMMA RemoveType ==
    ASSUME TypeOK, NEW S, Remove(S)
    PROVE  member' \in SUBSET Conns /\ muted' \in SUBSET {UserOf[c] : c \in member'}
BY DEF Remove, TypeOK, SocketsOf

(* Only somebody in the room is flagged.                                     *)
LEMMA FlaggedType ==
    ASSUME TypeOK, NEW u \in Users, NEW a
    PROVE  Flagged(u, a) \in SUBSET {UserOf[c] : c \in member}
BY DEF Flagged, TypeOK, SocketsOf

(* Releasing the waiters keeps the changes' type.                            *)
LEMMA ReleasedType ==
    ASSUME TypeOK
    PROVE  Released \in [Changes -> Change]
<1>1. ASSUME NEW k \in Changes, change[k].at = "waiting"
      PROVE  [change[k] EXCEPT !.run = 0] \in Change
  <2>1. change[k] \in [at : {"waiting"}, user : Users, run : Nat]
    BY <1>1 DEF TypeOK, Change, NoChange
  <2> QED BY <2>1 DEF Change
<1> QED BY <1>1 DEF Released, TypeOK

(* The bounds' counters stay within the bounds.                              *)
LEMMA SpentType ==
    ASSUME TypeOK
    PROVE  /\ Fault => spent' \in [joins : 0..MaxJoins, faults : 0..MaxFaults, panics : 0..MaxPanics]
           /\ spent.panics < MaxPanics => [spent EXCEPT !.panics = @ + 1]
                \in [joins : 0..MaxJoins, faults : 0..MaxFaults, panics : 0..MaxPanics]
           /\ spent.joins < MaxJoins => [spent EXCEPT !.joins = @ + 1]
                \in [joins : 0..MaxJoins, faults : 0..MaxFaults, panics : 0..MaxPanics]
<1> DEFINE Spent == [joins : 0..MaxJoins, faults : 0..MaxFaults, panics : 0..MaxPanics]
<1>1. spent \in Spent BY DEF TypeOK
<1>2. \A n, m \in Nat : n \in 0..m /\ n < m => n + 1 \in 0..m
  OBVIOUS
<1>3. \A n : /\ n \in 0..MaxJoins => [spent EXCEPT !.joins = n] \in Spent
             /\ n \in 0..MaxFaults => [spent EXCEPT !.faults = n] \in Spent
             /\ n \in 0..MaxPanics => [spent EXCEPT !.panics = n] \in Spent
  BY <1>1
<1>4. /\ spent.joins < MaxJoins => spent.joins + 1 \in 0..MaxJoins
      /\ spent.faults < MaxFaults => spent.faults + 1 \in 0..MaxFaults
      /\ spent.panics < MaxPanics => spent.panics + 1 \in 0..MaxPanics
  <2>1. spent.joins \in 0..MaxJoins /\ spent.faults \in 0..MaxFaults
        /\ spent.panics \in 0..MaxPanics
    BY <1>1
  <2> QED BY <1>2, <2>1, SweepAssumption
<1> HIDE DEF Spent
<1>5. /\ Fault => spent' \in Spent
      /\ spent.panics < MaxPanics => [spent EXCEPT !.panics = @ + 1] \in Spent
      /\ spent.joins < MaxJoins => [spent EXCEPT !.joins = @ + 1] \in Spent
  BY <1>3, <1>4 DEF Fault
<1> QED BY <1>5 DEF Spent

(* The initial state is well typed.                                          *)
LEMMA InitType == Init => TypeOK
<1> SUFFICES ASSUME Init PROVE TypeOK
  OBVIOUS
<1>1. perm \in [Users -> Rights] /\ join \in [Conns -> Join] /\ runner \in Runner
      /\ change \in [Changes -> Change]
  BY DEF Init, Rights, Join, Change, Runner
<1>2. spent \in [joins : 0..MaxJoins, faults : 0..MaxFaults, panics : 0..MaxPanics]
  BY SweepAssumption DEF Init
<1> QED BY <1>1, <1>2 DEF Init, TypeOK

(* A change: commit, ask, be answered.                                       *)
LEMMA ChangeType ==
    ASSUME TypeOK, QueueOK, NEW k \in Changes,
           \/ \E u \in Users, right \in Rights : Commit(k, u, right)
           \/ AskForSweep(k) \/ Answered(k)
    PROVE  TypeOK'
<1>1. ASSUME NEW u \in Users, NEW right \in Rights, Commit(k, u, right)
      PROVE  TypeOK'
  BY <1>1 DEF Commit, TypeOK, Change
<1>2. CASE AskForSweep(k)
  <2>1. change[k].user \in Users
    BY <1>2 DEF AskForSweep, TypeOK, Change, NoChange
  <2>2. MaxRetries \in 0..MaxRetries BY SweepAssumption
  <2>3. queue' \in Queue /\ runner' \in Runner /\ Ticket \in Nat
    BY <1>2, <2>2, RequestType, RequestedEntry DEF AskForSweep
  <2>4. change' \in [Changes -> Change]
    BY <1>2, <2>1, <2>3 DEF AskForSweep, TypeOK, Change
  <2> QED BY <1>2, <2>3, <2>4 DEF AskForSweep, TypeOK
<1>3. CASE Answered(k)
  <2>1. change[k].user \in Users
    BY <1>3 DEF Answered, TypeOK, Change, NoChange
  <2> QED BY <1>3, <2>1 DEF Answered, TypeOK, Change
<1> QED BY <1>1, <1>2, <1>3

(* The runner and its sweep, and the retries it leaves behind.               *)
LEMMA SweepType ==
    ASSUME TypeOK, QueueOK, Sweep \/ Panic
    PROVE  TypeOK'
<1>1. CASE RunnerLeaves
  BY <1>1, ReleasedType DEF RunnerLeaves, TypeOK, Runner
<1>2. CASE RunStarts
  <2>1. queue \in Queue
    BY <1>2 DEF RunStarts, TypeOK, QueueOK, NoRunner
  <2>2. [queue EXCEPT !.started = @ + 1, !.retries = 0] \in Queue
    <3>1. queue.started + 1 \in Nat /\ 0 \in 0..MaxRetries
      BY <2>1, SweepAssumption DEF Queue
    <3> DEFINE n == queue.started + 1
    <3> HIDE DEF n
    <3>2. [queue EXCEPT !.started = n, !.retries = 0] \in Queue
      BY <2>1, <3>1 DEF Queue, n
    <3> QED BY <3>2 DEF n
  <2>3. queue.retries \in 0..MaxRetries
    BY <2>1 DEF Queue
  <2> QED BY <1>2, <2>2, <2>3 DEF RunStarts, TypeOK, Runner
<1>3. CASE CountSweep
  <2>1. runner \in [at : {"starting", "started"}, retries : 0..MaxRetries]
    BY <1>3 DEF CountSweep, TypeOK, Runner, NoRunner
  <2> QED BY <1>3, <2>1 DEF CountSweep, TypeOK, Runner
<1>4. CASE Snapshot
  <2>1. runner \in [at : {"starting", "started"}, retries : 0..MaxRetries]
    BY <1>4 DEF Snapshot, TypeOK, Runner, NoRunner
  <2>2. Present \in SUBSET Users
    BY DEF Present, Users, TypeOK
  <2> QED BY <1>4, <2>1, <2>2 DEF Snapshot, TypeOK, Runner
<1>5. CASE Scoped \/ Unscoped
  <2>1. runner \in [at : {"scoping"}, retries : 0..MaxRetries, todo : SUBSET Users]
    BY <1>5 DEF Scoped, Unscoped, TypeOK, Runner, NoRunner
  <2>2. \A b \in BOOLEAN :
          [at |-> "sweeping", scoped |-> b, todo |-> runner.todo] \in Runner
    BY <2>1 DEF Runner
  <2>3. runner' \in Runner
    BY <1>5, <2>2 DEF Scoped, Unscoped
  <2>4. timers' \in [0..MaxRetries -> Nat]
    <3>1. runner.retries \in Nat /\ runner.retries # 0 => runner.retries - 1 \in 0..MaxRetries
      BY <2>1, SweepAssumption
    <3>2. \A n \in 0..MaxRetries : [timers EXCEPT ![n] = @ + 1] \in [0..MaxRetries -> Nat]
      BY DEF TypeOK
    <3>3. runner.retries \in Nat
      BY <2>1, SweepAssumption
    <3> QED BY <1>5, <3>1, <3>2, <3>3 DEF Scoped, Unscoped, TypeOK
  <2> QED BY <1>5, <2>3, <2>4, SpentType DEF Scoped, Unscoped, TypeOK
<1>6. ASSUME NEW u \in Users, Resolve(u)
      PROVE  TypeOK'
  <2>1. runner \in [at : {"sweeping"}, scoped : BOOLEAN, todo : SUBSET Users]
    BY <1>6 DEF Resolve, TypeOK, Runner, NoRunner
  <2>2. perm[u] \in Answers /\ "failed" \in Answers
    BY DEF TypeOK, Answers
  <2>3. runner' \in Runner
    BY <1>6, <2>1, <2>2 DEF Resolve, Runner
  <2> QED BY <1>6, <2>3, SpentType DEF Resolve, TypeOK
<1>7. CASE Act
  <2>1. runner \in [at : {"acting"}, scoped : BOOLEAN, todo : SUBSET Users,
                    user : Users, answer : Answers]
    BY <1>7 DEF Act, TypeOK, Runner, NoRunner
  <2>2. runner' \in Runner
    BY <1>7, <2>1 DEF Act, Runner
  <2>3. member' \in SUBSET Conns /\ muted' \in SUBSET {UserOf[c] : c \in member'}
    BY <1>7, <2>1, RemoveType, FlaggedType DEF Act, TypeOK
  <2>4. unsure' \in SUBSET Users
    BY <1>7, <2>1 DEF Act, TypeOK
  <2> QED BY <1>7, <2>2, <2>3, <2>4 DEF Act, TypeOK
<1>8. CASE RunEnds
  <2>1. queue \in Queue
    BY <1>8 DEF RunEnds, TypeOK, QueueOK, NoRunner
  <2>2. [queue EXCEPT !.finished = queue.started] \in Queue
    BY <2>1 DEF Queue
  <2> QED BY <1>8, <2>2 DEF RunEnds, TypeOK, Runner
<1>9. CASE Panic
  BY <1>9, ReleasedType, SpentType DEF Panic, QueueAfterPanic, TypeOK, Runner
<1>10. ASSUME NEW n \in 0..MaxRetries, RetryFires(n)
       PROVE  TypeOK'
  <2>1. timers' \in [0..MaxRetries -> Nat]
    BY <1>10, SweepAssumption DEF RetryFires, TypeOK
  <2> QED BY <1>10, <2>1, RequestType DEF RetryFires, TypeOK
<1> QED BY <1>1, <1>2, <1>3, <1>4, <1>5, <1>6, <1>7, <1>8, <1>9, <1>10 DEF Sweep, Run

(* A join, and a socket that leaves.                                         *)
LEMMA JoinType ==
    ASSUME TypeOK, QueueOK, NEW c \in Conns, PassGate(c) \/ Joining(c) \/ Leave(c)
    PROVE  TypeOK'
<1>1. UserOf[c] \in Users BY DEF Users
<1>2. CASE PassGate(c)
  <2>1. join' \in [Conns -> Join]
    BY <1>2 DEF PassGate, TypeOK, Join
  <2> QED BY <1>2, <2>1, SpentType DEF PassGate, TypeOK
<1>3. CASE Insert(c)
  <2>1. join' \in [Conns -> Join]
    BY <1>3 DEF Insert, TypeOK, Join
  <2> QED BY <1>3, <2>1 DEF Insert, TypeOK
<1>4. CASE ReadEpoch(c)
  BY <1>4 DEF ReadEpoch, TypeOK, Join
<1>5. CASE Recheck(c)
  <2>1. join[c].epoch \in Nat
    BY <1>5 DEF Recheck, TypeOK, Join, Idle
  <2>2. perm[UserOf[c]] \in Answers /\ "failed" \in Answers
    BY <1>1 DEF TypeOK, Answers
  <2>3. join' \in [Conns -> Join]
    BY <1>5, <2>1, <2>2 DEF Recheck, TypeOK, Join
  <2> QED BY <1>5, <2>3, SpentType DEF Recheck, TypeOK
<1>6. CASE Withdraw(c)
  <2>1. join' \in [Conns -> Join]
    BY <1>6 DEF Withdraw, TypeOK, Join
  <2> QED BY <1>6, <2>1, RemoveType DEF Withdraw, TypeOK
<1>7. CASE Store(c)
  <2>1. join[c].epoch \in Nat
    BY <1>7 DEF Store, TypeOK, Join, Idle
  <2>2. join' \in [Conns -> Join]
    BY <1>7, <2>1 DEF Store, TypeOK, Join
  <2> QED BY <1>1, <1>7, <2>2, FlaggedType DEF Store, TypeOK
<1>8. CASE Joined(c)
  <2>1. join' \in [Conns -> Join]
    BY <1>8 DEF Joined, TypeOK, Join
  <2>2. queue' \in Queue \cup {NoQueue} /\ runner' \in Runner
    BY <1>8, RequestType, SweepAssumption DEF Joined, TypeOK
  <2> QED BY <1>8, <2>1, <2>2 DEF Joined, TypeOK
<1>9. CASE Leave(c)
  BY <1>9, RemoveType DEF Leave, TypeOK
<1> QED BY <1>2, <1>3, <1>4, <1>5, <1>6, <1>7, <1>8, <1>9 DEF Joining

-----------------------------------------------------------------------------
(* The entry and its runner.                                                 *)

(* Facts about one change, one runner and one entry that the rest uses.      *)
LEMMA Shapes ==
    ASSUME TypeOK
    PROVE  /\ \A k \in Changes : change[k].at = "waiting" => change[k].run \in Nat
           /\ queue # NoQueue =>
                /\ queue.started \in Nat /\ queue.wanted \in Nat /\ queue.finished \in Nat
                /\ queue.retries \in 0..MaxRetries
           /\ MaxRetries \in Nat
BY SweepAssumption DEF TypeOK, Change, NoChange, Queue

(* A request, alone or with the change that makes it, keeps the entry in     *)
(* order, and the retries of those who wait.                                 *)
LEMMA RequestKeeps ==
    ASSUME TypeOK, QueueOK, RetriesKept, NEW n \in 0..MaxRetries, RequestSweep(n),
           \A k \in Changes : change'[k].at = "waiting" =>
               change'[k] = change[k] \/ (change'[k].run = Ticket /\ n = MaxRetries)
    PROVE  QueueOK' /\ RetriesKept'
<1> DEFINE q == Requested(n)
<1>1. queue' = q /\ q # NoQueue /\ q \in Queue BY RequestedEntry DEF RequestSweep
<1>2. /\ q.wanted = q.started + 1 /\ q.finished <= q.started /\ n <= q.retries
      /\ Ticket = q.wanted /\ Ticket \in Nat
  BY RequestedEntry
<1>3. /\ queue = NoQueue => q.started = 0
      /\ queue # NoQueue => /\ q.started = queue.started /\ q.finished = queue.finished
                            /\ queue.retries <= q.retries
  BY RequestedEntry
<1>4. /\ q.started \in Nat /\ q.finished \in Nat
      /\ q.retries \in Nat /\ q.retries <= MaxRetries
      /\ MaxRetries \in Nat
  BY <1>1, SweepAssumption DEF Queue
<1> HIDE DEF q
<1>5. queue = NoQueue => runner' = [at |-> "loop"]
  BY DEF RequestSweep
<1>6. queue # NoQueue => runner' = runner
  BY DEF RequestSweep
<1>7. runner' # NoRunner /\ (queue = NoQueue => runner'.at = "loop")
  BY <1>5, <1>6 DEF QueueOK, NoRunner
<1>8. ASSUME NEW k \in Changes, change'[k].at = "waiting"
      PROVE  change'[k].run <= q.wanted /\ (queue = NoQueue => change'[k].run # q.started + 1 \/ n = MaxRetries)
  <2>1. CASE change'[k] = change[k]
    BY <1>2, <1>3, <1>4, <1>8, <2>1, Shapes DEF QueueOK
  <2>2. CASE change'[k].run = Ticket /\ n = MaxRetries
    BY <1>2, <1>4, <2>2
  <2> QED BY <1>8, <2>1, <2>2
<1>9. QueueOK'
  <2>1. q.started <= q.wanted /\ q.wanted <= q.started + 1 BY <1>2, <1>4
  <2>2. runner'.at # "loop" => q.finished < q.started
    BY <1>3, <1>6, <1>7 DEF QueueOK
  <2> QED BY <1>1, <1>2, <1>7, <1>8, <2>1, <2>2 DEF QueueOK
<1>10. RetriesKept'
  <2> SUFFICES ASSUME NEW k \in Changes, change'[k].at = "waiting"
               PROVE  /\ change'[k].run = q.started + 1 => q.retries = MaxRetries
                      /\ change'[k].run = q.started /\ runner'.at \in {"starting", "started", "scoping"} =>
                            runner'.retries = MaxRetries
    BY <1>1 DEF RetriesKept
  <2>1. CASE change'[k] = change[k]
    <3>1. CASE queue = NoQueue
      BY <1>3, <1>4, <1>7, <2>1, <3>1 DEF QueueOK
    <3>2. CASE queue # NoQueue
      BY <1>3, <1>4, <1>6, <2>1, <3>2, Shapes DEF RetriesKept
    <3> QED BY <3>1, <3>2
  <2>2. CASE change'[k].run = Ticket /\ n = MaxRetries
    BY <1>2, <1>4, <2>2
  <2> QED BY <2>1, <2>2
<1> QED BY <1>9, <1>10

(* Who is released waits for no run.                                         *)
LEMMA ReleasedChange ==
    ASSUME NEW k \in Changes, Released[k].at = "waiting", TypeOK
    PROVE  Released[k].run = 0
<1>1. change[k].at = "waiting"
  BY DEF Released
<1>2. change[k] \in [at : {"waiting"}, user : Users, run : Nat]
  BY <1>1 DEF TypeOK, Change, NoChange
<1> QED BY <1>1, <1>2 DEF Released

(* A change's own steps keep the entry in order.                             *)
LEMMA ChangeQueue ==
    ASSUME TypeOK, QueueOK, RetriesKept, NEW k \in Changes,
           \/ \E u \in Users, right \in Rights : Commit(k, u, right)
           \/ AskForSweep(k) \/ Answered(k)
    PROVE  QueueOK' /\ RetriesKept'
<1>1. ASSUME NEW u \in Users, NEW right \in Rights, Commit(k, u, right)
      PROVE  QueueOK' /\ RetriesKept'
  BY <1>1 DEF Commit, TypeOK, QueueOK, RetriesKept
<1>2. CASE AskForSweep(k)
  <2>1. MaxRetries \in 0..MaxRetries /\ RequestSweep(MaxRetries)
    BY <1>2, SweepAssumption DEF AskForSweep
  <2>2. \A j \in Changes : change'[j].at = "waiting" =>
            change'[j] = change[j] \/ change'[j].run = Ticket
    BY <1>2 DEF AskForSweep, TypeOK
  <2> QED BY <2>1, <2>2, RequestKeeps
<1>3. CASE Answered(k)
  BY <1>3 DEF Answered, TypeOK, QueueOK, RetriesKept
<1> QED BY <1>1, <1>2, <1>3

(* The runner's steps keep the entry in order.                               *)
LEMMA SweepQueue ==
    ASSUME TypeOK, QueueOK, RetriesKept, Sweep \/ Panic
    PROVE  QueueOK' /\ RetriesKept'
<1>1. CASE RunnerLeaves
  BY <1>1, ReleasedChange DEF RunnerLeaves, QueueOK, RetriesKept
<1>2. CASE RunStarts
  <2>1. queue # NoQueue /\ queue \in Queue /\ queue' \in Queue /\ queue' # NoQueue
    <3>1. queue # NoQueue BY <1>2 DEF RunStarts, QueueOK, NoRunner
    <3>2. TypeOK' BY <1>2, SweepType DEF Sweep, Run
    <3>3. queue \in Queue BY <3>1 DEF TypeOK
    <3>4. queue' = [started |-> queue.started + 1, wanted |-> queue.wanted,
                    retries |-> 0, finished |-> queue.finished]
      BY <1>2, <3>3 DEF RunStarts, Queue
    <3>5. queue' \in Queue
      BY <3>3, <3>4, SweepAssumption DEF Queue
    <3> QED BY <3>1, <3>3, <3>5, QueueAssumption
  <2>2. /\ queue'.started = queue.started + 1 /\ queue'.wanted = queue.started + 1
        /\ queue.wanted = queue.started + 1
        /\ queue'.finished = queue.finished
        /\ runner' = [at |-> "starting", retries |-> queue.retries]
        /\ change' = change
    BY <1>2, <2>1 DEF RunStarts, QueueOK, Queue
  <2>3. queue.started \in Nat /\ queue.finished \in Nat /\ queue.finished <= queue.started
    BY <2>1 DEF QueueOK, Queue
  <2>4. QueueOK'
    BY <2>1, <2>2, <2>3, Shapes DEF QueueOK, NoRunner
  <2>5. RetriesKept'
    BY <2>1, <2>2, <2>3, Shapes DEF QueueOK, RetriesKept
  <2> QED BY <2>4, <2>5
<1>3. CASE CountSweep
  <2>1. runner'.at = "started" /\ runner'.retries = runner.retries
    BY <1>3 DEF CountSweep, TypeOK, Runner, NoRunner
  <2> QED BY <1>3, <2>1 DEF CountSweep, QueueOK, RetriesKept, NoRunner
<1>4. CASE Snapshot
  BY <1>4 DEF Snapshot, QueueOK, RetriesKept, NoRunner
<1>5. CASE Scoped \/ Unscoped
  BY <1>5 DEF Scoped, Unscoped, QueueOK, RetriesKept, NoRunner
<1>6. ASSUME NEW u \in Users, Resolve(u)
      PROVE  QueueOK' /\ RetriesKept'
  BY <1>6 DEF Resolve, QueueOK, RetriesKept, NoRunner
<1>7. CASE Act
  BY <1>7 DEF Act, QueueOK, RetriesKept, NoRunner
<1>8. CASE RunEnds
  <2>1. queue # NoQueue /\ queue \in Queue
    BY <1>8 DEF RunEnds, TypeOK, QueueOK, NoRunner
  <2>2. queue' = [started |-> queue.started, wanted |-> queue.wanted,
                  retries |-> queue.retries, finished |-> queue.started]
    BY <1>8, <2>1 DEF RunEnds, Queue
  <2>3. queue' # NoQueue
    BY <2>1, <2>2, QueueAssumption DEF Queue
  <2> QED BY <1>8, <2>1, <2>2, <2>3, Shapes DEF RunEnds, QueueOK, RetriesKept, NoRunner
<1>9. CASE Panic
  BY <1>9, ReleasedChange DEF Panic, QueueAfterPanic, QueueOK, RetriesKept
<1>10. ASSUME NEW n \in 0..MaxRetries, RetryFires(n)
       PROVE  QueueOK' /\ RetriesKept'
  BY <1>10, RequestKeeps DEF RetryFires
<1> QED BY <1>1, <1>2, <1>3, <1>4, <1>5, <1>6, <1>7, <1>8, <1>9, <1>10 DEF Sweep, Run

(* So do a join's, whose last may ask for a sweep.                           *)
LEMMA JoinQueue ==
    ASSUME TypeOK, QueueOK, RetriesKept, NEW c \in Conns,
           PassGate(c) \/ Joining(c) \/ Leave(c)
    PROVE  QueueOK' /\ RetriesKept'
<1>1. CASE UNCHANGED <<queue, runner, change>>
  BY <1>1 DEF QueueOK, RetriesKept
<1>2. CASE RequestSweep(0) /\ change' = change
  BY <1>2, RequestKeeps, SweepAssumption
<1> QED BY <1>1, <1>2
        DEF PassGate, Joining, Insert, ReadEpoch, Recheck, Withdraw, Store, Joined, Leave

-----------------------------------------------------------------------------
(* Who is shut out is looked for.                                            *)

(* A request takes nothing from those already looked for: the runs that were *)
(* to look at a user still are, and a change that asks is owed the next run. *)
LEMMA RequestCovers ==
    ASSUME TypeOK, QueueOK, NEW n \in 0..MaxRetries, RequestSweep(n),
           \A k \in Changes :
               \/ change'[k] = change[k]
               \/ /\ change[k].at = "committed" /\ change'[k].at = "waiting"
                  /\ change'[k].user = change[k].user /\ change'[k].run = Ticket
    PROVE  \A u \in Users : (Asked(u) => Asked(u)') /\ (Underway(u) => Underway(u)')
<1> DEFINE q == Requested(n)
<1>1. queue' = q /\ q # NoQueue BY RequestedEntry DEF RequestSweep
<1>2. Ticket = q.started + 1 /\ (queue # NoQueue => q.started = queue.started)
  BY RequestedEntry
<1> HIDE DEF q
<1>3. ASSUME NEW u \in Users, Asked(u) PROVE Asked(u)'
  BY <1>1, <1>2, <1>3 DEF Asked
<1>4. ASSUME NEW u \in Users, Underway(u) PROVE Underway(u)'
  <2>1. queue # NoQueue /\ runner' = runner
    BY <1>4 DEF Underway, RequestSweep
  <2>2. Coming(u)' BY <1>4, <2>1 DEF Underway, Coming
  <2>3. PICK k \in Changes : change[k].at = "waiting" /\ change[k].user = u
                              /\ change[k].run = queue.started
    BY <1>4 DEF Underway
  <2>4. change'[k] = change[k] BY <2>3
  <2> QED BY <1>1, <1>2, <2>1, <2>2, <2>3, <2>4 DEF Underway
<1> QED BY <1>3, <1>4

(* A step that changes neither the database nor the room, and takes from no  *)
(* user what was to look at them, keeps everybody covered.                   *)
LEMMA StillCovered ==
    ASSUME Covered, perm' = perm, unsure' = unsure, member' \in SUBSET member,
           \A u \in Users : Asked(u) \/ Underway(u) => Asked(u)' \/ Underway(u)',
           \A c \in member' : perm[UserOf[c]] = "denied" /\ ToBeChecked(c) => ToBeChecked(c)'
    PROVE  Covered'
BY DEF Covered, SocketsOf

(* A change that shuts a user out is itself what will look for them.         *)
LEMMA ChangeCovers ==
    ASSUME TypeOK, QueueOK, Covered, Stale, NEW k \in Changes,
           \/ \E u \in Users, right \in Rights : Commit(k, u, right)
           \/ AskForSweep(k) \/ Answered(k)
    PROVE  Covered' /\ Stale'
<1>1. ASSUME NEW u \in Users, NEW right \in Rights, Commit(k, u, right)
      PROVE  Covered' /\ Stale'
  <2>1. change[k].at = "none" /\ change'[k] = [at |-> "committed", user |-> u]
        /\ \A j \in Changes \ {k} : change'[j] = change[j]
    BY <1>1 DEF Commit, TypeOK, NoChange
  <2>2. queue' = queue /\ runner' = runner /\ unsure' = unsure /\ member' = member /\ join' = join
        /\ \A v \in Users \ {u} : perm'[v] = perm[v]
    BY <1>1 DEF Commit, TypeOK
  <2>3. Asked(u)'
    BY <2>1 DEF Asked
  <2>4. \A v \in Users : (Asked(v) => Asked(v)') /\ (Underway(v) => Underway(v)')
    BY <2>1, <2>2 DEF Asked, Underway, Coming
  <2>5. Covered'
    BY <2>2, <2>3, <2>4 DEF Covered, SocketsOf, ToBeChecked
  <2>6. Stale'
    <3>1. runner.at = "acting" => runner.user \in Users
      BY DEF TypeOK, Runner, NoRunner
    <3> QED BY <2>2, <2>3, <2>4, <3>1 DEF Stale
  <2> QED BY <2>5, <2>6
<1>2. CASE AskForSweep(k)
  <2>1. MaxRetries \in 0..MaxRetries /\ RequestSweep(MaxRetries)
    BY <1>2, SweepAssumption DEF AskForSweep
  <2>2. \A j \in Changes :
            \/ change'[j] = change[j]
            \/ /\ change[j].at = "committed" /\ change'[j].at = "waiting"
               /\ change'[j].user = change[j].user /\ change'[j].run = Ticket
    BY <1>2 DEF AskForSweep, TypeOK
  <2>3. \A u \in Users : (Asked(u) => Asked(u)') /\ (Underway(u) => Underway(u)')
    BY <2>1, <2>2, RequestCovers
  <2>4. Covered'
    BY <1>2, <2>3, StillCovered DEF AskForSweep, ToBeChecked, TypeOK
  <2>5. runner'.at = "acting" => runner' = runner
    BY <2>1 DEF RequestSweep
  <2>6. runner.at = "acting" => runner.user \in Users
    BY DEF TypeOK, Runner, NoRunner
  <2>7. Stale'
    BY <1>2, <2>3, <2>5, <2>6 DEF Stale, AskForSweep
  <2> QED BY <2>4, <2>7
<1>3. CASE Answered(k)
  <2>1. \A j \in Changes \ {k} : change'[j] = change[j]
    BY <1>3 DEF Answered, TypeOK
  <2>2. queue # NoQueue /\ runner.at # "loop" => change[k].run # queue.started
    BY <1>3, Shapes DEF Answered, QueueOK
  <2>3. queue # NoQueue => change[k].run # queue.started + 1
    BY <1>3, Shapes DEF Answered, QueueOK
  <2>4. \A u \in Users : Asked(u) => Asked(u)'
    BY <1>3, <2>1, <2>3 DEF Answered, Asked
  <2>5. \A u \in Users : Underway(u) => Underway(u)'
    BY <1>3, <2>1, <2>2 DEF Answered, Underway, Coming
  <2>6. Covered'
    BY <1>3, <2>4, <2>5, StillCovered DEF Answered, ToBeChecked
  <2>7. runner.at = "acting" => runner.user \in Users
    BY DEF TypeOK, Runner, NoRunner
  <2>8. Stale'
    BY <1>3, <2>4, <2>7 DEF Answered, Stale
  <2> QED BY <2>6, <2>8
<1> QED BY <1>1, <1>2, <1>3

(* A run looks at everybody it is owed for before it ends.                   *)
LEMMA SweepCovers ==
    ASSUME TypeOK, QueueOK, Covered, Stale, Sweep
    PROVE  Covered' /\ Stale'
<1>0. runner.at = "acting" => runner.user \in Users
  BY DEF TypeOK, Runner, NoRunner
<1>1. CASE RunnerLeaves
  <2>1. \A k \in Changes : change[k].at = "waiting" =>
            change[k].run \in Nat /\ change[k].run <= queue.started
    BY <1>1, Shapes DEF RunnerLeaves, QueueOK, NoRunner
  <2>2. \A u \in Users : Asked(u) => Asked(u)'
    <3> SUFFICES ASSUME NEW u \in Users, Asked(u) PROVE Asked(u)'
      OBVIOUS
    <3>1. PICK k \in Changes : change[k].at = "committed" /\ change[k].user = u
      BY <2>1, Shapes DEF Asked
    <3>2. change'[k] = change[k]
      BY <1>1, <3>1 DEF RunnerLeaves, Released
    <3> QED BY <3>1, <3>2 DEF Asked
  <2>3. \A u \in Users : ~Underway(u)
    BY <1>1 DEF RunnerLeaves, Underway, Coming
  <2>4. Covered'
    BY <1>1, <2>2, <2>3, StillCovered DEF RunnerLeaves, ToBeChecked
  <2> QED BY <1>1, <2>4 DEF RunnerLeaves, Stale, NoRunner
<1>2. CASE RunStarts
  <2>1. queue # NoQueue BY <1>2 DEF RunStarts, QueueOK, NoRunner
  <2>2. queue' # NoQueue
    <3>1. queue' = [started |-> queue.started + 1, wanted |-> queue.wanted,
                    retries |-> 0, finished |-> queue.finished]
      BY <1>2, <2>1 DEF RunStarts, TypeOK, Queue
    <3>2. queue.started + 1 \in Nat /\ queue.wanted \in Nat /\ queue.finished \in Nat
          /\ 0 \in 0..MaxRetries
      BY <2>1, Shapes
    <3>3. queue' \in Queue
      BY <3>1, <3>2 DEF Queue
    <3> QED BY <3>3, QueueAssumption
  <2>3. queue'.started = queue.started + 1 /\ runner'.at = "starting"
    BY <1>2, <2>1 DEF RunStarts, TypeOK, Queue
  <2>4. \A u \in Users : Asked(u) => Asked(u)' \/ Underway(u)'
    BY <1>2, <2>2, <2>3 DEF RunStarts, Asked, Underway, Coming
  <2>5. \A u \in Users : ~Underway(u)
    BY <1>2 DEF RunStarts, Underway, Coming
  <2>6. Covered'
    BY <1>2, <2>4, <2>5, StillCovered DEF RunStarts, ToBeChecked
  <2> QED BY <2>3, <2>6 DEF Stale
<1>3. CASE CountSweep
  <2>1. runner'.at = "started"
    BY <1>3 DEF CountSweep, TypeOK, Runner, NoRunner
  <2>2. \A u \in Users : (Asked(u) => Asked(u)') /\ (Underway(u) => Underway(u)')
    BY <1>3, <2>1 DEF CountSweep, Asked, Underway, Coming
  <2>3. Covered'
    BY <1>3, <2>2, StillCovered DEF CountSweep, ToBeChecked
  <2> QED BY <2>1, <2>3 DEF Stale
<1>4. CASE Snapshot
  <2>1. runner'.at = "scoping" /\ runner'.todo = Present
    BY <1>4 DEF Snapshot
  <2>2. \A u \in Users : Asked(u) => Asked(u)'
    BY <1>4 DEF Snapshot, Asked
  <2>3. \A u \in Present : Underway(u) => Underway(u)'
    BY <1>4, <2>1 DEF Snapshot, Underway, Coming
  <2>4. \A u \in Users \ Present : SocketsOf(u) = {}
    BY DEF SocketsOf, Present
  <2>5. Covered'
    BY <1>4, <2>2, <2>3, <2>4 DEF Snapshot, Covered, SocketsOf, ToBeChecked
  <2> QED BY <2>1, <2>5 DEF Stale
<1>5. CASE Scoped \/ Unscoped
  <2>1. runner'.at = "sweeping" /\ runner'.todo = runner.todo
    BY <1>5 DEF Scoped, Unscoped
  <2>2. \A u \in Users : (Asked(u) => Asked(u)') /\ (Underway(u) => Underway(u)')
    BY <1>5, <2>1 DEF Scoped, Unscoped, Asked, Underway, Coming
  <2>3. Covered'
    BY <1>5, <2>2, StillCovered DEF Scoped, Unscoped, ToBeChecked
  <2> QED BY <2>1, <2>3 DEF Stale
<1>6. ASSUME NEW v \in Users, Resolve(v)
      PROVE  Covered' /\ Stale'
  <2>1. /\ runner'.at = "acting" /\ runner'.todo = runner.todo \ {v} /\ runner'.user = v
        /\ runner'.answer \in {"failed", perm[v]}
    BY <1>6 DEF Resolve
  <2>2. \A u \in Users : Asked(u) => Asked(u)'
    BY <1>6 DEF Resolve, Asked
  <2>3. \A u \in Users : perm[u] = "denied" /\ Underway(u) => Underway(u)'
    BY <1>6, <2>1 DEF Resolve, Underway, Coming
  <2>4. Covered'
    BY <1>6, <2>2, <2>3 DEF Resolve, Covered, SocketsOf, ToBeChecked
  <2>5. Stale'
    BY <1>6, <2>1 DEF Resolve, Stale
  <2> QED BY <2>4, <2>5
<1>7. CASE Act
  <2>1. runner'.at = "sweeping" /\ runner'.todo = runner.todo
    BY <1>7 DEF Act
  <2>2. \A u \in Users : Asked(u) => Asked(u)'
    BY <1>7 DEF Act, Asked
  <2>3. \A u \in Users \ {runner.user} : Underway(u) => Underway(u)'
    BY <1>7, <2>1 DEF Act, Underway, Coming
  <2>4. member' \in SUBSET member
    BY <1>7 DEF Act, Remove
  <2>5. \A u \in Users \ {runner.user} :
            perm[u] = "denied" /\ u \notin unsure' =>
               Asked(u)' \/ Underway(u)' \/ \A c \in SocketsOf(u)' : ToBeChecked(c)'
    BY <1>7, <2>2, <2>3, <2>4 DEF Act, Covered, SocketsOf, ToBeChecked
  <2>6. ASSUME NEW v \in Users, v = runner.user, perm[v] = "denied", v \notin unsure'
        PROVE  Asked(v)' \/ SocketsOf(v)' = {}
    <3>1. CASE ~Keeps(runner.scoped, runner.answer)
      <4>1. member' = member \ SocketsOf(v)
        BY <1>7, <2>6, <3>1 DEF Act, Remove
      <4> QED BY <4>1 DEF SocketsOf
    <3>2. CASE Keeps(runner.scoped, runner.answer) /\ runner.answer = "failed"
      BY <1>7, <2>6, <3>2 DEF Act
    <3>3. CASE Keeps(runner.scoped, runner.answer) /\ runner.answer # "failed"
      <4>1. runner.at = "acting" /\ runner.answer \in {"muted", "speaker"}
        BY <1>7, <3>3 DEF Act, Keeps
      <4> QED BY <2>2, <2>6, <4>1 DEF Stale
    <3> QED BY <3>1, <3>2, <3>3
  <2>7. Covered'
    <3>1. perm' = perm BY <1>7 DEF Act
    <3> QED BY <2>5, <2>6, <3>1 DEF Covered
  <2> QED BY <2>1, <2>7 DEF Stale
<1>8. CASE RunEnds
  <2>1. \A u \in Users : ~Underway(u)
    BY <1>8 DEF RunEnds, Underway, Coming
  <2>2. queue # NoQueue /\ queue \in Queue
    BY <1>8 DEF RunEnds, TypeOK, QueueOK, NoRunner
  <2>3. queue' = [started |-> queue.started, wanted |-> queue.wanted,
                  retries |-> queue.retries, finished |-> queue.started]
    BY <1>8, <2>2 DEF RunEnds, Queue
  <2>4. queue' # NoQueue
    BY <2>2, <2>3, QueueAssumption DEF Queue
  <2>5. \A u \in Users : Asked(u) => Asked(u)'
    BY <1>8, <2>3, <2>4 DEF RunEnds, Asked
  <2>6. Covered'
    BY <1>8, <2>1, <2>5, StillCovered DEF RunEnds, ToBeChecked
  <2> QED BY <1>8, <2>6 DEF RunEnds, Stale
<1>9. ASSUME NEW n \in 0..MaxRetries, RetryFires(n)
      PROVE  Covered' /\ Stale'
  <2>1. RequestSweep(n) /\ change' = change
    BY <1>9 DEF RetryFires
  <2>2. \A u \in Users : (Asked(u) => Asked(u)') /\ (Underway(u) => Underway(u)')
    BY <2>1, RequestCovers
  <2>3. Covered'
    BY <1>9, <2>2, StillCovered DEF RetryFires, ToBeChecked
  <2>4. runner'.at = "acting" => runner' = runner
    BY <2>1 DEF RequestSweep
  <2> QED BY <1>0, <1>9, <2>2, <2>3, <2>4 DEF RetryFires, Stale
<1> QED BY <1>1, <1>2, <1>3, <1>4, <1>5, <1>6, <1>7, <1>8, <1>9 DEF Sweep, Run

(* A join that gets past a deny is itself still to be rechecked.             *)
LEMMA JoinCovers ==
    ASSUME TypeOK, QueueOK, Covered, Stale, NEW c \in Conns,
           PassGate(c) \/ Joining(c) \/ Leave(c)
    PROVE  Covered' /\ Stale'
<1>1. perm' = perm /\ unsure' = unsure /\ change' = change
  BY DEF PassGate, Joining, Insert, ReadEpoch, Recheck, Withdraw, Store, Joined, Leave
<1>2. /\ \A u \in Users : (Asked(u) => Asked(u)') /\ (Underway(u) => Underway(u)')
      /\ runner'.at = "acting" => runner' = runner
  <2>1. CASE UNCHANGED <<queue, runner>>
    BY <1>1, <2>1 DEF Asked, Underway, Coming
  <2>2. CASE RequestSweep(0)
    BY <1>1, <2>2, RequestCovers, SweepAssumption DEF RequestSweep
  <2> QED BY <2>1, <2>2
          DEF PassGate, Joining, Insert, ReadEpoch, Recheck, Withdraw, Store, Joined, Leave
<1>3. Stale'
  <2>1. runner.at = "acting" => runner.user \in Users
    BY DEF TypeOK, Runner, NoRunner
  <2> QED BY <1>1, <1>2, <2>1 DEF Stale
<1>4. \A d \in Conns \ {c} : join'[d] = join[d]
  BY DEF PassGate, Joining, Insert, ReadEpoch, Recheck, Withdraw, Store, Joined, Leave, TypeOK
<1>5. CASE PassGate(c) \/ Leave(c)
  <2>1. ~ToBeChecked(c) /\ member' \in SUBSET member
    BY <1>5 DEF PassGate, Leave, Remove, Idle, ToBeChecked
  <2>2. \A d \in member' : ToBeChecked(d) => ToBeChecked(d)'
    BY <1>4, <2>1 DEF ToBeChecked, TypeOK
  <2> QED BY <1>1, <1>2, <1>3, <2>1, <2>2, StillCovered
<1>6. CASE Insert(c)
  <2>1. ToBeChecked(c)' /\ member' = member \cup {c}
    BY <1>6 DEF Insert, ToBeChecked, TypeOK
  <2>2. \A d \in member \ {c} : ToBeChecked(d) => ToBeChecked(d)'
    BY <1>4 DEF ToBeChecked, TypeOK
  <2>3. Covered'
    BY <1>1, <1>2, <2>1, <2>2 DEF Covered, SocketsOf
  <2> QED BY <1>3, <2>3
<1>7. CASE ReadEpoch(c) \/ Recheck(c)
  <2>1. member' = member
    BY <1>7 DEF ReadEpoch, Recheck
  <2>2. perm[UserOf[c]] = "denied" => ToBeChecked(c)'
    BY <1>7 DEF ReadEpoch, Recheck, ToBeChecked, TypeOK
  <2>3. \A d \in member' : perm[UserOf[d]] = "denied" /\ ToBeChecked(d) => ToBeChecked(d)'
    BY <1>4, <2>1, <2>2 DEF ToBeChecked, TypeOK
  <2> QED BY <1>1, <1>2, <1>3, <2>1, <2>3, StillCovered
<1>8. CASE Withdraw(c)
  <2>1. member' = member \ {c}
    BY <1>8 DEF Withdraw, Remove
  <2>2. \A d \in member' : ToBeChecked(d) => ToBeChecked(d)'
    BY <1>4, <2>1 DEF ToBeChecked, TypeOK
  <2> QED BY <1>1, <1>2, <1>3, <2>1, <2>2, StillCovered
<1>9. CASE Store(c) \/ Joined(c)
  <2>1. ~ToBeChecked(c) /\ member' = member
    BY <1>9 DEF Store, Joined, ToBeChecked
  <2>2. \A d \in member' : ToBeChecked(d) => ToBeChecked(d)'
    BY <1>4, <2>1 DEF ToBeChecked, TypeOK
  <2> QED BY <1>1, <1>2, <1>3, <2>1, <2>2, StillCovered
<1> QED BY <1>5, <1>6, <1>7, <1>8, <1>9 DEF Joining

-----------------------------------------------------------------------------
(* Wrong flags are looked at.                                                *)

(* A request keeps every look that was to come.                               *)
LEMMA RequestLooks ==
    ASSUME TypeOK, QueueOK, NEW n \in 0..MaxRetries, RequestSweep(n)
    PROVE  /\ queue' # NoQueue /\ queue'.wanted > queue'.started
           /\ runner' = runner \/ runner' = [at |-> "loop"]
           /\ runner.at \in {"started", "scoping", "sweeping", "acting"} => runner' = runner
<1>1. queue' = Requested(n) /\ Requested(n) # NoQueue /\ Requested(n) \in Queue
      /\ Requested(n).wanted = Requested(n).started + 1
  BY RequestedEntry DEF RequestSweep
<1>2. Requested(n).wanted > Requested(n).started
  BY <1>1 DEF Queue
<1> QED BY <1>1, <1>2 DEF RequestSweep, QueueOK, NoRunner

(* A step that leaves the database, the joins and the epoch alone, puts      *)
(* nobody into the room and changes no flag of who stays, keeps the flags    *)
(* accounted for if it takes from nobody a look that was to come.            *)
LEMMA StillLooked ==
    ASSUME FlagInv, TypeOK, perm' = perm, unsure' = unsure, join' = join, epoch' = epoch,
           member' = member, muted' = muted,
           \A u \in Users : Uncounted(u) => Uncounted(u)' \/ Before(u)',
           \A u \in Users : Before(u) => Uncounted(u)' \/ Before(u)'
    PROVE  Flags'
<1>1. \A c \in Conns : (Checks(c) => Checks(c)') /\ (Outrun(c) => Outrun(c)')
  BY DEF Checks, Outrun
<1>2. \A u \in Users : LookedAt(u) => LookedAt(u)'
  BY <1>1 DEF LookedAt, SocketsOf, TypeOK
<1>3. Present \in SUBSET Users
  BY DEF Present, Users, TypeOK
<1> QED BY <1>2, <1>3 DEF FlagInv, Flags, Present, WrongFlag

(* A change that makes an answer out of date is itself what will look again. *)
LEMMA ChangeLooks ==
    ASSUME TypeOK, QueueOK, FlagInv, NEW k \in Changes,
           \/ \E u \in Users, right \in Rights : Commit(k, u, right)
           \/ AskForSweep(k) \/ Answered(k)
    PROVE  FlagInv'
<1>1. ASSUME NEW u \in Users, NEW right \in Rights, Commit(k, u, right)
      PROVE  FlagInv'
  <2>1. /\ change[k].at = "none" /\ change'[k] = [at |-> "committed", user |-> u]
        /\ \A j \in Changes \ {k} : change'[j] = change[j]
    BY <1>1 DEF Commit, TypeOK, NoChange
  <2>2. /\ queue' = queue /\ runner' = runner /\ unsure' = unsure /\ member' = member
        /\ muted' = muted /\ join' = join /\ epoch' = epoch
        /\ \A v \in Users \ {u} : perm'[v] = perm[v]
    BY <1>1 DEF Commit, TypeOK
  <2>3. Uncounted(u)'
    BY <2>1 DEF Uncounted
  <2>4. \A v \in Users : (Uncounted(v) => Uncounted(v)') /\ (Before(v) => Before(v)')
    BY <2>1, <2>2 DEF Uncounted, Before
  <2>5. \A v \in Users \ {u} : LookedAt(v) => LookedAt(v)'
    BY <2>2, <2>4 DEF LookedAt, SocketsOf, Outrun, Checks
  <2>6. Flags'
    <3>1. \A v \in Users \ {u} : WrongFlag(v)' => WrongFlag(v)
      BY <2>2 DEF WrongFlag
    <3>2. Present' = Present /\ Present \in SUBSET Users
      BY <2>2 DEF Present, Users, TypeOK
    <3> QED BY <2>2, <2>3, <2>5, <3>1, <3>2 DEF FlagInv, Flags, LookedAt
  <2>7. OldInJoin' /\ OldInRun' /\ Epochs'
    <3>1. \A c \in Conns : UserOf[c] \in Users
      BY DEF Users
    <3>2. runner.at = "acting" => runner.user \in Users
      BY DEF TypeOK, Runner, NoRunner
    <3> QED BY <2>2, <2>3, <2>4, <3>1, <3>2 DEF FlagInv, OldInJoin, OldInRun, Epochs
  <2> QED BY <2>6, <2>7 DEF FlagInv
<1>2. CASE AskForSweep(k)
  <2>1. MaxRetries \in 0..MaxRetries /\ RequestSweep(MaxRetries)
    BY <1>2, SweepAssumption DEF AskForSweep
  <2>2. \A u \in Users : Uncounted(u)'
    BY <2>1, RequestLooks DEF Uncounted
  <2>3. Flags'
    BY <1>2, <2>2, StillLooked DEF AskForSweep
  <2>4. OldInJoin' /\ OldInRun' /\ Epochs'
    <3>1. \A c \in Conns : UserOf[c] \in Users
      BY DEF Users
    <3>2. runner'.at = "acting" => runner.at = "acting" /\ runner' = runner /\ runner.user \in Users
      BY <2>1, RequestLooks DEF TypeOK, Runner, NoRunner
    <3> QED BY <1>2, <2>2, <3>1, <3>2 DEF AskForSweep, FlagInv, OldInJoin, OldInRun, Epochs
  <2> QED BY <2>3, <2>4 DEF FlagInv
<1>3. CASE Answered(k)
  <2>1. /\ change[k].at = "waiting" /\ change'[k].at = "done"
        /\ \A j \in Changes \ {k} : change'[j] = change[j]
    BY <1>3 DEF Answered, TypeOK
  <2>2. \A u \in Users : (Uncounted(u) => Uncounted(u)') /\ (Before(u) => Before(u)')
    BY <1>3, <2>1 DEF Answered, Uncounted, Before
  <2>3. Flags'
    BY <1>3, <2>2, StillLooked DEF Answered
  <2>4. OldInJoin' /\ OldInRun' /\ Epochs'
    <3>1. \A c \in Conns : UserOf[c] \in Users
      BY DEF Users
    <3>2. runner.at = "acting" => runner.user \in Users
      BY DEF TypeOK, Runner, NoRunner
    <3> QED BY <1>3, <2>2, <3>1, <3>2 DEF Answered, FlagInv, OldInJoin, OldInRun, Epochs
  <2> QED BY <2>3, <2>4 DEF FlagInv
<1> QED BY <1>1, <1>2, <1>3

(* The runner's steps before and after its look at the users, and requests.  *)
LEMMA RunLooks ==
    ASSUME TypeOK, QueueOK, FlagInv,
           \/ RunnerLeaves \/ RunStarts \/ CountSweep \/ Snapshot \/ Scoped \/ Unscoped \/ RunEnds
           \/ \E n \in 0..MaxRetries : RetryFires(n)
    PROVE  FlagInv'
<1>0. /\ \A c \in Conns : UserOf[c] \in Users
      /\ runner.at = "acting" => runner.user \in Users
      /\ Present \in SUBSET Users
  BY DEF Present, Users, TypeOK, Runner, NoRunner
<1>1. CASE RunnerLeaves
  <2>1. queue # NoQueue => ~(queue.wanted > queue.started)
    BY <1>1, Shapes DEF RunnerLeaves
  <2>2. \A k \in Changes : change[k].at = "committed" => change'[k] = change[k]
    BY <1>1 DEF RunnerLeaves, Released
  <2>3. \A u \in Users : (Uncounted(u) => Uncounted(u)') /\ ~Before(u)
    <3>1. runner.at = "loop"
      BY <1>1 DEF RunnerLeaves
    <3>2. \A u \in Users : ~Before(u)
      BY <3>1 DEF Before
    <3>3. \A u \in Users : Uncounted(u) =>
              \E k \in Changes : change[k].at = "committed" /\ change[k].user = u
      BY <2>1, <3>1 DEF Uncounted
    <3> QED BY <2>2, <3>2, <3>3 DEF Uncounted
  <2>4. Flags'
    BY <1>1, <2>3, StillLooked DEF RunnerLeaves
  <2>5. OldInJoin' /\ OldInRun' /\ Epochs'
    BY <1>0, <1>1, <2>3 DEF RunnerLeaves, NoRunner, FlagInv, OldInJoin, OldInRun, Epochs
  <2> QED BY <2>4, <2>5 DEF FlagInv
<1>2. CASE RunStarts
  <2>1. runner'.at = "starting"
    BY <1>2 DEF RunStarts
  <2>2. \A u \in Users : Uncounted(u)'
    BY <2>1 DEF Uncounted
  <2>3. Flags'
    BY <1>2, <2>2, StillLooked DEF RunStarts
  <2>4. OldInJoin' /\ OldInRun' /\ Epochs'
    BY <1>0, <1>2, <2>1, <2>2 DEF RunStarts, FlagInv, OldInJoin, OldInRun, Epochs
  <2> QED BY <2>3, <2>4 DEF FlagInv
<1>3. CASE CountSweep
  <2>1. runner'.at = "started" /\ epoch' = epoch + 1 /\ epoch \in Nat
    BY <1>3 DEF CountSweep, TypeOK, Runner, NoRunner
  <2>2. \A u \in Users : Before(u)'
    BY <2>1 DEF Before
  <2>3. Flags'
    BY <1>0, <1>3, <2>2 DEF CountSweep, Flags, LookedAt, Present
  <2>4. \A c \in Conns : join[c].at \in {"checking", "answered", "stored"} => join[c].epoch \in Nat
    BY DEF TypeOK, Join, Idle
  <2>5. \A c \in Conns : join[c].at \in {"checking", "answered", "stored"} =>
            join[c].epoch # epoch' /\ join[c].epoch <= epoch'
    BY <2>1, <2>4 DEF FlagInv, Epochs
  <2>6. OldInJoin' /\ OldInRun' /\ Epochs'
    BY <1>3, <2>1, <2>5 DEF CountSweep, OldInJoin, OldInRun, Epochs
  <2> QED BY <2>3, <2>6 DEF FlagInv
<1>4. CASE Snapshot
  <2>1. runner'.at = "scoping" /\ runner'.todo = Present /\ runner.at = "started"
    BY <1>4 DEF Snapshot
  <2>2. \A u \in Present : Before(u)'
    BY <2>1 DEF Before
  <2>3. Flags'
    BY <1>4, <2>2 DEF Snapshot, Flags, LookedAt, Present
  <2>4. \A u \in Users : Uncounted(u) => Uncounted(u)'
    BY <1>4, <2>1 DEF Snapshot, Uncounted
  <2>5. OldInJoin' /\ OldInRun' /\ Epochs'
    BY <1>0, <1>4, <2>1, <2>4 DEF Snapshot, FlagInv, OldInJoin, OldInRun, Epochs
  <2> QED BY <2>3, <2>5 DEF FlagInv
<1>5. CASE Scoped \/ Unscoped
  <2>1. runner.at = "scoping" /\ runner'.at = "sweeping" /\ runner'.todo = runner.todo
    BY <1>5 DEF Scoped, Unscoped
  <2>2. \A u \in Users : (Uncounted(u) => Uncounted(u)') /\ (Before(u) => Before(u)')
    BY <1>5, <2>1 DEF Scoped, Unscoped, Uncounted, Before
  <2>3. Flags'
    BY <1>5, <2>2, StillLooked DEF Scoped, Unscoped
  <2>4. OldInJoin' /\ OldInRun' /\ Epochs'
    BY <1>0, <1>5, <2>1, <2>2 DEF Scoped, Unscoped, FlagInv, OldInJoin, OldInRun, Epochs
  <2> QED BY <2>3, <2>4 DEF FlagInv
<1>6. CASE RunEnds
  <2>1. queue # NoQueue /\ queue \in Queue
    BY <1>6 DEF RunEnds, TypeOK, QueueOK, NoRunner
  <2>2. queue' = [started |-> queue.started, wanted |-> queue.wanted,
                  retries |-> queue.retries, finished |-> queue.started]
    BY <1>6, <2>1 DEF RunEnds, Queue
  <2>3. queue' # NoQueue
    BY <2>1, <2>2, QueueAssumption DEF Queue
  <2>4. \A u \in Users : (Uncounted(u) => Uncounted(u)') /\ ~Before(u)
    BY <1>6, <2>2, <2>3 DEF RunEnds, Uncounted, Before
  <2>5. Flags'
    BY <1>6, <2>4, StillLooked DEF RunEnds
  <2>6. OldInJoin' /\ OldInRun' /\ Epochs'
    BY <1>0, <1>6, <2>4 DEF RunEnds, FlagInv, OldInJoin, OldInRun, Epochs
  <2> QED BY <2>5, <2>6 DEF FlagInv
<1>7. ASSUME NEW n \in 0..MaxRetries, RetryFires(n)
      PROVE  FlagInv'
  <2>1. RequestSweep(n)
    BY <1>7 DEF RetryFires
  <2>2. \A u \in Users : Uncounted(u)'
    BY <2>1, RequestLooks DEF Uncounted
  <2>3. Flags'
    BY <1>7, <2>2, StillLooked DEF RetryFires
  <2>4. runner'.at = "acting" => runner.at = "acting" /\ runner' = runner
    BY <2>1, RequestLooks
  <2>5. OldInJoin' /\ OldInRun' /\ Epochs'
    BY <1>0, <1>7, <2>2, <2>4 DEF RetryFires, FlagInv, OldInJoin, OldInRun, Epochs
  <2> QED BY <2>3, <2>5 DEF FlagInv
<1> QED BY <1>1, <1>2, <1>3, <1>4, <1>5, <1>6, <1>7

(* A look at one user: the others stay as they were, and the user's flag is  *)
(* the answer's, which is the database's unless another sweep is to come.    *)
LEMMA UserLooks ==
    ASSUME TypeOK, QueueOK, FlagInv, Act \/ \E u \in Users : Resolve(u)
    PROVE  FlagInv'
<1>0. /\ \A c \in Conns : UserOf[c] \in Users
      /\ Present \in SUBSET Users
  BY DEF Present, Users, TypeOK
<1>1. ASSUME NEW v \in Users, Resolve(v)
      PROVE  FlagInv'
  <2>1. /\ runner.at = "sweeping" /\ runner'.at = "acting"
        /\ runner'.todo = runner.todo \ {v} /\ runner'.user = v
        /\ runner'.answer \in {"failed", perm[v]}
    BY <1>1 DEF Resolve
  <2>2. \A u \in Users : (Uncounted(u) => Uncounted(u)') /\ (Before(u) => Before(u)')
    BY <1>1, <2>1 DEF Resolve, Uncounted, Before
  <2>3. Flags'
    BY <1>1, <2>2, StillLooked DEF Resolve
  <2>4. OldInJoin' /\ OldInRun' /\ Epochs'
    BY <1>0, <1>1, <2>1, <2>2 DEF Resolve, FlagInv, OldInJoin, OldInRun, Epochs
  <2> QED BY <2>3, <2>4 DEF FlagInv
<1>2. CASE Act
  <2>0. PICK u \in Users : u = runner.user
    BY <1>2 DEF Act, TypeOK, Runner, NoRunner
  <2> DEFINE a == runner.answer
  <2>1. /\ runner.at = "acting" /\ runner'.at = "sweeping" /\ runner'.todo = runner.todo
        /\ UNCHANGED <<perm, join, epoch, change, queue>> /\ a \in Answers
    BY <1>2, <2>0 DEF Act, TypeOK, Runner, NoRunner
  <2>2. \A v \in Users : Uncounted(v) => Uncounted(v)'
    BY <2>0, <2>1 DEF Uncounted
  <2>3. \A v \in Users \ {u} : Before(v) => Before(v)'
    BY <2>0, <2>1 DEF Before
  <2>4. \A c \in Conns : (Checks(c) => Checks(c)') /\ (Outrun(c) => Outrun(c)')
    BY <2>0, <2>1 DEF Checks, Outrun
  <2>5. /\ \A v \in Users \ {u} : SocketsOf(v)' = SocketsOf(v) /\ (v \in muted' <=> v \in muted)
        /\ \A v \in Users \ {u} : v \in unsure' <=> v \in unsure
    <3>1. CASE ~Keeps(runner.scoped, a)
      <4>1. Remove(SocketsOf(u)) /\ unsure' = unsure \ {u}
        BY <1>2, <2>0, <3>1 DEF Act
      <4>2. \A v \in Users \ {u} : SocketsOf(v) \cap SocketsOf(u) = {}
        BY DEF SocketsOf
      <4>3. \A v \in muted : SocketsOf(v) # {}
        BY DEF TypeOK, SocketsOf
      <4>4. \A v \in Users \ {u} : SocketsOf(v)' = SocketsOf(v)
        BY <4>1, <4>2 DEF Remove, SocketsOf
      <4>5. \A v \in Users \ {u} : v \in muted' <=> v \in muted
        BY <4>1, <4>2, <4>3 DEF Remove
      <4> QED BY <4>1, <4>4, <4>5
    <3>2. CASE Keeps(runner.scoped, a)
      BY <1>2, <2>0, <3>2 DEF Act, SocketsOf, Flagged
    <3> QED BY <3>1, <3>2
  <2>6. \A v \in Users \ {u} : LookedAt(v) => LookedAt(v)'
    <3>1. \A v \in Users, c \in Conns : c \in SocketsOf(v) => c \in Conns
      OBVIOUS
    <3>2. member \in SUBSET Conns
      BY DEF TypeOK
    <3> QED BY <2>2, <2>3, <2>4, <2>5, <3>2 DEF LookedAt, SocketsOf
  <2>7. ASSUME NEW v \in Present', v \notin unsure', WrongFlag(v)', v # u
        PROVE  LookedAt(v)'
    <3>1. v \in Users
      <4>1. member' \in SUBSET member
        BY <1>2, <2>0 DEF Act, Remove
      <4> QED BY <4>1 DEF Present, Users, TypeOK
    <3>2. v \in Present /\ v \notin unsure /\ WrongFlag(v)
      <4>1. SocketsOf(v)' # {}
        BY <2>7 DEF Present, SocketsOf
      <4>2. SocketsOf(v) # {}
        BY <2>5, <2>7, <3>1, <4>1
      <4> QED BY <2>0, <2>1, <2>5, <2>7, <3>1, <4>2 DEF Present, SocketsOf, WrongFlag
    <3> QED BY <2>6, <2>7, <3>1, <3>2 DEF FlagInv, Flags
  <2>8. ASSUME u \in Present', u \notin unsure', WrongFlag(u)'
        PROVE  LookedAt(u)'
    <3>1. CASE ~Keeps(runner.scoped, a)
      <4>1. member' = member \ SocketsOf(u)
        BY <1>2, <2>0, <3>1 DEF Act, Remove
      <4> QED BY <2>8, <4>1 DEF Present, SocketsOf
    <3>2. CASE Keeps(runner.scoped, a) /\ a = "failed"
      BY <1>2, <2>0, <2>8, <3>2 DEF Act
    <3>3. CASE Keeps(runner.scoped, a) /\ a # "failed"
      <4>1. member' = member /\ muted' = Flagged(u, a) /\ a \in {"muted", "speaker"}
        BY <1>2, <2>0, <3>3 DEF Act, Keeps
      <4>2. SocketsOf(u) # {}
        BY <2>8, <4>1 DEF Present, SocketsOf
      <4>3. u \in muted' <=> a = "muted"
        BY <4>1, <4>2 DEF Flagged
      <4>4. perm[u] \in Rights /\ perm' = perm
        BY <2>0, <2>1 DEF TypeOK
      <4>5. a # perm[u]
        BY <2>8, <4>3, <4>4 DEF WrongFlag
      <4> QED BY <2>0, <2>1, <2>2, <4>1, <4>5 DEF FlagInv, OldInRun, LookedAt
    <3> QED BY <3>1, <3>2, <3>3
  <2>9. Flags'
    BY <2>7, <2>8 DEF Flags
  <2>10. OldInJoin' /\ OldInRun' /\ Epochs'
    BY <1>0, <2>1, <2>2 DEF FlagInv, OldInJoin, OldInRun, Epochs
  <2> QED BY <2>9, <2>10 DEF FlagInv
<1> QED BY <1>1, <1>2

(* What one join does takes no look from a user, if it keeps its own.        *)
LEMMA JoinKeepsLook ==
    ASSUME TypeOK, NEW c \in Conns, NEW v \in Users, LookedAt(v),
           UNCHANGED <<perm, epoch, change, queue, runner>>,
           \A d \in Conns \ {c} : join'[d] = join[d],
           member' \in SUBSET (member \cup {c}),
           v = UserOf[c] =>
              /\ Outrun(c) => Outrun(c)'
              /\ c \in member' /\ (c \in member => Checks(c)) => Checks(c)'
    PROVE  LookedAt(v)'
<1>1. (Uncounted(v) => Uncounted(v)') /\ (Before(v) => Before(v)')
  BY DEF Uncounted, Before
<1>2. \A d \in Conns \ {c} : (Checks(d) => Checks(d)') /\ (Outrun(d) => Outrun(d)')
  BY DEF Checks, Outrun
<1>3. (\E d \in Conns : UserOf[d] = v /\ Outrun(d)) => \E d \in Conns : UserOf[d] = v /\ Outrun(d)'
  BY <1>2
<1>4. ASSUME \A d \in SocketsOf(v) : Checks(d)
      PROVE  \A d \in SocketsOf(v)' : Checks(d)'
  <2> SUFFICES ASSUME NEW d \in SocketsOf(v)' PROVE Checks(d)'
    OBVIOUS
  <2>1. d \in member' /\ UserOf[d] = v /\ d \in Conns
    BY DEF SocketsOf, TypeOK
  <2>2. CASE d = c
    BY <1>4, <2>1, <2>2 DEF SocketsOf
  <2>3. CASE d # c
    BY <1>2, <1>4, <2>1, <2>3 DEF SocketsOf
  <2> QED BY <2>2, <2>3
<1> QED BY <1>1, <1>3, <1>4 DEF LookedAt

(* Sockets that leave take no flag of who stays.                             *)
LEMMA RemoveFlags ==
    ASSUME TypeOK, NEW c \in Conns, Remove({c}), NEW v \in Present', perm' = perm
    PROVE  v \in Users /\ v \in Present /\ (WrongFlag(v)' => WrongFlag(v))
<1>1. member' = member \ {c} /\ muted' = {u \in muted : SocketsOf(u) \ {c} # {}}
  BY DEF Remove
<1>2. PICK d \in member \ {c} : UserOf[d] = v
  BY <1>1 DEF Present
<1>3. d \in SocketsOf(v) \ {c} /\ d \in Conns
  BY <1>2 DEF SocketsOf, TypeOK
<1>4. v \in muted' <=> v \in muted
  BY <1>1, <1>3
<1> QED BY <1>2, <1>3, <1>4 DEF Present, Users, WrongFlag

(* A join sets the flag right, or asks for another sweep, or looks again.    *)
LEMMA JoinLooks ==
    ASSUME TypeOK, QueueOK, FlagInv, NEW c \in Conns,
           PassGate(c) \/ Joining(c) \/ Leave(c)
    PROVE  FlagInv'
<1>1. perm' = perm /\ unsure' = unsure /\ change' = change /\ epoch' = epoch
  BY DEF PassGate, Joining, Insert, ReadEpoch, Recheck, Withdraw, Store, Joined, Leave
<1>2. \A d \in Conns \ {c} : join'[d] = join[d]
  BY DEF PassGate, Joining, Insert, ReadEpoch, Recheck, Withdraw, Store, Joined, Leave, TypeOK
<1>3. /\ \A d \in Conns : UserOf[d] \in Users
      /\ runner.at = "acting" => runner.user \in Users
      /\ Present \in SUBSET Users /\ epoch \in Nat
  BY DEF Present, Users, TypeOK, Runner, NoRunner
<1>4. \A u \in Users : Uncounted(u) => Uncounted(u)'
  <2>1. CASE UNCHANGED <<queue, runner>>
    BY <1>1, <2>1 DEF Uncounted
  <2>2. CASE RequestSweep(0)
    BY <2>2, RequestLooks, SweepAssumption DEF Uncounted
  <2> QED BY <2>1, <2>2
          DEF PassGate, Joining, Insert, ReadEpoch, Recheck, Withdraw, Store, Joined, Leave
<1>5. OldInRun'
  <2>1. CASE UNCHANGED <<queue, runner>>
    BY <1>1, <1>3, <1>4, <2>1 DEF FlagInv, OldInRun
  <2>2. CASE RequestSweep(0)
    <3>1. runner'.at = "acting" => runner.at = "acting" /\ runner' = runner
      BY <2>2, RequestLooks, SweepAssumption
    <3> QED BY <1>1, <1>3, <1>4, <3>1 DEF FlagInv, OldInRun
  <2> QED BY <2>1, <2>2
          DEF PassGate, Joining, Insert, ReadEpoch, Recheck, Withdraw, Store, Joined, Leave
<1>6. /\ join'[c].at \in {"checking", "answered", "stored"} =>
             join'[c].epoch = epoch \/ (join[c].at \in {"checking", "answered"} /\ join'[c].epoch = join[c].epoch)
      /\ join'[c].at = "answered" =>
             join'[c].answer \in {"failed", perm[UserOf[c]]} \/ join'[c] = join[c]
  <2>1. CASE PassGate(c) \/ Insert(c) \/ ReadEpoch(c) \/ Withdraw(c) \/ Joined(c)
    BY <2>1 DEF PassGate, Insert, ReadEpoch, Withdraw, Joined, TypeOK, Idle
  <2>2. CASE Recheck(c)
    BY <2>2 DEF Recheck, TypeOK
  <2>3. CASE Store(c)
    BY <2>3 DEF Store, TypeOK
  <2>4. CASE Leave(c)
    BY <2>4 DEF Leave, Idle
  <2> QED BY <2>1, <2>2, <2>3, <2>4 DEF Joining
<1>7. Epochs'
  <2> SUFFICES ASSUME NEW d \in Conns, join'[d].at \in {"checking", "answered", "stored"}
               PROVE  join'[d].epoch <= epoch
    BY <1>1 DEF Epochs
  <2>1. CASE d # c
    BY <1>2, <2>1 DEF FlagInv, Epochs
  <2>2. CASE d = c
    BY <1>3, <1>6, <2>2 DEF FlagInv, Epochs
  <2> QED BY <2>1, <2>2
<1>8. OldInJoin'
  <2> SUFFICES ASSUME NEW d \in Conns, join'[d].at = "answered",
                      join'[d].answer \in {"muted", "speaker"},
                      join'[d].answer # perm[UserOf[d]]
               PROVE  join'[d].epoch # epoch \/ Uncounted(UserOf[d])'
    BY <1>1 DEF OldInJoin
  <2>1. join'[d] = join[d]
    BY <1>2, <1>6
  <2> QED BY <1>3, <1>4, <2>1 DEF FlagInv, OldInJoin
<1> DEFINE w == UserOf[c]
<1>9. CASE PassGate(c)
  <2>1. /\ ~Checks(c) /\ ~Outrun(c)
        /\ UNCHANGED <<member, muted, queue, runner>>
    BY <1>9 DEF PassGate, Checks, Outrun, Idle
  <2>2. \A v \in Users : LookedAt(v) => LookedAt(v)'
    BY <1>1, <1>2, <2>1, JoinKeepsLook
  <2>3. Flags'
    BY <1>1, <1>3, <2>1, <2>2 DEF FlagInv, Flags, Present, WrongFlag
  <2> QED BY <1>5, <1>7, <1>8, <2>3 DEF FlagInv
<1>10. CASE Insert(c)
  <2>1. /\ join[c].at = "passed" /\ join'[c].at = "inserted"
        /\ member' = member \cup {c} /\ UNCHANGED <<muted, queue, runner>>
    BY <1>10 DEF Insert, TypeOK
  <2>2. ~Outrun(c) /\ Checks(c)'
    BY <2>1 DEF Checks, Outrun
  <2>3. \A v \in Users : LookedAt(v) => LookedAt(v)'
    BY <1>1, <1>2, <2>1, <2>2, JoinKeepsLook
  <2>4. ASSUME NEW v \in Present', v \notin unsure', WrongFlag(v)'
        PROVE  LookedAt(v)'
    <3>1. CASE v \in Present
      BY <1>1, <1>3, <2>1, <2>3, <2>4, <3>1 DEF FlagInv, Flags, WrongFlag
    <3>2. CASE v \notin Present
      <4>1. \A d \in SocketsOf(v)' : d = c
        BY <2>1, <3>2 DEF Present, SocketsOf
      <4> QED BY <2>2, <4>1 DEF LookedAt
    <3> QED BY <3>1, <3>2
  <2> QED BY <1>5, <1>7, <1>8, <2>4 DEF FlagInv, Flags
<1>11. CASE ReadEpoch(c) \/ Recheck(c)
  <2>1. /\ join[c].at \in {"inserted", "checking"} /\ UNCHANGED <<member, muted, queue, runner>>
        /\ \/ join'[c].at = "checking"
           \/ join'[c].at = "answered" /\ join'[c].answer \in {"failed", perm[UserOf[c]]}
    BY <1>11 DEF ReadEpoch, Recheck, TypeOK
  <2>2. ~Outrun(c) /\ Checks(c)'
    BY <1>1, <2>1 DEF Checks, Outrun
  <2>3. \A v \in Users : LookedAt(v) => LookedAt(v)'
    BY <1>1, <1>2, <2>1, <2>2, JoinKeepsLook
  <2>4. Flags'
    BY <1>1, <1>3, <2>1, <2>3 DEF FlagInv, Flags, Present, WrongFlag
  <2> QED BY <1>5, <1>7, <1>8, <2>4 DEF FlagInv
<1>12. CASE Withdraw(c) \/ Leave(c)
  <2>1. /\ ~Outrun(c) /\ Remove({c}) /\ UNCHANGED <<queue, runner>>
        /\ member' = member \ {c}
    BY <1>12 DEF Withdraw, Leave, Remove, Outrun, Idle
  <2>2. \A v \in Users : LookedAt(v) => LookedAt(v)'
    BY <1>1, <1>2, <2>1, JoinKeepsLook
  <2>3. Flags'
    BY <1>1, <2>1, <2>2, RemoveFlags DEF FlagInv, Flags
  <2> QED BY <1>5, <1>7, <1>8, <2>3 DEF FlagInv
<1>13. CASE Store(c)
  <2> DEFINE a == join[c].answer
  <2>1. /\ join[c].at = "answered" /\ a \in {"muted", "speaker"}
        /\ join'[c].at = "stored" /\ join'[c].epoch = join[c].epoch
        /\ muted' = Flagged(w, a) /\ UNCHANGED <<member, queue, runner>>
    BY <1>13 DEF Store, TypeOK
  <2>2. ASSUME NEW v \in Present', v \notin unsure', WrongFlag(v)', v # w
        PROVE  LookedAt(v)'
    <3>1. v \in Present /\ v \in Users
      BY <1>3, <2>1, <2>2 DEF Present
    <3>2. WrongFlag(v)
      BY <1>1, <2>1, <2>2 DEF WrongFlag, Flagged
    <3>3. LookedAt(v)
      BY <1>1, <2>2, <3>1, <3>2 DEF FlagInv, Flags
    <3> QED BY <1>1, <1>2, <2>1, <2>2, <3>1, <3>3, JoinKeepsLook
  <2>3. ASSUME w \in Present', WrongFlag(w)'
        PROVE  LookedAt(w)'
    <3>1. SocketsOf(w) # {}
      BY <2>1, <2>3 DEF Present, SocketsOf
    <3>2. w \in muted' <=> a = "muted"
      BY <2>1, <3>1 DEF Flagged
    <3>3. a # perm[w]
      BY <1>1, <2>1, <2>3, <3>2 DEF WrongFlag
    <3>4. join[c].epoch # epoch \/ Uncounted(w)
      BY <2>1, <3>3 DEF FlagInv, OldInJoin
    <3>5. join[c].epoch # epoch => Outrun(c)'
      BY <1>1, <2>1 DEF Outrun
    <3> QED BY <1>3, <1>4, <3>4, <3>5 DEF LookedAt
  <2>4. Flags'
    BY <2>2, <2>3 DEF Flags
  <2> QED BY <1>5, <1>7, <1>8, <2>4 DEF FlagInv
<1>14. CASE Joined(c)
  <2>1. join[c].at = "stored" /\ UNCHANGED <<member, muted>>
    BY <1>14 DEF Joined
  <2>2. CASE Overtaken(c)
    <3>1. RequestSweep(0)
      BY <1>14, <2>2 DEF Joined
    <3>2. \A u \in Users : LookedAt(u)'
      BY <3>1, RequestLooks, SweepAssumption DEF Uncounted, LookedAt
    <3>3. Flags'
      BY <1>3, <2>1, <3>2 DEF Flags, Present
    <3> QED BY <1>5, <1>7, <1>8, <3>3 DEF FlagInv
  <2>3. CASE ~Overtaken(c)
    <3>1. UNCHANGED <<queue, runner>> /\ ~Outrun(c) /\ ~Checks(c)
      BY <1>14, <2>1, <2>3 DEF Joined, Overtaken, Outrun, Checks
    <3>2. \A v \in Users : LookedAt(v) => LookedAt(v)'
      BY <1>1, <1>2, <2>1, <3>1, JoinKeepsLook
    <3>3. Flags'
      BY <1>1, <1>3, <2>1, <3>2 DEF FlagInv, Flags, Present, WrongFlag
    <3> QED BY <1>5, <1>7, <1>8, <3>3 DEF FlagInv
  <2> QED BY <2>2, <2>3
<1> QED BY <1>9, <1>10, <1>11, <1>12, <1>13, <1>14 DEF Joining

(* So the sweep as a whole takes no look away before it is over.              *)
LEMMA SweepLooks ==
    ASSUME TypeOK, QueueOK, FlagInv, Sweep
    PROVE  FlagInv'
BY RunLooks, UserLooks DEF Sweep, Run

-----------------------------------------------------------------------------
(* The theorems.                                                             *)

(* Every step of the program keeps the invariant.                            *)
LEMMA Inductive == IInv /\ [Next]_vars => IInv'
<1> SUFFICES ASSUME IInv, [Next]_vars PROVE IInv'
  OBVIOUS
<1> USE DEF IInv
<1>1. CASE UNCHANGED vars
  BY <1>1 DEF vars, TypeOK, QueueOK, RetriesKept, Intact, Covered, Stale, Asked, Underway,
              Coming, SocketsOf, ToBeChecked, FlagInv, Flags, OldInJoin, OldInRun, Epochs,
              LookedAt, Uncounted, Before, Outrun, Checks, WrongFlag, Present
<1>2. CASE Panic
  <2>1. ~Intact'
    BY <1>2 DEF Panic, Intact, TypeOK
  <2> QED BY <1>2, <2>1, SweepType, SweepQueue
<1>3. CASE Sweep
  <2>1. Intact' => Intact
    BY <1>3 DEF Sweep, Run, RunnerLeaves, RunStarts, CountSweep, Snapshot, Scoped, Unscoped,
                Resolve, Act, RunEnds, RetryFires, Fault, Intact, TypeOK
  <2> QED BY <1>3, <2>1, SweepType, SweepQueue, SweepCovers, SweepLooks
<1>4. ASSUME NEW c \in Conns, PassGate(c) \/ Joining(c) \/ Leave(c)
      PROVE  IInv'
  <2>1. Intact' => Intact
    BY <1>4 DEF PassGate, Joining, Insert, ReadEpoch, Recheck, Withdraw, Store, Joined, Leave,
                Fault, Intact, TypeOK
  <2> QED BY <1>4, <2>1, JoinType, JoinQueue, JoinCovers, JoinLooks
<1>5. ASSUME NEW k \in Changes,
             \/ \E u \in Users, right \in Rights : Commit(k, u, right)
             \/ AskForSweep(k) \/ Answered(k)
      PROVE  IInv'
  <2>1. Intact' => Intact
    BY <1>5 DEF Commit, AskForSweep, Answered, Intact
  <2> QED BY <1>5, <2>1, ChangeType, ChangeQueue, ChangeCovers, ChangeLooks
<1> QED BY <1>1, <1>2, <1>3, <1>4, <1>5 DEF Next

(* The invariant holds in the initial state.                                 *)
LEMMA InitInv == Init => IInv
<1> SUFFICES ASSUME Init PROVE IInv
  OBVIOUS
<1>1. QueueOK /\ RetriesKept
  BY DEF Init, QueueOK, RetriesKept, NoChange
<1>2. Covered /\ Stale
  BY DEF Init, Covered, Stale, SocketsOf, NoRunner
<1>3. FlagInv
  BY DEF Init, FlagInv, Flags, OldInJoin, OldInRun, Epochs, Present, Idle, NoRunner
<1> QED BY <1>1, <1>2, <1>3, InitType DEF IInv

(* Every reachable state satisfies the inductive invariant.                  *)
THEOREM Invariance == Spec => []IInv
BY InitInv, Inductive, PTL DEF Spec

(* The variables keep their types; in particular only somebody in the room   *)
(* is flagged as muted.                                                      *)
THEOREM TypeCorrect == Spec => []TypeOK
BY Invariance, PTL DEF IInv

(* Revocation is complete: when the detached work of a change is done, the   *)
(* user it shut out has no socket in the room, except one whose join is      *)
(* still to be rechecked or is already refused, and except a user whose      *)
(* permissions a sweep could not read (perms_changed, evict_sweep).          *)
THEOREM Revocation == Spec => []DeniedIsOut
<1>1. IInv => DeniedIsOut
  BY DEF IInv, DeniedIsOut, Covered, Asked, Underway, SettledChange
<1> QED BY <1>1, Invariance, PTL

(* When nothing is under way the room agrees with the database: whoever is   *)
(* in it may be, and exactly those who may not speak are flagged, unless a   *)
(* sweep could not read their permissions (evict_sweep, store_join_speak).   *)
THEOREM Agreement == Spec => []RoomAgrees
<1>0. SUFFICES IInv => RoomAgrees
  BY Invariance, PTL
<1> SUFFICES ASSUME IInv, Intact, Quiet, NEW u \in Present, u \notin unsure
             PROVE  perm[u] # "denied" /\ ~WrongFlag(u)
  BY DEF RoomAgrees, WrongFlag
<1>1. TypeOK /\ QueueOK /\ Covered /\ FlagInv
  BY DEF IInv
<1>2. queue = NoQueue /\ runner = NoRunner /\ u \in Users
  BY <1>1 DEF Quiet, QueueOK, Present, Users, TypeOK
<1>3. PICK c \in SocketsOf(u) : c \in Conns /\ join[c] = Idle
  BY <1>1 DEF Quiet, Present, SocketsOf, TypeOK
<1>4. perm[u] # "denied"
  BY <1>1, <1>2, <1>3 DEF Covered, Asked, Underway, ToBeChecked, Quiet, Idle
<1>5. ~LookedAt(u)
  BY <1>2, <1>3 DEF LookedAt, Uncounted, Before, Outrun, Checks, Quiet, Idle, NoRunner
<1> QED BY <1>1, <1>4, <1>5 DEF FlagInv, Flags

(* The sweep a change waits for carries the change's own retries, whatever   *)
(* request it was joined to (request_perms_sweep).                           *)
THEOREM Retries == Spec => []RetriesKept
BY Invariance, PTL DEF IInv
=============================================================================
