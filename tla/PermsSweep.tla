----------------------------- MODULE PermsSweep -----------------------------
(***************************************************************************)
(* Permission changes and the calls they reach (ws.rs): a change commits,  *)
(* asks for a sweep of its server, and the server's one sweep runner       *)
(* resolves every occupant of the server's voice room again, removing or   *)
(* muting them; a JoinRoom in flight meanwhile rechecks after its insert   *)
(* and, if a sweep started since, asks for another.                        *)
(*                                                                         *)
(* One server and one voice room of it.  A step is what a task does        *)
(* between two awaits, or between two accesses whose order matters.  A     *)
(* permission lookup is one read; what is sent to clients, the card table  *)
(* and the SFU pass of the sweep are not part of this module.              *)
(***************************************************************************)
EXTENDS Naturals, FiniteSets

CONSTANTS
    Conns,        \* sockets
    UserOf,       \* [Conns -> users]
    Changes,      \* permission changes that may be made, each once
    MaxRetries,   \* what a change's sweep carries: 3
    MaxJoins,     \* bound: how often a join passes its gate
    MaxFaults,    \* bound: failed database queries
    MaxPanics,    \* bound: panics of a sweep
    NoQueue       \* no entry in perms_sweeps

Users == {UserOf[c] : c \in Conns}

ASSUME SweepAssumption ==
    /\ UserOf \in [Conns -> Users] /\ IsFiniteSet(Conns)
    /\ MaxRetries \in Nat /\ MaxJoins \in Nat /\ MaxFaults \in Nat /\ MaxPanics \in Nat

VARIABLES
    perm,      \* the database: may a user be in the call, may they speak
    member,    \* sockets in the room
    muted,     \* Room.speak_denied
    join,      \* per socket: its JoinRoom
    epoch,     \* perms_sweep_epochs
    change,    \* per change: how far its detached task got
    queue,     \* perms_sweeps
    runner,    \* the sweep runner
    timers,    \* retries waiting for their back-off, by the retries they carry
    unsure,    \* users a sweep had to leave as they were
    spent      \* how many joins, faults and panics there were

vars == <<perm, member, muted, join, epoch, change, queue, runner, timers, unsure, spent>>

Rights == {"denied", "muted", "speaker"}
Answers == Rights \cup {"failed"}

Idle == [at |-> "idle"]
Join ==
    {Idle} \cup [at : {"passed", "inserted"}]
        \cup [at : {"checking", "stored"}, epoch : Nat]
        \cup [at : {"answered"}, epoch : Nat, answer : Answers]

NoChange == [at |-> "none"]
Change ==
    {NoChange} \cup [at : {"committed", "done"}, user : Users]
        \cup [at : {"waiting"}, user : Users, run : Nat]

Queue == [started : Nat, wanted : Nat, retries : 0..MaxRetries, finished : Nat]
ASSUME QueueAssumption == NoQueue \notin Queue

NoRunner == [at |-> "none"]
Runner ==
    {NoRunner} \cup [at : {"loop"}]
        \cup [at : {"starting", "started"}, retries : 0..MaxRetries]
        \cup [at : {"scoping"}, retries : 0..MaxRetries, todo : SUBSET Users]
        \cup [at : {"sweeping"}, scoped : BOOLEAN, todo : SUBSET Users]
        \cup [at : {"acting"}, scoped : BOOLEAN, todo : SUBSET Users,
              user : Users, answer : Answers]

TypeOK ==
    /\ perm \in [Users -> Rights]
    /\ member \in SUBSET Conns
    /\ muted \in SUBSET {UserOf[c] : c \in member}
    /\ join \in [Conns -> Join]
    /\ epoch \in Nat
    /\ change \in [Changes -> Change]
    /\ queue \in Queue \cup {NoQueue}
    /\ runner \in Runner
    /\ timers \in [0..MaxRetries -> Nat]
    /\ unsure \in SUBSET Users
    /\ spent \in [joins : 0..MaxJoins, faults : 0..MaxFaults, panics : 0..MaxPanics]

Init ==
    /\ perm = [u \in Users |-> "speaker"]
    /\ member = {} /\ muted = {}
    /\ join = [c \in Conns |-> Idle]
    /\ epoch = 0
    /\ change = [k \in Changes |-> NoChange]
    /\ queue = NoQueue /\ runner = NoRunner
    /\ timers = [n \in 0..MaxRetries |-> 0]
    /\ unsure = {}
    /\ spent = [joins |-> 0, faults |-> 0, panics |-> 0]

Fault == spent.faults < MaxFaults /\ spent' = [spent EXCEPT !.faults = @ + 1]

-----------------------------------------------------------------------------
(* The room.                                                               *)

SocketsOf(u) == {c \in member : UserOf[c] = u}
Present == {UserOf[c] : c \in member}

\* Faulty: of somebody who left, too.
FlaggedAlways(u, answer) == IF answer = "muted" THEN muted \cup {u} ELSE muted \ {u}

\* set_voice_rights: of a member only.
Flagged(u, answer) ==
    IF SocketsOf(u) = {} THEN muted
    ELSE IF answer = "muted" THEN muted \cup {u} ELSE muted \ {u}

\* Sockets leave; the flag of a user who is out goes with them.
Remove(S) ==
    /\ member' = member \ S
    /\ muted' = {u \in muted : SocketsOf(u) \ S # {}}

-----------------------------------------------------------------------------
(* The queue.                                                              *)

MaxOf(m, n) == IF m >= n THEN m ELSE n

\* Faulty: a request counts on the run that is going on.
TicketOfRunning == IF queue = NoQueue THEN 1 ELSE MaxOf(1, queue.started)

\* The run a request is covered by: the first to start after it asked.
Ticket == IF queue = NoQueue THEN 1 ELSE queue.started + 1

\* Faulty: the first request's retries stand for all that join it.
RequestedFirst(retries) ==
    IF queue = NoQueue THEN [started |-> 0, wanted |-> 1, retries |-> retries, finished |-> 0]
    ELSE [queue EXCEPT !.wanted = MaxOf(@, Ticket), !.retries = IF queue.wanted > queue.started THEN @ ELSE retries]

Requested(retries) ==
    IF queue = NoQueue THEN [started |-> 0, wanted |-> 1, retries |-> retries, finished |-> 0]
    ELSE [queue EXCEPT !.wanted = MaxOf(@, Ticket), !.retries = MaxOf(@, retries)]

\* request_perms_sweep: joins the queue, or opens it and spawns its runner.
RequestSweep(retries) ==
    /\ queue' = Requested(retries)
    /\ runner' = IF queue = NoQueue THEN [at |-> "loop"] ELSE runner

\* A waiter whose queue is removed waits no longer: its channel closes.
Released ==
    [k \in Changes |->
        IF change[k].at = "waiting" THEN [change[k] EXCEPT !.run = 0] ELSE change[k]]

-----------------------------------------------------------------------------
(* A permission change.                                                    *)

Commit(k, u, right) ==
    /\ change[k] = NoChange /\ right # perm[u]
    /\ perm' = [perm EXCEPT ![u] = right]
    /\ change' = [change EXCEPT ![k] = [at |-> "committed", user |-> u]]
    /\ UNCHANGED <<member, muted, join, epoch, queue, runner, timers, unsure, spent>>

\* perms_changed, detached, once the members were told.
AskForSweep(k) ==
    /\ change[k].at = "committed"
    /\ RequestSweep(MaxRetries)
    /\ change' = [change EXCEPT ![k] = [at |-> "waiting", user |-> @.user, run |-> Ticket]]
    /\ UNCHANGED <<perm, member, muted, join, epoch, timers, unsure, spent>>

\* SweepTicket::wait
Answered(k) ==
    /\ change[k].at = "waiting"
    /\ change[k].run = 0 \/ (queue # NoQueue /\ queue.finished >= change[k].run)
    /\ change' = [change EXCEPT ![k] = [at |-> "done", user |-> @.user]]
    /\ UNCHANGED <<perm, member, muted, join, epoch, queue, runner, timers, unsure, spent>>

-----------------------------------------------------------------------------
(* The runner and its sweep.                                               *)

RunnerLeaves ==
    /\ runner.at = "loop" /\ queue.wanted <= queue.started
    /\ queue' = NoQueue /\ runner' = NoRunner
    /\ change' = Released
    /\ UNCHANGED <<perm, member, muted, join, epoch, timers, unsure, spent>>

RunStarts ==
    /\ runner.at = "loop" /\ queue.wanted > queue.started
    /\ queue' = [queue EXCEPT !.started = @ + 1, !.retries = 0]
    /\ runner' = [at |-> "starting", retries |-> queue.retries]
    /\ UNCHANGED <<perm, member, muted, join, epoch, change, timers, unsure, spent>>

CountSweep ==
    /\ runner.at = "starting"
    /\ epoch' = epoch + 1
    /\ runner' = [runner EXCEPT !.at = "started"]
    /\ UNCHANGED <<perm, member, muted, join, change, queue, timers, unsure, spent>>

Snapshot ==
    /\ runner.at = "started"
    /\ runner' = [at |-> "scoping", retries |-> runner.retries, todo |-> Present]
    /\ UNCHANGED <<perm, member, muted, join, epoch, change, queue, timers, unsure, spent>>

\* The scope query; failing, it is retried after a back-off, and the sweep acts
\* on what resolves.
Scoped ==
    /\ runner.at = "scoping"
    /\ runner' = [at |-> "sweeping", scoped |-> TRUE, todo |-> runner.todo]
    /\ UNCHANGED <<perm, member, muted, join, epoch, change, queue, timers, unsure, spent>>

Unscoped ==
    /\ runner.at = "scoping" /\ Fault
    /\ runner' = [at |-> "sweeping", scoped |-> FALSE, todo |-> runner.todo]
    /\ timers' = IF runner.retries = 0 THEN timers
                 ELSE [timers EXCEPT ![runner.retries - 1] = @ + 1]
    /\ UNCHANGED <<perm, member, muted, join, epoch, change, queue, unsure>>

Resolve(u) ==
    /\ runner.at = "sweeping" /\ u \in runner.todo
    /\ \E failed \in BOOLEAN :
         /\ IF failed THEN Fault ELSE UNCHANGED spent
         /\ runner' = [at |-> "acting", scoped |-> runner.scoped, todo |-> runner.todo \ {u},
                       user |-> u, answer |-> IF failed THEN "failed" ELSE perm[u]]
    /\ UNCHANGED <<perm, member, muted, join, epoch, change, queue, timers, unsure>>

\* sweep_keeps
Keeps(scoped, answer) == answer \in {"muted", "speaker"} \/ (answer = "failed" /\ ~scoped)

Act ==
    /\ runner.at = "acting"
    /\ LET u == runner.user
       IN IF ~Keeps(runner.scoped, runner.answer)
          THEN /\ Remove(SocketsOf(u))
               /\ unsure' = unsure \ {u}
          ELSE /\ muted' = IF runner.answer = "failed" THEN muted ELSE Flagged(u, runner.answer)
               /\ unsure' = IF runner.answer = "failed" THEN unsure \cup {u} ELSE unsure \ {u}
               /\ UNCHANGED member
    /\ runner' = [at |-> "sweeping", scoped |-> runner.scoped, todo |-> runner.todo]
    /\ UNCHANGED <<perm, join, epoch, change, queue, timers, spent>>

RunEnds ==
    /\ runner.at = "sweeping" /\ runner.todo = {}
    /\ queue' = [queue EXCEPT !.finished = queue.started]
    /\ runner' = [at |-> "loop"]
    /\ UNCHANGED <<perm, member, muted, join, epoch, change, timers, unsure, spent>>

\* Faulty: the entry outlives its runner.
QueueKept == queue

\* SweepRunner::drop
QueueAfterPanic == NoQueue

Panic ==
    /\ runner.at \notin {"none", "loop"} /\ spent.panics < MaxPanics
    /\ spent' = [spent EXCEPT !.panics = @ + 1]
    /\ queue' = QueueAfterPanic /\ runner' = NoRunner
    /\ change' = IF QueueAfterPanic = NoQueue THEN Released ELSE change
    /\ UNCHANGED <<perm, member, muted, join, epoch, timers, unsure>>

RetryFires(n) ==
    /\ timers[n] > 0
    /\ timers' = [timers EXCEPT ![n] = @ - 1]
    /\ RequestSweep(n)
    /\ UNCHANGED <<perm, member, muted, join, epoch, change, unsure, spent>>

-----------------------------------------------------------------------------
(* JoinRoom.                                                               *)

\* The permission gate lets the join through.
PassGate(c) ==
    /\ join[c] = Idle /\ perm[UserOf[c]] # "denied"
    /\ spent.joins < MaxJoins /\ spent' = [spent EXCEPT !.joins = @ + 1]
    /\ join' = [join EXCEPT ![c] = [at |-> "passed"]]
    /\ UNCHANGED <<perm, member, muted, epoch, change, queue, runner, timers, unsure>>

Insert(c) ==
    /\ join[c].at = "passed"
    /\ member' = member \cup {c}
    /\ join' = [join EXCEPT ![c] = [at |-> "inserted"]]
    /\ UNCHANGED <<perm, muted, epoch, change, queue, runner, timers, unsure, spent>>

\* epoch_before
ReadEpoch(c) ==
    /\ join[c].at = "inserted"
    /\ join' = [join EXCEPT ![c] = [at |-> "checking", epoch |-> epoch]]
    /\ UNCHANGED <<perm, member, muted, epoch, change, queue, runner, timers, unsure, spent>>

Recheck(c) ==
    /\ join[c].at = "checking"
    /\ \E failed \in BOOLEAN :
         /\ IF failed THEN Fault ELSE UNCHANGED spent
         /\ join' = [join EXCEPT ![c] =
                [at |-> "answered", epoch |-> @.epoch,
                 answer |-> IF failed THEN "failed" ELSE perm[UserOf[c]]]]
    /\ UNCHANGED <<perm, member, muted, epoch, change, queue, runner, timers, unsure>>

\* withdraw_refused_join: this socket only.
Withdraw(c) ==
    /\ join[c].at = "answered" /\ join[c].answer \in {"denied", "failed"}
    /\ Remove({c})
    /\ join' = [join EXCEPT ![c] = Idle]
    /\ UNCHANGED <<perm, epoch, change, queue, runner, timers, unsure, spent>>

\* store_join_speak
Store(c) ==
    /\ join[c].at = "answered" /\ join[c].answer \in {"muted", "speaker"}
    /\ muted' = Flagged(UserOf[c], join[c].answer)
    /\ join' = [join EXCEPT ![c] = [at |-> "stored", epoch |-> @.epoch]]
    /\ UNCHANGED <<perm, member, epoch, change, queue, runner, timers, unsure, spent>>

\* Faulty: only an eviction would matter.
OvertakenWhenOut(c) == epoch # join[c].epoch /\ c \notin member

Overtaken(c) == epoch # join[c].epoch

Joined(c) ==
    /\ join[c].at = "stored"
    /\ IF Overtaken(c) THEN RequestSweep(0) ELSE UNCHANGED <<queue, runner>>
    /\ join' = [join EXCEPT ![c] = Idle]
    /\ UNCHANGED <<perm, member, muted, epoch, change, timers, unsure, spent>>

\* LeaveRoom, or the socket closes: between two frames.
Leave(c) ==
    /\ join[c] = Idle /\ c \in member
    /\ Remove({c})
    /\ UNCHANGED <<perm, join, epoch, change, queue, runner, timers, unsure, spent>>

-----------------------------------------------------------------------------
Run == RunnerLeaves \/ RunStarts \/ CountSweep \/ Snapshot \/ Scoped \/ Unscoped \/ Act \/ RunEnds
Sweep == Run \/ (\E u \in Users : Resolve(u)) \/ (\E n \in 0..MaxRetries : RetryFires(n))
Joining(c) ==
    Insert(c) \/ ReadEpoch(c) \/ Recheck(c) \/ Withdraw(c) \/ Store(c) \/ Joined(c)

Next ==
    \/ Sweep \/ Panic
    \/ \E c \in Conns : PassGate(c) \/ Joining(c) \/ Leave(c)
    \/ \E k \in Changes : AskForSweep(k) \/ Answered(k)
    \/ \E k \in Changes, u \in Users, right \in Rights : Commit(k, u, right)

\* Spawned tasks run on, queries answer, timers fire.
Fairness ==
    /\ WF_vars(Sweep)
    /\ \A k \in Changes : WF_vars(AskForSweep(k)) /\ WF_vars(Answered(k))
    /\ \A c \in Conns : WF_vars(Joining(c))

Spec == Init /\ [][Next]_vars /\ Fairness

-----------------------------------------------------------------------------
(* Properties.                                                             *)

\* A sweep that panicked was lost; nothing looks again.
Intact == spent.panics = 0

\* When the work of a change is done, whoever it shut out is out: none of their
\* sockets is in the room but those whose join is still to be rechecked or has
\* already been refused.  (Unless a sweep could not resolve them.)
SettledChange(u) == \A k \in Changes : change[k].at \in {"committed", "waiting"} => change[k].user # u
ToBeChecked(c) ==
    \/ join[c].at \in {"inserted", "checking"}
    \/ join[c].at = "answered" /\ join[c].answer \in {"denied", "failed"}

DeniedIsOut ==
    Intact => \A u \in Users \ unsure :
        perm[u] = "denied" /\ SettledChange(u) => \A c \in SocketsOf(u) : ToBeChecked(c)

\* With nothing under way the room agrees with the database: everybody in it may
\* be, and exactly those who may not speak are flagged.
Quiet ==
    /\ queue = NoQueue /\ \A n \in 0..MaxRetries : timers[n] = 0
    /\ \A c \in Conns : join[c] = Idle
    /\ \A k \in Changes : change[k].at # "committed"
RoomAgrees ==
    Intact /\ Quiet => \A u \in Present \ unsure :
        perm[u] # "denied" /\ (u \in muted <=> perm[u] = "muted")

\* A change's sweep carries its retries, whatever request it was joined to.
RetriesKept ==
    \A k \in Changes : change[k].at = "waiting" /\ queue # NoQueue =>
        /\ change[k].run = queue.started + 1 => queue.retries = MaxRetries
        /\ change[k].run = queue.started /\ runner.at \in {"starting", "started", "scoping"} =>
              runner.retries = MaxRetries

\* Nobody waits for a sweep for ever, even when one panics.
ChangesAnswered == \A k \in Changes : change[k].at = "committed" ~> change[k].at = "done"
=============================================================================
