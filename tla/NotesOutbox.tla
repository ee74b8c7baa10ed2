---------------------------- MODULE NotesOutbox ----------------------------
(***************************************************************************)
(* The offline queue of Puca Notes (notes/model/notesOutbox.ts): what the  *)
(* user does while the server cannot be reached is kept and replayed.      *)
(*                                                                         *)
(* One device: pages (tabs) of one account that share the queue's sealed   *)
(* record.  Only one page replays at a time, under a lock.  Every change   *)
(* of the record is a read-modify-write under another lock, hence one      *)
(* step.  Another device of the account writes the same notes.             *)
(*                                                                         *)
(* Intents are numbered in the order the user acted.  The number of an     *)
(* intent is its op id and stands for the words it carries and the random  *)
(* key minted with it.  A note made by intent i has the temporary id -i    *)
(* until its create has been replayed.                                     *)
(***************************************************************************)
EXTENDS Integers, Sequences, FiniteSets

CONSTANTS
    Tabs,          \* pages of this device
    NoTab,         \* nobody replays
    Kinds,         \* what the user does: a subset of {"create", "edit", "text"}
    MaxActs,       \* bound: things the user does
    MaxFaults,     \* bound: lost requests or answers, server errors
    MaxOutages,    \* bound: times the device goes offline
    MaxLate,       \* bound: requests that arrive although nobody waits for them any more
    MaxCloses,     \* bound: pages that close
    MaxForeign,    \* bound: writes of another device
    MaxForgets,    \* bound: keys that outlive the server's memory of them (a day in the code)
    MaxAttempts    \* how often a server error is retried (4 in the code)

ASSUME OutboxAssumption ==
    /\ NoTab \notin Tabs
    /\ Kinds \subseteq {"create", "edit", "text"}
    /\ {MaxActs, MaxFaults, MaxOutages, MaxLate, MaxCloses, MaxForeign, MaxForgets,
        MaxAttempts} \subseteq Nat

VARIABLES
    intent,    \* what the user did, in order
    queue,     \* the record: intents waiting, oldest first
    ids,       \* the record: <<create, note>>, what temporary ids became
    dead,      \* the record: creates that were dropped
    revs,      \* the record: <<note, from, to>>, writes of replays
    copies,    \* the record: per typing, the key of its copy and the words sent into it
    tries,     \* the record: server errors per intent
    tab,       \* per page: its stage, its last view of the queue, the writes it saw
    holder,    \* the page that holds the replay lock
    flights,   \* requests that are out, and answers on their way back
    minted,    \* keys minted for fresh copies
    notes,     \* the server's notes
    base,      \* per page: the revision of note 1 it shows
    online,    \* the device has a connection
    spent,     \* how much of each bound is used
    seen       \* history, read by properties only

box == <<queue, ids, dead, revs, copies, tries>>
vars == <<intent, box, tab, holder, flights, minted, notes, base, online, spent, seen>>

NoRev == -1                  \* no revision is named, and the server does not check
Cleared == 0                 \* the empty text
Original == MaxActs + 1      \* what note 1 says at first
NoTyping == <<0, NoRev>>
KeyOf(i) == <<i, 0>>         \* minted when the user acts
Intents == 1 .. Len(intent)

-----------------------------------------------------------------------------
(* The server *)

Said(st) == [st |-> st, note |-> 0, body |-> 0, rev |-> 0]
NoAnswer == Said("none")
Shows(st, n, note) == [st |-> st, note |-> n, body |-> note.body, rev |-> note.rev]

NewNote(r) == [body |-> r.words, rev |-> 0, label |-> 0, key |-> r.key, by |-> r.op,
               typing |-> r.typing, gone |-> FALSE, theirs |-> FALSE, known |-> TRUE]

Claimed(k) == {n \in DOMAIN notes : notes[n].key = k /\ notes[n].known}

\* A create: the insert and the claim of its key commit together, so a replay is answered
\* with the note the key has made, while the server remembers the key.
CreateNote(r) ==
    IF Claimed(r.key) = {}
    THEN [notes |-> Append(notes, NewNote(r)), ans |-> Shows("ok", Len(notes) + 1, NewNote(r))]
    ELSE LET n == CHOOSE c \in Claimed(r.key) : TRUE
         IN  [notes |-> notes,
              ans |-> IF notes[n].gone THEN Said("gone") ELSE Shows("ok", n, notes[n])]

Written(n, r) == IF r.what = "edit" THEN [n EXCEPT !.label = r.op]
                 ELSE [n EXCEPT !.body = r.words, !.rev = @ + 1]

\* A change of a note: of an item the last write wins, the note's own text is checked.
PatchNote(r) ==
    LET n == notes[r.note]
    IN  CASE n.gone -> [notes |-> notes, ans |-> Said("refused")]
          [] ~n.gone /\ r.what = "text" /\ r.rev \notin {NoRev, n.rev} ->
                [notes |-> notes, ans |-> Shows("stale", r.note, n)]
          [] OTHER -> [notes |-> [notes EXCEPT ![r.note] = Written(n, r)],
                       ans |-> Shows("ok", r.note, Written(n, r))]

Handle(r) == IF r.what = "create" THEN CreateNote(r) ELSE PatchNote(r)

-----------------------------------------------------------------------------
(* The queue's record *)

IsText(i) == intent[i].k = "text"

\* Where the text of i's note waits, if i is text.
SameText(its, q, i) ==
    {p \in DOMAIN q : its[i].k = "text" /\ its[q[p]].k = "text" /\ its[q[p]].note = its[i].note}

\* Append, except that a text takes the place of the text queued for the same note.
Enqueue(its, q, i) ==
    LET same == SameText(its, q, i)
    IN  IF same = {} THEN Append(q, i) ELSE [q EXCEPT ![CHOOSE p \in same : TRUE] = i]

\* Newer text than i whose place i takes.
Ousted(i) == {queue[p] : p \in {x \in SameText(intent, queue, i) : queue[x] > i}}

\* Faulty: the op that ran is taken to be the one at the head.
WithoutHead(q, i) == Tail(q)

\* An intent waits once, so what leaves by its id is one place of the queue.
Without(q, i) ==
    LET places == {p \in DOMAIN q : q[p] = i}
        k == CHOOSE p \in places : TRUE
    IN  IF places = {} THEN q
        ELSE [p \in 1 .. Len(q) - 1 |-> IF p < k THEN q[p] ELSE q[p + 1]]

Became(c) == {p[2] : p \in {x \in ids : x[1] = c}}
Resolvable(i) == intent[i].note >= 0 \/ Became(-intent[i].note) # {}
RealNote(i) == IF intent[i].note >= 0 THEN intent[i].note
               ELSE CHOOSE n \in Became(-intent[i].note) : TRUE

\* Where steps lead from r, in any number of them: what every set has that holds r and is
\* closed under them.
Reached(steps, r) ==
    LET ends == {r} \cup {x[2] : x \in steps}
    IN  {e \in ends : \A S \in SUBSET ends :
            r \in S /\ (\A x \in steps : x[1] \in S => x[2] \in S) => e \in S}

\* Faulty: the device's own writes count as another's.
RebaseOnNone(own, n, r) == r

\* The revision that r became through this device's own writes of note n: each raises it,
\* so the walk ends at the greatest it reaches.
RebaseOnOwnRevs(own, n, r) ==
    LET steps == {<<w[2], w[3]>> : w \in {v \in own : v[1] = n /\ v[3] > v[2]}}
    IN  CHOOSE x \in Reached(steps, r) : \A y \in Reached(steps, r) : y <= x

\* Text typed on one revision of one note is one typing, and goes into one copy.
HasTyping(i) == IsText(i) /\ intent[i].rev # NoRev
Typing(i) == <<RealNote(i), intent[i].rev>>
CopyOf(i) == {c \in copies : c.at = Typing(i)}

\* The words of intent i went, or may have gone, into the copy made under key.  The record is
\* as long as it needs to be: the caps on its typings, on the texts of a copy and on the own
\* writes of a note (32, 8 and 8 of 64 notes) are left out.
RecordCopy(i, key) ==
    IF ~HasTyping(i) THEN copies
    ELSE (copies \ CopyOf(i)) \cup
         {[at |-> Typing(i), key |-> key,
           sent |-> {intent[i].words} \cup UNION {c.sent : c \in {d \in CopyOf(i) : d.key = key}}]}

\* The copy's key for this replay: the one this typing used before, or the op's own.
CopyKey(i) == IF HasTyping(i) /\ CopyOf(i) # {} THEN (CHOOSE c \in CopyOf(i) : TRUE).key
              ELSE KeyOf(i)
CopySent(i) == IF HasTyping(i) THEN UNION {c.sent : c \in CopyOf(i)} ELSE {}

Sees(t, q) == tab' = [tab EXCEPT ![t].pending = (q # <<>>)]

-----------------------------------------------------------------------------
(* Requests *)

\* Faulty: a replay mints a key of its own.
RequestNewKey(i, n, rev) == [what |-> intent[i].k, note |-> n, words |-> intent[i].words,
                             rev |-> rev, key |-> <<i, 1>>, op |-> i, typing |-> NoTyping]

Request(i, n, rev) == [what |-> intent[i].k, note |-> n, words |-> intent[i].words, rev |-> rev,
                       key |-> KeyOf(i), op |-> i, typing |-> NoTyping]
CopyRequest(i, key) == [Request(i, 0, NoRev) EXCEPT !.what = "create", !.key = key,
                                                    !.typing = Typing(i)]

\* key is the one a copy was last sent under; sent, the words this typing sent under it.
Flight(t, i, stage, r) ==
    [tab |-> t, op |-> i, stage |-> stage, req |-> r, ans |-> NoAnswer,
     key |-> CopyKey(i), sent |-> CopySent(i)]

Replays == {f \in flights : f.stage \notin {"inline", "adrift"}}
Answered(f) == f.ans.st # "none"
Swap(f, new) == flights' = (flights \ {f}) \cup new

\* Nobody waits for these flights any more.  A request that has left may still arrive.
GiveUp(out) == \E late \in SUBSET {f \in out : ~Answered(f)} :
    /\ Cardinality(late \cup {f \in flights : f.stage = "adrift"}) <= MaxLate
    /\ flights' = (flights \ out) \cup {[f EXCEPT !.stage = "adrift"] : f \in late}

\* Texts of this device that the server took, and whose answers nobody hears.
Unheard(out) == \E f \in out : Answered(f) /\ f.req.what = "text"

Spend(b) == spent' = [spent EXCEPT ![b] = @ + 1]
Note(field, S) == seen' = [seen EXCEPT ![field] = @ \cup S]

\* The server holds what the request says.
Fulfils(ans, r) == IF r.what = "text" \/ r.typing # NoTyping
                   THEN ans.st \in {"ok", "stale"} /\ ans.body = r.words
                   ELSE ans.st = "ok"

\* The server takes the request of a flight.
Serve(f) ==
    /\ online /\ ~Answered(f)
    /\ notes' = Handle(f.req).notes
    /\ Swap(f, IF f.stage = "adrift" THEN {} ELSE {[f EXCEPT !.ans = Handle(f.req).ans]})
    /\ seen' = [seen EXCEPT !.applied = @ \cup {o \in {f.op} : Fulfils(Handle(f.req).ans, f.req)},
                            !.late = @ \/ f.stage = "adrift"]
    /\ UNCHANGED <<intent, box, tab, holder, minted, base, online, spent>>

\* A server error: nothing is written.
Fail(f) ==
    /\ online /\ ~Answered(f) /\ f.stage # "adrift" /\ spent.faults < MaxFaults
    /\ Swap(f, {[f EXCEPT !.ans = Said("busy")]})
    /\ Spend("faults")
    /\ UNCHANGED <<intent, box, tab, holder, minted, notes, base, online, seen>>

\* Requests and answers are lost at the cost of a fault, or because there is no connection.
MayLose == ~online \/ spent.faults < MaxFaults
Losing == IF online THEN Spend("faults") ELSE UNCHANGED spent

-----------------------------------------------------------------------------
(* sendNoteOp *)

\* The ids the device's pages know: note 1 and the notes made offline, by either id.
Targets == {1} \cup {p[2] : p \in ids}
               \cup {-i : i \in {j \in Intents : intent[j].k = "create" /\ j \in seen.queued}}

Acts(t) ==
    [k : Kinds \cap {"create"}, note : {0}, words : {0}, rev : {NoRev}]
    \cup [k : Kinds \cap {"edit"}, note : Targets, words : {0}, rev : {NoRev}]
    \cup [k : Kinds \cap {"text"}, note : {1}, words : {Len(intent) + 1, Cleared}, rev : {base[t]}]
    \cup [k : Kinds \cap {"text"}, note : {n \in Targets : n < 0}, words : {Len(intent) + 1},
          rev : {NoRev}]

\* Faulty: what waits is not asked.
MustQueueOffline(t, a) == a.note < 0 \/ ~online

\* An act waits behind what is queued, behind a create it depends on, for a connection.
MustQueue(t, a) == tab[t].pending \/ a.note < 0 \/ ~online

\* An open page that does not know what other pages have queued since it last looked.
Unaware(t) == tab[t].stage = "open" /\ ~tab[t].pending

\* Nothing keeps the user from acting while an earlier act is still out.
Overlapping == [seen EXCEPT !.overlapped = @ \/ \E f \in flights : f.stage = "inline"]

Act(t, a) ==
    LET i == Len(intent) + 1
        its == Append(intent, a)
    IN  /\ tab[t].stage = "open"          \* it waits for the record to be loaded
        /\ spent.acts < MaxActs
        /\ Spend("acts")
        /\ intent' = its
        /\ \/ /\ MustQueue(t, a)
              /\ queue' = Enqueue(its, queue, i)
              /\ Sees(t, queue')
              /\ seen' = [Overlapping EXCEPT !.queued = @ \cup {i}]
              /\ UNCHANGED flights
           \/ /\ ~MustQueue(t, a)
              /\ flights' = flights \cup
                    {[tab |-> t, op |-> i, stage |-> "inline", ans |-> NoAnswer, key |-> KeyOf(i),
                      sent |-> {}, req |-> [what |-> a.k, note |-> a.note, words |-> a.words,
                                            rev |-> a.rev, key |-> KeyOf(i), op |-> i,
                                            typing |-> NoTyping]]}
              /\ seen' = [Overlapping EXCEPT !.overtook = @ \/ (queue # <<>> /\ Unaware(t))]
              /\ UNCHANGED <<queue, tab>>
        /\ UNCHANGED <<ids, dead, revs, copies, tries, holder, minted, notes, base, online>>

\* The page saw a content write of its own land: it watches all of them.
Watched(f) == IF f.req.what = "text" /\ f.ans.st = "ok"
              THEN {<<f.req.note, f.ans.rev - 1, f.ans.rev>>} ELSE {}

InlineDone(f) ==
    /\ f.stage = "inline" /\ f.ans.st = "ok"
    /\ Swap(f, {})
    /\ tab' = [tab EXCEPT ![f.tab].live = @ \cup Watched(f)]
    /\ base' = IF f.req.what = "text" /\ f.req.note = 1 THEN [base EXCEPT ![f.tab] = f.ans.rev] ELSE base
    /\ Note("direct", Watched(f))
    /\ UNCHANGED <<intent, box, holder, minted, notes, online, spent>>

\* Refused: the caller rolls back and says so; a stale text is the editor's to show.
InlineRefused(f) ==
    /\ f.stage = "inline" /\ f.ans.st \in {"refused", "gone", "stale", "busy"}
    /\ Swap(f, {})
    /\ base' = IF f.ans.st = "stale" /\ f.req.note = 1 THEN [base EXCEPT ![f.tab] = f.ans.rev] ELSE base
    /\ Note("told", {f.op})
    /\ UNCHANGED <<intent, box, tab, holder, minted, notes, online, spent>>

\* Faulty: the page shows the change, and forgets it.
InlineForgotten(f) ==
    /\ f.stage = "inline" /\ MayLose
    /\ Losing
    /\ GiveUp({f})
    /\ UNCHANGED <<intent, box, tab, holder, minted, notes, base, online, seen>>

\* No answer came: the op is kept.
InlineLost(f) ==
    /\ f.stage = "inline" /\ MayLose
    /\ Losing
    /\ GiveUp({f})
    /\ queue' = Enqueue(intent, queue, f.op)
    /\ Sees(f.tab, queue')
    /\ seen' = [seen EXCEPT !.queued = @ \cup {f.op}, !.ousted = @ \cup Ousted(f.op),
                            !.unheard = @ \/ Unheard({f})]
    /\ UNCHANGED <<intent, ids, dead, revs, copies, tries, holder, minted, notes, base, online>>

-----------------------------------------------------------------------------
(* replay *)

\* Faulty: another page's replay is not waited for.
StartReplayUnlocked(t) ==
    /\ tab[t].stage = "open" /\ online
    /\ tab[t].pending \/ tab[t].fresh
    /\ holder' = t
    /\ tab' = [tab EXCEPT ![t].fresh = FALSE]
    /\ UNCHANGED <<intent, box, flights, minted, notes, base, online, spent, seen>>

\* Faulty: only a page that has just loaded the record tries.
StartReplayOnLoad(t) == tab[t].fresh /\ holder = NoTab /\ StartReplayUnlocked(t)

\* A timer, a return of the connection, a focus or a fetch starts a replay when this page
\* believes something waits; a page that has just loaded the record always tries.
StartReplay(t) ==
    /\ tab[t].stage = "open" /\ online
    /\ tab[t].pending \/ tab[t].fresh
    /\ holder = NoTab
    /\ holder' = t
    /\ tab' = [tab EXCEPT ![t].fresh = FALSE]
    /\ UNCHANGED <<intent, box, flights, minted, notes, base, online, spent, seen>>

AtHead(t) == holder = t /\ Replays = {}

ReplayEmpty(t) ==
    /\ AtHead(t) /\ queue = <<>>
    /\ holder' = NoTab
    /\ Sees(t, queue)
    /\ UNCHANGED <<intent, box, flights, minted, notes, base, online, spent, seen>>

\* Drop an op for good, and with a create everything that names what it would have made.
Drop(t, i) ==
    /\ queue' = Without(queue, i)
    /\ dead' = IF intent[i].k = "create" THEN dead \cup {i} ELSE dead
    /\ Sees(t, queue')
    /\ Note("told", {i})

Doomed(i) == ~Resolvable(i) \/ -intent[i].note \in dead

ReplayDoomed(t) ==
    /\ AtHead(t) /\ queue # <<>> /\ Doomed(Head(queue))
    /\ Drop(t, Head(queue))
    /\ UNCHANGED <<intent, ids, revs, copies, tries, holder, flights, minted, notes, base,
                   online, spent>>

\* A save was sent at once by another page, or by this one before a reload: neither this page
\* nor the record knows that the device made it.
Unknown(t) == ~(seen.direct \subseteq revs \cup tab[t].live)

\* Faulty: text is replayed as a rename is, without its revision.
ReplayHeadUnchecked(t) ==
    /\ AtHead(t) /\ queue # <<>> /\ ~Doomed(Head(queue))
    /\ LET i == Head(queue)
       IN  flights' = flights \cup {Flight(t, i, "op", Request(i, RealNote(i), NoRev))}
    /\ Sees(t, queue)
    /\ UNCHANGED <<intent, box, holder, minted, notes, base, online, spent, seen>>

ReplayHead(t) ==
    /\ AtHead(t) /\ queue # <<>> /\ ~Doomed(Head(queue))
    /\ LET i == Head(queue)
           rev == IF HasTyping(i)
                  THEN RebaseOnOwnRevs(revs \cup tab[t].live, RealNote(i), intent[i].rev)
                  ELSE intent[i].rev
       IN  flights' = flights \cup {Flight(t, i, "op", Request(i, RealNote(i), rev))}
    /\ Sees(t, queue)
    /\ seen' = [seen EXCEPT !.elsewhere = @ \/ Unknown(t)]
    /\ UNCHANGED <<intent, box, holder, minted, notes, base, online, spent>>

\* The op is done: it leaves the record by its id, with what it made and wrote.
Land(f, cs) ==
    /\ Swap(f, {})
    /\ queue' = Without(queue, f.op)
    /\ ids' = IF intent[f.op].k = "create" THEN ids \cup {<<f.op, f.ans.note>>} ELSE ids
    /\ revs' = revs \cup Watched(f)
    /\ copies' = cs
    /\ tab' = [tab EXCEPT ![f.tab].pending = (queue' # <<>>), ![f.tab].live = @ \cup Watched(f)]
    /\ UNCHANGED <<intent, dead, tries, holder, minted, notes, base, online, spent, seen>>

ReplayLanded(f) == f.stage = "op" /\ f.ans.st = "ok" /\ Land(f, copies)

\* keepOfflineText: the text lost to another one.
AlreadyThere(f) == f.stage = "op" /\ f.ans.st = "stale" /\ f.ans.body = f.req.words
                   /\ Land(f, copies)

KeepText(f) ==
    /\ f.stage = "op" /\ f.ans.st = "stale" /\ f.req.words \notin {f.ans.body, Cleared}
    /\ Swap(f, {[f EXCEPT !.stage = "copy", !.req = CopyRequest(f.op, f.key), !.ans = NoAnswer]})
    /\ UNCHANGED <<intent, box, tab, holder, minted, notes, base, online, spent, seen>>

CopyMade(f) ==
    /\ f.stage \in {"copy", "fresh"} /\ f.ans.st = "ok" /\ f.ans.body = intent[f.op].words
    /\ Land(f, RecordCopy(f.op, f.key))

\* The key had made a copy that holds earlier words of this typing: bring it up to date.
HoldsEarlierWords(f) == f.ans.st = "ok" /\ f.ans.body # intent[f.op].words
                        /\ f.ans.body \in f.sent

UpdateCopy(f) ==
    /\ f.stage = "copy" /\ HoldsEarlierWords(f)
    /\ Swap(f, {[f EXCEPT !.stage = "update", !.ans = NoAnswer,
                          !.req = Request(f.op, f.ans.note, f.ans.rev)]})
    /\ UNCHANGED <<intent, box, tab, holder, minted, notes, base, online, spent, seen>>

CopyUpdated(f) ==
    /\ f.stage = "update" /\ f.ans.st = "ok"
    /\ Land(f, RecordCopy(f.op, f.key))

\* The copy is gone, or somebody else changed it: a fresh one, whose key is recorded first.
CopyTaken(f) ==
    \/ f.stage = "copy" /\ f.ans.st = "gone"
    \/ f.stage = "copy" /\ f.ans.st = "ok" /\ f.ans.body \notin {intent[f.op].words} \cup f.sent
    \/ f.stage = "update" /\ f.ans.st \in {"stale", "refused"}

\* Faulty: the fresh key is sent and not written down.
FreshCopyUnrecorded(f) ==
    LET key == <<f.op, minted + 1>> IN
    /\ CopyTaken(f)
    /\ minted' = minted + 1
    /\ Swap(f, {[f EXCEPT !.stage = "fresh", !.req = CopyRequest(f.op, key), !.ans = NoAnswer]})
    /\ UNCHANGED <<intent, box, tab, holder, notes, base, online, spent, seen>>

FreshCopy(f) ==
    LET key == <<f.op, minted + 1>> IN
    /\ CopyTaken(f)
    /\ minted' = minted + 1
    /\ copies' = RecordCopy(f.op, key)
    /\ Swap(f, {[f EXCEPT !.stage = "fresh", !.key = key, !.req = CopyRequest(f.op, key),
                          !.ans = NoAnswer]})
    /\ Sees(f.tab, queue)
    /\ UNCHANGED <<intent, queue, ids, dead, revs, tries, holder, notes, base, online, spent, seen>>

\* No answer: the replay stops and is tried again.  Words that may have gone out are recorded.
ReplayLost(f) ==
    /\ f \in Replays /\ MayLose
    /\ Losing
    /\ GiveUp({f})
    /\ copies' = RecordCopy(f.op, f.key)
    /\ holder' = NoTab
    /\ seen' = [seen EXCEPT !.unheard = @ \/ Unheard({f})]
    /\ UNCHANGED <<intent, queue, ids, dead, revs, tries, tab, minted, notes, base, online>>

\* A server error is retried a few times.
ReplayBusy(f) ==
    /\ f \in Replays /\ f.ans.st = "busy"
    /\ tries[f.op] < MaxAttempts
    /\ tries' = [tries EXCEPT ![f.op] = @ + 1]
    /\ copies' = RecordCopy(f.op, f.key)
    /\ Swap(f, {})
    /\ holder' = NoTab
    /\ UNCHANGED <<intent, queue, ids, dead, revs, tab, minted, notes, base, online, spent, seen>>

\* Anything else will never succeed as written.
ReplayRefused(f) ==
    /\ f \in Replays
    /\ \/ f.stage = "op" /\ f.ans.st \in {"refused", "gone"}
       \/ f.stage = "op" /\ f.ans.st = "stale" /\ f.req.words = Cleared /\ f.ans.body # Cleared
       \/ f.ans.st = "busy" /\ tries[f.op] >= MaxAttempts
    /\ Swap(f, {})
    /\ Drop(f.tab, f.op)
    /\ copies' = IF f.ans.st = "busy" THEN RecordCopy(f.op, f.key) ELSE copies
    /\ UNCHANGED <<intent, ids, revs, tries, holder, minted, notes, base, online, spent>>

-----------------------------------------------------------------------------
(* Pages, the network, the other device *)

\* It shows what the device's cache holds: what some page last showed, or showed before that,
\* for the cache is written with a delay.
Open(t) ==
    /\ tab[t].stage = "closed"
    /\ \E u \in Tabs : \E r \in 0 .. base[u] : base' = [base EXCEPT ![t] = r]
    /\ tab' = [tab EXCEPT ![t] = [stage |-> "loading", pending |-> FALSE, fresh |-> FALSE, live |-> {}]]
    /\ UNCHANGED <<intent, box, holder, flights, minted, notes, online, spent, seen>>

Load(t) ==
    /\ tab[t].stage = "loading"
    /\ tab' = [tab EXCEPT ![t].stage = "open", ![t].pending = (queue # <<>>), ![t].fresh = TRUE]
    /\ UNCHANGED <<intent, box, holder, flights, minted, notes, base, online, spent, seen>>

\* A page closes or crashes: its requests are cut off and its locks are free.
Close(t) ==
    LET out == {f \in flights : f.tab = t /\ f.stage # "adrift"} IN
    /\ tab[t].stage # "closed" /\ spent.closes < MaxCloses
    /\ Spend("closes")
    /\ tab' = [tab EXCEPT ![t] = [stage |-> "closed", pending |-> FALSE, fresh |-> FALSE, live |-> {}]]
    /\ GiveUp(out)
    /\ holder' = IF holder = t THEN NoTab ELSE holder
    /\ seen' = [seen EXCEPT !.abandoned = @ \cup {f.op : f \in out \ Replays},
                            !.torn = @ \/ \E f \in out : f.stage \in {"copy", "update"},
                            !.unheard = @ \/ Unheard(out)]
    /\ UNCHANGED <<intent, box, minted, notes, base, online>>

\* A page reads the listing again.
Refetch(t) ==
    /\ tab[t].stage # "closed" /\ online /\ base[t] # notes[1].rev /\ ~notes[1].gone
    /\ base' = [base EXCEPT ![t] = notes[1].rev]
    /\ UNCHANGED <<intent, box, tab, holder, flights, minted, notes, online, spent, seen>>

Disconnect ==
    /\ online /\ spent.outages < MaxOutages
    /\ online' = FALSE
    /\ Spend("outages")
    /\ UNCHANGED <<intent, box, tab, holder, flights, minted, notes, base, seen>>

Reconnect ==
    /\ ~online
    /\ online' = TRUE
    /\ UNCHANGED <<intent, box, tab, holder, flights, minted, notes, base, spent, seen>>

\* Another device writes a note's text, or deletes a note for good.
Foreign(n) ==
    /\ spent.foreign < MaxForeign
    /\ ~notes[n].gone
    /\ \/ notes' = [notes EXCEPT ![n].body = -(spent.foreign + 1), ![n].rev = @ + 1,
                                 ![n].theirs = TRUE]
       \/ notes' = [notes EXCEPT ![n].gone = TRUE, ![n].theirs = TRUE]
    /\ Spend("foreign")
    /\ UNCHANGED <<intent, box, tab, holder, flights, minted, base, online, seen>>

\* The server's sweep forgets the oldest of the keys it still knows.  The note stays.
ForgetKey(n) ==
    /\ spent.forgets < MaxForgets
    /\ notes[n].known /\ \A m \in 1 .. n - 1 : ~notes[m].known
    /\ notes' = [notes EXCEPT ![n].known = FALSE]
    /\ Spend("forgets")
    /\ UNCHANGED <<intent, box, tab, holder, flights, minted, base, online, seen>>

-----------------------------------------------------------------------------
Init ==
    /\ intent = <<>> /\ queue = <<>>
    /\ ids = {} /\ dead = {} /\ revs = {} /\ copies = {}
    /\ tries = [i \in 1 .. MaxActs |-> 0]
    /\ tab = [t \in Tabs |-> [stage |-> "closed", pending |-> FALSE, fresh |-> FALSE, live |-> {}]]
    /\ holder = NoTab /\ flights = {} /\ minted = 0
    /\ notes = <<[body |-> Original, rev |-> 0, label |-> 0, key |-> <<0, 0>>, by |-> 0,
                  typing |-> NoTyping, gone |-> FALSE, theirs |-> FALSE, known |-> FALSE]>>
    /\ base = [t \in Tabs |-> 0] /\ online = TRUE
    /\ spent = [acts |-> 0, faults |-> 0, outages |-> 0, closes |-> 0, foreign |-> 0, forgets |-> 0]
    /\ seen = [told |-> {}, abandoned |-> {}, applied |-> {}, queued |-> {}, ousted |-> {},
               overtook |-> FALSE, overlapped |-> FALSE, late |-> FALSE,
               torn |-> FALSE, unheard |-> FALSE, direct |-> {}, elsewhere |-> FALSE]

\* What follows from an answer, or from its absence.
Settle(f) ==
    \/ InlineDone(f) \/ InlineRefused(f)
    \/ ReplayLanded(f) \/ AlreadyThere(f) \/ KeepText(f) \/ CopyMade(f) \/ UpdateCopy(f)
    \/ CopyUpdated(f) \/ FreshCopy(f) \/ ReplayBusy(f) \/ ReplayRefused(f)

Replay(t) == StartReplay(t) \/ ReplayEmpty(t) \/ ReplayDoomed(t) \/ ReplayHead(t)

Next ==
    \/ \E t \in Tabs :
          Open(t) \/ Load(t) \/ Close(t) \/ Replay(t) \/ Refetch(t) \/ \E a \in Acts(t) : Act(t, a)
    \/ \E f \in flights : Serve(f) \/ Fail(f) \/ InlineLost(f) \/ ReplayLost(f) \/ Settle(f)
    \/ Disconnect \/ Reconnect
    \/ \E n \in DOMAIN notes : Foreign(n) \/ ForgetKey(n)

\* The code goes on wherever it stands, a server answers, and a connection comes back.
Fairness ==
    /\ \A t \in Tabs : WF_vars(Load(t)) /\ WF_vars(Replay(t))
    /\ WF_vars(\E f \in flights : Settle(f))
    /\ WF_vars(\E f \in flights : Serve(f))
    /\ WF_vars(Reconnect)

Spec == Init /\ [][Next]_vars /\ Fairness

-----------------------------------------------------------------------------
(* Properties *)

Revs == {NoRev} \cup Nat
Intent == [k : Kinds, note : Int, words : Nat, rev : Revs]
Answer == [st : {"none", "ok", "gone", "refused", "stale", "busy"}, note : Nat, body : Int, rev : Nat]

\* Every variable has its shape, the queue holds an intent once, and only its holder replays,
\* one request at a time.
TypeOK ==
    /\ intent \in Seq(Intent)
    /\ queue \in Seq(Intents) /\ \A p, q \in DOMAIN queue : queue[p] = queue[q] => p = q
    /\ ids \subseteq Intents \X (DOMAIN notes) /\ dead \subseteq Intents
    /\ revs \subseteq (DOMAIN notes) \X Nat \X Nat
    /\ DOMAIN tries = 1 .. MaxActs /\ \A i \in DOMAIN tries : tries[i] \in 0 .. MaxAttempts
    /\ \A t \in Tabs : tab[t].stage \in {"closed", "loading", "open"}
    /\ holder \in Tabs \cup {NoTab}
    /\ \A f \in flights : f.ans \in Answer /\ f.op \in Intents
    /\ Cardinality(Replays) <= 1 /\ \A f \in Replays : f.tab = holder
    /\ base \in [Tabs -> 0 .. notes[1].rev]

\* Text i of a note gave way to newer text of it, which took its place in the queue.
Superseded(i) ==
    \E j \in seen.queued :
        j > i /\ IsText(i) /\ IsText(j) /\ intent[j].note = intent[i].note

\* On the server, or waiting, or out, or the user was told that it failed, or the page that
\* had it out was closed.
Accounted(i) ==
    \/ i \in seen.applied \cup seen.told \cup seen.abandoned
    \/ \E p \in DOMAIN queue : queue[p] = i
    \/ \E f \in flights : f.stage = "inline" /\ f.op = i

\* Nothing the user did is lost in silence, whatever takes whose place in the queue, but for
\* this: of two saves that were out at once, the older one's failure is noticed last, and it
\* takes the place of the newer words that wait.  Those are lost and nobody is told.
NothingLost ==
    /\ \A i \in Intents : Accounted(i) \/ Superseded(i) \/ i \in seen.ousted
    /\ seen.ousted # {} => seen.overlapped

\* A create that is sent again, by this page or another one, makes no second note while the
\* server remembers its key: of two notes made by one create, the key of one is forgotten.
\* And between the pages no create is lost.
CreatedOnce ==
    /\ \A m, n \in DOMAIN notes :
          notes[m].typing = NoTyping /\ notes[n].typing = NoTyping
          /\ notes[m].by = notes[n].by /\ notes[m].known /\ notes[n].known => m = n
    /\ \A i \in Intents : intent[i].k = "create" => Accounted(i)

\* Text of another device gives way only to words typed by someone who had seen it.
TheirTextStands ==
    [][\A n \in DOMAIN notes : notes[n].body < 0 /\ notes'[n].body # notes[n].body =>
        \/ notes'[n].body < 0
        \/ \E f \in flights : /\ f \notin flights' /\ f.req.note = n /\ f.stage # "update"
                              /\ intent[f.op].rev = NoRev \/ intent[f.op].rev >= notes[n].rev]_vars

EditsOf(n) == {i \in seen.applied : intent[i].k = "edit" /\ Resolvable(i) /\ RealNote(i) = n}

\* When all is sent, an item shows the newest of the changes the user made to it and that
\* went through, if changes were sent one after another and no other page had some waiting.
LastEditStands ==
    queue = <<>> /\ flights = {} /\ ~seen.overtook /\ ~seen.overlapped /\ ~seen.late =>
        \A n \in DOMAIN notes : \A i \in EditsOf(n) : i <= notes[n].label

\* What an open page knows to be waiting is sent, or dropped and told, or the page closes.
QueueDrains ==
    \A t \in Tabs : (tab[t].stage = "open" /\ tab[t].pending) ~> (queue = <<>> \/ tab[t].stage # "open")

\* The server has forgotten the key that made a copy.
CopyForgotten == \E n \in DOMAIN notes : notes[n].typing # NoTyping /\ ~notes[n].known

\* The device's own changes do not count as another device's, whatever was queued by whichever
\* page and however many: words become an offline copy only when another device has written the
\* note, or an answer about this device's own text was lost, or two saves of it were out at
\* once, or another page, or this one before a reload, sent a save at once, past the queue or
\* unknown to the page that replays.  And everything typed on one revision goes into one copy, unless
\* somebody else wrote that copy, the server forgot the key of a copy, a page closed with the
\* copy's create or update out, or a request arrived after its page had given it up and asked
\* again.
CopyOnlyForOthers ==
    /\ \A n \in DOMAIN notes : notes[n].typing # NoTyping =>
          \/ notes[notes[n].typing[1]].theirs
          \/ seen.unheard \/ seen.late \/ seen.overlapped \/ seen.overtook \/ seen.elsewhere
    /\ \A n, k \in DOMAIN notes : notes[n].typing # NoTyping /\ notes[k].typing = notes[n].typing =>
          \/ n = k \/ seen.torn \/ seen.late \/ CopyForgotten
          \/ notes[n].theirs \/ notes[k].theirs
=============================================================================
