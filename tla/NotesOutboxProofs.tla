------------------------- MODULE NotesOutboxProofs -------------------------
(* Proofs about NotesOutbox, for every number of pages, of things the user   *)
(* does, of faults and of writes of another device.                          *)
EXTENDS NotesOutbox, SequenceTheorems, FiniteSetTheorems, TLAPS

-----------------------------------------------------------------------------
(* The shapes of what TypeOK leaves open.                                    *)

Keys == Nat \X Nat
Typings == Nat \X Int
Stages == {"inline", "op", "copy", "update", "fresh", "adrift"}
Requests == [what : {"create", "edit", "text"}, note : Nat, words : Nat, rev : Int,
             key : Keys, op : Nat, typing : Typings]
Flights == [tab : Tabs, op : Nat, stage : Stages, req : Requests, ans : Answer,
            key : Keys, sent : SUBSET Nat]
NoteRecords == [body : Int, rev : Nat, label : Nat, key : Keys, by : Nat, typing : Typings,
                gone : BOOLEAN, theirs : BOOLEAN, known : BOOLEAN]
Pages == [stage : {"closed", "loading", "open"}, pending : BOOLEAN, fresh : BOOLEAN,
          live : SUBSET (Nat \X Nat \X Nat)]
Spendings == [acts : Nat, faults : Nat, outages : Nat, closes : Nat, foreign : Nat, forgets : Nat]
Histories == [told : SUBSET Nat, abandoned : SUBSET Nat, applied : SUBSET Nat,
              queued : SUBSET Nat, ousted : SUBSET Nat, overtook : BOOLEAN, overlapped : BOOLEAN,
              late : BOOLEAN, torn : BOOLEAN, unheard : BOOLEAN,
              direct : SUBSET (Nat \X Nat \X Nat), elsewhere : BOOLEAN]

Shape ==
    /\ tab \in [Tabs -> Pages] /\ flights \subseteq Flights
    /\ notes \in Seq(NoteRecords) /\ Len(notes) >= 1
    /\ minted \in Nat /\ base \in [Tabs -> Nat]
    /\ copies \subseteq [at : Typings, key : Keys, sent : SUBSET Nat]
    /\ spent \in Spendings
    /\ seen \in Histories

-----------------------------------------------------------------------------
(* The parts of the invariant.                                               *)

\* Text that names a revision was typed on note 1, at a revision it has had.
IntentOK ==
    \A i \in Intents :
        /\ intent[i].k = "create" => intent[i].note = 0
        /\ intent[i].k # "create" /\ intent[i].note >= 0 => intent[i].note \in DOMAIN notes
        /\ intent[i].rev # NoRev => IsText(i) /\ intent[i].note = 1 /\ intent[i].rev <= notes[1].rev

\* A key that the server knows made one note; what a temporary id became is a note of its key.
KeysOK ==
    /\ \A m, n \in DOMAIN notes :
          notes[m].key = notes[n].key /\ notes[m].known /\ notes[n].known => m = n
    /\ \A n \in DOMAIN notes : notes[n].typing = NoTyping => notes[n].key = KeyOf(notes[n].by)
    /\ \A p \in ids : notes[p[2]].key = KeyOf(p[1])

\* Revision r of note n is past, or holds this device's words.
Ours(n, r) == r <= notes[n].rev /\ (r = notes[n].rev => notes[n].body >= 0)

\* The writes this device knows for its own.
Own == revs \cup UNION {tab[t].live : t \in Tabs}
OwnOK == \A w \in Own : w[1] \in DOMAIN notes /\ Ours(w[1], w[3])

\* A request says what its intent says, of the note the intent means.
RequestOK(f) ==
    /\ f.op \in Intents /\ f.req.op = f.op /\ f.req.words = intent[f.op].words
    /\ f.req.what # "create" => f.req.note \in DOMAIN notes
    /\ f.req.typing = NoTyping => f.req.key = KeyOf(f.op)
    /\ f.req.what = "text" => IsText(f.op)
    /\ f.req.what = "edit" <=> intent[f.op].k = "edit"
    /\ f.req.what = "edit" => Resolvable(f.op) /\ f.req.note = RealNote(f.op)
    /\ f.stage \in {"inline", "op"} => f.req.what = intent[f.op].k /\ f.req.typing = NoTyping
    /\ f.stage \in {"copy", "fresh"} => f.req.what = "create"
    /\ f.stage = "update" => f.req.what = "text"
    /\ f.stage \in {"copy", "fresh", "update"} => IsText(f.op) /\ intent[f.op].rev # NoRev
    /\ f.stage = "op" /\ f.req.rev # NoRev => intent[f.op].rev # NoRev
    /\ f.stage = "adrift" => ~Answered(f)

\* An answer was true when it was given, and stays so of the revision it names.
AnswerOK(f) ==
    /\ f.ans.st \in {"ok", "stale"} =>
         /\ f.ans.note \in DOMAIN notes /\ f.ans.rev <= notes[f.ans.note].rev
         /\ f.ans.rev = notes[f.ans.note].rev => notes[f.ans.note].body = f.ans.body
         /\ f.req.what # "create" => f.ans.note = f.req.note
    /\ f.ans.st = "ok" /\ f.req.what = "create" => notes[f.ans.note].key = f.req.key
    /\ f.ans.st = "ok" /\ f.req.what = "text" => f.ans.body = f.req.words /\ f.ans.rev >= 1
    /\ f.ans.st = "stale" => f.req.what = "text" /\ f.req.rev # NoRev
    /\ Fulfils(f.ans, f.req) => f.op \in seen.applied

\* A text on its way names the revision it was typed on, or one that is past or
\* holds this device's words.
TextOK(f) ==
    f.req.what = "text" /\ ~Answered(f) =>
        \/ f.stage # "update" /\ f.req.rev = intent[f.op].rev
        \/ f.req.rev \in Nat /\ Ours(f.req.note, f.req.rev)

FlightsOK == \A f \in flights : RequestOK(f) /\ AnswerOK(f) /\ TextOK(f)

InQueue(i) == \E p \in DOMAIN queue : queue[p] = i

\* A temporary id becomes one note: its create is replayed while it waits, and leaves the
\* queue when its note is known.
MadeOK ==
    /\ \A p, q \in ids : p[1] = q[1] => p = q
    /\ \A p \in ids : ~InQueue(p[1]) /\ \A f \in flights : f.stage = "inline" => f.op # p[1]
    /\ \A f \in Replays : intent[f.op].k = "create" => InQueue(f.op)

\* What is sent at once is nowhere else, and nothing was done after it unnoticed.
InlineOK ==
    \A f \in flights : f.stage = "inline" =>
        /\ ~InQueue(f.op)
        /\ \A g \in flights : g.stage = "inline" /\ g.op = f.op => g = f
        /\ \A j \in Intents : j > f.op => seen.overlapped

\* One replay at a time, and it has something to replay.
ReplaysOK ==
    /\ \A f, g \in Replays : f = g
    /\ Replays # {} => queue # <<>>

IsEdit(i) == intent[i].k = "edit"

\* What was applied or queued were things the user did, of notes that exist.
AppliedOK ==
    /\ seen.applied \subseteq Intents /\ seen.queued \subseteq Intents
    /\ \A i \in seen.applied : IsEdit(i) => Resolvable(i) /\ RealNote(i) \in DOMAIN notes
    /\ \A i \in seen.ousted : i \in Intents /\ IsText(i)

\* Changes wait in the order they were made, none behind one that is already applied.
Orderly == ~seen.overtook /\ ~seen.overlapped /\ ~seen.late
OrderOK ==
    Orderly =>
        /\ \A p, q \in DOMAIN queue : IsEdit(queue[p]) /\ IsEdit(queue[q]) /\ p < q => queue[p] < queue[q]
        /\ \A i \in seen.applied, p \in DOMAIN queue : IsEdit(i) /\ IsEdit(queue[p]) => i <= queue[p]
        /\ \A f \in flights : f.stage = "inline" =>
              queue = <<>> /\ f.op = Len(intent) /\ \A g \in flights : g.stage = "inline" => g = f
        /\ \A f \in Replays : IsEdit(f.op) => queue[1] = f.op
        /\ \A i \in seen.applied : IsEdit(i) => i <= notes[RealNote(i)].label

IInv ==
    /\ TypeOK /\ Shape /\ IntentOK /\ KeysOK /\ MadeOK /\ OwnOK /\ FlightsOK
    /\ NothingLost /\ InlineOK /\ ReplaysOK /\ AppliedOK /\ OrderOK

-----------------------------------------------------------------------------
(* Records.                                                                  *)

(* A flight that changes its answer, or its stage.                           *)
LEMMA NewAnswer ==
    ASSUME NEW f \in Flights, NEW a \in Answer
    PROVE  LET g == [f EXCEPT !.ans = a]
           IN  /\ g \in Flights /\ g.ans = a
               /\ g.tab = f.tab /\ g.op = f.op /\ g.stage = f.stage /\ g.req = f.req
               /\ g.key = f.key /\ g.sent = f.sent
BY DEF Flights

LEMMA NewStage ==
    ASSUME NEW f \in Flights, NEW s \in Stages
    PROVE  LET g == [f EXCEPT !.stage = s]
           IN  /\ g \in Flights /\ g.stage = s
               /\ g.tab = f.tab /\ g.op = f.op /\ g.ans = f.ans /\ g.req = f.req
               /\ g.key = f.key /\ g.sent = f.sent
BY DEF Flights

LEMMA NewFlight ==
    ASSUME NEW t \in Tabs, NEW i \in Nat, NEW s \in Stages, NEW r \in Requests, NEW a \in Answer,
           NEW k \in Keys, NEW S \in SUBSET Nat
    PROVE  LET g == [tab |-> t, op |-> i, stage |-> s, req |-> r, ans |-> a, key |-> k, sent |-> S]
           IN  g \in Flights /\ g.stage = s /\ g.op = i /\ g.tab = t /\ g.req = r /\ g.ans = a
BY DEF Flights

(* Where sequences end, and what is in them.                                 *)
LEMMA Basics ==
    ASSUME TypeOK, Shape
    PROVE  /\ Len(notes) \in Nat /\ DOMAIN notes = 1 .. Len(notes) /\ 1 \in DOMAIN notes
           /\ \A n \in DOMAIN notes : notes[n] \in NoteRecords
           /\ Len(intent) \in Nat /\ DOMAIN intent = Intents
           /\ \A i \in Intents : intent[i] \in Intent /\ i \in Nat
           /\ Len(queue) \in Nat /\ DOMAIN queue = 1 .. Len(queue)
           /\ \A p \in DOMAIN queue : queue[p] \in Intents
           /\ queue # <<>> => 1 \in DOMAIN queue /\ Head(queue) = queue[1]
<1>1. Len(notes) \in Nat /\ DOMAIN notes = 1 .. Len(notes) /\ \A n \in DOMAIN notes : notes[n] \in NoteRecords
  BY ElementOfSeq, LenProperties DEF Shape
<1>2. 1 \in DOMAIN notes
  BY <1>1 DEF Shape
<1>3. Len(intent) \in Nat /\ DOMAIN intent = Intents /\ \A i \in Intents : intent[i] \in Intent /\ i \in Nat
  BY ElementOfSeq, LenProperties DEF TypeOK, Intents
<1>4. Len(queue) \in Nat /\ DOMAIN queue = 1 .. Len(queue) /\ \A p \in DOMAIN queue : queue[p] \in Intents
  BY ElementOfSeq, LenProperties DEF TypeOK
<1>5. queue # <<>> => 1 \in DOMAIN queue /\ Head(queue) = queue[1]
  BY <1>4, EmptySeq DEF TypeOK
<1> QED BY <1>1, <1>2, <1>3, <1>4, <1>5

-----------------------------------------------------------------------------
(* The server.                                                               *)

\* The ways a request is handled: refused, told of another text, told of the note
\* its key has made, a new note, a change of a note.
Refusal(r, h) == h.notes = notes /\ \E s \in {"gone", "refused"} : h.ans = Said(s)
Conflict(r, h) ==
    /\ h.notes = notes /\ h.ans = Shows("stale", r.note, notes[r.note])
    /\ r.what = "text" /\ r.rev # NoRev
Repeat(r, h) ==
    /\ h.notes = notes /\ r.what = "create"
    /\ \E n \in DOMAIN notes :
          notes[n].key = r.key /\ notes[n].known /\ h.ans = Shows("ok", n, notes[n])
Insertion(r, h) ==
    /\ r.what = "create" /\ \A n \in DOMAIN notes : notes[n].known => notes[n].key # r.key
    /\ h.notes = Append(notes, NewNote(r)) /\ h.ans = Shows("ok", Len(notes) + 1, NewNote(r))
Change(r, h) ==
    /\ r.what # "create"
    /\ r.what = "text" => r.rev \in {NoRev, notes[r.note].rev}
    /\ h.notes = [notes EXCEPT ![r.note] = Written(notes[r.note], r)]
    /\ h.ans = Shows("ok", r.note, Written(notes[r.note], r))

(* There is no other way.                                                    *)
LEMMA Handling ==
    ASSUME NEW r \in Requests
    PROVE  LET h == Handle(r)
           IN  Refusal(r, h) \/ Conflict(r, h) \/ Repeat(r, h) \/ Insertion(r, h) \/ Change(r, h)
<1> DEFINE h == Handle(r)
<1>1. CASE r.what = "create"
  <2>1. CASE Claimed(r.key) = {}
    BY <1>1, <2>1 DEF Handle, CreateNote, Claimed, Insertion
  <2>2. CASE Claimed(r.key) # {}
    <3> DEFINE n == CHOOSE c \in Claimed(r.key) : TRUE
    <3>1. n \in DOMAIN notes /\ notes[n].key = r.key /\ notes[n].known
      BY <2>2 DEF Claimed
    <3>2. h = [notes |-> notes, ans |-> IF notes[n].gone THEN Said("gone") ELSE Shows("ok", n, notes[n])]
      BY <1>1, <2>2 DEF Handle, CreateNote
    <3> HIDE DEF n, h
    <3>3. h.notes = notes /\ h.ans = IF notes[n].gone THEN Said("gone") ELSE Shows("ok", n, notes[n])
      BY <3>2
    <3> QED BY <1>1, <3>1, <3>3 DEF Refusal, Repeat, h
  <2> QED BY <2>1, <2>2
<1>2. CASE r.what # "create"
  <2>0. h = PatchNote(r)
    BY <1>2 DEF Handle
  <2> DEFINE n == notes[r.note]
  <2>1. CASE n.gone
    <3>1. h = [notes |-> notes, ans |-> Said("refused")]
      BY <2>0, <2>1 DEF PatchNote
    <3> HIDE DEF h
    <3>2. h.notes = notes /\ h.ans = Said("refused")
      BY <3>1
    <3> QED BY <3>2 DEF Refusal, h
  <2>2. CASE ~n.gone /\ r.what = "text" /\ r.rev \notin {NoRev, n.rev}
    <3>1. h = [notes |-> notes, ans |-> Shows("stale", r.note, n)]
      BY <2>0, <2>2 DEF PatchNote
    <3> HIDE DEF h
    <3>2. h.notes = notes /\ h.ans = Shows("stale", r.note, n)
      BY <3>1
    <3> QED BY <2>2, <3>2 DEF Conflict, h
  <2>3. CASE ~n.gone /\ ~(r.what = "text" /\ r.rev \notin {NoRev, n.rev})
    <3>1. h = [notes |-> [notes EXCEPT ![r.note] = Written(n, r)],
               ans |-> Shows("ok", r.note, Written(n, r))]
      BY <2>0, <2>3 DEF PatchNote
    <3> HIDE DEF h
    <3>2. /\ h.notes = [notes EXCEPT ![r.note] = Written(n, r)]
          /\ h.ans = Shows("ok", r.note, Written(n, r))
      BY <3>1
    <3> QED BY <1>2, <2>3, <3>2 DEF Change, h
  <2> QED BY <2>1, <2>2, <2>3
<1> QED BY <1>1, <1>2

(* A change writes the words, or a mark of an item.                          *)
LEMMA WrittenNote ==
    ASSUME NEW n \in NoteRecords, NEW r \in Requests
    PROVE  LET w == Written(n, r)
           IN  /\ w \in NoteRecords
               /\ w.key = n.key /\ w.by = n.by /\ w.typing = n.typing /\ w.gone = n.gone
               /\ w.known = n.known
               /\ r.what = "edit" => w.label = r.op /\ w.body = n.body /\ w.rev = n.rev
               /\ r.what # "edit" => w.label = n.label /\ w.body = r.words /\ w.rev = n.rev + 1
<1>1. r.words \in Int /\ r.op \in Nat /\ n.rev + 1 \in Nat
  BY DEF Requests, NoteRecords
<1>2. CASE r.what = "edit"
  BY <1>1, <1>2 DEF Written, NoteRecords
<1>3. CASE r.what # "edit"
  <2> DEFINE v == n.rev + 1
             b == r.words
  <2>1. v \in Nat /\ b \in Int
    BY <1>1
  <2>2. Written(n, r) = [n EXCEPT !.body = b, !.rev = v]
    BY <1>3 DEF Written
  <2> HIDE DEF v, b
  <2>3. LET w == [n EXCEPT !.body = b, !.rev = v]
        IN  /\ w \in NoteRecords /\ w.key = n.key /\ w.by = n.by /\ w.typing = n.typing
            /\ w.gone = n.gone /\ w.known = n.known /\ w.label = n.label /\ w.body = b /\ w.rev = v
    BY <2>1 DEF NoteRecords
  <2> QED BY <1>3, <2>2, <2>3 DEF v, b
<1> QED BY <1>2, <1>3

(* A new note.                                                               *)
LEMMA FreshNote ==
    ASSUME NEW r \in Requests
    PROVE  LET w == NewNote(r)
           IN  /\ w \in NoteRecords /\ w.key = r.key /\ w.by = r.op /\ w.typing = r.typing
               /\ w.body = r.words /\ w.rev = 0 /\ w.label = 0 /\ w.known = TRUE
BY DEF NewNote, NoteRecords, Requests

(* What an answer shows.                                                     *)
LEMMA Shown ==
    ASSUME NEW st \in {"ok", "stale"}, NEW n \in Nat, NEW w \in NoteRecords
    PROVE  /\ Shows(st, n, w) \in Answer
           /\ Shows(st, n, w).st = st /\ Shows(st, n, w).note = n
           /\ Shows(st, n, w).body = w.body /\ Shows(st, n, w).rev = w.rev
BY DEF Shows, Answer, NoteRecords

LEMMA Saying ==
    ASSUME NEW st \in {"none", "gone", "refused", "busy"}
    PROVE  Said(st) \in Answer /\ Said(st).st = st
BY DEF Said, Answer

\* What the notes may become in a step: none goes away, each keeps its key, and
\* while its revision stands so does its text.
Grown ==
    /\ notes' \in Seq(NoteRecords) /\ Len(notes') >= Len(notes)
    /\ \A n \in DOMAIN notes :
         /\ n \in DOMAIN notes' /\ notes'[n] \in NoteRecords
         /\ notes'[n].key = notes[n].key /\ notes'[n].by = notes[n].by
         /\ notes'[n].typing = notes[n].typing
         /\ notes'[n].known => notes[n].known
         /\ notes'[n].rev >= notes[n].rev
         /\ notes'[n].rev = notes[n].rev => notes'[n].body = notes[n].body

(* So a request makes of them.                                               *)
LEMMA HandledGrown ==
    ASSUME TypeOK, Shape, NEW r \in Requests, r.what # "create" => r.note \in DOMAIN notes,
           notes' = Handle(r).notes
    PROVE  Grown
<1> DEFINE h == Handle(r)
<1>0. /\ Len(notes) \in Nat /\ DOMAIN notes = 1 .. Len(notes)
      /\ \A n \in DOMAIN notes : notes[n] \in NoteRecords
      /\ \A n \in DOMAIN notes : notes[n].rev \in Nat
  <2>1. \A n \in DOMAIN notes : notes[n] \in NoteRecords
    BY Basics
  <2>2. \A n \in DOMAIN notes : notes[n].rev \in Nat
    BY <2>1 DEF NoteRecords
  <2> QED BY <2>1, <2>2, Basics
<1>1. CASE h.notes = notes
  BY <1>0, <1>1 DEF Grown, Shape
<1>2. CASE Insertion(r, h)
  <2> DEFINE w == NewNote(r)
  <2>1. w \in NoteRecords
    BY FreshNote
  <2> HIDE DEF w
  <2>2. /\ Append(notes, w) \in Seq(NoteRecords) /\ Len(Append(notes, w)) = Len(notes) + 1
        /\ \A n \in 1 .. Len(notes) : Append(notes, w)[n] = notes[n]
    BY <2>1, AppendProperties DEF Shape
  <2>3. notes' = Append(notes, w)
    BY <1>2 DEF Insertion, w
  <2>4. DOMAIN notes' = 1 .. Len(notes) + 1
    BY <2>2, <2>3, LenProperties
  <2> QED BY <1>0, <2>2, <2>3, <2>4 DEF Grown
<1>3. CASE Change(r, h)
  <2> DEFINE w == Written(notes[r.note], r)
  <2>1. r.note \in DOMAIN notes
    BY <1>3 DEF Change
  <2>2. /\ w \in NoteRecords /\ w.key = notes[r.note].key /\ w.by = notes[r.note].by
        /\ w.typing = notes[r.note].typing /\ w.known = notes[r.note].known
        /\ w.rev = notes[r.note].rev + 1 \/ (w.rev = notes[r.note].rev /\ w.body = notes[r.note].body)
    BY <1>0, <2>1, WrittenNote
  <2> HIDE DEF w
  <2>3. notes' = [notes EXCEPT ![r.note] = w]
    BY <1>3 DEF Change, w
  <2>4. /\ notes' \in Seq(NoteRecords) /\ Len(notes') = Len(notes)
        /\ \A n \in 1 .. Len(notes) : notes'[n] = IF n = r.note THEN w ELSE notes[n]
    BY <1>0, <2>1, <2>2, <2>3, ExceptSeq DEF Shape
  <2>5. DOMAIN notes' = DOMAIN notes
    BY <2>3
  <2> QED BY <1>0, <2>1, <2>2, <2>4, <2>5 DEF Grown
<1> QED BY <1>1, <1>2, <1>3, Handling DEF Refusal, Conflict, Repeat

(* When the server forgets a key, nothing else of the note changes.          *)
LEMMA Forgetting ==
    ASSUME TypeOK, Shape, NEW n \in DOMAIN notes, ForgetKey(n)
    PROVE  /\ notes' \in Seq(NoteRecords) /\ Len(notes') = Len(notes) /\ DOMAIN notes' = DOMAIN notes
           /\ \A k \in DOMAIN notes :
                /\ notes'[k] \in NoteRecords
                /\ notes'[k].key = notes[k].key /\ notes'[k].by = notes[k].by
                /\ notes'[k].typing = notes[k].typing /\ notes'[k].label = notes[k].label
                /\ notes'[k].body = notes[k].body /\ notes'[k].rev = notes[k].rev
                /\ notes'[k].gone = notes[k].gone /\ notes'[k].theirs = notes[k].theirs
                /\ notes'[k].known => notes[k].known
<1>1. /\ Len(notes) \in Nat /\ DOMAIN notes = 1 .. Len(notes)
      /\ \A k \in DOMAIN notes : notes[k] \in NoteRecords
  BY Basics
<1> DEFINE w == [notes[n] EXCEPT !.known = FALSE]
<1>2. /\ w \in NoteRecords /\ w.known = FALSE
      /\ w.key = notes[n].key /\ w.by = notes[n].by /\ w.typing = notes[n].typing
      /\ w.label = notes[n].label /\ w.body = notes[n].body /\ w.rev = notes[n].rev
      /\ w.gone = notes[n].gone /\ w.theirs = notes[n].theirs
  BY <1>1 DEF NoteRecords
<1>3. notes' = [notes EXCEPT ![n] = w]
  BY DEF ForgetKey
<1> HIDE DEF w
<1>4. /\ notes' \in Seq(NoteRecords) /\ Len(notes') = Len(notes)
      /\ \A k \in 1 .. Len(notes) : notes'[k] = IF k = n THEN w ELSE notes[k]
  BY <1>1, <1>2, <1>3, ExceptSeq DEF Shape
<1>5. DOMAIN notes' = DOMAIN notes
  BY <1>3
<1>6. \A k \in DOMAIN notes : notes'[k] = IF k = n THEN w ELSE notes[k]
  BY <1>1, <1>4
<1> QED BY <1>1, <1>2, <1>4, <1>5, <1>6

(* Every step only adds to the notes.                                        *)
LEMMA NotesGrow ==
    ASSUME TypeOK, Shape, FlightsOK, Next
    PROVE  Grown
<1>0. /\ Len(notes) \in Nat /\ DOMAIN notes = 1 .. Len(notes)
      /\ \A n \in DOMAIN notes : notes[n] \in NoteRecords
      /\ \A n \in DOMAIN notes : notes[n].rev \in Nat
  <2>1. \A n \in DOMAIN notes : notes[n] \in NoteRecords
    BY Basics
  <2>2. \A n \in DOMAIN notes : notes[n].rev \in Nat
    BY <2>1 DEF NoteRecords
  <2> QED BY <2>1, <2>2, Basics
<1>1. CASE notes' = notes
  BY <1>0, <1>1 DEF Grown, Shape
<1>2. ASSUME NEW f \in flights, Serve(f)
      PROVE  Grown
  <2>1. f.req \in Requests
    BY DEF Shape, Flights
  <2> QED BY <1>2, <2>1, HandledGrown DEF Serve, FlightsOK, RequestOK
<1>3. ASSUME NEW n \in DOMAIN notes, Foreign(n)
      PROVE  Grown
  <2>1. notes[n] \in NoteRecords /\ notes[n].rev \in Nat /\ spent.foreign \in Nat
    BY <1>0 DEF Shape, Spendings
  <2>2. PICK w \in NoteRecords : notes' = [notes EXCEPT ![n] = w] /\ w.key = notes[n].key
           /\ w.by = notes[n].by /\ w.typing = notes[n].typing /\ w.known = notes[n].known
           /\ (w.rev = notes[n].rev + 1 \/ (w.rev = notes[n].rev /\ w.body = notes[n].body))
    <3> DEFINE b == -(spent.foreign + 1)
               v == notes[n].rev + 1
    <3>1. b \in Int /\ v \in Nat
      BY <2>1
    <3> HIDE DEF b, v
    <3> DEFINE w1 == [notes[n] EXCEPT !.body = b, !.rev = v, !.theirs = TRUE]
               w2 == [notes[n] EXCEPT !.gone = TRUE, !.theirs = TRUE]
    <3>2. /\ w1 \in NoteRecords /\ w1.key = notes[n].key /\ w1.by = notes[n].by
          /\ w1.typing = notes[n].typing /\ w1.rev = v /\ w1.known = notes[n].known
          /\ w2 \in NoteRecords /\ w2.key = notes[n].key /\ w2.by = notes[n].by
          /\ w2.typing = notes[n].typing /\ w2.rev = notes[n].rev /\ w2.body = notes[n].body
          /\ w2.known = notes[n].known
      BY <2>1, <3>1 DEF NoteRecords
    <3>3. notes' = [notes EXCEPT ![n] = w1] \/ notes' = [notes EXCEPT ![n] = w2]
      BY <1>3 DEF Foreign, ForgetKey, b, v
    <3> HIDE DEF w1, w2
    <3> QED BY <3>2, <3>3 DEF v
  <2>3. /\ notes' \in Seq(NoteRecords) /\ Len(notes') = Len(notes)
        /\ \A k \in 1 .. Len(notes) : notes'[k] = IF k = n THEN w ELSE notes[k]
    BY <1>0, <2>2, ExceptSeq DEF Shape
  <2>4. DOMAIN notes' = DOMAIN notes
    BY <2>2
  <2> QED BY <1>0, <2>1, <2>2, <2>3, <2>4 DEF Grown
<1>4. ASSUME NEW n \in DOMAIN notes, ForgetKey(n)
      PROVE  Grown
  <2>1. \A k \in DOMAIN notes : notes'[k].rev >= notes[k].rev
    BY <1>0, <1>4, Forgetting
  <2> QED BY <1>0, <1>4, <2>1, Forgetting DEF Grown
<1> QED BY ZenonT(40), <1>1, <1>2, <1>3, <1>4
        DEF Next, Open, Load, Close, Replay, Act, StartReplay, ReplayEmpty, ReplayDoomed, ReplayHead,
            Fail, InlineLost, ReplayLost, Settle, InlineDone, InlineRefused, ReplayLanded,
            AlreadyThere, KeepText, CopyMade, UpdateCopy, CopyUpdated, FreshCopy, ReplayBusy,
            ReplayRefused, Land, Refetch, Disconnect, Reconnect

-----------------------------------------------------------------------------
(* What a step keeps.                                                        *)

(* An intent whose note is known means one note.                             *)
LEMMA Resolution ==
    ASSUME TypeOK, Shape, IntentOK, NEW i \in Intents, Resolvable(i)
    PROVE  /\ intent[i].note >= 0 => RealNote(i) = intent[i].note
           /\ intent[i].note < 0 => RealNote(i) \in DOMAIN notes /\ <<-intent[i].note, RealNote(i)>> \in ids
           /\ RealNote(i) \in Nat
           /\ intent[i].k # "create" => RealNote(i) \in DOMAIN notes
<1> DEFINE c == -intent[i].note
<1>0. intent[i].note \in Int /\ DOMAIN notes = 1 .. Len(notes) /\ Len(notes) \in Nat
  BY Basics DEF Intent
<1>1. CASE intent[i].note >= 0
  BY <1>0, <1>1 DEF RealNote, IntentOK
<1>2. CASE ~(intent[i].note >= 0)
  <2>1. Became(c) # {} /\ RealNote(i) = CHOOSE n \in Became(c) : TRUE
    BY <1>2 DEF Resolvable, RealNote
  <2> HIDE DEF c
  <2>2. RealNote(i) \in Became(c)
    BY <2>1
  <2>3. PICK p \in ids : p[1] = c /\ RealNote(i) = p[2]
    BY <2>2 DEF Became
  <2>4. p \in Intents \X (DOMAIN notes)
    BY DEF TypeOK
  <2>5. p = <<c, RealNote(i)>> /\ RealNote(i) \in DOMAIN notes
    BY <2>3, <2>4
  <2> QED BY <1>0, <1>2, <2>3, <2>5 DEF c
<1> QED BY <1>1, <1>2

\* What every step leaves true of what was there.
Later ==
    /\ Grown /\ KeysOK'
    /\ \A i \in Intents : i \in Intents' /\ intent'[i] = intent[i]
    /\ ids \subseteq ids' /\ ids' \subseteq Intents' \X (DOMAIN notes')
    /\ \A p, q \in ids' : p[1] = q[1] => p = q
    /\ seen.applied \subseteq seen'.applied

(* It goes on meaning that note.                                             *)
LEMMA ResolvedLater ==
    ASSUME TypeOK, Shape, IntentOK, Later, NEW i \in Intents, Resolvable(i)
    PROVE  Resolvable(i)' /\ RealNote(i)' = RealNote(i)
<1>0. intent[i].note \in Int /\ intent'[i] = intent[i]
  BY Basics DEF Intent, Later
<1>1. CASE intent[i].note >= 0
  BY <1>0, <1>1 DEF RealNote, Resolvable
<1>2. CASE ~(intent[i].note >= 0)
  <2>1. PICK c \in Int : c = -intent[i].note
    BY <1>0
  <2>2. PICK n : n = RealNote(i)
    OBVIOUS
  <2>3. <<c, n>> \in ids'
    BY <1>0, <1>2, <2>1, <2>2, Resolution DEF Later
  <2>4. n \in Became(c)'
    <3>1. <<c, n>>[1] = c /\ <<c, n>>[2] = n
      OBVIOUS
    <3> QED BY <2>3, <3>1 DEF Became
  <2>5. PICK m : m = CHOOSE x \in Became(c)' : TRUE
    OBVIOUS
  <2>6. m \in Became(c)'
    BY <2>4, <2>5
  <2>7. Resolvable(i)' /\ RealNote(i)' = m
    BY <1>0, <1>2, <2>1, <2>4, <2>5 DEF Resolvable, RealNote
  <2>8. PICK p \in ids' : p[1] = c /\ m = p[2]
    BY <2>6 DEF Became
  <2>9. p \in Intents' \X (DOMAIN notes') /\ <<c, n>> \in Intents' \X (DOMAIN notes')
    BY <2>3, <2>8 DEF Later
  <2>10. p = <<c, n>>
    BY <2>3, <2>8 DEF Later
  <2>11. m = n
    BY <2>8, <2>10
  <2> QED BY <2>2, <2>7, <2>11
<1> QED BY <1>1, <1>2

(* A revision that is past, or this device's own, stays so.                  *)
LEMMA OursLater ==
    ASSUME TypeOK, Shape, Later, NEW n \in DOMAIN notes, NEW r \in Int, Ours(n, r)
    PROVE  Ours(n, r)'
<1>1. notes[n].rev \in Nat /\ notes'[n].rev \in Nat /\ notes'[n].rev >= notes[n].rev
  BY Basics DEF Later, Grown, NoteRecords
<1> QED BY <1>1 DEF Ours, Later, Grown

(* What is true of a flight stays true.                                      *)
LEMMA FlightLater ==
    ASSUME TypeOK, Shape, IntentOK, KeysOK, Later, NEW f \in Flights,
           RequestOK(f), AnswerOK(f), TextOK(f)
    PROVE  RequestOK(f)' /\ AnswerOK(f)' /\ TextOK(f)'
<1>0. f.op \in Intents /\ f.op \in Intents' /\ intent'[f.op] = intent[f.op]
  BY DEF RequestOK, Later
<1>1. RequestOK(f)'
  <2>1. Resolvable(f.op) => Resolvable(f.op)' /\ RealNote(f.op)' = RealNote(f.op)
    BY <1>0, ResolvedLater
  <2>2. f.req.note \in DOMAIN notes => f.req.note \in DOMAIN notes'
    BY DEF Later, Grown
  <2>3. IsText(f.op)' <=> IsText(f.op)
    BY <1>0 DEF IsText
  <2> QED BY <1>0, <2>1, <2>2, <2>3 DEF RequestOK, KeyOf, Answered
<1>2. AnswerOK(f)'
  <2>1. \A n \in DOMAIN notes : notes[n].rev \in Nat
    BY Basics DEF NoteRecords
  <2>2. f.ans.rev \in Nat
    BY DEF Flights, Answer
  <2>3. ASSUME f.ans.st \in {"ok", "stale"}
        PROVE  /\ f.ans.note \in DOMAIN notes' /\ f.ans.rev <= notes'[f.ans.note].rev
               /\ f.ans.rev = notes'[f.ans.note].rev => notes'[f.ans.note].body = f.ans.body
               /\ f.req.what # "create" => f.ans.note = f.req.note
               /\ notes'[f.ans.note].key = notes[f.ans.note].key
    <3>1. /\ f.ans.note \in DOMAIN notes /\ f.ans.rev <= notes[f.ans.note].rev
          /\ f.ans.rev = notes[f.ans.note].rev => notes[f.ans.note].body = f.ans.body
          /\ f.req.what # "create" => f.ans.note = f.req.note
      BY <2>3 DEF AnswerOK
    <3>2. /\ notes'[f.ans.note].rev \in Nat /\ notes'[f.ans.note].rev >= notes[f.ans.note].rev
          /\ f.ans.note \in DOMAIN notes'
          /\ notes'[f.ans.note].key = notes[f.ans.note].key
          /\ notes'[f.ans.note].rev = notes[f.ans.note].rev => notes'[f.ans.note].body = notes[f.ans.note].body
      BY <3>1 DEF Later, Grown, NoteRecords
    <3> QED BY <2>1, <2>2, <3>1, <3>2
  <2>4. Fulfils(f.ans, f.req) => f.op \in seen'.applied
    BY DEF AnswerOK, Later
  <2> QED BY <2>3, <2>4 DEF AnswerOK, Fulfils
<1>3. TextOK(f)'
  <2>1. ASSUME f.req.what = "text", ~Answered(f)
        PROVE  \/ f.stage # "update" /\ f.req.rev = intent'[f.op].rev
               \/ f.req.rev \in Nat /\ Ours(f.req.note, f.req.rev)'
    <3>1. f.req.note \in DOMAIN notes
      BY <2>1 DEF RequestOK
    <3>2. CASE f.stage # "update" /\ f.req.rev = intent[f.op].rev
      BY <1>0, <3>2
    <3>3. CASE f.req.rev \in Nat /\ Ours(f.req.note, f.req.rev)
      <4> DEFINE r == f.req.rev
      <4>1. r \in Int
        BY <3>3
      <4> HIDE DEF r
      <4> QED BY <3>1, <3>3, <4>1, OursLater DEF r
    <3> QED BY <2>1, <3>2, <3>3 DEF TextOK
  <2> QED BY <2>1 DEF TextOK, Answered
<1> QED BY <1>1, <1>2, <1>3
-----------------------------------------------------------------------------
(* What landing finds.                                                       *)

(* A write the device knows for its own holds its words.                     *)
LEMMA WatchedOurs ==
    ASSUME TypeOK, Shape, FlightsOK, NEW f \in flights, NEW w \in Watched(f)
    PROVE  w \in (DOMAIN notes) \X Nat \X Nat /\ w[1] \in DOMAIN notes /\ Ours(w[1], w[3])
<1> DEFINE n == f.req.note
           r == f.ans.rev
<1>1. f.req.what = "text" /\ f.ans.st = "ok" /\ w = <<n, r - 1, r>>
  BY DEF Watched
<1>2. f.req.words \in Nat /\ r \in Nat
  BY DEF Shape, Flights, Requests, Answer
<1>3. /\ f.ans.note = n /\ n \in DOMAIN notes /\ r <= notes[n].rev /\ r >= 1
      /\ r = notes[n].rev => notes[n].body = f.req.words
  BY <1>1 DEF FlightsOK, AnswerOK
<1> HIDE DEF n, r
<1>4. w[1] = n /\ w[3] = r /\ r - 1 \in Nat
  BY <1>1, <1>2, <1>3
<1> QED BY <1>1, <1>2, <1>3, <1>4 DEF Ours

\* An op is done.
Landed(f) == ReplayLanded(f) \/ AlreadyThere(f) \/ CopyMade(f) \/ CopyUpdated(f)

(* It is done on the server, and a create has made the note of its key.      *)
LEMMA Landing ==
    ASSUME TypeOK, Shape, FlightsOK, NEW f \in flights, Landed(f)
    PROVE  /\ f \in Replays /\ f.op \in Intents /\ f.op \in seen.applied
           /\ Land(f, copies) \/ Land(f, RecordCopy(f.op, f.key))
           /\ intent[f.op].k = "create" =>
                f.ans.note \in DOMAIN notes /\ notes[f.ans.note].key = KeyOf(f.op)
<1>0. RequestOK(f) /\ AnswerOK(f) /\ f \in Flights
  BY DEF FlightsOK, Shape
<1>1. f \in Replays /\ f.op \in Intents
  BY <1>0 DEF Landed, ReplayLanded, AlreadyThere, CopyMade, CopyUpdated, Replays, RequestOK
<1>2. Land(f, copies) \/ Land(f, RecordCopy(f.op, f.key))
  BY DEF Landed, ReplayLanded, AlreadyThere, CopyMade, CopyUpdated
<1>3. intent[f.op].k = "create" => f.ans.note \in DOMAIN notes /\ notes[f.ans.note].key = KeyOf(f.op)
  <2>1. CASE ReplayLanded(f)
    BY <1>0, <2>1 DEF ReplayLanded, RequestOK, AnswerOK
  <2>2. CASE AlreadyThere(f)
    BY <1>0, <2>2 DEF AlreadyThere, RequestOK, AnswerOK
  <2>3. CASE CopyMade(f) \/ CopyUpdated(f)
    BY <1>0, <2>3 DEF CopyMade, CopyUpdated, RequestOK, IsText
  <2> QED BY <2>1, <2>2, <2>3 DEF Landed
<1>4. Fulfils(f.ans, f.req)
  <2>1. CASE ReplayLanded(f)
    BY <1>0, <2>1 DEF ReplayLanded, RequestOK, AnswerOK, Fulfils
  <2>2. CASE AlreadyThere(f)
    BY <1>0, <2>2 DEF AlreadyThere, AnswerOK, Fulfils
  <2>3. CASE CopyMade(f)
    BY <1>0, <2>3 DEF CopyMade, RequestOK, Fulfils
  <2>4. CASE CopyUpdated(f)
    BY <1>0, <2>4 DEF CopyUpdated, RequestOK, AnswerOK, Fulfils
  <2> QED BY <2>1, <2>2, <2>3, <2>4 DEF Landed
<1> QED BY <1>0, <1>1, <1>2, <1>3, <1>4 DEF AnswerOK

-----------------------------------------------------------------------------
(* Every step leaves what was there.                                         *)

(* The notes keep their keys, and a temporary id becomes the note of its key. *)
LEMMA KeysSame ==
    ASSUME KeysOK, Grown, DOMAIN notes' = DOMAIN notes,
           \A p \in ids' : p \in ids \/ notes[p[2]].key = KeyOf(p[1]),
           \A p \in ids' : p[2] \in DOMAIN notes
    PROVE  KeysOK'
<1>1. \A n \in DOMAIN notes : /\ notes'[n].key = notes[n].key /\ notes'[n].by = notes[n].by
                              /\ notes'[n].typing = notes[n].typing
                              /\ notes'[n].known => notes[n].known
  BY DEF Grown
<1>2. \A p \in ids' : notes'[p[2]].key = KeyOf(p[1])
  BY <1>1 DEF KeysOK
<1> QED BY <1>1, <1>2 DEF KeysOK, KeyOf, NoTyping, NoRev

LEMMA ServedKeys ==
    ASSUME TypeOK, Shape, KeysOK, FlightsOK, NEW f \in flights, Serve(f), Grown
    PROVE  KeysOK'
<1> DEFINE r == f.req
           h == Handle(r)
<1>0. r \in Requests /\ RequestOK(f) /\ ids' = ids /\ notes' = h.notes
  BY DEF Shape, Flights, FlightsOK, Serve, box
<1>1. \A p \in ids : p[2] \in DOMAIN notes
  BY DEF TypeOK
<1>2. CASE DOMAIN notes' = DOMAIN notes
  BY <1>0, <1>1, <1>2, KeysSame
<1>3. CASE Insertion(r, h)
  <2>1. Len(notes) \in Nat /\ DOMAIN notes = 1 .. Len(notes)
    BY Basics
  <2> DEFINE w == NewNote(r)
             e == Len(notes) + 1
  <2>2. w \in NoteRecords /\ w.key = r.key /\ w.by = r.op /\ w.typing = r.typing /\ w.known
    BY <1>0, FreshNote
  <2>3. notes' = Append(notes, w) /\ \A n \in DOMAIN notes : notes[n].known => notes[n].key # r.key
    BY <1>0, <1>3 DEF Insertion
  <2> HIDE DEF w
  <2>4. /\ DOMAIN notes' = DOMAIN notes \cup {e} /\ notes'[e] = w
        /\ \A n \in DOMAIN notes : notes'[n] = notes[n] /\ n # e
    BY <2>1, <2>2, <2>3, AppendProperties DEF Shape
  <2> HIDE DEF e
  <2>5. \A m, n \in DOMAIN notes' :
           notes'[m].key = notes'[n].key /\ notes'[m].known /\ notes'[n].known => m = n
    BY <2>2, <2>3, <2>4 DEF KeysOK
  <2>6. \A n \in DOMAIN notes' : notes'[n].typing = NoTyping => notes'[n].key = KeyOf(notes'[n].by)
    BY <1>0, <2>2, <2>4 DEF KeysOK, RequestOK
  <2>7. \A p \in ids' : notes'[p[2]].key = KeyOf(p[1])
    BY <1>0, <1>1, <2>4 DEF KeysOK
  <2> QED BY <2>5, <2>6, <2>7 DEF KeysOK, NoTyping, NoRev, KeyOf
<1>4. CASE Change(r, h)
  BY <1>0, <1>2, <1>4 DEF Change
<1> QED BY <1>0, <1>2, <1>3, <1>4, Handling DEF Refusal, Conflict, Repeat

LEMMA LandedKeys ==
    ASSUME TypeOK, Shape, KeysOK, FlightsOK, NEW f \in flights, Landed(f), Grown
    PROVE  /\ KeysOK' /\ ids \subseteq ids' /\ ids' \subseteq Intents \X (DOMAIN notes) /\ notes' = notes
           /\ \A q \in ids' : q \in ids \/ (intent[f.op].k = "create" /\ q = <<f.op, f.ans.note>>)
<1>1. /\ notes' = notes /\ ids' \in {ids, ids \cup {<<f.op, f.ans.note>>}}
      /\ ids' # ids => intent[f.op].k = "create"
  BY Landing DEF Land
<1> DEFINE p == <<f.op, f.ans.note>>
<1>2. ids' # ids => p \in Intents \X (DOMAIN notes) /\ notes[p[2]].key = KeyOf(p[1])
  <2>1. p[1] = f.op /\ p[2] = f.ans.note
    OBVIOUS
  <2>2. ids' # ids => f.op \in Intents /\ f.ans.note \in DOMAIN notes /\ notes[f.ans.note].key = KeyOf(f.op)
    BY <1>1, Landing
  <2>3. ids' # ids => p \in Intents \X (DOMAIN notes)
    BY <2>2
  <2> HIDE DEF p
  <2> QED BY <2>1, <2>2, <2>3
<1> HIDE DEF p
<1>3. ids \subseteq Intents \X (DOMAIN notes)
  BY DEF TypeOK
<1>4. ids' \subseteq Intents \X (DOMAIN notes) /\ \A q \in ids' : q \in ids \/ notes[q[2]].key = KeyOf(q[1])
  <2>1. ids' = ids \/ ids' = ids \cup {p}
    BY <1>1 DEF p
  <2>2. CASE ids' = ids
    BY <1>3, <2>2
  <2>3. CASE ids' # ids
    BY <1>2, <1>3, <2>1, <2>3
  <2> QED BY <2>2, <2>3
<1>5. \A q \in ids' : q[2] \in DOMAIN notes
  BY <1>4
<1>6. \A q \in ids' : q \in ids \/ (intent[f.op].k = "create" /\ q = <<f.op, f.ans.note>>)
  BY <1>1
<1> QED BY <1>1, <1>4, <1>5, <1>6, KeysSame

(* What a user may do.                                                       *)
LEMMA Acting ==
    ASSUME TypeOK, Shape, NEW t \in Tabs, NEW a \in Acts(t), Act(t, a)
    PROVE  /\ a \in Intent /\ intent' = Append(intent, a) /\ intent' \in Seq(Intent)
           /\ Len(intent') = Len(intent) + 1 /\ Len(intent) + 1 \in Intents'
           /\ intent'[Len(intent) + 1] = a
           /\ \A i \in Intents : i \in Intents' /\ intent'[i] = intent[i] /\ i < Len(intent) + 1
           /\ \A i \in Intents' : i \in Intents \/ i = Len(intent) + 1
           /\ a.k = "create" => a.note = 0
           /\ a.k # "create" /\ a.note >= 0 => a.note \in DOMAIN notes
           /\ a.rev # NoRev => a.k = "text" /\ a.note = 1 /\ a.rev = base[t]
<1>0. Len(intent) \in Nat /\ base[t] \in Nat /\ DOMAIN notes = 1 .. Len(notes) /\ 1 \in DOMAIN notes
  BY Basics DEF Shape
<1>1. Targets \subseteq Int /\ \A n \in Targets : n >= 0 => n \in DOMAIN notes
  <2>1. \A p \in ids : p[2] \in DOMAIN notes
    BY DEF TypeOK
  <2>2. \A i \in Intents : -i \in Int /\ ~(-i >= 0)
    BY <1>0 DEF Intents
  <2>3. \A n \in Targets : n = 1 \/ (\E p \in ids : n = p[2]) \/ (\E i \in Intents : n = -i)
    BY DEF Targets
  <2> QED BY <1>0, <2>1, <2>2, <2>3
<1>2. /\ a \in Intent
      /\ a.k = "create" => a.note = 0
      /\ a.k # "create" /\ a.note >= 0 => a.note \in DOMAIN notes
      /\ a.rev # NoRev => a.k = "text" /\ a.note = 1 /\ a.rev = base[t]
  <2>1. CASE a \in [k : Kinds \cap {"create"}, note : {0}, words : {0}, rev : {NoRev}]
    BY <2>1, OutboxAssumption DEF Intent, Revs, NoRev
  <2>2. CASE a \in [k : Kinds \cap {"edit"}, note : Targets, words : {0}, rev : {NoRev}]
    <3>1. a.k = "edit" /\ a.k \in Kinds /\ a.note \in Targets /\ a.words = 0 /\ a.rev = NoRev
      BY <2>2
    <3>2. a = [k |-> a.k, note |-> a.note, words |-> a.words, rev |-> a.rev]
      BY <2>2
    <3>3. a \in Intent
      BY <1>1, <3>1, <3>2, OutboxAssumption DEF Intent, Revs
    <3> QED BY <1>1, <3>1, <3>3
  <2>3. CASE a \in [k : Kinds \cap {"text"}, note : {1}, words : {Len(intent) + 1, Cleared}, rev : {base[t]}]
    BY <1>0, <2>3, OutboxAssumption DEF Intent, Revs, Cleared
  <2>4. CASE a \in [k : Kinds \cap {"text"}, note : {n \in Targets : n < 0}, words : {Len(intent) + 1}, rev : {NoRev}]
    <3>1. a.k = "text" /\ a.k \in Kinds /\ a.note \in Targets /\ a.note < 0 /\ a.words = Len(intent) + 1 /\ a.rev = NoRev
      BY <2>4
    <3>2. a = [k |-> a.k, note |-> a.note, words |-> a.words, rev |-> a.rev]
      BY <2>4
    <3>3. a \in Intent
      BY <1>0, <1>1, <3>1, <3>2, OutboxAssumption DEF Intent, Revs
    <3> QED BY <1>1, <3>1, <3>3
  <2> QED BY <2>1, <2>2, <2>3, <2>4 DEF Acts
<1>3. intent' = Append(intent, a) /\ intent \in Seq(Intent)
  BY DEF Act, TypeOK
<1> HIDE DEF Act
<1>4. /\ intent' \in Seq(Intent) /\ Len(intent') = Len(intent) + 1
      /\ intent'[Len(intent) + 1] = a
      /\ \A i \in 1 .. Len(intent) : intent'[i] = intent[i]
  BY <1>2, <1>3, AppendProperties
<1>5. Intents' = 1 .. Len(intent) + 1
  BY <1>4 DEF Intents
<1> QED BY <1>0, <1>2, <1>3, <1>4, <1>5 DEF Intents

\* What is remembered is not forgotten.
Remembered ==
    /\ seen' \in Histories
    /\ seen.told \subseteq seen'.told /\ seen.abandoned \subseteq seen'.abandoned
    /\ seen.applied \subseteq seen'.applied /\ seen.queued \subseteq seen'.queued
    /\ seen.ousted \subseteq seen'.ousted
    /\ seen.overtook => seen'.overtook
    /\ seen.overlapped => seen'.overlapped
    /\ seen.late => seen'.late
    /\ seen.torn => seen'.torn
    /\ seen.unheard => seen'.unheard
    /\ seen.elsewhere => seen'.elsewhere
    /\ seen.direct \subseteq seen'.direct

LEMMA HistoryGrows ==
    ASSUME TypeOK, Shape, FlightsOK, Next
    PROVE  Remembered
<1>0. /\ seen \in Histories /\ \A f \in flights : f.op \in Nat
      /\ Len(intent) \in Nat /\ \A i \in Intents : i \in Nat
  BY Basics DEF Shape, Flights
<1>1. CASE seen' = seen
  BY <1>0, <1>1 DEF Remembered, Histories
<1>2. ASSUME NEW S \in SUBSET Nat, seen' = [seen EXCEPT !.told = @ \cup S]
      PROVE  Remembered
  BY <1>0, <1>2 DEF Remembered, Histories
<1>3. ASSUME NEW S \in SUBSET Nat, NEW b \in BOOLEAN,
             seen' = [seen EXCEPT !.applied = @ \cup S, !.late = @ \/ b]
      PROVE  Remembered
  BY <1>0, <1>3 DEF Remembered, Histories
<1>4. ASSUME NEW S \in SUBSET Nat, NEW b \in BOOLEAN,
             NEW O \in SUBSET Nat,
             seen' = [seen EXCEPT !.queued = @ \cup S, !.ousted = @ \cup O, !.unheard = @ \/ b]
      PROVE  Remembered
  BY <1>0, <1>4 DEF Remembered, Histories
<1>5. ASSUME NEW S \in SUBSET Nat, NEW b \in BOOLEAN, NEW c \in BOOLEAN,
             seen' = [seen EXCEPT !.abandoned = @ \cup S, !.torn = @ \/ b, !.unheard = @ \/ c]
      PROVE  Remembered
  BY <1>0, <1>5 DEF Remembered, Histories
<1>6. ASSUME NEW b \in BOOLEAN, seen' = [seen EXCEPT !.unheard = @ \/ b]
      PROVE  Remembered
  BY <1>0, <1>6 DEF Remembered, Histories
<1>7. ASSUME NEW b \in BOOLEAN, NEW c \in BOOLEAN, NEW S \in SUBSET Nat,
             \/ seen' = [[seen EXCEPT !.overlapped = @ \/ b] EXCEPT !.queued = @ \cup S]
             \/ seen' = [[seen EXCEPT !.overlapped = @ \/ b] EXCEPT !.overtook = @ \/ c]
      PROVE  Remembered
  <2> DEFINE h == [seen EXCEPT !.overlapped = @ \/ b]
  <2>1. /\ h \in Histories
        /\ h.told = seen.told /\ h.abandoned = seen.abandoned /\ h.applied = seen.applied
        /\ h.queued = seen.queued /\ h.overtook = seen.overtook /\ h.late = seen.late
        /\ h.torn = seen.torn /\ h.unheard = seen.unheard /\ h.elsewhere = seen.elsewhere
        /\ h.direct = seen.direct /\ h.ousted = seen.ousted
        /\ seen.overlapped => h.overlapped
    BY <1>0 DEF Histories
  <2>2. \/ seen' = [h EXCEPT !.queued = h.queued \cup S]
        \/ seen' = [h EXCEPT !.overtook = h.overtook \/ c]
    BY <1>7
  <2> HIDE DEF h
  <2>4. CASE seen' = [h EXCEPT !.queued = h.queued \cup S]
    BY <2>1, <2>4 DEF Remembered, Histories
  <2>5. CASE seen' = [h EXCEPT !.overtook = h.overtook \/ c]
    BY <2>1, <2>5 DEF Remembered, Histories
  <2> QED BY <2>2, <2>4, <2>5
<1>8. ASSUME NEW f \in flights, Serve(f)
      PROVE  Remembered
  <2>1. {o \in {f.op} : Fulfils(Handle(f.req).ans, f.req)} \in SUBSET Nat
    BY <1>0
  <2> QED BY <1>3, <1>8, <2>1 DEF Serve
<1>9. ASSUME NEW t \in Tabs, NEW a \in Acts(t), Act(t, a)
      PROVE  Remembered
  <2> DEFINE b == \E f \in flights : f.stage = "inline"
             c == queue # <<>> /\ Unaware(t)
             S == {Len(intent) + 1}
  <2>1. /\ b \in BOOLEAN /\ c \in BOOLEAN /\ S \in SUBSET Nat
        /\ \/ seen' = [[seen EXCEPT !.overlapped = @ \/ b] EXCEPT !.queued = @ \cup S]
           \/ seen' = [[seen EXCEPT !.overlapped = @ \/ b] EXCEPT !.overtook = @ \/ c]
    BY <1>0, <1>9 DEF Act, Overlapping
  <2> HIDE DEF b, c, S
  <2> QED BY <1>7, <2>1
<1>10. ASSUME NEW t \in Tabs, Close(t)
       PROVE  Remembered
  <2> DEFINE out == {f \in flights : f.tab = t /\ f.stage # "adrift"}
             S == {f.op : f \in out \ Replays}
             b == \E f \in out : f.stage \in {"copy", "update"}
             c == Unheard(out)
  <2>1. seen' = [seen EXCEPT !.abandoned = @ \cup S, !.torn = @ \/ b, !.unheard = @ \/ c]
    BY <1>10 DEF Close
  <2>2. S \in SUBSET Nat /\ b \in BOOLEAN /\ c \in BOOLEAN
    BY <1>0 DEF Unheard
  <2> HIDE DEF S, b, c
  <2> QED BY <1>5, <2>1, <2>2
<1>11. ASSUME NEW f \in flights, InlineLost(f)
       PROVE  Remembered
  <2> DEFINE S == {f.op}
             O == Ousted(f.op)
             b == Unheard({f})
  <2>1. \A p \in DOMAIN queue : queue[p] \in Intents
    BY Basics
  <2>2. S \in SUBSET Nat /\ O \in SUBSET Nat /\ b \in BOOLEAN
    BY <1>0, <2>1 DEF Ousted, SameText, Unheard
  <2>3. seen' = [seen EXCEPT !.queued = @ \cup S, !.ousted = @ \cup O, !.unheard = @ \/ b]
    BY <1>11 DEF InlineLost
  <2> HIDE DEF S, O, b
  <2> QED BY <1>4, <2>2, <2>3
<1>12. ASSUME NEW f \in flights, ReplayLost(f)
       PROVE  Remembered
  BY <1>0, <1>6, <1>12 DEF ReplayLost, Unheard
<1>13. ASSUME NEW t \in Tabs, NEW i \in Nat, Drop(t, i)
       PROVE  Remembered
  BY <1>2, <1>13 DEF Drop, Note
<1>14. ASSUME NEW t \in Tabs, ReplayDoomed(t)
       PROVE  Remembered
  <2>1. Head(queue) \in Nat
    BY <1>14, Basics DEF ReplayDoomed
  <2> QED BY <1>13, <1>14, <2>1 DEF ReplayDoomed
<1>15. ASSUME NEW f \in flights, ReplayRefused(f)
       PROVE  Remembered
  <2>1. f.tab \in Tabs
    BY DEF Shape, Flights
  <2> QED BY <1>0, <1>13, <1>15, <2>1 DEF ReplayRefused
<1>16. ASSUME NEW f \in flights, InlineRefused(f)
       PROVE  Remembered
  <2> DEFINE S == {f.op}
  <2>1. S \in SUBSET Nat /\ seen' = [seen EXCEPT !.told = @ \cup S]
    BY <1>0, <1>16 DEF InlineRefused, Note
  <2> HIDE DEF S
  <2> QED BY <1>2, <2>1
<1>17. ASSUME NEW f \in flights, InlineDone(f)
       PROVE  Remembered
  <2> DEFINE W == Watched(f)
  <2>1. W \in SUBSET (Nat \X Nat \X Nat)
    <3>1. \A w \in W : w \in (DOMAIN notes) \X Nat \X Nat
      BY WatchedOurs
    <3> HIDE DEF W
    <3> QED BY <3>1, Basics
  <2>2. seen' = [seen EXCEPT !.direct = @ \cup W]
    BY <1>17 DEF InlineDone, Note
  <2> HIDE DEF W
  <2> QED BY <1>0, <2>1, <2>2 DEF Remembered, Histories
<1>18. ASSUME NEW t \in Tabs, ReplayHead(t)
       PROVE  Remembered
  <2> DEFINE b == Unknown(t)
  <2>1. b \in BOOLEAN /\ seen' = [seen EXCEPT !.elsewhere = @ \/ b]
    BY <1>18 DEF ReplayHead, Unknown
  <2> HIDE DEF b
  <2> QED BY <1>0, <2>1 DEF Remembered, Histories
<1> HIDE DEF Remembered
<1> QED BY ZenonT(40), <1>1, <1>8, <1>9, <1>10, <1>11, <1>12, <1>14, <1>15, <1>16, <1>17, <1>18
        DEF Next, Open, Load, Replay, StartReplay, ReplayEmpty,
            Fail, Settle, ReplayLanded, AlreadyThere, CopyMade, CopyUpdated, Land,
            KeepText, UpdateCopy, FreshCopy, ReplayBusy, Foreign, ForgetKey,
            Refetch, Disconnect, Reconnect

LEMMA StepLater ==
    ASSUME TypeOK, Shape, IntentOK, KeysOK, MadeOK, FlightsOK, Next
    PROVE  Later /\ IntentOK'
<1>0. /\ Grown /\ ids \subseteq Intents \X (DOMAIN notes) /\ DOMAIN notes \subseteq DOMAIN notes'
      /\ \A p \in ids : p[2] \in DOMAIN notes
      /\ \A p, q \in ids : p[1] = q[1] => p = q
  BY NotesGrow DEF Grown, TypeOK, MadeOK
<1>1. CASE /\ UNCHANGED <<intent, ids, notes>> /\ seen.applied \subseteq seen'.applied
  BY <1>0, <1>1, KeysSame DEF Later, IntentOK, Intents, IsText
<1>2. ASSUME intent' = intent
      PROVE  IntentOK'
  <2>1. notes[1].rev \in Nat /\ notes'[1].rev \in Nat /\ notes'[1].rev >= notes[1].rev
    <3>1. 1 \in DOMAIN notes /\ notes[1] \in NoteRecords
      BY Basics
    <3> QED BY <1>0, <3>1 DEF Grown, NoteRecords
  <2>2. \A i \in Intents : intent[i].rev \in Int
    BY Basics DEF Intent, Revs, NoRev
  <2>3. \A i \in Intents : intent[i].rev <= notes[1].rev => intent[i].rev <= notes'[1].rev
    BY <2>1, <2>2
  <2>4. Intents' = Intents
    BY <1>2 DEF Intents
  <2>5. \A i \in Intents : IsText(i)' <=> IsText(i)
    BY <1>2 DEF IsText
  <2> QED BY <1>0, <1>2, <2>3, <2>4, <2>5 DEF IntentOK, NoRev
<1>3. ASSUME NEW f \in flights, Serve(f)
      PROVE  Later /\ IntentOK'
  <2>1. KeysOK' /\ UNCHANGED <<intent, ids>>
    BY <1>0, <1>3, ServedKeys DEF Serve, box
  <2>2. seen.applied \subseteq seen'.applied
    BY <1>3 DEF Serve, Shape, Histories
  <2> QED BY <1>0, <1>2, <2>1, <2>2 DEF Later, Intents
<1>4. ASSUME NEW f \in flights, Landed(f)
      PROVE  Later /\ IntentOK'
  <2>1. UNCHANGED <<intent, seen>>
    BY <1>4, Landing DEF Land
  <2>2. KeysOK' /\ ids \subseteq ids' /\ ids' \subseteq Intents \X (DOMAIN notes) /\ notes' = notes
    BY <1>0, <1>4, LandedKeys
  <2>3. \A p, q \in ids' : p[1] = q[1] => p = q
    <3>1. \A q \in ids' : q \in ids \/ (intent[f.op].k = "create" /\ q = <<f.op, f.ans.note>>)
      BY <1>0, <1>4, LandedKeys
    <3>2. f \in Replays /\ (intent[f.op].k = "create" => \A p \in ids : p[1] # f.op)
      BY <1>4, Landing DEF MadeOK
    <3>3. PICK e : e = <<f.op, f.ans.note>>
      OBVIOUS
    <3>4. e[1] = f.op /\ \A q \in ids' : q \in ids \/ (intent[f.op].k = "create" /\ q = e)
      BY <3>1, <3>3
    <3> QED BY <1>0, <3>2, <3>4
  <2> QED BY <1>0, <1>2, <2>1, <2>2, <2>3 DEF Later, Intents, IntentOK, IsText
<1>5. ASSUME NEW n \in DOMAIN notes, Foreign(n)
      PROVE  Later /\ IntentOK'
  <2>1. UNCHANGED <<intent, ids, seen>> /\ DOMAIN notes' = DOMAIN notes
    BY <1>5 DEF Foreign, ForgetKey, box
  <2>2. KeysOK'
    BY <1>0, <2>1, KeysSame
  <2> QED BY <1>0, <1>2, <2>1, <2>2 DEF Later, Intents
<1>8. ASSUME NEW n \in DOMAIN notes, ForgetKey(n)
      PROVE  Later /\ IntentOK'
  <2>1. UNCHANGED <<intent, ids, seen>> /\ DOMAIN notes' = DOMAIN notes
    BY <1>8, Forgetting DEF ForgetKey, box
  <2>2. KeysOK'
    BY <1>0, <2>1, KeysSame
  <2> QED BY <1>0, <1>2, <2>1, <2>2 DEF Later, Intents
<1>6. ASSUME NEW t \in Tabs, NEW a \in Acts(t), Act(t, a)
      PROVE  Later /\ IntentOK'
  <2>1. UNCHANGED <<ids, notes>>
    BY <1>6 DEF Act
  <2>2. seen.applied \subseteq seen'.applied
    BY <1>6 DEF Act, Overlapping, Shape, Histories
  <2>3. KeysOK'
    BY <1>0, <2>1, KeysSame
  <2>4. ids' \subseteq Intents' \X (DOMAIN notes')
    BY <1>0, <1>6, <2>1, Acting
  <2>5. base[t] <= notes[1].rev /\ base[t] >= 0
    BY Basics DEF TypeOK, NoteRecords
  <2>6. IntentOK'
    BY <1>6, <2>1, <2>5, Acting DEF IntentOK, IsText
  <2> QED BY <1>0, <1>6, <2>1, <2>2, <2>3, <2>4, <2>6, Acting DEF Later
<1>7. seen.applied \subseteq seen'.applied
  BY HistoryGrows DEF Remembered
<1> QED BY ZenonT(40), <1>1, <1>3, <1>4, <1>5, <1>6, <1>7, <1>8
        DEF Next, Open, Load, Close, Replay, StartReplay, ReplayEmpty, ReplayDoomed, ReplayHead,
            Fail, InlineLost, ReplayLost, Settle, InlineDone, InlineRefused, Landed,
            KeepText, UpdateCopy, FreshCopy, ReplayBusy, Drop,
            ReplayRefused, Refetch, Disconnect, Reconnect, box
-----------------------------------------------------------------------------
(* Rebasing on the device's own writes.                                      *)

(* Among bounded numbers there is a greatest.                                *)
LEMMA Greatest ==
    ASSUME NEW T \in SUBSET Nat, T # {}, NEW B \in Nat, \A x \in T : x <= B
    PROVE  \E x \in T : \A y \in T : y <= x
<1> DEFINE Gaps == {B - x : x \in T}
           Less == {p \in Nat \X Nat : p[1] < p[2]}
<1>1. Gaps \in SUBSET Nat /\ Gaps # {}
  <2>1. \A x \in T : B - x \in Nat
    OBVIOUS
  <2> QED BY <2>1
<1>2. IsWellFoundedOn(Less, Nat)
  BY NatLessThanWellFounded DEF OpToRel
<1>3. PICK g \in Gaps : \A h \in Gaps : g <= h
  <2> HIDE DEF Gaps
  <2>1. PICK g \in Gaps : \A h \in Gaps : ~(<<h, g>> \in Less)
    <3> HIDE DEF Less
    <3> QED BY <1>1, <1>2, WFMin
  <2>2. ASSUME NEW h \in Gaps PROVE g <= h
    <3>1. g \in Nat /\ h \in Nat
      BY <1>1
    <3>2. h < g => <<h, g>> \in Less
      BY <3>1
    <3> HIDE DEF Less
    <3> QED BY <2>1, <3>1, <3>2
  <2> QED BY <2>2
<1>4. PICK x \in T : g = B - x
  OBVIOUS
<1>5. ASSUME NEW y \in T PROVE y <= x
  <2>1. B - y \in Gaps
    OBVIOUS
  <2>2. B - x <= B - y
    BY <1>3, <1>4, <2>1
  <2>3. x \in Nat /\ y \in Nat
    OBVIOUS
  <2> HIDE DEF Gaps
  <2> QED BY <2>2, <2>3
<1> QED BY <1>5

(* The revision is rebased to itself, or to one that an own write of the     *)
(* note has made.                                                            *)
LEMMA Rebased ==
    ASSUME NEW own, NEW n, NEW r \in Nat, NEW B \in Nat, r <= B,
           \A w \in own : w[2] \in Nat /\ w[3] \in Nat,
           \A w \in own : w[1] = n => w[3] <= B
    PROVE  LET x == RebaseOnOwnRevs(own, n, r)
           IN  x \in Nat /\ (x = r \/ \E w \in own : w[1] = n /\ w[3] = x)
<1> DEFINE steps == {<<w[2], w[3]>> : w \in {v \in own : v[1] = n /\ v[3] > v[2]}}
           T == Reached(steps, r)
           ends == {r} \cup {x[2] : x \in steps}
<1>1. \A x \in steps : \E w \in own : w[1] = n /\ w[3] = x[2]
  <2> TAKE x \in steps
  <2>1. PICK w \in own : w[1] = n /\ x = <<w[2], w[3]>>
    OBVIOUS
  <2>2. x[2] = w[3]
    BY <2>1
  <2> QED BY <2>1, <2>2
<1> HIDE DEF steps
<1>2. \A x \in ends : x = r \/ \E w \in own : w[1] = n /\ w[3] = x
  BY <1>1
<1>3. r \in ends
  OBVIOUS
<1>4. T \subseteq ends
  BY DEF Reached
<1>5. r \in T
  BY <1>3 DEF Reached
<1> HIDE DEF T, ends
<1>6. T \in SUBSET Nat /\ T # {} /\ \A x \in T : x <= B
  BY <1>2, <1>4, <1>5
<1>7. \E x \in T : \A y \in T : y <= x
  BY <1>6, Greatest
<1>8. PICK x : x = CHOOSE z \in T : \A y \in T : y <= z
  OBVIOUS
<1>9. x \in T
  BY <1>7, <1>8
<1>10. RebaseOnOwnRevs(own, n, r) = x
  BY <1>8 DEF RebaseOnOwnRevs, T, steps
<1> QED BY <1>2, <1>4, <1>6, <1>9, <1>10

-----------------------------------------------------------------------------
(* Flights.                                                                  *)

FlightOK(f) == f \in Flights /\ RequestOK(f) /\ AnswerOK(f) /\ TextOK(f)
EachFlightOK == \A f \in flights : FlightOK(f)

(* What a request that nobody waits for asks stays true.                     *)
LEMMA AdriftOK ==
    ASSUME NEW f, FlightOK(f), ~Answered(f)
    PROVE  FlightOK([f EXCEPT !.stage = "adrift"])
<1> DEFINE g == [f EXCEPT !.stage = "adrift"]
<1>1. /\ g \in Flights /\ g.stage = "adrift" /\ g.op = f.op /\ g.req = f.req /\ g.ans = f.ans
      /\ f \in Flights
  BY NewStage DEF FlightOK, Stages
<1> HIDE DEF g
<1>2. RequestOK(g)
  BY <1>1 DEF FlightOK, RequestOK, Answered
<1>3. AnswerOK(g)
  BY <1>1 DEF FlightOK, AnswerOK
<1>4. TextOK(g)
  BY <1>1 DEF FlightOK, TextOK, Answered
<1> QED BY <1>1, <1>2, <1>3, <1>4 DEF FlightOK, g

(* What is left when flights are given up.                                   *)
LEMMA GivenUp ==
    ASSUME EachFlightOK, NEW out \in SUBSET flights, GiveUp(out)
    PROVE  /\ \A g \in flights' :
                \/ g \in flights \ out
                \/ \E f \in out : ~Answered(f) /\ g = [f EXCEPT !.stage = "adrift"]
           /\ flights \ out \subseteq flights'
           /\ \A g \in flights' : FlightOK(g)
           /\ \A g \in flights' : g.stage # "adrift" => g \in flights \ out
<1>1. PICK late \in SUBSET {f \in out : ~Answered(f)} :
        flights' = (flights \ out) \cup {[f EXCEPT !.stage = "adrift"] : f \in late}
  BY DEF GiveUp
<1>2. \A g \in flights' : \/ g \in flights \ out
                          \/ \E f \in out : ~Answered(f) /\ g = [f EXCEPT !.stage = "adrift"]
  BY <1>1
<1>3. \A f \in out : ~Answered(f) => FlightOK([f EXCEPT !.stage = "adrift"])
  BY AdriftOK DEF EachFlightOK
<1>4. \A f \in out : [f EXCEPT !.stage = "adrift"].stage = "adrift"
  BY NewStage DEF EachFlightOK, FlightOK, Stages
<1> QED BY <1>1, <1>2, <1>3, <1>4 DEF EachFlightOK

(* A server error tells nothing.                                             *)
LEMMA FailedOK ==
    ASSUME NEW f, FlightOK(f), f.stage # "adrift"
    PROVE  FlightOK([f EXCEPT !.ans = Said("busy")])
<1> DEFINE a == Said("busy")
           g == [f EXCEPT !.ans = a]
<1>1. a \in Answer /\ a.st = "busy"
  BY Saying
<1> HIDE DEF a
<1>2. /\ g \in Flights /\ g.stage = f.stage /\ g.op = f.op /\ g.req = f.req /\ g.ans = a
      /\ f \in Flights
  BY <1>1, NewAnswer DEF FlightOK
<1> HIDE DEF g
<1>3. RequestOK(g)
  BY <1>2 DEF FlightOK, RequestOK
<1>4. AnswerOK(g)
  BY <1>1, <1>2 DEF AnswerOK, Fulfils
<1>5. TextOK(g)
  BY <1>1, <1>2 DEF TextOK, Answered
<1> QED BY <1>2, <1>3, <1>4, <1>5 DEF FlightOK, g, a

(* The words typed on a revision belong to note 1.                           *)
LEMMA TypingOf ==
    ASSUME TypeOK, Shape, IntentOK, NEW i \in Intents, IsText(i), intent[i].rev # NoRev
    PROVE  /\ RealNote(i) = 1 /\ Typing(i) = <<1, intent[i].rev>> /\ Typing(i) \in Typings
           /\ intent[i].rev \in Nat /\ Typing(i) # NoTyping /\ intent[i].rev <= notes[1].rev
           /\ 1 \in DOMAIN notes /\ intent[i].k = "text" /\ intent[i].words \in Nat
<1>1. intent[i].note = 1 /\ intent[i].rev <= notes[1].rev
  BY DEF IntentOK
<1>2. intent[i].rev \in Nat /\ intent[i].words \in Nat /\ 1 \in DOMAIN notes
  BY Basics DEF Intent, Revs
<1> QED BY <1>1, <1>2 DEF RealNote, Typing, NoTyping, Typings, IsText

(* The request for a copy.                                                   *)
LEMMA CopyRequested ==
    ASSUME TypeOK, Shape, IntentOK, NEW i \in Intents, NEW k \in Keys,
           IsText(i), intent[i].rev # NoRev
    PROVE  LET r == CopyRequest(i, k)
           IN  /\ r \in Requests /\ r.what = "create" /\ r.op = i /\ r.words = intent[i].words
               /\ r.key = k /\ r.typing = Typing(i) /\ r.typing # NoTyping /\ r.rev = NoRev
<1> DEFINE ty == Typing(i)
<1>1. ty \in Typings /\ ty # NoTyping /\ intent[i].words \in Nat /\ i \in Nat /\ intent[i].k = "text"
  BY TypingOf, Basics
<1>2. KeyOf(i) \in Keys /\ NoTyping \in Typings
  BY <1>1 DEF KeyOf, Keys, NoTyping, Typings, NoRev
<1> HIDE DEF ty
<1>3. CopyRequest(i, k) = [Request(i, 0, NoRev) EXCEPT !.what = "create", !.key = k, !.typing = ty]
  BY DEF CopyRequest, ty
<1> DEFINE q == Request(i, 0, NoRev)
<1>4. q \in Requests /\ q.words = intent[i].words /\ q.op = i /\ q.rev = NoRev
  BY <1>1, <1>2 DEF Request, Requests, NoRev
<1> HIDE DEF q
<1> DEFINE c == [q EXCEPT !.what = "create", !.key = k, !.typing = ty]
<1>5. /\ c \in Requests /\ c.what = "create" /\ c.op = q.op /\ c.words = q.words
      /\ c.key = k /\ c.typing = ty /\ c.rev = q.rev
  BY <1>1, <1>4 DEF Requests
<1>6. CopyRequest(i, k) = c
  BY <1>3 DEF q
<1> HIDE DEF c
<1> QED BY <1>1, <1>4, <1>5, <1>6 DEF ty

(* The request for a copy is a flight as it should be.                       *)
LEMMA CopyOK ==
    ASSUME TypeOK, Shape, IntentOK, NEW f, FlightOK(f), NEW k \in Keys, NEW g, g \in Flights,
           IsText(f.op), intent[f.op].rev # NoRev, g.stage \in {"copy", "fresh"}, g.op = f.op,
           g.req = CopyRequest(f.op, k), g.ans = NoAnswer
    PROVE  FlightOK(g)
<1>0. f.op \in Intents
  BY DEF FlightOK, RequestOK
<1>1. /\ g.req.what = "create" /\ g.req.op = f.op /\ g.req.words = intent[f.op].words
      /\ g.req.typing # NoTyping
  BY <1>0, CopyRequested
<1>2. g.ans.st = "none"
  BY Saying DEF NoAnswer
<1>3. RequestOK(g)
  BY <1>0, <1>1, <1>2 DEF RequestOK, IsText
<1>4. AnswerOK(g)
  BY <1>2 DEF AnswerOK, Fulfils
<1>5. TextOK(g)
  BY <1>1 DEF TextOK
<1> QED BY <1>3, <1>4, <1>5 DEF FlightOK

LEMMA KeptOK ==
    ASSUME TypeOK, Shape, IntentOK, NEW f, FlightOK(f), KeepText(f)
    PROVE  FlightOK([f EXCEPT !.stage = "copy", !.req = CopyRequest(f.op, f.key), !.ans = NoAnswer])
<1>1. /\ IsText(f.op) /\ intent[f.op].rev # NoRev /\ f.op \in Intents
      /\ f \in Flights /\ f.key \in Keys
  BY DEF FlightOK, KeepText, RequestOK, AnswerOK, Flights
<1> DEFINE r == CopyRequest(f.op, f.key)
           a == NoAnswer
           g == [f EXCEPT !.stage = "copy", !.req = r, !.ans = a]
<1>2. r \in Requests /\ a \in Answer
  BY <1>1, CopyRequested, Saying DEF NoAnswer
<1> HIDE DEF r, a
<1>3. g \in Flights /\ g.stage = "copy" /\ g.req = r /\ g.ans = a /\ g.op = f.op
  BY <1>1, <1>2 DEF Flights, Stages
<1> HIDE DEF g
<1>4. FlightOK(g)
  BY <1>1, <1>3, CopyOK DEF r, a
<1> QED BY <1>4 DEF g, r, a

LEMMA FreshOK ==
    ASSUME TypeOK, Shape, IntentOK, NEW f, FlightOK(f), NEW k \in Keys, CopyTaken(f)
    PROVE  FlightOK([f EXCEPT !.stage = "fresh", !.key = k, !.req = CopyRequest(f.op, k),
                              !.ans = NoAnswer])
<1>1. /\ IsText(f.op) /\ intent[f.op].rev # NoRev /\ f.op \in Intents /\ f \in Flights
  BY DEF FlightOK, CopyTaken, RequestOK
<1> DEFINE r == CopyRequest(f.op, k)
           a == NoAnswer
           g == [f EXCEPT !.stage = "fresh", !.key = k, !.req = r, !.ans = a]
<1>2. r \in Requests /\ a \in Answer
  BY <1>1, CopyRequested, Saying DEF NoAnswer
<1> HIDE DEF r, a
<1>3. g \in Flights /\ g.stage = "fresh" /\ g.req = r /\ g.ans = a /\ g.op = f.op
  BY <1>1, <1>2 DEF Flights, Stages
<1> HIDE DEF g
<1>4. FlightOK(g)
  BY <1>1, <1>3, CopyOK DEF r, a
<1> QED BY <1>4 DEF g, r, a

(* A copy is written at the revision at which it was seen to hold this       *)
(* device's words.                                                           *)
LEMMA UpdateOK ==
    ASSUME TypeOK, Shape, IntentOK, NEW f, FlightOK(f), UpdateCopy(f)
    PROVE  FlightOK([f EXCEPT !.stage = "update", !.ans = NoAnswer,
                              !.req = Request(f.op, f.ans.note, f.ans.rev)])
<1> DEFINE r == Request(f.op, f.ans.note, f.ans.rev)
           a == NoAnswer
           g == [f EXCEPT !.stage = "update", !.ans = a, !.req = r]
<1>1. /\ IsText(f.op) /\ intent[f.op].rev # NoRev /\ f.op \in Intents /\ f \in Flights
      /\ f.ans.st = "ok" /\ f.ans.body \in f.sent
  BY DEF FlightOK, UpdateCopy, HoldsEarlierWords, RequestOK
<1>2. /\ f.ans.note \in DOMAIN notes /\ f.ans.rev <= notes[f.ans.note].rev
      /\ f.ans.rev = notes[f.ans.note].rev => notes[f.ans.note].body = f.ans.body
  BY <1>1 DEF FlightOK, AnswerOK
<1>3. f.ans.body \in Nat /\ f.ans.rev \in Nat /\ f.ans.note \in Nat /\ f.key \in Keys
  BY <1>1 DEF Flights, Answer
<1>4. f.op \in Nat /\ intent[f.op].words \in Nat /\ intent[f.op].k = "text"
  BY <1>1, TypingOf, Basics
<1>5. /\ r \in Requests /\ r.what = "text" /\ r.note = f.ans.note /\ r.rev = f.ans.rev
      /\ r.op = f.op /\ r.words = intent[f.op].words /\ r.typing = NoTyping /\ r.key = KeyOf(f.op)
  BY <1>3, <1>4 DEF Request, Requests, KeyOf, Keys, NoTyping, Typings, NoRev
<1>6. a \in Answer /\ a.st = "none"
  BY Saying DEF NoAnswer
<1> HIDE DEF r, a
<1>7. g \in Flights /\ g.stage = "update" /\ g.req = r /\ g.ans = a /\ g.op = f.op
  BY <1>1, <1>3, <1>5, <1>6 DEF Flights, Stages
<1> HIDE DEF g
<1>8. RequestOK(g)
  BY <1>1, <1>2, <1>5, <1>7 DEF RequestOK, IsText
<1>9. AnswerOK(g)
  BY <1>6, <1>7 DEF AnswerOK, Fulfils
<1>10. TextOK(g)
  BY <1>2, <1>3, <1>5, <1>7 DEF TextOK, Ours
<1> QED BY <1>7, <1>8, <1>9, <1>10 DEF FlightOK, g, r, a
(* The answer to a request is true.                                          *)
LEMMA ServedOK ==
    ASSUME TypeOK, Shape, IntentOK, KeysOK, Later, NEW f, FlightOK(f), f.stage # "adrift",
           notes' = Handle(f.req).notes,
           Fulfils(Handle(f.req).ans, f.req) => f.op \in seen'.applied,
           NEW g, g = [f EXCEPT !.ans = Handle(f.req).ans]
    PROVE  FlightOK(g)' /\ g.stage = f.stage /\ g.op = f.op /\ g.tab = f.tab /\ Answered(g)
<1> DEFINE r == f.req
           h == Handle(r)
           a == h.ans
<1>0. /\ f \in Flights /\ r \in Requests /\ RequestOK(f) /\ RequestOK(f)'
      /\ r.what # "create" => r.note \in DOMAIN notes
  BY FlightLater DEF FlightOK, Flights, RequestOK
<1>1. /\ Len(notes) \in Nat /\ DOMAIN notes = 1 .. Len(notes)
      /\ \A n \in DOMAIN notes : notes[n] \in NoteRecords /\ n \in Nat
  BY Basics
<1>2. /\ a \in Answer /\ a.st # "none"
      /\ a.st \in {"ok", "stale"} =>
           /\ a.note \in DOMAIN notes' /\ a.rev = notes'[a.note].rev /\ a.body = notes'[a.note].body
           /\ r.what # "create" => a.note = r.note
      /\ a.st = "ok" /\ r.what = "create" => notes'[a.note].key = r.key
      /\ a.st = "ok" /\ r.what = "text" => a.body = r.words /\ a.rev >= 1
      /\ a.st = "stale" => r.what = "text" /\ r.rev # NoRev
  <2>0. notes' = h.notes
    OBVIOUS
  <2> HIDE DEF h, r
  <2>1. CASE Refusal(r, h)
    <3>1. PICK s \in {"gone", "refused"} : a = Said(s)
      BY <2>1 DEF Refusal
    <3>2. a \in Answer /\ a.st = s
      BY <3>1, Saying
    <3> QED BY <3>1, <3>2
  <2>2. CASE Conflict(r, h)
    <3>1. a = Shows("stale", r.note, notes[r.note]) /\ r.what = "text" /\ r.rev # NoRev /\ notes' = notes
      BY <2>0, <2>2 DEF Conflict
    <3>2. notes[r.note] \in NoteRecords /\ r.note \in Nat /\ r.note \in DOMAIN notes
      BY <1>0, <1>1, <3>1
    <3>3. a \in Answer /\ a.st = "stale" /\ a.note = r.note /\ a.body = notes[r.note].body /\ a.rev = notes[r.note].rev
      BY <3>1, <3>2 DEF Shows, Answer, NoteRecords
    <3> QED BY <3>1, <3>2, <3>3
  <2>3. CASE Repeat(r, h)
    <3>1. PICK n \in DOMAIN notes : notes[n].key = r.key /\ a = Shows("ok", n, notes[n])
      BY <2>3 DEF Repeat
    <3>2. notes' = notes /\ r.what = "create" /\ notes[n] \in NoteRecords /\ n \in Nat
      BY <1>1, <2>0, <2>3 DEF Repeat
    <3>3. a \in Answer /\ a.st = "ok" /\ a.note = n /\ a.body = notes[n].body /\ a.rev = notes[n].rev
      BY <3>1, <3>2 DEF Shows, Answer, NoteRecords
    <3> QED BY <3>1, <3>2, <3>3
  <2>4. CASE Insertion(r, h)
    <3> DEFINE w == NewNote(r)
               n == Len(notes) + 1
    <3>1. w \in NoteRecords /\ w.key = r.key
      BY <1>0, FreshNote DEF r
    <3>2. r.what = "create" /\ notes' = Append(notes, w) /\ a = Shows("ok", n, w)
      BY <2>0, <2>4 DEF Insertion
    <3> HIDE DEF w
    <3>3. n \in DOMAIN notes' /\ notes'[n] = w /\ n \in Nat
      BY <1>1, <3>1, <3>2, AppendProperties DEF Shape
    <3> HIDE DEF n
    <3>4. a \in Answer /\ a.st = "ok" /\ a.note = n /\ a.body = w.body /\ a.rev = w.rev
      BY <3>1, <3>2, <3>3 DEF Shows, Answer, NoteRecords
    <3> QED BY <3>1, <3>2, <3>3, <3>4
  <2>5. CASE Change(r, h)
    <3> DEFINE n == r.note
               w == Written(notes[n], r)
    <3>1. n \in DOMAIN notes /\ n \in Nat /\ notes[n] \in NoteRecords /\ r.what # "create"
      BY <1>0, <1>1, <2>5 DEF Change, r
    <3>2. w \in NoteRecords /\ (r.what = "text" => w.body = r.words /\ w.rev = notes[n].rev + 1)
      BY <1>0, <3>1, WrittenNote DEF r
    <3>3. notes' = [notes EXCEPT ![n] = w] /\ a = Shows("ok", n, w)
      BY <2>0, <2>5 DEF Change
    <3> HIDE DEF w, n
    <3>4. n \in DOMAIN notes' /\ notes'[n] = w
      BY <3>1, <3>3
    <3>5. a \in Answer /\ a.st = "ok" /\ a.note = n /\ a.body = w.body /\ a.rev = w.rev
      BY <3>1, <3>2, <3>3 DEF Shows, Answer, NoteRecords
    <3>6. notes[n].rev + 1 >= 1
      BY <3>1 DEF NoteRecords
    <3> QED BY <3>1, <3>2, <3>4, <3>5, <3>6 DEF n
  <2> QED BY <1>0, <2>1, <2>2, <2>3, <2>4, <2>5, Handling DEF h, r
<1>3. Fulfils(a, r) => f.op \in seen'.applied
  OBVIOUS
<1> HIDE DEF a, h, r
<1>4. g \in Flights /\ g.stage = f.stage /\ g.op = f.op /\ g.tab = f.tab /\ g.req = r /\ g.ans = a
  <2>1. g = [f EXCEPT !.ans = a]
    BY DEF a, h, r
  <2> QED BY <1>0, <1>2, <2>1 DEF Flights, r
<1>5. RequestOK(g)'
  BY <1>0, <1>4 DEF RequestOK, r
<1>6. AnswerOK(g)'
  <2>1. a.st \in {"ok", "stale"} => a.rev <= notes'[a.note].rev
    BY <1>2 DEF Answer
  <2> QED BY <1>2, <1>3, <1>4, <2>1 DEF AnswerOK, Fulfils
<1>7. TextOK(g)'
  BY <1>2, <1>4 DEF TextOK, Answered
<1> QED BY <1>2, <1>4, <1>5, <1>6, <1>7 DEF FlightOK, Answered

(* A change is sent as the user made it.                                     *)
LEMMA SentOK ==
    ASSUME TypeOK, Shape, NEW t \in Tabs, NEW a \in Acts(t), Act(t, a), a.note >= 0,
           DOMAIN notes \subseteq DOMAIN notes',
           NEW g, NEW i, i = Len(intent) + 1,
           g = [tab |-> t, op |-> i, stage |-> "inline", ans |-> NoAnswer, key |-> KeyOf(i),
                sent |-> {}, req |-> [what |-> a.k, note |-> a.note, words |-> a.words,
                                      rev |-> a.rev, key |-> KeyOf(i), op |-> i,
                                      typing |-> NoTyping]]
    PROVE  FlightOK(g)' /\ g.stage = "inline" /\ g.op = i /\ g.tab = t /\ ~Answered(g)
<1>1. /\ a \in Intent /\ i \in Intents' /\ i \in Nat /\ intent'[i] = a
      /\ a.k = "create" => a.note = 0
      /\ a.k # "create" /\ a.note >= 0 => a.note \in DOMAIN notes
  BY Acting, Basics
<1>2. /\ a.k \in {"create", "edit", "text"} /\ a.note \in Nat /\ a.words \in Nat /\ a.rev \in Int
  <2>1. a.k \in Kinds /\ a.note \in Int /\ a.words \in Nat /\ a.rev \in Revs
    BY <1>1 DEF Intent
  <2>2. a.k \in {"create", "edit", "text"}
    BY <2>1, OutboxAssumption
  <2>3. a.note \in Nat /\ a.rev \in Int
    BY <2>1 DEF Revs, NoRev
  <2> QED BY <2>1, <2>2, <2>3
<1>3. KeyOf(i) \in Keys /\ NoTyping \in Typings
  BY <1>1 DEF KeyOf, Keys, NoTyping, Typings, NoRev
<1>4. NoAnswer \in Answer /\ NoAnswer.st = "none"
  BY Saying DEF NoAnswer
<1> DEFINE r == [what |-> a.k, note |-> a.note, words |-> a.words, rev |-> a.rev, key |-> KeyOf(i),
                 op |-> i, typing |-> NoTyping]
<1>5. /\ r \in Requests /\ r.what = a.k /\ r.note = a.note /\ r.words = a.words /\ r.rev = a.rev
      /\ r.key = KeyOf(i) /\ r.op = i /\ r.typing = NoTyping
  BY <1>1, <1>2, <1>3 DEF Requests
<1>6. g = [tab |-> t, op |-> i, stage |-> "inline", ans |-> NoAnswer, key |-> KeyOf(i), sent |-> {},
           req |-> r]
  OBVIOUS
<1> HIDE DEF r
<1>7. g \in Flights /\ g.stage = "inline" /\ g.op = i /\ g.tab = t /\ g.req = r /\ g.ans = NoAnswer
  BY <1>1, <1>3, <1>4, <1>5, <1>6 DEF Flights, Stages
<1>8. RequestOK(g)'
  <2>1. Resolvable(i)' /\ RealNote(i)' = a.note
    BY <1>1, <1>2 DEF Resolvable, RealNote
  <2>2. IsText(i)' <=> a.k = "text"
    BY <1>1 DEF IsText
  <2> QED BY <1>1, <1>2, <1>5, <1>7, <2>1, <2>2 DEF RequestOK, KeyOf, NoTyping, NoRev
<1>9. AnswerOK(g)'
  BY <1>4, <1>7 DEF AnswerOK, Fulfils
<1>10. TextOK(g)'
  BY <1>1, <1>5, <1>7 DEF TextOK
<1> QED BY <1>4, <1>7, <1>8, <1>9, <1>10 DEF FlightOK, Answered

(* The keys of copies.                                                       *)
LEMMA CopyKeys ==
    ASSUME TypeOK, Shape, NEW i \in Intents
    PROVE  CopyKey(i) \in Keys /\ CopySent(i) \in SUBSET Nat
<1>1. \A c \in CopyOf(i) : c.key \in Keys /\ c.sent \in SUBSET Nat
  BY DEF CopyOf, Shape
<1>2. KeyOf(i) \in Keys
  BY Basics DEF KeyOf, Keys
<1>3. CopyKey(i) \in Keys
  BY <1>1, <1>2 DEF CopyKey
<1>4. CopySent(i) \in SUBSET Nat
  BY <1>1 DEF CopySent
<1> QED BY <1>3, <1>4

(* What is replayed is what the user did, of the note it means, on a revision *)
(* that the user saw or that this device has made since.                     *)
HeadRev(t, i) ==
    IF HasTyping(i) THEN RebaseOnOwnRevs(revs \cup tab[t].live, RealNote(i), intent[i].rev)
    ELSE intent[i].rev

LEMMA HeadOK ==
    ASSUME TypeOK, Shape, IntentOK, OwnOK, NEW t \in Tabs, NEW i \in Intents, Resolvable(i),
           NEW s, s = "op", NEW rev, NEW g, g = Flight(t, i, s, Request(i, RealNote(i), rev)),
           rev = HeadRev(t, i)
    PROVE  FlightOK(g) /\ g.stage = "op" /\ g.op = i /\ g.tab = t /\ ~Answered(g)
<1>1. i \in Nat /\ intent[i] \in Intent /\ intent[i].rev \in Int /\ intent[i].words \in Nat
  BY Basics DEF Intent, Revs, NoRev
<1>2. intent[i].k \in {"create", "edit", "text"}
  BY <1>1, OutboxAssumption DEF Intent
<1>3. /\ rev \in Int
      /\ rev = intent[i].rev \/ (HasTyping(i) /\ rev \in Nat /\ Ours(RealNote(i), rev))
  <2>1. CASE HasTyping(i)
    <3> DEFINE own == revs \cup tab[t].live
    <3>1. RealNote(i) = 1 /\ intent[i].rev \in Nat /\ intent[i].rev <= notes[1].rev /\ notes[1].rev \in Nat
      BY <2>1, TypingOf, Basics DEF HasTyping, NoteRecords
    <3>2. \A w \in own : w \in Own /\ w[2] \in Nat /\ w[3] \in Nat
      BY SMTT(30) DEF Own, TypeOK, Shape, Pages
    <3>3. \A w \in own : Ours(w[1], w[3])
      BY <3>2 DEF OwnOK
    <3>4. \A w \in own : w[1] = 1 => w[3] <= notes[1].rev
      BY <3>3 DEF Ours
    <3>5. rev = RebaseOnOwnRevs(own, 1, intent[i].rev)
      BY <2>1, <3>1 DEF HeadRev
    <3> HIDE DEF own
    <3> DEFINE r == intent[i].rev
               B == notes[1].rev
    <3>6. r \in Nat /\ B \in Nat /\ r <= B /\ \A w \in own : w[2] \in Nat /\ w[3] \in Nat
      BY <3>1, <3>2
    <3>7. \A w \in own : w[1] = 1 => w[3] <= B
      BY <3>4
    <3> HIDE DEF r, B
    <3>8. /\ RebaseOnOwnRevs(own, 1, r) \in Nat
          /\ \/ RebaseOnOwnRevs(own, 1, r) = r
             \/ \E w \in own : w[1] = 1 /\ w[3] = RebaseOnOwnRevs(own, 1, r)
      BY <3>6, <3>7, Rebased
    <3>9. rev \in Nat /\ (rev = intent[i].rev \/ \E w \in own : w[1] = 1 /\ w[3] = rev)
      BY <3>5, <3>8 DEF r
    <3>10. rev = intent[i].rev \/ Ours(1, rev)
      BY <3>3, <3>9
    <3> QED BY <2>1, <3>1, <3>9, <3>10
  <2>2. CASE ~HasTyping(i)
    BY <1>1, <2>2 DEF HeadRev
  <2> QED BY <2>1, <2>2
<1> DEFINE r == Request(i, RealNote(i), rev)
           n == RealNote(i)
<1>4. n \in Nat /\ (intent[i].k # "create" => n \in DOMAIN notes)
  BY Resolution
<1>5. KeyOf(i) \in Keys /\ NoTyping \in Typings
  BY <1>1 DEF KeyOf, Keys, NoTyping, Typings, NoRev
<1>6. /\ r \in Requests /\ r.what = intent[i].k /\ r.note = n /\ r.words = intent[i].words
      /\ r.rev = rev /\ r.key = KeyOf(i) /\ r.op = i /\ r.typing = NoTyping
  <2> HIDE DEF n
  <2>1. r = [what |-> intent[i].k, note |-> n, words |-> intent[i].words, rev |-> rev,
             key |-> KeyOf(i), op |-> i, typing |-> NoTyping]
    BY DEF Request, n
  <2> QED BY <1>1, <1>2, <1>3, <1>4, <1>5, <2>1 DEF Requests
<1>7. NoAnswer \in Answer /\ NoAnswer.st = "none"
  BY Saying DEF NoAnswer
<1> HIDE DEF r
<1>8. g \in Flights /\ g.stage = "op" /\ g.op = i /\ g.tab = t /\ g.req = r /\ g.ans = NoAnswer
  <2>1. g = [tab |-> t, op |-> i, stage |-> s, req |-> r, ans |-> NoAnswer,
             key |-> CopyKey(i), sent |-> CopySent(i)]
    BY DEF Flight, r
  <2>2. CopyKey(i) \in Keys /\ CopySent(i) \in SUBSET Nat
    BY CopyKeys
  <2>3. PICK k \in Keys, S \in SUBSET Nat : k = CopyKey(i) /\ S = CopySent(i)
    BY <2>2
  <2>4. g = [tab |-> t, op |-> i, stage |-> s, req |-> r, ans |-> NoAnswer, key |-> k, sent |-> S]
    BY <2>1, <2>3
  <2>5. r \in Requests /\ NoAnswer \in Answer /\ i \in Nat
    BY <1>1, <1>6, <1>7
  <2>6. s \in Stages
    BY DEF Stages
  <2>7. /\ g \in Flights /\ g.stage = s /\ g.op = i /\ g.tab = t /\ g.req = r /\ g.ans = NoAnswer
    BY <2>4, <2>5, <2>6, NewFlight
  <2> QED BY <2>7
<1>9. RequestOK(g)
  BY <1>3, <1>4, <1>6, <1>8 DEF RequestOK, IsText, HasTyping
<1>10. AnswerOK(g)
  BY <1>7, <1>8 DEF AnswerOK, Fulfils
<1>11. TextOK(g)
  BY <1>3, <1>6, <1>8 DEF TextOK
<1> QED BY <1>7, <1>8, <1>9, <1>10, <1>11 DEF FlightOK, Answered
-----------------------------------------------------------------------------
(* How the flights change.                                                   *)

\* A flight goes on as another one; flights end, or go adrift.
Replaced(f, g) ==
    /\ flights' = (flights \ {f}) \cup {g} /\ g.op = f.op /\ g.tab = f.tab
    /\ f.stage = "inline" <=> g.stage = "inline"
    /\ f.stage # "adrift" /\ g.stage # "adrift"
Dropped(out) ==
    /\ flights \ out \subseteq flights'
    /\ \A g \in flights' : g \in flights \ out \/ g.stage = "adrift"
FlightsFine == \A g \in flights' : FlightOK(g)'

LEMMA Parts ==
    ASSUME IInv
    PROVE  /\ TypeOK /\ Shape /\ IntentOK /\ KeysOK /\ MadeOK /\ OwnOK /\ FlightsOK
           /\ EachFlightOK
BY DEF IInv, EachFlightOK, FlightsOK, FlightOK, Shape

LEMMA OKLater ==
    ASSUME IInv, Later, NEW f, FlightOK(f)
    PROVE  FlightOK(f)'
<1>1. RequestOK(f)' /\ AnswerOK(f)' /\ TextOK(f)'
  BY Parts, FlightLater DEF FlightOK
<1> QED BY <1>1 DEF FlightOK, Flights

LEMMA FinerFlights ==
    ASSUME IInv, Later, \A g \in flights' : g \in flights \/ FlightOK(g)'
    PROVE  FlightsFine
BY Parts, OKLater DEF FlightsFine, EachFlightOK

LEMMA Replacing ==
    ASSUME IInv, Next, NEW f \in flights,
           \/ Serve(f) /\ f.stage # "adrift"
           \/ Fail(f) \/ KeepText(f) \/ UpdateCopy(f) \/ FreshCopy(f)
    PROVE  FlightsFine /\ \E g : Replaced(f, g) /\ (Serve(f) \/ Fail(f) => Answered(g))
<1>0. TypeOK /\ Shape /\ IntentOK /\ KeysOK /\ FlightOK(f) /\ Later
  BY Parts, StepLater DEF EachFlightOK
<1>1. ASSUME NEW g, Replaced(f, g), FlightOK(g)'
      PROVE  FlightsFine
  <2>1. \A h \in flights' : h \in flights \/ h = g
    BY <1>1 DEF Replaced
  <2> QED BY <1>0, <1>1, <2>1, FinerFlights
<1>2. CASE Serve(f) /\ f.stage # "adrift"
  <2>1. PICK g : g = [f EXCEPT !.ans = Handle(f.req).ans]
    OBVIOUS
  <2>2. notes' = Handle(f.req).notes /\ flights' = (flights \ {f}) \cup {g}
    BY <1>2, <2>1 DEF Serve, Swap
  <2>3. Fulfils(Handle(f.req).ans, f.req) => f.op \in seen'.applied
    BY <1>0, <1>2 DEF Serve, Shape, Histories
  <2>4. FlightOK(g)' /\ g.stage = f.stage /\ g.op = f.op /\ g.tab = f.tab /\ Answered(g)
    BY <1>0, <1>2, <2>1, <2>2, <2>3, ServedOK
  <2>5. Replaced(f, g)
    BY <1>2, <2>2, <2>4 DEF Replaced
  <2> QED BY <1>1, <2>4, <2>5
<1>3. CASE Fail(f)
  <2>0. PICK g : g = [f EXCEPT !.ans = Said("busy")]
    OBVIOUS
  <2>1. f.stage # "adrift" /\ flights' = (flights \ {f}) \cup {g}
    BY <1>3, <2>0 DEF Fail, Swap
  <2>2. FlightOK(g)
    BY <1>0, <2>0, <2>1, FailedOK
  <2>3. g.stage = f.stage /\ g.op = f.op /\ g.tab = f.tab /\ Answered(g)
    <3> DEFINE a == Said("busy")
    <3>1. a \in Answer /\ a.st = "busy"
      BY Saying
    <3> HIDE DEF a
    <3>2. g = [f EXCEPT !.ans = a]
      BY <2>0 DEF a
    <3> QED BY <1>0, <3>1, <3>2 DEF FlightOK, Flights, Answered
  <2>4. Replaced(f, g) /\ FlightOK(g)'
    BY <1>0, <2>1, <2>2, <2>3, OKLater DEF Replaced
  <2> QED BY <1>1, <2>3, <2>4
<1>4. CASE KeepText(f)
  <2>0. PICK g : g = [f EXCEPT !.stage = "copy", !.req = CopyRequest(f.op, f.key), !.ans = NoAnswer]
    OBVIOUS
  <2>1. f.stage = "op" /\ flights' = (flights \ {f}) \cup {g}
    BY <1>4, <2>0 DEF KeepText, Swap
  <2>2. FlightOK(g)
    BY <1>0, <1>4, <2>0, KeptOK
  <2>3. g.stage = "copy" /\ g.op = f.op /\ g.tab = f.tab
    BY <1>0, <2>0 DEF FlightOK, Flights
  <2>4. Replaced(f, g) /\ FlightOK(g)'
    BY <1>0, <2>1, <2>2, <2>3, OKLater DEF Replaced
  <2>5. ~Serve(f) /\ ~Fail(f)
    BY <1>4 DEF KeepText, Serve, Fail, Answered
  <2> QED BY <1>1, <2>4, <2>5
<1>5. CASE UpdateCopy(f)
  <2>0. PICK g : g = [f EXCEPT !.stage = "update", !.ans = NoAnswer,
                               !.req = Request(f.op, f.ans.note, f.ans.rev)]
    OBVIOUS
  <2>1. f.stage = "copy" /\ flights' = (flights \ {f}) \cup {g}
    BY <1>5, <2>0 DEF UpdateCopy, Swap
  <2>2. FlightOK(g)
    BY <1>0, <1>5, <2>0, UpdateOK
  <2>3. g.stage = "update" /\ g.op = f.op /\ g.tab = f.tab
    BY <1>0, <2>0 DEF FlightOK, Flights
  <2>4. Replaced(f, g) /\ FlightOK(g)'
    BY <1>0, <2>1, <2>2, <2>3, OKLater DEF Replaced
  <2>5. ~Serve(f) /\ ~Fail(f)
    BY <1>5 DEF UpdateCopy, HoldsEarlierWords, Serve, Fail, Answered
  <2> QED BY <1>1, <2>4, <2>5
<1>6. CASE FreshCopy(f)
  <2>1. PICK k : k = <<f.op, minted + 1>>
    OBVIOUS
  <2>0. PICK g : g = [f EXCEPT !.stage = "fresh", !.key = k, !.req = CopyRequest(f.op, k), !.ans = NoAnswer]
    OBVIOUS
  <2>2. CopyTaken(f) /\ flights' = (flights \ {f}) \cup {g}
    BY <1>6, <2>0, <2>1 DEF FreshCopy, Swap
  <2>3. k \in Keys
    BY <1>0, <2>1 DEF FlightOK, Flights, Shape, Keys
  <2>4. FlightOK(g)
    BY <1>0, <2>0, <2>2, <2>3, FreshOK
  <2>5. g.stage = "fresh" /\ g.op = f.op /\ g.tab = f.tab
    BY <1>0, <2>0 DEF FlightOK, Flights
  <2>6. Replaced(f, g) /\ FlightOK(g)'
    BY <1>0, <2>2, <2>4, <2>5, OKLater DEF Replaced, CopyTaken
  <2>7. ~Serve(f) /\ ~Fail(f)
    BY <2>2 DEF CopyTaken, Serve, Fail, Answered
  <2> QED BY <1>1, <2>6, <2>7
<1> QED BY <1>2, <1>3, <1>4, <1>5, <1>6

\* The steps after which a flight is over.
Ends(f) ==
    \/ Serve(f) /\ f.stage = "adrift"
    \/ InlineDone(f) \/ InlineRefused(f) \/ InlineLost(f)
    \/ Landed(f) \/ ReplayBusy(f) \/ ReplayRefused(f) \/ ReplayLost(f)

LEMMA Ending ==
    ASSUME IInv, Next, NEW f \in flights, Ends(f)
    PROVE  FlightsFine /\ Dropped({f})
<1>0. EachFlightOK /\ Later
  BY Parts, StepLater
<1>1. CASE flights' = (flights \ {f}) \cup {}
  BY <1>0, <1>1, FinerFlights DEF Dropped
<1>2. CASE GiveUp({f})
  <2>1. /\ \A g \in flights' : FlightOK(g)
        /\ flights \ {f} \subseteq flights'
        /\ \A g \in flights' : g.stage # "adrift" => g \in flights \ {f}
    BY <1>0, <1>2, GivenUp
  <2> QED BY <1>0, <2>1, OKLater DEF Dropped, FlightsFine
<1> QED BY <1>1, <1>2
        DEF Ends, Serve, InlineDone, InlineRefused, InlineLost, Landed, ReplayLanded, AlreadyThere,
            CopyMade, CopyUpdated, Land, ReplayBusy, ReplayRefused, ReplayLost, Swap

LEMMA Closing ==
    ASSUME IInv, Next, NEW t \in Tabs, Close(t)
    PROVE  FlightsFine /\ Dropped({f \in flights : f.tab = t /\ f.stage # "adrift"})
<1> DEFINE out == {f \in flights : f.tab = t /\ f.stage # "adrift"}
<1>0. EachFlightOK /\ Later
  BY Parts, StepLater
<1>1. GiveUp(out) /\ out \in SUBSET flights
  BY DEF Close
<1> HIDE DEF out
<1>2. /\ \A g \in flights' : FlightOK(g)
      /\ flights \ out \subseteq flights'
      /\ \A g \in flights' : g.stage # "adrift" => g \in flights \ out
  BY <1>0, <1>1, GivenUp
<1> QED BY <1>0, <1>2, OKLater DEF Dropped, FlightsFine, out

LEMMA Sending ==
    ASSUME IInv, Next, NEW t \in Tabs, NEW a \in Acts(t), Act(t, a)
    PROVE  /\ FlightsFine
           /\ \/ /\ flights' = flights /\ MustQueue(t, a)
                 /\ queue' = Enqueue(intent', queue, Len(intent) + 1)
                 /\ Sees(t, queue')
                 /\ seen' = [Overlapping EXCEPT !.queued = @ \cup {Len(intent) + 1}]
              \/ /\ \E g : /\ flights' = flights \cup {g} /\ g.stage = "inline"
                           /\ g.op = Len(intent) + 1 /\ g.tab = t /\ ~Answered(g)
                 /\ ~MustQueue(t, a)
                 /\ seen' = [Overlapping EXCEPT !.overtook = @ \/ (queue # <<>> /\ Unaware(t))]
                 /\ UNCHANGED <<queue, tab>>
<1>0. TypeOK /\ Shape /\ Later
  BY Parts, StepLater
<1> DEFINE i == Len(intent) + 1
<1>1. CASE /\ flights' = flights /\ MustQueue(t, a)
           /\ queue' = Enqueue(intent', queue, i)
           /\ Sees(t, queue')
           /\ seen' = [Overlapping EXCEPT !.queued = @ \cup {i}]
  <2>1. FlightsFine
    BY <1>0, <1>1, FinerFlights
  <2> QED BY <1>1, <2>1
<1>2. PICK g : g = [tab |-> t, op |-> i, stage |-> "inline", ans |-> NoAnswer, key |-> KeyOf(i),
                    sent |-> {}, req |-> [what |-> a.k, note |-> a.note, words |-> a.words,
                                          rev |-> a.rev, key |-> KeyOf(i), op |-> i,
                                          typing |-> NoTyping]]
  OBVIOUS
<1>3. CASE /\ flights' = flights \cup {g} /\ ~MustQueue(t, a)
           /\ seen' = [Overlapping EXCEPT !.overtook = @ \/ (queue # <<>> /\ Unaware(t))]
           /\ UNCHANGED <<queue, tab>>
  <2>1. a.note >= 0
    <3>1. a \in Intent
      BY <1>0, Acting
    <3> QED BY <1>3, <3>1 DEF MustQueue, Intent
  <2>2. DOMAIN notes \subseteq DOMAIN notes'
    BY <1>0 DEF Later, Grown
  <2>3. FlightOK(g)' /\ g.stage = "inline" /\ g.op = i /\ g.tab = t /\ ~Answered(g)
    BY <1>0, <1>2, <2>1, <2>2, SentOK
  <2>4. FlightsFine
    BY <1>0, <1>3, <2>3, FinerFlights
  <2> QED BY <1>3, <2>3, <2>4
<1> QED BY <1>1, <1>2, <1>3 DEF Act

LEMMA Replaying ==
    ASSUME IInv, Next, NEW t \in Tabs, ReplayHead(t)
    PROVE  /\ FlightsFine /\ AtHead(t) /\ queue # <<>>
           /\ \E g : /\ flights' = flights \cup {g} /\ g.stage = "op" /\ g.op = Head(queue)
                     /\ g.tab = t /\ ~Answered(g)
<1>0. TypeOK /\ Shape /\ IntentOK /\ OwnOK /\ Later
  BY Parts, StepLater
<1>1. AtHead(t) /\ queue # <<>> /\ ~Doomed(Head(queue))
  BY DEF ReplayHead
<1>2. PICK i : i = Head(queue)
  OBVIOUS
<1>3. PICK rev : rev = HeadRev(t, i)
  OBVIOUS
<1>4. PICK s, g : s = "op" /\ g = Flight(t, i, s, Request(i, RealNote(i), rev))
  OBVIOUS
<1>5. flights' = flights \cup {g}
  BY <1>2, <1>3, <1>4 DEF ReplayHead, HeadRev
<1>6. i \in Intents /\ Resolvable(i)
  BY <1>0, <1>1, <1>2, Basics DEF Doomed
<1>7. FlightOK(g) /\ g.stage = "op" /\ g.op = i /\ g.tab = t /\ ~Answered(g)
  BY <1>0, <1>3, <1>4, <1>6, HeadOK
<1>8. FlightOK(g)'
  BY <1>0, <1>7, OKLater
<1>9. FlightsFine
  BY <1>0, <1>5, <1>8, FinerFlights
<1> QED BY <1>1, <1>2, <1>5, <1>7, <1>9

(* Every flight is as it should be after every step.                         *)
LEMMA FlightsStep ==
    ASSUME IInv, Next
    PROVE  FlightsOK' /\ flights' \subseteq Flights
<1>0. Later
  BY Parts, StepLater
<1>1. ASSUME flights' = flights PROVE FlightsFine
  BY <1>0, <1>1, FinerFlights
<1>2. FlightsFine
  BY <1>1, Replacing, Ending, Closing, Sending, Replaying
     DEF Next, Open, Load, Replay, StartReplay, ReplayEmpty, ReplayDoomed, Settle, Ends, Landed,
         Refetch, Disconnect, Reconnect, Foreign, ForgetKey
<1>3. \A g \in flights' : g \in Flights /\ RequestOK(g)' /\ AnswerOK(g)' /\ TextOK(g)'
  BY <1>2 DEF FlightsFine, FlightOK, Flights
<1> QED BY <1>3 DEF FlightsOK
-----------------------------------------------------------------------------
(* How the queue changes.                                                    *)

Waits(q, i) == \E p \in DOMAIN q : q[p] = i
Once(q) == \A p, r \in DOMAIN q : q[p] = q[r] => p = r

\* w is q with some places left out, in the same order.
Thinned(w, q) ==
    /\ \A p \in DOMAIN w : Waits(q, w[p])
    /\ \A p, r \in DOMAIN w : p < r =>
         \E a, b \in DOMAIN q : a < b /\ q[a] = w[p] /\ q[b] = w[r]

(* An intent leaves the queue, the others stay in their order.               *)
LEMMA Left ==
    ASSUME NEW S, NEW q \in Seq(S), Once(q), NEW i
    PROVE  LET w == Without(q, i)
           IN  /\ w \in Seq(S) /\ Once(w) /\ Thinned(w, q)
               /\ \A p \in DOMAIN q : q[p] # i => Waits(w, q[p])
               /\ q = <<>> => w = <<>>
<1> DEFINE w == Without(q, i)
           places == {p \in DOMAIN q : q[p] = i}
<1>0. Len(q) \in Nat /\ DOMAIN q = 1 .. Len(q) /\ \A p \in DOMAIN q : q[p] \in S
  BY ElementOfSeq, LenProperties
<1>1. CASE places = {}
  <2>1. w = q
    BY <1>1 DEF Without
  <2> HIDE DEF w
  <2>2. Thinned(q, q) /\ \A p \in DOMAIN q : Waits(q, q[p])
    BY DEF Thinned, Waits
  <2> QED BY <2>1, <2>2 DEF w
<1>2. CASE places # {}
  <2>1. PICK k : k = CHOOSE p \in places : TRUE
    OBVIOUS
  <2>2. k \in DOMAIN q /\ q[k] = i
    BY <1>2, <2>1
  <2>3. w = [p \in 1 .. Len(q) - 1 |-> IF p < k THEN q[p] ELSE q[p + 1]]
    BY <1>2, <2>1 DEF Without
  <2> HIDE DEF w
  <2>4. Len(q) - 1 \in Nat /\ k \in 1 .. Len(q)
    BY <1>0, <2>2
  <2>5. /\ DOMAIN w = 1 .. Len(q) - 1
        /\ \A p \in DOMAIN w : /\ p < k => p \in DOMAIN q /\ w[p] = q[p]
                               /\ ~(p < k) => p + 1 \in DOMAIN q /\ w[p] = q[p + 1]
    BY <1>0, <2>3, <2>4
  <2>6. w \in Seq(S)
    <3>1. \A p \in 1 .. Len(q) - 1 : w[p] \in S
      BY <1>0, <2>5
    <3>2. w = [p \in 1 .. Len(q) - 1 |-> w[p]]
      BY <2>3
    <3> QED BY <2>4, <3>1, <3>2, IsASeq
  <2>7. ASSUME NEW p \in DOMAIN w, NEW r \in DOMAIN w, p < r
        PROVE  \E a, b \in DOMAIN q : a < b /\ q[a] = w[p] /\ q[b] = w[r]
    <3>1. p \in Int /\ r \in Int /\ k \in Int
      BY <2>4, <2>5
    <3>2. CASE r < k
      BY <2>5, <2>7, <3>1, <3>2
    <3>3. CASE p < k /\ ~(r < k)
      <4>1. p < r + 1
        BY <2>7, <3>1
      <4> QED BY <2>5, <3>3, <4>1
    <3>4. CASE ~(p < k)
      <4>1. p + 1 < r + 1 /\ ~(r < k)
        BY <2>7, <3>1, <3>4
      <4> QED BY <2>5, <3>4, <4>1
    <3> QED BY <3>2, <3>3, <3>4
  <2>8. ASSUME NEW p \in DOMAIN w
        PROVE  Waits(q, w[p])
    BY <2>5 DEF Waits
  <2>9. Once(w)
    <3> SUFFICES ASSUME NEW p \in DOMAIN w, NEW r \in DOMAIN w, w[p] = w[r], p < r
                 PROVE  FALSE
      BY <2>5 DEF Once
    <3>1. PICK a \in DOMAIN q, b \in DOMAIN q : a < b /\ q[a] = w[p] /\ q[b] = w[r]
      BY <2>7
    <3>2. a = b
      BY <3>1 DEF Once
    <3> QED BY <1>0, <3>1, <3>2
  <2>10. ASSUME NEW p \in DOMAIN q, q[p] # i
         PROVE  Waits(w, q[p])
    <3>1. p # k /\ p \in Int /\ k \in Int
      BY <1>0, <2>2, <2>10
    <3>2. CASE p < k
      <4>1. p \in DOMAIN w
        BY <1>0, <2>4, <2>5, <3>2
      <4> QED BY <2>5, <3>2, <4>1 DEF Waits
    <3>3. CASE ~(p < k)
      <4>1. p - 1 \in DOMAIN w /\ ~(p - 1 < k) /\ (p - 1) + 1 = p
        BY <1>0, <2>4, <2>5, <3>1, <3>3
      <4> QED BY <2>5, <4>1 DEF Waits
    <3> QED BY <3>2, <3>3
  <2>11. q # <<>>
    BY <2>2
  <2> QED BY <2>6, <2>7, <2>8, <2>9, <2>10, <2>11 DEF Thinned, w
<1> QED BY <1>1, <1>2

\* i has joined the queue q, at its end or in the place of another text of its note.
Joined(its, n, q, i) ==
    /\ n # <<>> /\ Once(n) /\ DOMAIN q \subseteq DOMAIN n /\ Waits(n, i)
    /\ \A p \in DOMAIN n : n[p] = i \/ (p \in DOMAIN q /\ n[p] = q[p])
    /\ \A p \in DOMAIN q : \/ n[p] = q[p]
                           \/ /\ n[p] = i /\ its[i].k = "text" /\ its[q[p]].k = "text"
                              /\ its[q[p]].note = its[i].note
    /\ its[i].k # "text" => \A p, r \in DOMAIN n : n[p] = i => r <= p

LEMMA Queued ==
    ASSUME NEW S, NEW q \in Seq(S), Once(q), NEW i \in S, ~Waits(q, i), NEW its
    PROVE  Enqueue(its, q, i) \in Seq(S) /\ Joined(its, Enqueue(its, q, i), q, i)
<1> DEFINE n == Enqueue(its, q, i)
           same == SameText(its, q, i)
<1>0. Len(q) \in Nat /\ DOMAIN q = 1 .. Len(q) /\ \A p \in DOMAIN q : q[p] \in S
  BY ElementOfSeq, LenProperties
<1>1. CASE same = {}
  <2>1. n = Append(q, i)
    BY <1>1 DEF Enqueue
  <2> HIDE DEF n
  <2>2. /\ n \in Seq(S) /\ Len(n) = Len(q) + 1 /\ n[Len(q) + 1] = i
        /\ \A p \in 1 .. Len(q) : n[p] = q[p]
    BY <2>1, AppendProperties
  <2>3. DOMAIN n = 1 .. Len(q) + 1 /\ n # <<>>
    BY <1>0, <2>2, LenProperties
  <2>4. \A p \in DOMAIN n : p = Len(q) + 1 \/ p \in DOMAIN q
    BY <1>0, <2>3
  <2>5. Once(n)
    BY <1>0, <2>2, <2>3, <2>4 DEF Once, Waits
  <2>6. \A p, r \in DOMAIN n : n[p] = i => r <= p
    <3>1. \A p \in DOMAIN n : n[p] = i => p = Len(q) + 1
      BY <1>0, <2>2, <2>4 DEF Waits
    <3> QED BY <1>0, <2>3, <3>1
  <2>7. Len(q) + 1 \in DOMAIN n /\ DOMAIN q \subseteq DOMAIN n
    BY <1>0, <2>3
  <2> QED BY <1>0, <2>2, <2>3, <2>4, <2>5, <2>6, <2>7 DEF Joined, Waits, n
<1>2. CASE same # {}
  <2>1. PICK k : k = CHOOSE p \in same : TRUE
    OBVIOUS
  <2>2. /\ k \in DOMAIN q /\ its[i].k = "text" /\ its[q[k]].k = "text"
        /\ its[q[k]].note = its[i].note
    BY <1>2, <2>1 DEF SameText
  <2>3. n = [q EXCEPT ![k] = i]
    BY <1>2, <2>1 DEF Enqueue
  <2> HIDE DEF n
  <2>4. n \in Seq(S) /\ DOMAIN n = DOMAIN q /\ \A p \in DOMAIN q : n[p] = IF p = k THEN i ELSE q[p]
    BY <1>0, <2>2, <2>3, ExceptSeq
  <2>5. n # <<>>
    BY <2>2, <2>4
  <2>6. Once(n)
    BY <2>4 DEF Once, Waits
  <2> QED BY <2>2, <2>4, <2>5, <2>6 DEF Joined, Waits, n
<1> QED BY <1>1, <1>2
-----------------------------------------------------------------------------
(* One replay at a time, by the page that holds the lock.                    *)

LEMMA Dropping ==
    ASSUME NEW out, Dropped(out)
    PROVE  /\ Replays' \subseteq Replays \ out
           /\ \A g \in flights' : g.stage = "inline" => g \in flights \ out
BY DEF Dropped, Replays

(* What ends is an inline flight, or the replay, or adrift.                  *)
LEMMA EndKinds ==
    ASSUME NEW f \in flights, Ends(f), IInv
    PROVE  /\ f.stage = "inline" <=> InlineDone(f) \/ InlineRefused(f) \/ InlineLost(f)
           /\ f \in Replays <=> Landed(f) \/ ReplayBusy(f) \/ ReplayRefused(f) \/ ReplayLost(f)
           /\ f \notin Replays => holder' = holder
<1>1. Landed(f) => f \in Replays
  BY Parts, Landing
<1> QED BY <1>1 DEF Ends, Serve, InlineDone, InlineRefused, InlineLost, ReplayBusy, ReplayRefused,
                    ReplayLost, Replays

LEMMA ReplaysStep ==
    ASSUME IInv, Next
    PROVE  (\A f, g \in Replays' : f = g) /\ \A f \in Replays' : f.tab = holder'
<1>0. /\ \A f, g \in Replays : f = g
      /\ \A f \in Replays : f.tab = holder /\ f.tab \in Tabs
      /\ NoTab \notin Tabs
  BY Parts, OutboxAssumption DEF IInv, ReplaysOK, TypeOK, Shape, Flights, Replays
<1>1. CASE flights' = flights /\ (holder' = holder \/ Replays = {})
  BY <1>0, <1>1 DEF Replays
<1>2. ASSUME NEW t \in Tabs, StartReplay(t)
      PROVE  flights' = flights /\ Replays = {}
  BY <1>0, <1>2 DEF StartReplay
<1>3. ASSUME NEW f \in flights, NEW g, Replaced(f, g), holder' = holder
      PROVE  (\A x, y \in Replays' : x = y) /\ \A x \in Replays' : x.tab = holder'
  <2>1. f \in Replays <=> g.stage # "inline"
    BY <1>3 DEF Replaced, Replays
  <2>2. \A x \in Replays' : x = g \/ (x \in Replays /\ x # f)
    BY <1>3 DEF Replaced, Replays
  <2>3. g \in Replays' => f \in Replays
    BY <2>1 DEF Replays
  <2> QED BY <1>0, <1>3, <2>2, <2>3 DEF Replaced
<1>4. ASSUME NEW f \in flights, Ends(f)
      PROVE  (\A x, y \in Replays' : x = y) /\ \A x \in Replays' : x.tab = holder'
  <2>1. Replays' \subseteq Replays \ {f}
    BY <1>4, Ending, Dropping
  <2>2. f \notin Replays => holder' = holder
    BY <1>4, EndKinds
  <2> QED BY <1>0, <2>1, <2>2
<1>5. ASSUME NEW t \in Tabs, Close(t)
      PROVE  (\A x, y \in Replays' : x = y) /\ \A x \in Replays' : x.tab = holder'
  <2> DEFINE out == {f \in flights : f.tab = t /\ f.stage # "adrift"}
  <2>1. Replays' \subseteq Replays \ out
    BY <1>5, Closing, Dropping
  <2>2. \A x \in Replays' : x \in Replays /\ x.tab # t
    BY <2>1 DEF Replays
  <2>3. holder' = IF holder = t THEN NoTab ELSE holder
    BY <1>5 DEF Close
  <2> QED BY <1>0, <2>2, <2>3
<1>6. ASSUME NEW t \in Tabs, NEW a \in Acts(t), Act(t, a)
      PROVE  (\A x, y \in Replays' : x = y) /\ \A x \in Replays' : x.tab = holder'
  <2>1. holder' = holder
    BY <1>6 DEF Act
  <2>2. Replays' = Replays
    BY <1>6, Sending DEF Replays
  <2> QED BY <1>0, <2>1, <2>2
<1>7. ASSUME NEW t \in Tabs, ReplayHead(t)
      PROVE  (\A x, y \in Replays' : x = y) /\ \A x \in Replays' : x.tab = holder'
  <2>1. holder' = holder /\ holder = t /\ Replays = {}
    BY <1>7 DEF ReplayHead, AtHead
  <2>2. PICK g : flights' = flights \cup {g} /\ g.tab = t
    BY <1>7, Replaying
  <2>3. \A x \in Replays' : x = g
    BY <2>1, <2>2 DEF Replays
  <2> QED BY <2>1, <2>2, <2>3
<1>8. ASSUME NEW f \in flights, Serve(f) \/ Fail(f) \/ KeepText(f) \/ UpdateCopy(f) \/ FreshCopy(f)
      PROVE  holder' = holder
  BY <1>8 DEF Serve, Fail, KeepText, UpdateCopy, FreshCopy
<1>9. ASSUME NEW f \in flights,
             \/ Serve(f) /\ f.stage # "adrift"
             \/ Fail(f) \/ KeepText(f) \/ UpdateCopy(f) \/ FreshCopy(f)
      PROVE  (\A x, y \in Replays' : x = y) /\ \A x \in Replays' : x.tab = holder'
  BY <1>3, <1>8, <1>9, Replacing
<1> QED BY <1>1, <1>2, <1>4, <1>5, <1>6, <1>7, <1>9
        DEF Next, Open, Load, Replay, ReplayEmpty, ReplayDoomed, AtHead, Settle, Ends, Landed,
            Refetch, Disconnect, Reconnect, Foreign, ForgetKey

-----------------------------------------------------------------------------
(* What the queue becomes.                                                   *)

\* An intent that was applied, or that the user is told of, left the queue, and no
\* replay is out.
Shrinks ==
    /\ Thinned(queue', queue) /\ (queue = <<>> => queue' = <<>>) /\ Replays' = {}
    /\ \E i \in seen'.applied \cup seen'.told :
         \A p \in DOMAIN queue : queue[p] # i => Waits(queue', queue[p])

\* An intent joined it.
Joins(i) ==
    /\ Joined(intent', queue', queue, i) /\ i \in seen'.queued /\ i \in Intents'
    /\ ~Waits(queue, i)

LEMMA Leaving ==
    ASSUME IInv, Next, NEW i \in seen'.applied \cup seen'.told, queue' = Without(queue, i),
           Intents \subseteq Intents', Replays' = {}
    PROVE  Shrinks /\ queue' \in Seq(Intents') /\ Once(queue')
<1>1. queue \in Seq(Intents) /\ Once(queue)
  BY Parts DEF TypeOK, Once
<1>2. /\ queue' \in Seq(Intents) /\ Once(queue') /\ Thinned(queue', queue)
      /\ \A p \in DOMAIN queue : queue[p] # i => Waits(queue', queue[p])
      /\ queue = <<>> => queue' = <<>>
  BY <1>1, Left
<1>3. queue' \in Seq(Intents')
  BY <1>2, SeqDef
<1> QED BY <1>2, <1>3 DEF Shrinks

LEMMA QueueStep ==
    ASSUME IInv, Next
    PROVE  /\ queue' \in Seq(Intents') /\ Once(queue')
           /\ \/ queue' = queue
              \/ Shrinks
              \/ \E t \in Tabs : \E a \in Acts(t) : Act(t, a) /\ Joins(Len(intent) + 1)
              \/ \E f \in flights : InlineLost(f) /\ Joins(f.op)
<1>0. /\ TypeOK /\ Shape /\ FlightsOK /\ queue \in Seq(Intents) /\ Once(queue) /\ Later
      /\ \A f \in flights : f.op \in Intents /\ f.op \in Nat
      /\ DOMAIN queue = 1 .. Len(queue) /\ \A p \in DOMAIN queue : queue[p] \in Intents
      /\ seen.told \in SUBSET Nat /\ seen.queued \in SUBSET Nat /\ seen \in Histories
  BY Parts, StepLater, Basics DEF TypeOK, Once, FlightsOK, RequestOK, Shape, Flights, Histories
<1>1. Intents \subseteq Intents'
  BY <1>0 DEF Later
<1>2. queue \in Seq(Intents')
  BY <1>0, <1>1, SeqDef
<1>3. ASSUME queue' = queue
      PROVE  queue' \in Seq(Intents') /\ Once(queue')
  BY <1>0, <1>2, <1>3
<1>4. ASSUME NEW f \in flights, Landed(f)
      PROVE  Shrinks /\ queue' \in Seq(Intents') /\ Once(queue')
  <2>1. queue' = Without(queue, f.op) /\ f.op \in seen'.applied
    BY <1>0, <1>4, Landing DEF Land
  <2>2. Replays' = {}
    <3>1. f \in Replays /\ Replays' \subseteq Replays \ {f}
      BY <1>0, <1>4, Landing, Ending, Dropping DEF Ends
    <3> QED BY <3>1 DEF IInv, ReplaysOK
  <2> QED BY <1>1, <2>1, <2>2, Leaving
<1>5. ASSUME NEW f \in flights, ReplayRefused(f)
      PROVE  Shrinks /\ queue' \in Seq(Intents') /\ Once(queue')
  <2>1. queue' = Without(queue, f.op) /\ f.op \in seen'.told
    BY <1>0, <1>5 DEF ReplayRefused, Drop, Note, Histories
  <2>2. Replays' = {}
    <3>1. f \in Replays /\ Replays' \subseteq Replays \ {f}
      BY <1>5, Ending, Dropping DEF Ends, ReplayRefused
    <3> QED BY <3>1 DEF IInv, ReplaysOK
  <2> QED BY <1>1, <2>1, <2>2, Leaving
<1>6. ASSUME NEW t \in Tabs, ReplayDoomed(t)
      PROVE  Shrinks /\ queue' \in Seq(Intents') /\ Once(queue')
  <2>1. queue' = Without(queue, Head(queue)) /\ Head(queue) \in seen'.told
    BY <1>0, <1>6 DEF ReplayDoomed, Drop, Note, Histories
  <2>2. Replays' = {}
    BY <1>6 DEF ReplayDoomed, AtHead, Replays
  <2> QED BY <1>1, <2>1, <2>2, Leaving
<1>7. ASSUME NEW i \in Intents', ~Waits(queue, i), queue' = Enqueue(intent', queue, i), i \in seen'.queued
      PROVE  Joins(i) /\ queue' \in Seq(Intents') /\ Once(queue')
  <2>1. Enqueue(intent', queue, i) \in Seq(Intents') /\ Joined(intent', Enqueue(intent', queue, i), queue, i)
    BY <1>0, <1>2, <1>7, Queued
  <2> QED BY <1>7, <2>1 DEF Joins, Joined
<1>8. ASSUME NEW t \in Tabs, NEW a \in Acts(t), Act(t, a)
      PROVE  /\ queue' \in Seq(Intents') /\ Once(queue')
             /\ queue' = queue \/ Joins(Len(intent) + 1)
  <2> DEFINE i == Len(intent) + 1
  <2>1. CASE queue' = queue
    BY <1>3, <2>1
  <2>2. CASE queue' = Enqueue(intent', queue, i) /\ i \in seen'.queued
    <3>1. i \in Intents' /\ \A j \in Intents : j < i /\ j \in Nat
      BY <1>0, <1>8, Acting, Basics
    <3>2. ~Waits(queue, i)
      BY <1>0, <3>1 DEF Waits
    <3> HIDE DEF i
    <3>3. Joins(i) /\ queue' \in Seq(Intents') /\ Once(queue')
      BY <1>7, <2>2, <3>1, <3>2
    <3> QED BY <3>3 DEF i
  <2>3. seen' = [Overlapping EXCEPT !.queued = @ \cup {i}] => i \in seen'.queued
    <3> DEFINE h == Overlapping
    <3>1. h \in Histories
      BY <1>0 DEF Overlapping, Histories
    <3> HIDE DEF h
    <3>2. seen' = [h EXCEPT !.queued = @ \cup {i}] => i \in seen'.queued
      BY <3>1 DEF Histories
    <3> QED BY <3>2 DEF h
  <2> QED BY <1>8, <2>1, <2>2, <2>3, Sending
<1>9. ASSUME NEW f \in flights, InlineLost(f)
      PROVE  Joins(f.op) /\ queue' \in Seq(Intents') /\ Once(queue')
  <2>1. queue' = Enqueue(intent', queue, f.op) /\ f.op \in seen'.queued
    BY <1>0, <1>9 DEF InlineLost, Histories
  <2>2. ~Waits(queue, f.op)
    BY <1>9 DEF InlineLost, IInv, InlineOK, InQueue, Waits
  <2> QED BY <1>0, <1>1, <1>7, <2>1, <2>2
<1> HIDE DEF Shrinks, Joins
<1> QED BY ZenonT(40), <1>3, <1>4, <1>5, <1>6, <1>8, <1>9
        DEF Next, Open, Load, Close, Replay, StartReplay, ReplayEmpty, ReplayHead, Serve, Fail,
            ReplayLost, Settle, InlineDone, InlineRefused, Landed, KeepText, UpdateCopy, FreshCopy,
            ReplayBusy, Refetch, Disconnect, Reconnect, Foreign, ForgetKey, box
-----------------------------------------------------------------------------
(* The parts of the invariant, one after another.                            *)

(* What a page has seen of its own writes.                                   *)
LEMMA OwnStep ==
    ASSUME IInv, Next
    PROVE  OwnOK'
<1>0. /\ TypeOK /\ Shape /\ FlightsOK /\ OwnOK /\ Later
      /\ \A f \in flights : f.tab \in Tabs
      /\ \A t \in Tabs : tab[t] \in Pages /\ tab[t].live \in SUBSET (Nat \X Nat \X Nat)
  BY Parts, StepLater DEF Shape, Flights, Pages
<1>1. \A n \in DOMAIN notes : n \in DOMAIN notes'
  BY <1>0 DEF Later, Grown
<1>2. ASSUME NEW w, w[1] \in DOMAIN notes, w[3] \in Int, Ours(w[1], w[3])
      PROVE  w[1] \in DOMAIN notes' /\ Ours(w[1], w[3])'
  BY <1>0, <1>1, <1>2, OursLater
<1>3. \A w \in Own : w[1] \in DOMAIN notes /\ w[3] \in Int /\ Ours(w[1], w[3])
  <2>1. revs \subseteq (DOMAIN notes) \X Nat \X Nat
    BY <1>0 DEF TypeOK
  <2>2. \A w \in Own : w[3] \in Int
    BY <1>0, <2>1 DEF Own
  <2> QED BY <1>0, <2>2 DEF OwnOK
<1>4. \A f \in flights : \A w \in Watched(f) : w[1] \in DOMAIN notes /\ w[3] \in Int /\ Ours(w[1], w[3])
  BY <1>0, WatchedOurs
<1>5. ASSUME \A w \in Own' : w \in Own \/ \E f \in flights : w \in Watched(f)
      PROVE  OwnOK'
  BY <1>2, <1>3, <1>4, <1>5 DEF OwnOK
<1>6. ASSUME revs' = revs, \A t \in Tabs : tab'[t].live \subseteq tab[t].live
      PROVE  OwnOK'
  <2>1. \A w \in Own' : w \in Own
    BY <1>6 DEF Own
  <2> QED BY <1>5, <2>1
<1>7. ASSUME NEW f \in flights, revs' \subseteq revs \cup Watched(f),
             \A t \in Tabs : tab'[t].live \subseteq tab[t].live \cup Watched(f)
      PROVE  OwnOK'
  <2>1. \A w \in Own' : w \in Own \/ w \in Watched(f)
    BY <1>7 DEF Own
  <2> QED BY <1>5, <2>1
<1>8. CASE revs' = revs /\ tab' = tab
  BY <1>6, <1>8
<1>9. ASSUME NEW t \in Tabs, Open(t) \/ Load(t) \/ Close(t) \/ StartReplay(t)
      PROVE  OwnOK'
  <2>1. \A s \in Tabs : tab'[s].live \subseteq tab[s].live
    <3>1. CASE Open(t) \/ Close(t)
      <4> DEFINE r(s) == [stage |-> s, pending |-> FALSE, fresh |-> FALSE, live |-> {}]
      <4>1. \E s : tab' = [tab EXCEPT ![t] = r(s)]
        BY <3>1 DEF Open, Close
      <4>2. \A s : r(s).live = {}
        OBVIOUS
      <4> HIDE DEF r
      <4> QED BY <1>0, <4>1, <4>2 DEF Shape
    <3>2. CASE Load(t)
      <4>1. PICK b : tab' = [tab EXCEPT ![t].stage = "open", ![t].pending = b, ![t].fresh = TRUE]
        BY <3>2 DEF Load
      <4> QED BY <1>0, <4>1 DEF Shape, Pages
    <3>3. CASE StartReplay(t)
      BY <1>0, <3>3 DEF StartReplay, Shape, Pages
    <3> QED BY <1>9, <3>1, <3>2, <3>3
  <2> QED BY <1>6, <1>9, <2>1 DEF Open, Load, Close, StartReplay, box
<1>10. ASSUME NEW t \in Tabs, NEW q, Sees(t, q), revs' = revs
       PROVE  OwnOK'
  <2>1. \A s \in Tabs : tab'[s].live \subseteq tab[s].live
    BY <1>0, <1>10 DEF Sees, Shape, Pages
  <2> QED BY <1>6, <1>10, <2>1
<1>11. ASSUME NEW f \in flights, InlineDone(f)
       PROVE  OwnOK'
  <2> DEFINE W == Watched(f)
  <2>1. tab' = [tab EXCEPT ![f.tab].live = @ \cup W] /\ revs' = revs
    BY <1>11 DEF InlineDone, box
  <2> HIDE DEF W
  <2>2. \A s \in Tabs : tab'[s].live \subseteq tab[s].live \cup W
    BY <1>0, <2>1 DEF Shape, Pages
  <2> QED BY <1>7, <2>1, <2>2 DEF W
<1>12. ASSUME NEW f \in flights, Landed(f)
       PROVE  OwnOK'
  <2> DEFINE W == Watched(f)
             b == (queue' # <<>>)
  <2>1. tab' = [tab EXCEPT ![f.tab].pending = b, ![f.tab].live = @ \cup W] /\ revs' = revs \cup W
    BY <1>0, <1>12, Landing DEF Land
  <2> HIDE DEF W, b
  <2>2. \A s \in Tabs : tab'[s].live \subseteq tab[s].live \cup W
    BY <1>0, <2>1 DEF Shape, Pages
  <2> QED BY <1>7, <2>1, <2>2 DEF W
<1> QED BY ZenonT(40), <1>0, <1>8, <1>9, <1>10, <1>11, <1>12
        DEF Next, Replay, Act, ReplayEmpty, ReplayDoomed, ReplayHead, Serve, Fail, InlineLost,
            ReplayLost, Settle, InlineRefused, Landed, KeepText, UpdateCopy, FreshCopy,
            ReplayBusy, ReplayRefused, Drop, Refetch, Disconnect, Reconnect, Foreign, ForgetKey, box

(* A request that is applied was out.                                        *)
LEMMA AppliedOnly ==
    ASSUME IInv, Next
    PROVE  \A i \in seen'.applied : \/ i \in seen.applied
                                    \/ \E f \in flights : /\ i = f.op /\ Serve(f)
                                                          /\ Fulfils(Handle(f.req).ans, f.req)
<1>0. seen \in Histories
  BY Parts DEF Shape
<1>1. ASSUME NEW f \in flights, Serve(f)
      PROVE  \A i \in seen'.applied : \/ i \in seen.applied
                                      \/ \E g \in flights : /\ i = g.op /\ Serve(g)
                                                            /\ Fulfils(Handle(g.req).ans, g.req)
  <2> DEFINE S == {o \in {f.op} : Fulfils(Handle(f.req).ans, f.req)}
             b == (f.stage = "adrift")
  <2>1. seen' = [seen EXCEPT !.applied = @ \cup S, !.late = @ \/ b]
    BY <1>1 DEF Serve
  <2>2. \A i \in S : i = f.op /\ Fulfils(Handle(f.req).ans, f.req)
    OBVIOUS
  <2> HIDE DEF S, b
  <2>3. \A i \in seen'.applied : i \in seen.applied \/ i \in S
    BY <1>0, <2>1 DEF Histories
  <2> QED BY <1>1, <2>2, <2>3
<1>2. CASE seen'.applied = seen.applied
  BY <1>2
<1>3. ASSUME NEW t \in Tabs, NEW a \in Acts(t), Act(t, a)
      PROVE  seen'.applied = seen.applied
  BY <1>0, <1>3 DEF Act, Overlapping, Histories
<1>4. ASSUME NEW t \in Tabs, NEW i, Drop(t, i)
      PROVE  seen'.applied = seen.applied
  BY <1>0, <1>4 DEF Drop, Note, Histories
<1>5. ASSUME NEW f \in flights, InlineRefused(f) \/ InlineLost(f) \/ ReplayLost(f)
      PROVE  seen'.applied = seen.applied
  BY <1>0, <1>5 DEF InlineRefused, InlineLost, ReplayLost, Note, Histories
<1>6. ASSUME NEW t \in Tabs, Close(t)
      PROVE  seen'.applied = seen.applied
  BY <1>0, <1>6 DEF Close, Histories
<1>7. \A f \in flights : f.tab \in Tabs
  BY Parts DEF Shape, Flights
<1>8. ASSUME NEW t \in Tabs, NEW f, ReplayHead(t) \/ InlineDone(f)
      PROVE  seen'.applied = seen.applied
  BY <1>0, <1>8 DEF ReplayHead, InlineDone, Note, Histories
<1> QED BY ZenonT(40), <1>1, <1>2, <1>3, <1>4, <1>5, <1>6, <1>7, <1>8
        DEF Next, Open, Load, Replay, StartReplay, ReplayEmpty, ReplayDoomed,
            Fail, Settle, ReplayLanded, AlreadyThere, CopyMade, CopyUpdated, Land,
            KeepText, UpdateCopy, FreshCopy, ReplayBusy, ReplayRefused, Foreign, ForgetKey,
            Refetch, Disconnect, Reconnect

LEMMA QueuedOnly ==
    ASSUME IInv, Next
    PROVE  \A i \in seen'.queued : \/ i \in seen.queued
                                   \/ \E f \in flights : i = f.op
                                   \/ i = Len(intent) + 1 /\ \E t \in Tabs : \E a \in Acts(t) : Act(t, a)
<1>0. seen \in Histories /\ \A f \in flights : f.tab \in Tabs
  BY Parts DEF Shape, Flights
<1>1. CASE seen'.queued = seen.queued
  BY <1>1
<1>2. ASSUME NEW f \in flights, Serve(f) \/ InlineRefused(f) \/ ReplayLost(f)
      PROVE  seen'.queued = seen.queued
  BY <1>0, <1>2 DEF Serve, InlineRefused, ReplayLost, Note, Histories
<1>3. ASSUME NEW t \in Tabs, NEW a \in Acts(t), Act(t, a)
      PROVE  \A i \in seen'.queued : i \in seen.queued \/ i = Len(intent) + 1
  <2> DEFINE h == Overlapping
             S == {Len(intent) + 1}
  <2>1. h \in Histories /\ h.queued = seen.queued
    BY <1>0 DEF Overlapping, Histories
  <2>2. \/ seen' = [h EXCEPT !.queued = @ \cup S]
        \/ \E b : seen' = [h EXCEPT !.overtook = b]
    BY <1>3 DEF Act
  <2> HIDE DEF h
  <2> QED BY <2>1, <2>2 DEF Histories
<1>4. ASSUME NEW t \in Tabs, NEW i, Drop(t, i)
      PROVE  seen'.queued = seen.queued
  BY <1>0, <1>4 DEF Drop, Note, Histories
<1>5. ASSUME NEW f \in flights, InlineLost(f)
      PROVE  \A i \in seen'.queued : i \in seen.queued \/ i = f.op
  BY <1>0, <1>5 DEF InlineLost, Histories
<1>6. ASSUME NEW t \in Tabs, Close(t)
      PROVE  seen'.queued = seen.queued
  BY <1>0, <1>6 DEF Close, Histories
<1>7. ASSUME NEW t \in Tabs, NEW f, ReplayHead(t) \/ InlineDone(f)
      PROVE  seen'.queued = seen.queued
  BY <1>0, <1>7 DEF ReplayHead, InlineDone, Note, Histories
<1> QED BY ZenonT(40), <1>0, <1>1, <1>2, <1>3, <1>4, <1>5, <1>6, <1>7
        DEF Next, Open, Load, Replay, StartReplay, ReplayEmpty, ReplayDoomed,
            Fail, Settle, ReplayLanded, AlreadyThere, CopyMade, CopyUpdated, Land,
            KeepText, UpdateCopy, FreshCopy, ReplayBusy, ReplayRefused, Foreign, ForgetKey,
            Refetch, Disconnect, Reconnect

(* Newer words lose their place only to an older save that failed.           *)
LEMMA OustedOnly ==
    ASSUME IInv, Next
    PROVE  \A i \in seen'.ousted : \/ i \in seen.ousted
                                   \/ \E f \in flights : InlineLost(f) /\ i \in Ousted(f.op)
<1>0. seen \in Histories /\ \A f \in flights : f.tab \in Tabs
  BY Parts DEF Shape, Flights
<1>1. CASE seen'.ousted = seen.ousted
  BY <1>1
<1>2. ASSUME NEW f \in flights, Serve(f) \/ InlineRefused(f) \/ ReplayLost(f)
      PROVE  seen'.ousted = seen.ousted
  BY <1>0, <1>2 DEF Serve, InlineRefused, ReplayLost, Note, Histories
<1>3. ASSUME NEW t \in Tabs, NEW a \in Acts(t), Act(t, a)
      PROVE  seen'.ousted = seen.ousted
  <2> DEFINE h == Overlapping
             S == {Len(intent) + 1}
  <2>1. h \in Histories /\ h.ousted = seen.ousted
    BY <1>0 DEF Overlapping, Histories
  <2>2. \/ seen' = [h EXCEPT !.queued = @ \cup S]
        \/ \E b : seen' = [h EXCEPT !.overtook = b]
    BY <1>3 DEF Act
  <2> HIDE DEF h
  <2> QED BY <2>1, <2>2 DEF Histories
<1>4. ASSUME NEW t \in Tabs, NEW i, Drop(t, i)
      PROVE  seen'.ousted = seen.ousted
  BY <1>0, <1>4 DEF Drop, Note, Histories
<1>5. ASSUME NEW f \in flights, InlineLost(f)
      PROVE  \A i \in seen'.ousted : i \in seen.ousted \/ i \in Ousted(f.op)
  BY <1>0, <1>5 DEF InlineLost, Histories
<1>6. ASSUME NEW t \in Tabs, Close(t)
      PROVE  seen'.ousted = seen.ousted
  BY <1>0, <1>6 DEF Close, Histories
<1>7. ASSUME NEW t \in Tabs, NEW f, ReplayHead(t) \/ InlineDone(f)
      PROVE  seen'.ousted = seen.ousted
  BY <1>0, <1>7 DEF ReplayHead, InlineDone, Note, Histories
<1> QED BY ZenonT(40), <1>0, <1>1, <1>2, <1>3, <1>4, <1>5, <1>6, <1>7
        DEF Next, Open, Load, Replay, StartReplay, ReplayEmpty, ReplayDoomed,
            Fail, Settle, ReplayLanded, AlreadyThere, CopyMade, CopyUpdated, Land,
            KeepText, UpdateCopy, FreshCopy, ReplayBusy, ReplayRefused, Foreign, ForgetKey,
            Refetch, Disconnect, Reconnect

(* The user acts while another act is out, or none is.                       *)
LEMMA ActOverlaps ==
    ASSUME IInv, NEW t \in Tabs, NEW a \in Acts(t), Act(t, a), NEW f \in flights, f.stage = "inline"
    PROVE  seen'.overlapped
<1> DEFINE h == Overlapping
<1>1. h \in Histories /\ h.overlapped
  BY Parts DEF Shape, Overlapping, Histories
<1> HIDE DEF h
<1>2. \E S, b : seen' = [h EXCEPT !.queued = S] \/ seen' = [h EXCEPT !.overtook = b]
  BY DEF Act, h
<1> QED BY <1>1, <1>2 DEF Histories

(* Only the user's acts add intents.                                         *)
LEMMA IntentsOnly ==
    ASSUME IInv, Next
    PROVE  \/ Intents' = Intents
           \/ \E t \in Tabs : \E a \in Acts(t) : Act(t, a)
BY ZenonT(40) DEF Next, Open, Load, Close, Replay, StartReplay, ReplayEmpty, ReplayDoomed, ReplayHead, Serve,
       Fail, InlineLost, ReplayLost, Settle, InlineDone, InlineRefused, ReplayLanded, AlreadyThere,
       CopyMade, CopyUpdated, Land, KeepText, UpdateCopy, FreshCopy, ReplayBusy, ReplayRefused,
       Foreign, ForgetKey, Refetch, Disconnect, Reconnect, Intents

(* What was applied.                                                         *)
LEMMA AppliedStep ==
    ASSUME IInv, Next
    PROVE  AppliedOK'
<1>0. /\ TypeOK /\ Shape /\ IntentOK /\ FlightsOK /\ AppliedOK /\ Later
      /\ \A n \in DOMAIN notes : n \in DOMAIN notes'
      /\ \A i \in Intents : i \in Intents' /\ intent'[i] = intent[i]
  BY Parts, StepLater DEF IInv, Later, Grown
<1>1. ASSUME NEW i \in Intents, IsEdit(i)' => Resolvable(i)
      PROVE  IsEdit(i)' => Resolvable(i)' /\ RealNote(i)' \in DOMAIN notes'
  <2>1. SUFFICES ASSUME IsEdit(i)'
                 PROVE  Resolvable(i)' /\ RealNote(i)' \in DOMAIN notes'
    OBVIOUS
  <2>2. intent[i].k = "edit" /\ Resolvable(i)
    BY <1>0, <1>1, <2>1 DEF IsEdit
  <2>3. RealNote(i) \in DOMAIN notes /\ Resolvable(i)' /\ RealNote(i)' = RealNote(i)
    BY <1>0, <2>2, Resolution, ResolvedLater
  <2> QED BY <1>0, <2>3
<1>2. \A i \in seen.applied : i \in Intents /\ (IsEdit(i)' => Resolvable(i))
  BY <1>0 DEF AppliedOK, IsEdit
<1>3. \A f \in flights : f.op \in Intents /\ (IsEdit(f.op)' => Resolvable(f.op))
  BY <1>0 DEF FlightsOK, RequestOK, IsEdit
<1>4. \A i \in seen'.applied : i \in seen.applied \/ \E f \in flights : i = f.op
  BY AppliedOnly
<1>5. \A i \in seen'.applied : i \in Intents /\ (IsEdit(i)' => Resolvable(i))
  BY <1>2, <1>3, <1>4
<1>6. seen'.queued \subseteq Intents'
  <2>1. \A i \in seen.queued : i \in Intents'
    BY <1>0 DEF AppliedOK
  <2>2. \A f \in flights : f.op \in Intents'
    BY <1>0, <1>3
  <2>3. (\E t \in Tabs : \E a \in Acts(t) : Act(t, a)) => Len(intent) + 1 \in Intents'
    BY <1>0, Acting
  <2> QED BY <2>1, <2>2, <2>3, QueuedOnly
<1>7. \A i \in seen'.ousted : i \in Intents' /\ IsText(i)'
  <2>1. \A i \in seen.ousted : i \in Intents /\ IsText(i)
    BY <1>0 DEF AppliedOK
  <2>2. \A f \in flights : \A i \in Ousted(f.op) : i \in Intents /\ IsText(i)
    BY <1>0, Basics DEF Ousted, SameText, IsText
  <2>3. \A i \in seen'.ousted : i \in Intents /\ IsText(i)
    BY <2>1, <2>2, OustedOnly
  <2> QED BY <1>0, <2>3 DEF IsText
<1> QED BY <1>0, <1>1, <1>5, <1>6, <1>7 DEF AppliedOK

(* What is out at once.                                                      *)
LEMMA InlineStep ==
    ASSUME IInv, Next
    PROVE  InlineOK'
<1>0. /\ TypeOK /\ Shape /\ InlineOK /\ Later /\ Remembered /\ queue \in Seq(Intents)
      /\ \A f \in flights : f.op \in Intents /\ f.op \in Nat
      /\ \A i \in Intents : i \in Nat /\ i < Len(intent) + 1
      /\ \A p \in DOMAIN queue : queue[p] \in Intents
      /\ Len(intent) \in Nat
  <2>1. /\ TypeOK /\ Shape /\ InlineOK /\ Later /\ Remembered /\ queue \in Seq(Intents) /\ FlightsOK
    BY Parts, StepLater, HistoryGrows DEF IInv, TypeOK
  <2>2. /\ \A i \in Intents : i \in Nat /\ i < Len(intent) + 1
        /\ \A p \in DOMAIN queue : queue[p] \in Intents
        /\ Len(intent) \in Nat
    BY <2>1, Basics DEF Intents
  <2>3. \A f \in flights : f.op \in Intents
    BY <2>1 DEF FlightsOK, RequestOK
  <2> QED BY <2>1, <2>2, <2>3
<1> DEFINE Alone(f) == \A g \in flights' : g.stage = "inline" /\ g.op = f.op => g = f
           Last(f) == \A j \in Intents' : j > f.op => seen'.overlapped
           Away(f) == ~InQueue(f.op)'
<1>1. ASSUME NEW f \in flights', f.stage = "inline"
      PROVE  Away(f) /\ Alone(f) /\ Last(f)
  <2>1. CASE f \in flights /\ \A g \in flights' : g.stage = "inline" => g \in flights
    <3>1. Alone(f)
      BY <1>0, <1>1, <2>1 DEF InlineOK
    <3>2. Last(f)
      <4>1. CASE \A j \in Intents' : j \in Intents
        BY <1>0, <1>1, <2>1, <4>1 DEF InlineOK, Remembered
      <4>2. ASSUME NEW t \in Tabs, NEW a \in Acts(t), Act(t, a)
            PROVE  seen'.overlapped
        BY <1>0, <1>1, <2>1, <4>2, ActOverlaps
      <4> QED BY <4>1, <4>2, IntentsOnly
    <3>3. Away(f)
      <4>1. CASE queue' = queue
        BY <1>0, <1>1, <2>1, <4>1 DEF InlineOK, InQueue
      <4>2. CASE Shrinks
        BY <1>0, <1>1, <2>1, <4>2 DEF InlineOK, InQueue, Shrinks, Thinned, Waits
      <4>3. CASE Joins(Len(intent) + 1)
        BY <1>0, <1>1, <2>1, <4>3 DEF InlineOK, InQueue, Joins, Joined
      <4>4. ASSUME NEW h \in flights, InlineLost(h), Joins(h.op)
            PROVE  Away(f)
        <5>1. h.stage = "inline" /\ f # h
          <6>1. h.stage = "inline"
            BY <4>4 DEF InlineLost
          <6>2. f \in flights \ {h}
            BY <1>1, <4>4, Ending, Dropping DEF Ends
          <6> QED BY <6>1, <6>2
        <5>2. f.op # h.op
          BY <1>0, <1>1, <2>1, <5>1 DEF InlineOK
        <5> QED BY <1>0, <1>1, <2>1, <4>4, <5>2 DEF InlineOK, InQueue, Joins, Joined
      <4> QED BY <4>1, <4>2, <4>3, <4>4, QueueStep
    <3> QED BY <3>1, <3>2, <3>3
  <2>2. ASSUME NEW t \in Tabs, NEW a \in Acts(t), Act(t, a), NEW g, flights' = flights \cup {g},
               g.stage = "inline", g.op = Len(intent) + 1, queue' = queue
        PROVE  Away(f) /\ Alone(f) /\ Last(f)
    <3>1. \A h \in flights : h.op # g.op
      BY <1>0, <2>2
    <3>2. Alone(f)
      BY <1>0, <1>1, <2>2, <3>1 DEF InlineOK
    <3>3. Away(f)
      <4>1. CASE f \in flights
        BY <1>0, <1>1, <2>2, <4>1 DEF InlineOK, InQueue
      <4>2. CASE f = g
        BY <1>0, <2>2, <4>2 DEF InQueue
      <4> QED BY <2>2, <4>1, <4>2
    <3>4. Last(f)
      <4>1. CASE f \in flights
        BY <1>0, <1>1, <2>2, <4>1, ActOverlaps
      <4>2. CASE f = g
        BY <1>0, <2>2, <4>2, Acting
      <4> QED BY <2>2, <4>1, <4>2
    <3> QED BY <3>2, <3>3, <3>4
  <2>3. ASSUME NEW h \in flights, NEW g, Replaced(h, g), queue' = queue, Intents' = Intents
        PROVE  Away(f) /\ Alone(f) /\ Last(f)
    <3>1. PICK o \in flights : /\ o.stage = "inline" /\ o.op = f.op
                               /\ f = o \/ (o = h /\ f = g)
      BY <1>1, <2>3 DEF Replaced
    <3>2. /\ ~InQueue(o.op)
          /\ \A x \in flights : x.stage = "inline" /\ x.op = o.op => x = o
          /\ \A j \in Intents : j > o.op => seen.overlapped
      BY <1>0, <3>1 DEF InlineOK
    <3>3. Away(f) /\ Last(f)
      BY <1>0, <2>3, <3>1, <3>2 DEF InQueue, Remembered
    <3>4. Alone(f)
      <4>1. ASSUME NEW x \in flights', x.stage = "inline", x.op = f.op
            PROVE  x = f
        <5>1. PICK y \in flights : /\ y.stage = "inline" /\ y.op = x.op
                                   /\ (x = y /\ x # h) \/ (y = h /\ x = g)
          BY <2>3, <4>1 DEF Replaced
        <5>2. y = o
          BY <3>1, <3>2, <4>1, <5>1
        <5>3. (f = o /\ f # h) \/ f = g
          BY <2>3, <3>1 DEF Replaced
        <5> QED BY <3>1, <5>1, <5>2, <5>3
      <4> QED BY <4>1
    <3> QED BY <3>3, <3>4
  <2>4. ASSUME NEW h \in flights, Ends(h)
        PROVE  f \in flights /\ \A g \in flights' : g.stage = "inline" => g \in flights
    BY <1>1, <2>4, Ending, Dropping
  <2>5. ASSUME NEW t \in Tabs, Close(t)
        PROVE  f \in flights /\ \A g \in flights' : g.stage = "inline" => g \in flights
    BY <1>1, <2>5, Closing, Dropping
  <2>6. ASSUME NEW t \in Tabs, ReplayHead(t)
        PROVE  f \in flights /\ \A g \in flights' : g.stage = "inline" => g \in flights
    BY <1>1, <2>6, Replaying
  <2>7. CASE flights' = flights
    BY <1>1, <2>1, <2>7
  <2>8. ASSUME NEW h \in flights,
               \/ Serve(h) /\ h.stage # "adrift"
               \/ Fail(h) \/ KeepText(h) \/ UpdateCopy(h) \/ FreshCopy(h)
        PROVE  (\E g : Replaced(h, g)) /\ queue' = queue /\ Intents' = Intents
    <3>1. queue' = queue /\ intent' = intent
      BY <2>8 DEF Serve, Fail, KeepText, UpdateCopy, FreshCopy, box
    <3>2. \E g : Replaced(h, g)
      BY <2>8, Replacing
    <3> QED BY <3>1, <3>2 DEF Intents
  <2>9. ASSUME NEW t \in Tabs, NEW a \in Acts(t), Act(t, a)
        PROVE  Away(f) /\ Alone(f) /\ Last(f)
    <3>1. CASE flights' = flights
      BY <2>7, <3>1
    <3>2. CASE queue' = queue /\ \E g : flights' = flights \cup {g} /\ g.stage = "inline" /\ g.op = Len(intent) + 1
      BY <2>2, <2>9, <3>2
    <3> QED BY <2>9, <3>1, <3>2, Sending
  <2> HIDE DEF Away, Alone, Last
  <2> QED BY <2>1, <2>3, <2>4, <2>5, <2>6, <2>7, <2>8, <2>9
          DEF Next, Open, Load, Replay, StartReplay, ReplayEmpty, ReplayDoomed, Settle, Ends, Landed,
              Refetch, Disconnect, Reconnect, Foreign, ForgetKey
<1> QED BY <1>1 DEF InlineOK
(* A replay has something to replay.                                         *)
LEMMA ReplaysGo ==
    ASSUME IInv, Next
    PROVE  ReplaysOK'
<1>1. Replays' = {} \/ Replays # {} \/ \E t \in Tabs : ReplayHead(t)
  <2>1. CASE flights' = flights
    BY <2>1 DEF Replays
  <2>2. ASSUME NEW f \in flights, NEW g, Replaced(f, g)
        PROVE  Replays' = {} \/ Replays # {}
    BY <2>2 DEF Replaced, Replays
  <2>3. ASSUME NEW f \in flights, Ends(f)
        PROVE  Replays' = {} \/ Replays # {}
    BY <2>3, Ending, Dropping
  <2>4. ASSUME NEW t \in Tabs, Close(t)
        PROVE  Replays' = {} \/ Replays # {}
    BY <2>4, Closing, Dropping
  <2>5. ASSUME NEW t \in Tabs, NEW a \in Acts(t), Act(t, a)
        PROVE  Replays' = {} \/ Replays # {}
    BY <2>5, Sending DEF Replays
  <2>6. ASSUME NEW f \in flights,
               \/ Serve(f) /\ f.stage # "adrift"
               \/ Fail(f) \/ KeepText(f) \/ UpdateCopy(f) \/ FreshCopy(f)
        PROVE  Replays' = {} \/ Replays # {}
    BY <2>2, <2>6, Replacing
  <2> QED BY <2>1, <2>3, <2>4, <2>5, <2>6
          DEF Next, Open, Load, Replay, StartReplay, ReplayEmpty, ReplayDoomed, Settle, Ends, Landed,
              Refetch, Disconnect, Reconnect, Foreign, ForgetKey
<1>2. ASSUME NEW t \in Tabs, ReplayHead(t)
      PROVE  queue # <<>> /\ queue' = queue
  BY <1>2 DEF ReplayHead, box
<1>3. Replays # {} => queue # <<>>
  BY DEF IInv, ReplaysOK
<1>4. \/ queue' = queue \/ Replays' = {} \/ queue' # <<>>
  BY QueueStep DEF Shrinks, Joins, Joined
<1> QED BY <1>1, <1>2, <1>3, <1>4, ReplaysStep DEF ReplaysOK

(* An answer that does not come puts the intent into the queue.              *)
LEMMA LostJoins ==
    ASSUME IInv, Next, NEW f \in flights, InlineLost(f)
    PROVE  Joins(f.op)
<1>1. /\ f.stage = "inline" /\ f.op \in Intents /\ intent' = intent /\ Shape
      /\ queue' = Enqueue(intent', queue, f.op) /\ queue \in Seq(Intents) /\ Once(queue)
  BY Parts DEF InlineLost, FlightsOK, RequestOK, TypeOK, Once
<1>2. f.op \in seen'.queued
  BY <1>1 DEF InlineLost, Shape, Histories
<1>3. ~Waits(queue, f.op)
  BY <1>1 DEF IInv, InlineOK, InQueue, Waits
<1>4. Joined(intent', queue', queue, f.op)
  BY <1>1, <1>3, Queued
<1> QED BY <1>1, <1>2, <1>3, <1>4 DEF Joins, Intents

(* Nothing is lost.                                                          *)
LEMMA NothingLostStep ==
    ASSUME IInv, Next
    PROVE  NothingLost'
<1>0. /\ TypeOK /\ Shape /\ FlightsOK /\ InlineOK /\ AppliedOK /\ Later /\ Remembered /\ NothingLost
      /\ seen \in Histories
      /\ \A i \in Intents : i \in Intents' /\ intent'[i] = intent[i]
      /\ Len(intent) \in Nat
  BY Parts, StepLater, HistoryGrows, Basics DEF IInv, Later, Shape
<1>1. /\ \A i \in Intents : i \in Nat /\ i < Len(intent) + 1
      /\ \A f \in flights : f.op \in Intents
      /\ \A p \in DOMAIN queue : queue[p] \in Intents
  BY <1>0, Basics DEF Intents, FlightsOK, RequestOK
<1> DEFINE Safe(i) == Accounted(i)' \/ Superseded(i)' \/ i \in seen'.ousted
<1>2. ASSUME NEW i \in seen'.applied \cup seen'.told \cup seen'.abandoned
      PROVE  Safe(i)
  BY <1>2 DEF Accounted
<1>3. ASSUME NEW i, Waits(queue', i)
      PROVE  Safe(i)
  BY <1>3 DEF Accounted, Waits
<1>4. ASSUME NEW i, NEW f \in flights', f.stage = "inline", f.op = i
      PROVE  Safe(i)
  BY <1>4 DEF Accounted
<1>5. ASSUME NEW i \in Intents, Superseded(i)
      PROVE  Safe(i)
  <2>1. PICK j \in seen.queued :
           j > i /\ IsText(i) /\ IsText(j) /\ intent[j].note = intent[i].note
    BY <1>5 DEF Superseded
  <2>2. j \in Intents /\ j \in seen'.queued
    BY <1>0, <2>1 DEF AppliedOK, Remembered
  <2>3. IsText(i)' /\ IsText(j)' /\ intent'[j].note = intent'[i].note
    BY <1>0, <2>1, <2>2 DEF IsText
  <2> QED BY <2>1, <2>2, <2>3 DEF Superseded
<1>6. ASSUME NEW j, Joins(j), j \in Nat, NEW i \in Intents, Waits(queue, i),
             \/ j > i \/ i \in seen'.ousted
             \/ ~(IsText(j)' /\ IsText(i)' /\ intent'[i].note = intent'[j].note)
      PROVE  Safe(i)
  <2>1. PICK p \in DOMAIN queue : queue[p] = i
    BY <1>6 DEF Waits
  <2>2. CASE queue'[p] = queue[p]
    <3>1. Waits(queue', i)
      BY <1>6, <2>1, <2>2 DEF Joins, Joined, Waits
    <3> QED BY <1>3, <3>1
  <2>3. CASE queue'[p] # queue[p]
    <3>1. /\ intent'[j].k = "text" /\ intent'[i].k = "text" /\ intent'[i].note = intent'[j].note
          /\ j \in seen'.queued /\ j # i
      BY <1>6, <2>1, <2>3 DEF Joins, Joined, Waits
    <3> QED BY <1>6, <3>1 DEF Superseded, IsText
  <2> QED BY <2>2, <2>3
<1>7. ASSUME NEW i \in Intents, Waits(queue, i)
      PROVE  Safe(i)
  <2>1. CASE queue' = queue
    BY <1>3, <1>7, <2>1
  <2>2. CASE Shrinks
    <3>1. PICK k \in seen'.applied \cup seen'.told :
             \A p \in DOMAIN queue : queue[p] # k => Waits(queue', queue[p])
      BY <2>2 DEF Shrinks
    <3>2. i = k \/ Waits(queue', i)
      BY <1>7, <3>1 DEF Waits
    <3> QED BY <1>2, <1>3, <3>1, <3>2
  <2>3. CASE Joins(Len(intent) + 1)
    <3>1. PICK j : j = Len(intent) + 1
      OBVIOUS
    <3>2. j \in Nat /\ j > i /\ Joins(j)
      BY <1>0, <1>1, <2>3, <3>1
    <3> QED BY <1>6, <1>7, <3>2
  <2>4. ASSUME NEW f \in flights, InlineLost(f), Joins(f.op)
        PROVE  Safe(i)
    <3>1. f.stage = "inline" /\ f.op \in Nat /\ i \in Nat
      BY <1>1, <2>4 DEF InlineLost
    <3>2. intent' = intent /\ seen'.ousted = seen.ousted \cup Ousted(f.op)
      BY <1>0, <2>4 DEF InlineLost, Histories
    <3>3. i # f.op
      BY <1>7, <2>4 DEF Joins
    <3>4. \/ f.op > i \/ i \in seen'.ousted
          \/ ~(IsText(f.op)' /\ IsText(i)' /\ intent'[i].note = intent'[f.op].note)
      BY <1>7, <3>1, <3>2, <3>3 DEF Ousted, SameText, Waits, IsText
    <3>5. PICK j : j = f.op
      OBVIOUS
    <3> HIDE DEF Safe
    <3> QED BY <1>6, <1>7, <2>4, <3>1, <3>4, <3>5
  <2> HIDE DEF Safe
  <2> QED BY <2>1, <2>2, <2>3, <2>4, QueueStep
<1>8. ASSUME NEW f \in flights, f.stage = "inline"
      PROVE  Safe(f.op)
  <2>1. CASE f \in flights'
    BY <1>4, <1>8, <2>1
  <2>2. ASSUME NEW h \in flights, NEW g, Replaced(h, g)
        PROVE  Safe(f.op)
    <3>1. CASE f = h
      BY <1>4, <1>8, <2>2, <3>1 DEF Replaced
    <3>2. CASE f # h
      BY <2>1, <2>2, <3>2 DEF Replaced
    <3> QED BY <3>1, <3>2
  <2>3. ASSUME NEW h \in flights, Ends(h)
        PROVE  Safe(f.op)
    <3>1. CASE f # h
      BY <2>1, <2>3, <3>1, Ending DEF Dropped
    <3>2. CASE f = h /\ InlineDone(f)
      <4>1. /\ RequestOK(f) /\ AnswerOK(f)
            /\ f.ans.st = "ok" /\ f.req.typing = NoTyping
        BY <1>0, <1>8, <3>2 DEF FlightsOK, RequestOK, InlineDone
      <4>2. Fulfils(f.ans, f.req)
        BY <4>1 DEF AnswerOK, Fulfils
      <4>3. f.op \in seen'.applied
        BY <1>0, <4>1, <4>2 DEF AnswerOK, Remembered
      <4> QED BY <1>2, <4>3
    <3>3. CASE f = h /\ InlineRefused(f)
      <4>1. f.op \in seen'.told
        BY <1>0, <3>3 DEF InlineRefused, Note, Histories
      <4> QED BY <1>2, <4>1
    <3>4. CASE f = h /\ InlineLost(f)
      <4>1. Waits(queue', f.op)
        BY <1>0, <1>1, <3>4, LostJoins DEF Joins, Joined
      <4> QED BY <1>3, <4>1
    <3> QED BY <1>8, <2>3, <3>1, <3>2, <3>3, <3>4, EndKinds
  <2>4. ASSUME NEW t \in Tabs, Close(t)
        PROVE  Safe(f.op)
    <3> DEFINE out == {x \in flights : x.tab = t /\ x.stage # "adrift"}
               A == {x.op : x \in out \ Replays}
               b == \E x \in out : x.stage \in {"copy", "update"}
               c == Unheard(out)
    <3>1. seen' = [seen EXCEPT !.abandoned = @ \cup A, !.torn = @ \/ b, !.unheard = @ \/ c]
      BY <2>4 DEF Close
    <3>2. CASE f \notin out
      BY <2>1, <2>4, <3>2, Closing DEF Dropped
    <3>3. CASE f \in out
      <4>1. f.op \in A
        BY <1>8, <3>3 DEF Replays
      <4> HIDE DEF A, b, c
      <4>2. f.op \in seen'.abandoned
        BY <1>0, <3>1, <4>1 DEF Histories
      <4> QED BY <1>2, <4>2
    <3> QED BY <3>2, <3>3
  <2>5. CASE flights \subseteq flights'
    BY <2>1, <2>5
  <2>6. ASSUME NEW h \in flights,
               \/ Serve(h) /\ h.stage # "adrift"
               \/ Fail(h) \/ KeepText(h) \/ UpdateCopy(h) \/ FreshCopy(h)
        PROVE  Safe(f.op)
    BY <2>2, <2>6, Replacing
  <2> HIDE DEF Safe
  <2> QED BY ZenonT(40), <2>3, <2>4, <2>5, <2>6, Sending, Replaying
          DEF Next, Open, Load, Replay, StartReplay, ReplayEmpty, ReplayDoomed, Settle, Ends, Landed,
              Refetch, Disconnect, Reconnect, Foreign, ForgetKey
<1>9. ASSUME NEW t \in Tabs, NEW a \in Acts(t), Act(t, a), NEW i, i = Len(intent) + 1
      PROVE  Safe(i)
  <2>1. CASE \E g : flights' = flights \cup {g} /\ g.stage = "inline" /\ g.op = i
    BY <1>4, <2>1
  <2>2. CASE queue' = Enqueue(intent', queue, i)
    <3>1. Waits(queue', i)
      <4>1. i \in Intents'
        BY <1>0, <1>9, Acting
      <4>2. ~Waits(queue, i)
        BY <1>0, <1>1, <1>9 DEF Waits
      <4>3. queue \in Seq(Intents')
        <5>1. queue \in Seq(Intents) /\ Intents \subseteq Intents'
          BY <1>0 DEF TypeOK
        <5> QED BY <5>1, SeqDef
      <4>4. Once(queue)
        BY <1>0 DEF TypeOK, Once
      <4> QED BY <2>2, <4>1, <4>2, <4>3, <4>4, Queued DEF Joined
    <3> QED BY <1>3, <3>1
  <2> HIDE DEF Safe
  <2> QED BY <1>9, <2>1, <2>2, Sending
<1>10. ASSUME NEW i \in Intents'
       PROVE  Accounted(i)' \/ Superseded(i)' \/ i \in seen'.ousted
  <2>1. CASE i \in Intents
    <3>1. \/ i \in seen.applied \cup seen.told \cup seen.abandoned
          \/ Waits(queue, i) \/ Superseded(i) \/ i \in seen.ousted
          \/ \E f \in flights : f.stage = "inline" /\ f.op = i
      BY <1>0, <2>1 DEF NothingLost, Accounted, Waits
    <3>2. i \in seen.applied \cup seen.told \cup seen.abandoned \/ i \in seen.ousted => Safe(i)
      BY <1>0, <1>2 DEF Remembered
    <3> HIDE DEF Safe
    <3>3. Safe(i)
      BY <1>5, <1>7, <1>8, <2>1, <3>1, <3>2
    <3> QED BY <3>3 DEF Safe
  <2>2. CASE i \notin Intents
    <3>0. PICK t \in Tabs : \E a \in Acts(t) : Act(t, a)
      BY <2>2, IntentsOnly
    <3>1. PICK a \in Acts(t) : Act(t, a)
      BY <3>0
    <3>2. i = Len(intent) + 1
      BY <1>0, <2>2, <3>1, Acting
    <3> HIDE DEF Safe
    <3>3. Safe(i)
      BY <1>9, <3>1, <3>2
    <3> QED BY <3>3 DEF Safe
  <2> QED BY <2>1, <2>2
<1>11. ASSUME seen'.ousted # {}
       PROVE  seen'.overlapped
  <2>1. PICK i \in seen'.ousted : TRUE
    BY <1>11
  <2>2. CASE i \in seen.ousted
    BY <1>0, <2>2 DEF NothingLost, Remembered
  <2>3. ASSUME NEW f \in flights, InlineLost(f), i \in Ousted(f.op)
        PROVE  seen'.overlapped
    <3>1. i \in Intents /\ i > f.op /\ f.stage = "inline"
      BY <1>1, <2>3 DEF Ousted, SameText, InlineLost
    <3> QED BY <1>0, <3>1 DEF InlineOK, Remembered
  <2> QED BY <2>1, <2>2, <2>3, OustedOnly
<1> QED BY <1>10, <1>11 DEF NothingLost
-----------------------------------------------------------------------------
(* The shapes.                                                               *)

LEMMA CopiesStep ==
    ASSUME IInv, Next
    PROVE  copies' \subseteq [at : Typings, key : Keys, sent : SUBSET Nat]
<1> DEFINE Copies == [at : Typings, key : Keys, sent : SUBSET Nat]
<1>0. /\ TypeOK /\ Shape /\ IntentOK /\ copies \subseteq Copies /\ minted \in Nat
      /\ \A f \in flights : f.op \in Intents /\ f.key \in Keys /\ f.op \in Nat
  BY Parts DEF Shape, Flights, FlightsOK, RequestOK
<1>1. ASSUME NEW i \in Intents, NEW k \in Keys
      PROVE  RecordCopy(i, k) \subseteq Copies
  <2>1. CASE ~HasTyping(i)
    BY <1>0, <2>1 DEF RecordCopy
  <2>2. CASE HasTyping(i)
    <3> DEFINE ty == Typing(i)
               S == {intent[i].words} \cup UNION {c.sent : c \in {d \in CopyOf(i) : d.key = k}}
               new == [at |-> ty, key |-> k, sent |-> S]
    <3>1. ty \in Typings /\ intent[i].words \in Nat
      BY <1>0, <2>2, TypingOf DEF HasTyping
    <3>2. S \in SUBSET Nat
      BY <1>0, <3>1 DEF CopyOf
    <3>3. RecordCopy(i, k) = (copies \ CopyOf(i)) \cup {new}
      BY <2>2 DEF RecordCopy
    <3> HIDE DEF ty, S
    <3>4. new \in Copies
      BY <3>1, <3>2
    <3> HIDE DEF new
    <3> QED BY <1>0, <3>3, <3>4
  <2> QED BY <2>1, <2>2
<1>2. ASSUME copies' = copies
      PROVE  copies' \subseteq Copies
  BY <1>0, <1>2
<1>3. ASSUME NEW f \in flights, Landed(f)
      PROVE  copies' \subseteq Copies
  <2>1. copies' = copies \/ copies' = RecordCopy(f.op, f.key)
    BY <1>0, <1>3, Parts, Landing DEF Land
  <2> QED BY <1>0, <1>1, <2>1
<1>4. ASSUME NEW f \in flights, ReplayLost(f) \/ ReplayBusy(f) \/ ReplayRefused(f)
      PROVE  copies' \subseteq Copies
  <2>1. copies' = copies \/ copies' = RecordCopy(f.op, f.key)
    BY <1>4 DEF ReplayLost, ReplayBusy, ReplayRefused
  <2> QED BY <1>0, <1>1, <2>1
<1>5. ASSUME NEW f \in flights, FreshCopy(f)
      PROVE  copies' \subseteq Copies
  <2>1. PICK k : k = <<f.op, minted + 1>>
    OBVIOUS
  <2>2. copies' = RecordCopy(f.op, k)
    BY <1>5, <2>1 DEF FreshCopy
  <2>3. k \in Keys
    BY <1>0, <2>1 DEF Keys
  <2> QED BY <1>0, <1>1, <2>2, <2>3
<1> HIDE DEF Copies
<1>6. copies' \subseteq Copies
  BY ZenonT(40), <1>2, <1>3, <1>4, <1>5
     DEF Next, Open, Load, Close, Replay, Act, StartReplay, ReplayEmpty, ReplayDoomed, ReplayHead,
         Serve, Fail, InlineLost, Settle, InlineDone, InlineRefused, Landed, KeepText, UpdateCopy,
         Drop, Refetch, Disconnect, Reconnect, Foreign, ForgetKey, box
<1> QED BY <1>6 DEF Copies

LEMMA PagesStep ==
    ASSUME IInv, Next
    PROVE  tab' \in [Tabs -> Pages]
<1>0. /\ TypeOK /\ Shape /\ FlightsOK /\ tab \in [Tabs -> Pages]
      /\ \A f \in flights : f.tab \in Tabs
  BY Parts DEF Shape, Flights
<1>1. ASSUME NEW t \in Tabs, NEW p \in Pages, tab' = [tab EXCEPT ![t] = p]
      PROVE  tab' \in [Tabs -> Pages]
  BY <1>0, <1>1
<1>2. CASE tab' = tab
  BY <1>0, <1>2
<1>3. ASSUME NEW t \in Tabs, Open(t) \/ Close(t)
      PROVE  tab' \in [Tabs -> Pages]
  <2> DEFINE r(s) == [stage |-> s, pending |-> FALSE, fresh |-> FALSE, live |-> {}]
  <2>1. tab' = [tab EXCEPT ![t] = r("loading")] \/ tab' = [tab EXCEPT ![t] = r("closed")]
    BY <1>3 DEF Open, Close
  <2>2. r("loading") \in Pages /\ r("closed") \in Pages
    BY DEF Pages
  <2> HIDE DEF r
  <2> QED BY <1>1, <2>1, <2>2
<1>4. ASSUME NEW t \in Tabs, Load(t)
      PROVE  tab' \in [Tabs -> Pages]
  <2>1. PICK b \in BOOLEAN : tab' = [tab EXCEPT ![t].stage = "open", ![t].pending = b, ![t].fresh = TRUE]
    BY <1>4 DEF Load
  <2> QED BY ZenonT(40), <1>0, <2>1 DEF Pages
<1>5. ASSUME NEW t \in Tabs, StartReplay(t)
      PROVE  tab' \in [Tabs -> Pages]
  BY <1>0, <1>5 DEF StartReplay, Pages
<1>6. ASSUME NEW t \in Tabs, NEW q, Sees(t, q)
      PROVE  tab' \in [Tabs -> Pages]
  <2>1. PICK b \in BOOLEAN : tab' = [tab EXCEPT ![t].pending = b]
    BY <1>6 DEF Sees
  <2> QED BY <1>0, <2>1 DEF Pages
<1>7. ASSUME NEW t \in Tabs, NEW W \in SUBSET (Nat \X Nat \X Nat), NEW b \in BOOLEAN,
             \/ tab' = [tab EXCEPT ![t].live = @ \cup W]
             \/ tab' = [tab EXCEPT ![t].pending = b, ![t].live = @ \cup W]
      PROVE  tab' \in [Tabs -> Pages]
  BY <1>0, <1>7 DEF Pages
<1>8. \A f \in flights : Watched(f) \in SUBSET (Nat \X Nat \X Nat)
  <2>1. \A f \in flights : \A w \in Watched(f) : w \in (DOMAIN notes) \X Nat \X Nat
    BY <1>0, WatchedOurs
  <2>2. DOMAIN notes \subseteq Nat
    BY <1>0, Basics
  <2> QED BY <2>1, <2>2
<1>9. ASSUME NEW f \in flights, InlineDone(f)
      PROVE  tab' \in [Tabs -> Pages]
  <2> DEFINE W == Watched(f)
  <2>1. W \in SUBSET (Nat \X Nat \X Nat) /\ tab' = [tab EXCEPT ![f.tab].live = @ \cup W]
    BY <1>8, <1>9 DEF InlineDone
  <2> HIDE DEF W
  <2> QED BY <1>0, <1>7, <2>1
<1>10. ASSUME NEW f \in flights, Landed(f)
       PROVE  tab' \in [Tabs -> Pages]
  <2> DEFINE W == Watched(f)
             b == (queue' # <<>>)
  <2>1. /\ W \in SUBSET (Nat \X Nat \X Nat) /\ b \in BOOLEAN
        /\ tab' = [tab EXCEPT ![f.tab].pending = b, ![f.tab].live = @ \cup W]
    BY <1>0, <1>8, <1>10, Landing DEF Land
  <2> HIDE DEF W, b
  <2> QED BY <1>0, <1>7, <2>1
<1> QED BY ZenonT(40), <1>0, <1>2, <1>3, <1>4, <1>5, <1>6, <1>9, <1>10
        DEF Next, Replay, Act, ReplayEmpty, ReplayDoomed, ReplayHead, Serve, Fail, InlineLost,
            ReplayLost, Settle, InlineRefused, Landed, KeepText, UpdateCopy, FreshCopy,
            ReplayBusy, ReplayRefused, Drop, Refetch, Disconnect, Reconnect, Foreign, ForgetKey, box

LEMMA SpentStep ==
    ASSUME IInv, Next
    PROVE  spent' \in Spendings
<1>0. spent \in Spendings
  BY Parts DEF Shape
<1>1. ASSUME NEW b \in {"acts", "faults", "outages", "closes", "foreign", "forgets"}, Spend(b)
      PROVE  spent' \in Spendings
  BY <1>0, <1>1 DEF Spend, Spendings
<1>2. CASE spent' = spent
  BY <1>0, <1>2
<1> QED BY ZenonT(40), <1>1, <1>2
        DEF Next, Open, Load, Close, Replay, Act, StartReplay, ReplayEmpty, ReplayDoomed, ReplayHead,
            Serve, Fail, InlineLost, ReplayLost, Settle, InlineDone, InlineRefused, ReplayLanded,
            AlreadyThere, CopyMade, CopyUpdated, Land, KeepText, UpdateCopy, FreshCopy, ReplayBusy,
            ReplayRefused, Losing, Refetch, Disconnect, Reconnect, Foreign, ForgetKey

(* The cached revision of note 1 is one that it has had.                     *)
LEMMA BaseStep ==
    ASSUME IInv, Next
    PROVE  base' \in [Tabs -> 0 .. notes'[1].rev]
<1>0. /\ TypeOK /\ Shape /\ FlightsOK /\ Grown
      /\ 1 \in DOMAIN notes /\ base \in [Tabs -> 0 .. notes[1].rev] /\ notes[1].rev \in Nat
      /\ notes'[1].rev \in Nat /\ notes'[1].rev >= notes[1].rev
  <2>1. TypeOK /\ Shape /\ FlightsOK /\ Later /\ 1 \in DOMAIN notes /\ notes[1] \in NoteRecords
    BY Parts, StepLater, Basics
  <2>2. notes[1].rev \in Nat /\ base \in [Tabs -> 0 .. notes[1].rev] /\ Grown
    BY <2>1 DEF TypeOK, NoteRecords, Later
  <2>3. notes'[1].rev \in Nat /\ notes'[1].rev >= notes[1].rev
    BY <2>1, <2>2 DEF Grown, NoteRecords
  <2> QED BY <2>1, <2>2, <2>3
<1>1. ASSUME NEW t, NEW r \in Nat, r <= notes[1].rev, base' = [base EXCEPT ![t] = r]
      PROVE  base' \in [Tabs -> 0 .. notes'[1].rev]
  <2>1. \A x \in 0 .. notes[1].rev : x \in 0 .. notes'[1].rev
    BY <1>0
  <2>2. r \in 0 .. notes'[1].rev
    BY <1>0, <1>1
  <2> QED BY <1>0, <1>1, <2>1, <2>2
<1>2. CASE base' = base
  <2>1. \A x \in 0 .. notes[1].rev : x \in 0 .. notes'[1].rev
    BY <1>0
  <2> QED BY <1>0, <1>2, <2>1
<1>3. ASSUME NEW f \in flights, f.ans.st \in {"ok", "stale"}, f.req.note = 1, f.req.what # "create"
      PROVE  f.ans.rev \in Nat /\ f.ans.rev <= notes[1].rev
  BY <1>0, <1>3 DEF FlightsOK, AnswerOK, Shape, Flights, Answer
<1>4. ASSUME NEW f \in flights, InlineDone(f)
      PROVE  base' \in [Tabs -> 0 .. notes'[1].rev]
  BY <1>1, <1>2, <1>3, <1>4 DEF InlineDone
<1>5. ASSUME NEW f \in flights, InlineRefused(f)
      PROVE  base' \in [Tabs -> 0 .. notes'[1].rev]
  <2>1. f.ans.st = "stale" => f.req.what = "text"
    BY <1>0 DEF FlightsOK, AnswerOK
  <2> QED BY <1>1, <1>2, <1>3, <1>5, <2>1 DEF InlineRefused
<1>6. ASSUME NEW t \in Tabs, Refetch(t)
      PROVE  base' \in [Tabs -> 0 .. notes'[1].rev]
  BY <1>0, <1>1, <1>6 DEF Refetch
<1>7. ASSUME NEW t \in Tabs, Open(t)
      PROVE  base' \in [Tabs -> 0 .. notes'[1].rev]
  <2>0. PICK u \in Tabs : \E r \in 0 .. base[u] : base' = [base EXCEPT ![t] = r]
    BY <1>7 DEF Open
  <2>1. PICK r \in 0 .. base[u] : base' = [base EXCEPT ![t] = r]
    BY <2>0
  <2>2. base[u] \in Nat /\ base[u] <= notes[1].rev
    BY <1>0
  <2>3. r \in Nat /\ r <= notes[1].rev
    BY <1>0, <2>2
  <2> QED BY <1>1, <2>1, <2>3
<1> QED BY ZenonT(40), <1>2, <1>4, <1>5, <1>6, <1>7
        DEF Next, Load, Close, Replay, Act, StartReplay, ReplayEmpty, ReplayDoomed, ReplayHead,
            Serve, Fail, InlineLost, ReplayLost, Settle, ReplayLanded,
            AlreadyThere, CopyMade, CopyUpdated, Land, KeepText, UpdateCopy, FreshCopy, ReplayBusy,
            ReplayRefused, Disconnect, Reconnect, Foreign, ForgetKey

LEMMA ShapeStep ==
    ASSUME IInv, Next
    PROVE  Shape'
<1>1. /\ notes' \in Seq(NoteRecords) /\ Len(notes') >= 1 /\ seen' \in Histories
  <2>1. Grown /\ Remembered /\ Len(notes) >= 1 /\ Len(notes) \in Nat /\ notes' \in Seq(NoteRecords)
    BY Parts, NotesGrow, HistoryGrows, Basics DEF Shape, Grown
  <2>2. Len(notes') \in Nat
    BY <2>1, LenProperties
  <2> QED BY <2>1, <2>2 DEF Grown, Remembered
<1>2. minted' \in Nat
  <2>1. minted \in Nat
    BY Parts DEF Shape
  <2>2. minted' = minted \/ minted' = minted + 1
    BY ZenonT(40) DEF Next, Open, Load, Close, Replay, Act, StartReplay, ReplayEmpty, ReplayDoomed, ReplayHead,
           Serve, Fail, InlineLost, ReplayLost, Settle, InlineDone, InlineRefused, ReplayLanded,
           AlreadyThere, CopyMade, CopyUpdated, Land, KeepText, UpdateCopy, FreshCopy, ReplayBusy,
           ReplayRefused, Refetch, Disconnect, Reconnect, Foreign, ForgetKey
  <2> QED BY <2>1, <2>2
<1>3. base' \in [Tabs -> Nat]
  BY BaseStep
<1> QED BY <1>1, <1>2, <1>3, CopiesStep, PagesStep, SpentStep, FlightsStep
        DEF Shape, Pages, Flights, NoteRecords, Histories, Typings, Keys, Requests, Stages, Answer

LEMMA RecordsStep ==
    ASSUME IInv, Next
    PROVE  /\ dead' \subseteq Intents' /\ revs' \subseteq (DOMAIN notes') \X Nat \X Nat
           /\ DOMAIN tries' = 1 .. MaxActs /\ \A i \in DOMAIN tries' : tries'[i] \in 0 .. MaxAttempts
           /\ holder' \in Tabs \cup {NoTab}
<1>0. /\ TypeOK /\ Shape /\ FlightsOK /\ Later
      /\ Intents \subseteq Intents' /\ DOMAIN notes \subseteq DOMAIN notes'
      /\ \A f \in flights : f.op \in Intents
  BY Parts, StepLater DEF Later, Grown, FlightsOK, RequestOK
<1>1. dead' \subseteq Intents'
  <2>1. ASSUME NEW t, NEW i \in Intents, Drop(t, i)
        PROVE  dead' \subseteq Intents
    BY <1>0, <2>1 DEF Drop, TypeOK
  <2>2. ASSUME NEW t \in Tabs, ReplayDoomed(t)
        PROVE  dead' \subseteq Intents
    <3>1. Head(queue) \in Intents
      BY <1>0, <2>2, Basics DEF ReplayDoomed
    <3> QED BY <2>1, <2>2, <3>1 DEF ReplayDoomed
  <2>3. ASSUME NEW f \in flights, ReplayRefused(f)
        PROVE  dead' \subseteq Intents
    BY <1>0, <2>1, <2>3 DEF ReplayRefused
  <2>4. CASE dead' = dead
    BY <1>0, <2>4 DEF TypeOK
  <2>5. dead' \subseteq Intents'
    BY ZenonT(40), <1>0, <2>2, <2>3, <2>4
       DEF Next, Open, Load, Close, Replay, Act, StartReplay, ReplayEmpty, ReplayHead,
           Serve, Fail, InlineLost, ReplayLost, Settle, InlineDone, InlineRefused, ReplayLanded,
           AlreadyThere, CopyMade, CopyUpdated, Land, KeepText, UpdateCopy, FreshCopy, ReplayBusy,
           Refetch, Disconnect, Reconnect, Foreign, ForgetKey, box
  <2> QED BY <2>5
<1>2. revs' \subseteq (DOMAIN notes') \X Nat \X Nat
  <2>1. revs \subseteq (DOMAIN notes) \X Nat \X Nat
    BY <1>0 DEF TypeOK
  <2>2. \A f \in flights : Watched(f) \subseteq (DOMAIN notes) \X Nat \X Nat
    BY <1>0, WatchedOurs
  <2>3. ASSUME NEW f \in flights, Landed(f)
        PROVE  revs' = revs \cup Watched(f)
    BY <1>0, <2>3, Landing DEF Land
  <2>4. CASE revs' = revs
    BY <1>0, <2>1, <2>4
  <2>5. CASE \E f \in flights : Landed(f)
    BY <1>0, <2>1, <2>2, <2>3, <2>5
  <2> QED BY ZenonT(40), <2>4, <2>5
          DEF Next, Open, Load, Close, Replay, Act, StartReplay, ReplayEmpty, ReplayDoomed, ReplayHead,
              Serve, Fail, InlineLost, ReplayLost, Settle, InlineDone, InlineRefused, Landed,
              KeepText, UpdateCopy, FreshCopy, ReplayBusy, ReplayRefused, Drop,
              Refetch, Disconnect, Reconnect, Foreign, ForgetKey, box
<1>3. DOMAIN tries' = 1 .. MaxActs /\ \A i \in DOMAIN tries' : tries'[i] \in 0 .. MaxAttempts
  <2>1. DOMAIN tries = 1 .. MaxActs /\ \A i \in DOMAIN tries : tries[i] \in 0 .. MaxAttempts
    BY <1>0 DEF TypeOK
  <2>2. CASE tries' = tries
    BY <2>1, <2>2
  <2>3. ASSUME NEW f \in flights, ReplayBusy(f)
        PROVE  DOMAIN tries' = 1 .. MaxActs /\ \A i \in DOMAIN tries' : tries'[i] \in 0 .. MaxAttempts
    <3>1. MaxAttempts \in Nat
      BY OutboxAssumption
    <3>2. tries[f.op] < MaxAttempts /\ tries' = [tries EXCEPT ![f.op] = @ + 1]
      BY <2>3 DEF ReplayBusy
    <3> QED BY <2>1, <3>1, <3>2
  <2>4. tries' = tries \/ \E f \in flights : ReplayBusy(f)
    BY ZenonT(40) DEF Next, Open, Load, Close, Replay, Act, StartReplay, ReplayEmpty, ReplayDoomed, ReplayHead,
           Serve, Fail, InlineLost, ReplayLost, Settle, InlineDone, InlineRefused, ReplayLanded,
           AlreadyThere, CopyMade, CopyUpdated, Land, KeepText, UpdateCopy, FreshCopy,
           ReplayRefused, Drop, Refetch, Disconnect, Reconnect, Foreign, ForgetKey, box
  <2> QED BY <2>2, <2>3, <2>4
<1>4. holder' \in Tabs \cup {NoTab}
  <2>1. holder \in Tabs \cup {NoTab}
    BY <1>0 DEF TypeOK
  <2> QED BY ZenonT(40), <2>1
          DEF Next, Open, Load, Close, Replay, Act, StartReplay, ReplayEmpty, ReplayDoomed, ReplayHead,
              Serve, Fail, InlineLost, ReplayLost, Settle, InlineDone, InlineRefused, ReplayLanded,
              AlreadyThere, CopyMade, CopyUpdated, Land, KeepText, UpdateCopy, FreshCopy,
              ReplayBusy, ReplayRefused, Refetch, Disconnect, Reconnect, Foreign, ForgetKey
<1> QED BY <1>1, <1>2, <1>3, <1>4

(* At most one element, at most one counted.                                 *)
LEMMA AtMostOne ==
    ASSUME NEW S, \A x, y \in S : x = y
    PROVE  Cardinality(S) <= 1
<1>1. CASE S = {}
  BY <1>1, FS_EmptySet
<1>2. CASE S # {}
  <2>1. PICK x \in S : TRUE
    BY <1>2
  <2>2. S = {x}
    BY <2>1
  <2>3. Cardinality(S) = 1
    BY <2>2, FS_Singleton
  <2> QED BY <2>3
<1> QED BY <1>1, <1>2

LEMMA TypeStep ==
    ASSUME IInv, Next
    PROVE  TypeOK'
<1>0. TypeOK /\ Shape /\ Later
  BY Parts, StepLater
<1>1. intent' \in Seq(Intent)
  <2>1. CASE intent' = intent
    BY <1>0, <2>1 DEF TypeOK
  <2>2. ASSUME NEW t \in Tabs, NEW a \in Acts(t), Act(t, a)
        PROVE  intent' \in Seq(Intent)
    BY <1>0, <2>2, Acting
  <2> QED BY ZenonT(40), <2>1, <2>2
          DEF Next, Open, Load, Close, Replay, StartReplay, ReplayEmpty, ReplayDoomed, ReplayHead,
              Serve, Fail, InlineLost, ReplayLost, Settle, InlineDone, InlineRefused, ReplayLanded,
              AlreadyThere, CopyMade, CopyUpdated, Land, KeepText, UpdateCopy, FreshCopy,
              ReplayBusy, ReplayRefused, Refetch, Disconnect, Reconnect, Foreign, ForgetKey
<1>2. queue' \in Seq(Intents') /\ \A p, q \in DOMAIN queue' : queue'[p] = queue'[q] => p = q
  BY QueueStep DEF Once
<1>3. ids' \subseteq Intents' \X (DOMAIN notes')
  BY <1>0 DEF Later
<1>4. \A t \in Tabs : tab'[t].stage \in {"closed", "loading", "open"}
  BY PagesStep DEF Pages
<1>5. \A f \in flights' : f.ans \in Answer /\ f.op \in Intents'
  BY FlightsStep DEF FlightsOK, RequestOK, Flights
<1>6. Cardinality(Replays') <= 1
  BY ReplaysStep, AtMostOne
<1> QED BY <1>1, <1>2, <1>3, <1>4, <1>5, <1>6, BaseStep, RecordsStep, ReplaysStep
        DEF TypeOK, Intent, Answer, Revs, NoRev
-----------------------------------------------------------------------------
(* Changes of items keep their order.                                        *)

(* A request that arrives late is remembered.                                *)
LEMMA LateSeen ==
    ASSUME IInv, NEW f \in flights, Serve(f), ~seen'.late
    PROVE  f.stage # "adrift"
BY Parts DEF Serve, Shape, Histories

(* An act that is sent past what another page has waiting is remembered.     *)
LEMMA PastSeen ==
    ASSUME IInv, Next, NEW t \in Tabs, NEW a \in Acts(t), Act(t, a), flights' # flights, ~seen'.overtook
    PROVE  queue = <<>> /\ queue' = queue
<1>1. /\ ~MustQueue(t, a) /\ UNCHANGED <<queue, tab>>
      /\ seen' = [Overlapping EXCEPT !.overtook = @ \/ (queue # <<>> /\ Unaware(t))]
  BY Sending
<1> DEFINE h == Overlapping
           c == queue # <<>> /\ Unaware(t)
<1>2. h \in Histories
  BY Parts DEF Shape, Overlapping, Histories
<1>3. Unaware(t)
  BY <1>1 DEF MustQueue, Unaware, Act
<1>4. seen' = [h EXCEPT !.overtook = @ \/ c]
  BY <1>1
<1> HIDE DEF h, c
<1>5. ~c
  BY <1>2, <1>4 DEF Histories
<1> QED BY <1>1, <1>3, <1>5 DEF c

(* What is replayed was replayed, or is at the head.                         *)
LEMMA ReplayOps ==
    ASSUME IInv, Next
    PROVE  \A f \in Replays' : \/ \E h \in Replays : h.op = f.op
                               \/ f.op = Head(queue) /\ queue # <<>> /\ queue' = queue
<1> SUFFICES ASSUME NEW f \in Replays'
             PROVE  \/ \E h \in Replays : h.op = f.op
                    \/ f.op = Head(queue) /\ queue # <<>> /\ queue' = queue
  OBVIOUS
<1>1. CASE flights' = flights
  BY <1>1 DEF Replays
<1>2. ASSUME NEW h \in flights, NEW g, Replaced(h, g)
      PROVE  \E x \in Replays : x.op = f.op
  BY <1>2 DEF Replaced, Replays
<1>3. ASSUME NEW h \in flights, Ends(h)
      PROVE  \E x \in Replays : x.op = f.op
  BY <1>3, Ending, Dropping
<1>4. ASSUME NEW t \in Tabs, Close(t)
      PROVE  \E x \in Replays : x.op = f.op
  BY <1>4, Closing, Dropping
<1>5. ASSUME NEW t \in Tabs, NEW a \in Acts(t), Act(t, a)
      PROVE  \E x \in Replays : x.op = f.op
  BY <1>5, Sending DEF Replays
<1>6. ASSUME NEW h \in flights,
             \/ Serve(h) /\ h.stage # "adrift"
             \/ Fail(h) \/ KeepText(h) \/ UpdateCopy(h) \/ FreshCopy(h)
      PROVE  \E x \in Replays : x.op = f.op
  BY <1>2, <1>6, Replacing
<1>7. ASSUME NEW t \in Tabs, ReplayHead(t)
      PROVE  (\E x \in Replays : x.op = f.op) \/ (f.op = Head(queue) /\ queue # <<>> /\ queue' = queue)
  <2>1. queue # <<>> /\ queue' = queue
    BY <1>7 DEF ReplayHead, box
  <2>2. PICK g : flights' = flights \cup {g} /\ g.op = Head(queue)
    BY <1>7, Replaying
  <2>3. f = g \/ f \in Replays
    BY <2>2 DEF Replays
  <2> QED BY <2>1, <2>2, <2>3
<1> QED BY <1>1, <1>3, <1>4, <1>5, <1>6, <1>7
        DEF Next, Open, Load, Replay, StartReplay, ReplayEmpty, ReplayDoomed, Settle, Ends, Landed,
            Refetch, Disconnect, Reconnect, Foreign, ForgetKey

\* The parts of OrderOK.
EditsInOrder ==
    \A p, q \in DOMAIN queue : IsEdit(queue[p]) /\ IsEdit(queue[q]) /\ p < q => queue[p] < queue[q]
AppliedFirst ==
    \A i \in seen.applied, p \in DOMAIN queue : IsEdit(i) /\ IsEdit(queue[p]) => i <= queue[p]
InlineAlone ==
    \A f \in flights : f.stage = "inline" =>
        queue = <<>> /\ f.op = Len(intent) /\ \A g \in flights : g.stage = "inline" => g = f
HeadReplayed == \A f \in Replays : IsEdit(f.op) => queue[1] = f.op
NewestShown == \A i \in seen.applied : IsEdit(i) => i <= notes[RealNote(i)].label

LEMMA OrderParts ==
    /\ OrderOK <=> (Orderly => /\ EditsInOrder /\ AppliedFirst /\ InlineAlone /\ HeadReplayed
                               /\ NewestShown)
BY DEF OrderOK, EditsInOrder, AppliedFirst, InlineAlone, HeadReplayed, NewestShown

(* The facts the proofs of the parts begin with.                             *)
LEMMA OrderFacts ==
    ASSUME IInv, Next, Orderly'
    PROVE  /\ Orderly /\ ~seen'.overtook /\ ~seen'.overlapped /\ ~seen'.late
           /\ EditsInOrder /\ AppliedFirst /\ InlineAlone /\ HeadReplayed /\ NewestShown
           /\ TypeOK /\ Shape /\ IntentOK /\ FlightsOK /\ Later /\ AppliedOK /\ ReplaysOK
           /\ Len(intent) \in Nat
           /\ \A i \in Intents : /\ i \in Intents' /\ intent'[i] = intent[i] /\ i \in Nat
                                 /\ i <= Len(intent) /\ (IsEdit(i)' <=> IsEdit(i))
           /\ \A f \in flights : f.op \in Intents
           /\ DOMAIN queue = 1 .. Len(queue) /\ Len(queue) \in Nat
           /\ \A p \in DOMAIN queue : queue[p] \in Intents
<1>1. /\ Orderly /\ ~seen'.overtook /\ ~seen'.overlapped /\ ~seen'.late
  BY HistoryGrows, Parts DEF Remembered, Orderly
<1>2. EditsInOrder /\ AppliedFirst /\ InlineAlone /\ HeadReplayed /\ NewestShown
  BY <1>1, OrderParts DEF IInv
<1>3. TypeOK /\ Shape /\ IntentOK /\ FlightsOK /\ Later /\ AppliedOK /\ ReplaysOK
  BY Parts, StepLater DEF IInv
<1>4. /\ Len(intent) \in Nat
      /\ \A i \in Intents : /\ i \in Intents' /\ intent'[i] = intent[i] /\ i \in Nat
                            /\ i <= Len(intent)
  BY <1>3, Basics DEF Later, Intents
<1>5. \A i \in Intents : IsEdit(i)' <=> IsEdit(i)
  BY <1>4 DEF IsEdit
<1>6. \A f \in flights : f.op \in Intents
  BY <1>3 DEF FlightsOK, RequestOK
<1>7. DOMAIN queue = 1 .. Len(queue) /\ Len(queue) \in Nat /\ \A p \in DOMAIN queue : queue[p] \in Intents
  BY <1>3, Basics
<1> QED BY <1>1, <1>2, <1>3, <1>4, <1>5, <1>6, <1>7

(* The queue while nothing overtakes: what joins it is newer than the rest,  *)
(* and what was out and not answered finds it empty.                         *)
LEMMA OrderlyQueue ==
    ASSUME IInv, Next, Orderly'
    PROVE  \/ queue' = queue
           \/ Shrinks
           \/ \E t \in Tabs : \E a \in Acts(t) : Act(t, a) /\ Joins(Len(intent) + 1) /\ flights' = flights
           \/ /\ queue = <<>> /\ Replays = {} /\ Replays' = {}
              /\ \E f \in flights : InlineLost(f)
              /\ \A p, q \in DOMAIN queue' : queue'[p] = Len(intent) /\ p = q
<1>0. InlineAlone /\ ReplaysOK /\ ~seen'.overtook
  BY OrderFacts
<1>1. ASSUME NEW f \in flights, InlineLost(f), Joins(f.op)
      PROVE  /\ queue = <<>> /\ Replays = {} /\ Replays' = {}
             /\ \E g \in flights : InlineLost(g)
             /\ \A p, q \in DOMAIN queue' : queue'[p] = Len(intent) /\ p = q
  <2>1. queue = <<>> /\ f.op = Len(intent)
    BY <1>0, <1>1 DEF InlineAlone, InlineLost
  <2>2. Replays = {}
    BY <1>0, <2>1 DEF ReplaysOK
  <2>3. Replays' = {}
    BY <1>1, <2>2, Ending, Dropping DEF Ends
  <2>4. \A p \in DOMAIN queue' : queue'[p] = Len(intent)
    BY <1>1, <2>1 DEF Joins, Joined
  <2>5. \A p, q \in DOMAIN queue' : p = q
    BY <2>4, QueueStep DEF Once
  <2> QED BY <1>1, <2>1, <2>2, <2>3, <2>4, <2>5
<1>2. ASSUME NEW t \in Tabs, NEW a \in Acts(t), Act(t, a), Joins(Len(intent) + 1)
      PROVE  queue' = queue \/ flights' = flights
  BY <1>0, <1>2, PastSeen
<1> QED BY <1>1, <1>2, QueueStep

LEMMA EditsInOrderStep ==
    ASSUME IInv, Next, Orderly'
    PROVE  EditsInOrder'
<1>0. /\ EditsInOrder /\ Len(intent) \in Nat
      /\ \A i \in Intents : i \in Nat /\ i <= Len(intent) /\ (intent'[i].k = "edit" <=> IsEdit(i))
      /\ \A p \in DOMAIN queue : queue[p] \in Intents
      /\ Once(queue') /\ DOMAIN queue' \subseteq Nat
  <2>1. queue' \in Seq(Intents') /\ Once(queue')
    BY QueueStep
  <2>2. DOMAIN queue' \subseteq Nat
    BY <2>1, LenProperties
  <2> QED BY <2>1, <2>2, OrderFacts DEF IsEdit
<1> SUFFICES ASSUME NEW p \in DOMAIN queue', NEW q \in DOMAIN queue', p < q,
                    intent'[queue'[p]].k = "edit", intent'[queue'[q]].k = "edit"
             PROVE  queue'[p] < queue'[q]
  BY DEF EditsInOrder, IsEdit
<1>1. CASE queue' = queue
  BY <1>0, <1>1 DEF EditsInOrder, IsEdit
<1>2. CASE Shrinks
  <2>1. PICK a \in DOMAIN queue, b \in DOMAIN queue : a < b /\ queue[a] = queue'[p] /\ queue[b] = queue'[q]
    BY <1>2 DEF Shrinks, Thinned
  <2>2. IsEdit(queue[a]) /\ IsEdit(queue[b])
    BY <1>0, <2>1 DEF IsEdit
  <2> QED BY <1>0, <2>1, <2>2 DEF EditsInOrder
<1>3. CASE Joins(Len(intent) + 1)
  <2>1. PICK i : i = Len(intent) + 1
    OBVIOUS
  <2>2. /\ queue'[p] = i \/ (p \in DOMAIN queue /\ queue'[p] = queue[p])
        /\ queue'[q] = i \/ (q \in DOMAIN queue /\ queue'[q] = queue[q])
        /\ intent'[i].k # "text" /\ queue'[p] = i => q <= p
    BY <1>3, <2>1 DEF Joins, Joined
  <2>3. queue'[p] # i
    <3>1. SUFFICES ASSUME queue'[p] = i PROVE FALSE
      OBVIOUS
    <3>2. intent'[i].k = "edit"
      BY <3>1
    <3> QED BY <1>0, <2>2, <3>1, <3>2
  <2>4. CASE queue'[q] = i
    BY <1>0, <2>1, <2>2, <2>3, <2>4
  <2>5. CASE queue'[q] # i
    <3>1. IsEdit(queue[p]) /\ IsEdit(queue[q])
      BY <1>0, <2>2, <2>3, <2>5 DEF IsEdit
    <3> QED BY <1>0, <2>2, <2>3, <2>5, <3>1 DEF EditsInOrder
  <2> QED BY <2>4, <2>5
<1>4. CASE \A a, b \in DOMAIN queue' : a = b
  BY <1>0, <1>4
<1> QED BY <1>1, <1>2, <1>3, <1>4, OrderlyQueue

LEMMA AppliedFirstStep ==
    ASSUME IInv, Next, Orderly'
    PROVE  AppliedFirst'
<1>0. /\ AppliedFirst /\ Len(intent) \in Nat /\ AppliedOK /\ EditsInOrder /\ HeadReplayed /\ InlineAlone
      /\ ReplaysOK /\ ~seen'.late
      /\ \A i \in Intents : i \in Nat /\ i <= Len(intent) /\ (intent'[i].k = "edit" <=> IsEdit(i))
      /\ \A p \in DOMAIN queue : queue[p] \in Intents
      /\ \A f \in flights : f.op \in Intents
      /\ DOMAIN queue = 1 .. Len(queue) /\ Len(queue) \in Nat
  BY OrderFacts DEF IsEdit
<1> SUFFICES ASSUME NEW i \in seen'.applied, NEW p \in DOMAIN queue',
                    intent'[i].k = "edit", intent'[queue'[p]].k = "edit"
             PROVE  i <= queue'[p]
  BY DEF AppliedFirst, IsEdit
<1>1. CASE i \in seen.applied
  <2>0. i \in Intents /\ IsEdit(i) /\ i \in Nat /\ i <= Len(intent)
    BY <1>0, <1>1 DEF AppliedOK
  <2>1. ASSUME NEW a \in DOMAIN queue, queue[a] = queue'[p]
        PROVE  i <= queue'[p]
    BY <1>0, <1>1, <2>0, <2>1 DEF AppliedFirst, IsEdit
  <2>2. CASE queue' = queue
    BY <2>1, <2>2
  <2>3. CASE Shrinks
    BY <2>1, <2>3 DEF Shrinks, Thinned, Waits
  <2>4. CASE Joins(Len(intent) + 1)
    <3>1. queue'[p] = Len(intent) + 1 \/ (p \in DOMAIN queue /\ queue'[p] = queue[p])
      BY <2>4 DEF Joins, Joined
    <3> QED BY <1>0, <2>0, <2>1, <3>1
  <2>5. CASE \A a, b \in DOMAIN queue' : queue'[a] = Len(intent) /\ a = b
    BY <2>0, <2>5
  <2> QED BY <2>2, <2>3, <2>4, <2>5, OrderlyQueue
<1>2. CASE i \notin seen.applied
  <2>1. PICK f \in flights : i = f.op /\ Serve(f)
    BY <1>2, AppliedOnly
  <2>2. queue' = queue /\ f.stage # "adrift"
    BY <1>0, <2>1, LateSeen DEF Serve, box
  <2>3. CASE f.stage = "inline"
    BY <1>0, <2>2, <2>3 DEF InlineAlone
  <2>4. CASE f.stage # "inline"
    <3>1. f \in Replays
      BY <2>2, <2>4 DEF Replays
    <3>2. queue[1] = i /\ 1 \in DOMAIN queue /\ IsEdit(i)
      BY <1>0, <2>1, <2>2, <3>1 DEF HeadReplayed, ReplaysOK
    <3>3. IsEdit(queue[p]) /\ p \in DOMAIN queue
      BY <1>0, <2>2 DEF IsEdit
    <3>4. CASE p = 1
      BY <1>0, <2>2, <3>2, <3>4
    <3>5. CASE p # 1
      <4>1. 1 < p
        BY <1>0, <3>3, <3>5
      <4>2. i < queue[p]
        BY <1>0, <3>2, <3>3, <4>1 DEF EditsInOrder
      <4> QED BY <1>0, <2>1, <2>2, <3>3, <4>2
    <3> QED BY <3>4, <3>5
  <2> QED BY <2>3, <2>4
<1> QED BY <1>1, <1>2

LEMMA InlineAloneStep ==
    ASSUME IInv, Next, Orderly'
    PROVE  InlineAlone'
<1>0. InlineAlone /\ ~seen'.overtook /\ ~seen'.overlapped /\ TypeOK /\ Shape
  BY OrderFacts
<1> SUFFICES ASSUME NEW f \in flights', f.stage = "inline"
             PROVE  /\ queue' = <<>> /\ f.op = Len(intent')
                    /\ \A g \in flights' : g.stage = "inline" => g = f
  BY DEF InlineAlone
<1> DEFINE Alone == /\ queue' = <<>> /\ f.op = Len(intent')
                    /\ \A g \in flights' : g.stage = "inline" => g = f
<1>1. ASSUME NEW t \in Tabs, NEW a \in Acts(t), Act(t, a)
      PROVE  Alone
  <2>1. \A g \in flights : g.stage # "inline"
    BY <1>0, <1>1, ActOverlaps
  <2>2. flights' # flights
    BY <2>1
  <2>3. queue = <<>> /\ queue' = queue
    BY <1>0, <1>1, <2>2, PastSeen
  <2>4. PICK g : flights' = flights \cup {g} /\ g.op = Len(intent) + 1
    BY <1>1, <2>2, Sending
  <2>5. Len(intent') = Len(intent) + 1
    BY <1>0, <1>1, Acting
  <2> QED BY <2>1, <2>3, <2>4, <2>5
<1>2. ASSUME f \in flights, \A g \in flights' : g.stage = "inline" => g \in flights,
             intent' = intent, \A h \in flights : InlineLost(h) => h \notin flights' \/ h.stage # "inline",
             ~\E t \in Tabs : \E a \in Acts(t) : Act(t, a)
      PROVE  Alone
  <2>1. queue = <<>> /\ f.op = Len(intent) /\ \A g \in flights : g.stage = "inline" => g = f
    BY <1>0, <1>2 DEF InlineAlone
  <2>2. \A g \in flights' : g.stage = "inline" => g = f
    BY <1>2, <2>1
  <2>3. ~\E h \in flights : InlineLost(h)
    BY <1>2, <2>1 DEF InlineLost
  <2>4. queue' = <<>>
    BY <1>2, <2>1, <2>3, QueueStep DEF Shrinks
  <2> QED BY <1>2, <2>1, <2>2, <2>4
<1>3. ASSUME NEW h \in flights, NEW g, Replaced(h, g), queue' = queue, intent' = intent
      PROVE  Alone
  <2>1. PICK o \in flights : /\ o.stage = "inline" /\ o.op = f.op
                             /\ \/ f = o /\ f # h
                                \/ o = h /\ f = g
    <3>1. CASE f = g
      BY <1>3, <3>1 DEF Replaced
    <3>2. CASE f # g
      <4>1. f \in flights /\ f # h
        BY <1>3, <3>2 DEF Replaced
      <4> QED BY <4>1
    <3> QED BY <3>1, <3>2
  <2>2. queue = <<>> /\ o.op = Len(intent) /\ \A x \in flights : x.stage = "inline" => x = o
    BY <1>0, <2>1 DEF InlineAlone
  <2>3. ASSUME NEW x \in flights', x.stage = "inline"
        PROVE  x = f
    <3>1. PICK y \in flights : /\ y.stage = "inline"
                               /\ \/ x = y /\ x # h
                                  \/ y = h /\ x = g
      <4>1. CASE x = g
        BY <1>3, <2>3, <4>1 DEF Replaced
      <4>2. CASE x # g
        <5>1. x \in flights /\ x # h
          BY <1>3, <2>3, <4>2 DEF Replaced
        <5> QED BY <2>3, <5>1
      <4> QED BY <4>1, <4>2
    <3>2. y = o
      BY <2>2, <3>1
    <3> QED BY <2>1, <3>1, <3>2
  <2> QED BY <1>3, <2>1, <2>2, <2>3
<1>4. ASSUME NEW h \in flights,
             \/ Serve(h) /\ h.stage # "adrift"
             \/ Fail(h) \/ KeepText(h) \/ UpdateCopy(h) \/ FreshCopy(h)
      PROVE  Alone
  <2>1. queue' = queue /\ intent' = intent
    BY <1>4 DEF Serve, Fail, KeepText, UpdateCopy, FreshCopy, box
  <2> HIDE DEF Alone
  <2> QED BY <1>3, <1>4, <2>1, Replacing
<1>5. ASSUME ~\E t \in Tabs : \E a \in Acts(t) : Act(t, a),
             ~\E h \in flights : \/ Serve(h) /\ h.stage # "adrift"
                                 \/ Fail(h) \/ KeepText(h) \/ UpdateCopy(h) \/ FreshCopy(h)
      PROVE  Alone
  <2>1. intent' = intent
    BY ZenonT(40), <1>5 DEF Next, Open, Load, Close, Replay, StartReplay, ReplayEmpty, ReplayDoomed, ReplayHead,
                Serve, InlineLost, ReplayLost, Settle, InlineDone, InlineRefused, ReplayLanded,
                AlreadyThere, CopyMade, CopyUpdated, Land, ReplayBusy, ReplayRefused,
                Refetch, Disconnect, Reconnect, Foreign, ForgetKey
  <2>2. \A g \in flights' : g.stage = "inline" => g \in flights
    <3>1. ASSUME NEW h \in flights, Ends(h)
          PROVE  \A g \in flights' : g.stage = "inline" => g \in flights
      BY <3>1, Ending, Dropping
    <3>2. ASSUME NEW t \in Tabs, Close(t)
          PROVE  \A g \in flights' : g.stage = "inline" => g \in flights
      BY <3>2, Closing, Dropping
    <3>3. ASSUME NEW t \in Tabs, ReplayHead(t)
          PROVE  \A g \in flights' : g.stage = "inline" => g \in flights
      BY <3>3, Replaying
    <3> QED BY <1>5, <3>1, <3>2, <3>3
            DEF Next, Open, Load, Replay, StartReplay, ReplayEmpty, ReplayDoomed, Settle, Ends, Landed,
                Refetch, Disconnect, Reconnect, Foreign, ForgetKey
  <2>3. \A h \in flights : InlineLost(h) => h \notin flights' \/ h.stage # "inline"
    BY Ending, Dropping DEF Ends
  <2> HIDE DEF Alone
  <2> QED BY <1>2, <1>5, <2>1, <2>2, <2>3
<1> QED BY <1>1, <1>4, <1>5

LEMMA HeadReplayedStep ==
    ASSUME IInv, Next, Orderly'
    PROVE  HeadReplayed'
<1>0. /\ HeadReplayed /\ ReplaysOK /\ TypeOK /\ Shape
      /\ \A i \in Intents : intent'[i] = intent[i] /\ (IsEdit(i)' <=> IsEdit(i))
      /\ \A f \in flights : f.op \in Intents
      /\ \A p \in DOMAIN queue : queue[p] \in Intents
      /\ queue # <<>> => 1 \in DOMAIN queue /\ Head(queue) = queue[1]
  BY OrderFacts, Basics
<1> SUFFICES ASSUME NEW f \in Replays', IsEdit(f.op)'
             PROVE  queue'[1] = f.op
  BY DEF HeadReplayed, IsEdit
<1>1. CASE f.op = Head(queue) /\ queue # <<>> /\ queue' = queue
  BY <1>0, <1>1
<1>2. ASSUME NEW h \in Replays, h.op = f.op
      PROVE  queue'[1] = f.op
  <2>1. h \in flights
    BY DEF Replays
  <2>2. queue[1] = f.op /\ 1 \in DOMAIN queue
    BY <1>0, <1>2, <2>1 DEF HeadReplayed, ReplaysOK
  <2>3. CASE queue' = queue
    BY <2>2, <2>3
  <2>4. CASE Joins(Len(intent) + 1)
    <3>1. \/ queue'[1] = queue[1] \/ intent'[queue[1]].k = "text"
      BY <2>2, <2>4 DEF Joins, Joined
    <3> QED BY <2>2, <3>1 DEF IsEdit
  <2>5. Replays' # {} /\ Replays # {}
    OBVIOUS
  <2> QED BY <2>3, <2>4, <2>5, OrderlyQueue DEF Shrinks
<1> QED BY <1>1, <1>2, ReplayOps

(* Only a change of an item marks it.                                        *)
LEMMA Labels ==
    ASSUME IInv, Next, NEW n \in DOMAIN notes
    PROVE  \/ notes'[n].label = notes[n].label
           \/ \E f \in flights : Serve(f) /\ f.req.what = "edit" /\ notes'[n].label = f.op
<1>0. /\ TypeOK /\ Shape /\ FlightsOK
      /\ Len(notes) \in Nat /\ DOMAIN notes = 1 .. Len(notes)
      /\ \A k \in DOMAIN notes : notes[k] \in NoteRecords
  BY Parts, Basics
<1>1. CASE notes' = notes
  BY <1>1
<1>2. ASSUME NEW f \in flights, Serve(f)
      PROVE  \/ notes'[n].label = notes[n].label
             \/ f.req.what = "edit" /\ notes'[n].label = f.op
  <2> DEFINE r == f.req
             h == Handle(r)
  <2>1. r \in Requests /\ r.op = f.op /\ notes' = h.notes
        /\ (r.what # "create" => r.note \in DOMAIN notes)
    BY <1>0, <1>2 DEF Shape, Flights, FlightsOK, RequestOK, Serve
  <2> HIDE DEF r, h
  <2>2. CASE Insertion(r, h)
    <3> DEFINE w == NewNote(r)
    <3>1. w \in NoteRecords
      BY <2>1, FreshNote
    <3>2. notes' = Append(notes, w)
      BY <2>1, <2>2 DEF Insertion
    <3> HIDE DEF w
    <3>3. notes'[n] = notes[n]
      BY <1>0, <3>1, <3>2, AppendProperties DEF Shape
    <3> QED BY <3>3
  <2>3. CASE Change(r, h)
    <3> DEFINE w == Written(notes[r.note], r)
    <3>1. /\ r.what = "edit" => w.label = r.op
          /\ r.what # "edit" => w.label = notes[r.note].label
      BY <1>0, <2>1, <2>3, WrittenNote DEF Change
    <3>2. notes' = [notes EXCEPT ![r.note] = w]
      BY <2>1, <2>3 DEF Change
    <3> HIDE DEF w
    <3>3. notes'[n] = IF n = r.note THEN w ELSE notes[n]
      BY <3>2
    <3> QED BY <2>1, <3>1, <3>3 DEF r
  <2> QED BY <2>1, <2>2, <2>3, Handling DEF Refusal, Conflict, Repeat, h
<1>3. ASSUME NEW k \in DOMAIN notes, Foreign(k)
      PROVE  notes'[n].label = notes[n].label
  <2> DEFINE b == -(spent.foreign + 1)
             v == notes[k].rev + 1
  <2>1. \/ notes' = [notes EXCEPT ![k].body = b, ![k].rev = v, ![k].theirs = TRUE]
        \/ notes' = [notes EXCEPT ![k].gone = TRUE, ![k].theirs = TRUE]
    BY <1>3 DEF Foreign, ForgetKey
  <2> HIDE DEF b, v
  <2> DEFINE w1 == [notes[k] EXCEPT !.body = b, !.rev = v, !.theirs = TRUE]
             w2 == [notes[k] EXCEPT !.gone = TRUE, !.theirs = TRUE]
  <2>2. w1.label = notes[k].label /\ w2.label = notes[k].label
    BY <1>0 DEF NoteRecords
  <2>3. notes' = [notes EXCEPT ![k] = w1] \/ notes' = [notes EXCEPT ![k] = w2]
    BY <2>1
  <2> HIDE DEF w1, w2
  <2> QED BY <2>2, <2>3
<1>4. ASSUME NEW k \in DOMAIN notes, ForgetKey(k)
      PROVE  notes'[n].label = notes[n].label
  BY <1>0, <1>4, Forgetting
<1> QED BY ZenonT(40), <1>1, <1>2, <1>3, <1>4
        DEF Next, Open, Load, Close, Replay, Act, StartReplay, ReplayEmpty, ReplayDoomed, ReplayHead,
            Fail, InlineLost, ReplayLost, Settle, InlineDone, InlineRefused, ReplayLanded,
            AlreadyThere, KeepText, CopyMade, UpdateCopy, CopyUpdated, FreshCopy, ReplayBusy,
            ReplayRefused, Land, Refetch, Disconnect, Reconnect

(* A change that went through marks the item it means.                       *)
LEMMA EditApplied ==
    ASSUME IInv, NEW f \in flights, Serve(f), f.req.what = "edit",
           Fulfils(Handle(f.req).ans, f.req)
    PROVE  notes'[f.req.note].label = f.op
<1> DEFINE r == f.req
           h == Handle(r)
<1>0. /\ r \in Requests /\ r.op = f.op /\ notes' = h.notes /\ r.note \in DOMAIN notes
      /\ r.what = "edit" /\ Fulfils(h.ans, r) /\ \A k \in DOMAIN notes : notes[k] \in NoteRecords
  BY Parts, Basics DEF Shape, Flights, FlightsOK, RequestOK, Serve
<1> HIDE DEF r, h
<1>1. h.ans.st \in {"ok", "stale"}
  BY <1>0 DEF Fulfils
<1>2. Change(r, h)
  <2>1. ~Refusal(r, h)
    BY <1>1, Saying DEF Refusal
  <2> QED BY <1>0, <2>1, Handling DEF Conflict, Repeat, Insertion, h
<1> DEFINE w == Written(notes[r.note], r)
<1>3. w.label = r.op
  BY <1>0, WrittenNote
<1>4. notes' = [notes EXCEPT ![r.note] = w]
  BY <1>0, <1>2 DEF Change
<1> HIDE DEF w
<1> QED BY <1>0, <1>3, <1>4 DEF r

LEMMA NewestShownStep ==
    ASSUME IInv, Next, Orderly'
    PROVE  NewestShown'
<1>0. /\ NewestShown /\ AppliedOK /\ AppliedFirst /\ HeadReplayed /\ InlineAlone /\ ReplaysOK
      /\ TypeOK /\ Shape /\ IntentOK /\ FlightsOK /\ Later /\ ~seen'.late
      /\ \A i \in Intents : i \in Nat /\ i <= Len(intent) /\ (IsEdit(i)' <=> IsEdit(i))
      /\ \A f \in flights : f.op \in Intents
      /\ DOMAIN queue = 1 .. Len(queue) /\ Len(queue) \in Nat
  BY OrderFacts
<1> SUFFICES ASSUME NEW i \in seen'.applied, IsEdit(i)'
             PROVE  i <= notes'[RealNote(i)'].label
  BY DEF NewestShown
<1>1. \A f \in flights : Serve(f) /\ f.req.what = "edit" => IsEdit(f.op) /\ f.stage # "adrift"
  BY <1>0, LateSeen DEF FlightsOK, RequestOK, IsEdit
<1>2. ASSUME NEW f \in flights, Serve(f), f.req.what = "edit", NEW j \in seen.applied, IsEdit(j)
      PROVE  j <= f.op
  <2>1. CASE f.stage = "inline"
    BY <1>0, <1>2, <2>1 DEF InlineAlone, AppliedOK
  <2>2. CASE f.stage # "inline"
    <3>1. f \in Replays /\ IsEdit(f.op)
      BY <1>1, <1>2, <2>2 DEF Replays
    <3>2. queue[1] = f.op /\ 1 \in DOMAIN queue
      BY <1>0, <3>1 DEF HeadReplayed, ReplaysOK
    <3> QED BY <1>0, <1>2, <3>1, <3>2 DEF AppliedFirst
  <2> QED BY <2>1, <2>2
<1>3. CASE i \in seen.applied
  <2>1. i \in Intents /\ IsEdit(i)
    BY <1>0, <1>3 DEF AppliedOK
  <2>2. Resolvable(i) /\ RealNote(i) \in DOMAIN notes
    BY <1>0, <1>3, <2>1 DEF AppliedOK
  <2>3. PICK n \in DOMAIN notes : n = RealNote(i) /\ n = RealNote(i)'
    BY <1>0, <2>1, <2>2, ResolvedLater
  <2>4. i <= notes[n].label
    BY <1>0, <1>3, <2>1, <2>3 DEF NewestShown
  <2>5. CASE notes'[n].label = notes[n].label
    BY <2>3, <2>4, <2>5
  <2>6. ASSUME NEW f \in flights, Serve(f), f.req.what = "edit", notes'[n].label = f.op
        PROVE  i <= notes'[RealNote(i)'].label
    BY <1>2, <1>3, <2>1, <2>3, <2>6
  <2> QED BY <2>5, <2>6, Labels
<1>4. CASE i \notin seen.applied
  <2>1. PICK f \in flights : i = f.op /\ Serve(f) /\ Fulfils(Handle(f.req).ans, f.req)
    BY <1>4, AppliedOnly
  <2>2. f.req.what = "edit" /\ Resolvable(i) /\ f.req.note = RealNote(i) /\ i \in Intents
    BY <1>0, <2>1 DEF FlightsOK, RequestOK, IsEdit
  <2>3. notes'[f.req.note].label = i
    BY <2>1, <2>2, EditApplied
  <2>4. RealNote(i)' = f.req.note
    BY <1>0, <2>2, ResolvedLater
  <2> QED BY <1>0, <2>2, <2>3, <2>4
<1> QED BY <1>3, <1>4

LEMMA OrderStep ==
    ASSUME IInv, Next
    PROVE  OrderOK'
BY EditsInOrderStep, AppliedFirstStep, InlineAloneStep, HeadReplayedStep, NewestShownStep
   DEF OrderOK, EditsInOrder, AppliedFirst, InlineAlone, HeadReplayed, NewestShown, Orderly, IsEdit,
       Replays, RealNote, Became

-----------------------------------------------------------------------------
(* The invariant holds at first, and every step keeps it.                    *)

LEMMA Start ==
    ASSUME Init
    PROVE  IInv
<1>1. /\ intent = <<>> /\ Intents = {} /\ queue = <<>> /\ DOMAIN queue = {}
  <2>1. intent = <<>> /\ queue = <<>>
    BY DEF Init
  <2>2. Len(<<>>) = 0 /\ DOMAIN <<>> = {}
    OBVIOUS
  <2> QED BY <2>1, <2>2 DEF Intents
<1>2. /\ Len(notes) = 1 /\ DOMAIN notes = {1} /\ notes \in Seq(NoteRecords)
      /\ notes[1].rev = 0 /\ notes[1].typing = NoTyping /\ notes[1].by = 0 /\ notes[1].key = KeyOf(0)
  <2> DEFINE w == [body |-> Original, rev |-> 0, label |-> 0, key |-> <<0, 0>>, by |-> 0,
                   typing |-> NoTyping, gone |-> FALSE, theirs |-> FALSE, known |-> FALSE]
  <2>1. MaxActs \in Nat
    BY OutboxAssumption
  <2>2. w \in NoteRecords
    BY <2>1 DEF NoteRecords, Original, NoTyping, NoRev, Keys, Typings
  <2>3. w.rev = 0 /\ w.typing = NoTyping /\ w.by = 0 /\ w.key = KeyOf(0)
    BY DEF KeyOf
  <2>4. notes = <<w>>
    BY DEF Init
  <2> HIDE DEF w
  <2> QED BY <2>2, <2>3, <2>4
<1>3. /\ flights = {} /\ Replays = {} /\ Cardinality(Replays) <= 1
  BY FS_EmptySet DEF Init, Replays
<1>4. /\ ids = {} /\ dead = {} /\ revs = {} /\ copies = {} /\ minted = 0 /\ base = [t \in Tabs |-> 0]
      /\ \A t \in Tabs : tab[t].live = {}
  BY DEF Init
<1>5. tab \in [Tabs -> Pages]
  BY DEF Init, Pages
<1>6. seen \in Histories /\ seen.applied = {} /\ seen.queued = {} /\ seen.ousted = {}
  BY DEF Init, Histories
<1>7. TypeOK
  <2>1. /\ DOMAIN tries = 1 .. MaxActs /\ \A i \in DOMAIN tries : tries[i] \in 0 .. MaxAttempts
    BY OutboxAssumption DEF Init
  <2>2. holder \in Tabs \cup {NoTab} /\ \A t \in Tabs : tab[t].stage \in {"closed", "loading", "open"}
    BY DEF Init
  <2>3. intent \in Seq(Intent) /\ queue \in Seq(Intents)
    BY <1>1
  <2>4. base \in [Tabs -> 0 .. notes[1].rev]
    BY <1>2, <1>4
  <2> QED BY <1>1, <1>3, <1>4, <2>1, <2>2, <2>3, <2>4 DEF TypeOK
<1>8. Shape
  <2>1. spent \in Spendings
    BY DEF Init, Spendings
  <2> QED BY <1>2, <1>3, <1>4, <1>5, <1>6, <2>1 DEF Shape
<1>9. IntentOK /\ NothingLost
  BY <1>1, <1>6 DEF Init, IntentOK, NothingLost
<1>10. KeysOK
  BY <1>2, <1>4 DEF KeysOK
<1>11. OwnOK /\ FlightsOK /\ InlineOK /\ ReplaysOK
  BY <1>3, <1>4 DEF OwnOK, Own, FlightsOK, InlineOK, ReplaysOK
<1>12. AppliedOK /\ OrderOK
  BY <1>1, <1>3, <1>6 DEF AppliedOK, OrderOK
<1>13. MadeOK
  BY DEF Init, MadeOK, Replays
<1> QED BY <1>7, <1>8, <1>9, <1>10, <1>11, <1>12, <1>13 DEF IInv

-----------------------------------------------------------------------------
(* What a temporary id became.                                               *)

(* What has left the queue is not in it.                                     *)
LEMMA NotWithin ==
    ASSUME NEW S, NEW q \in Seq(S), Once(q), NEW i
    PROVE  ~Waits(Without(q, i), i)
<1> DEFINE w == Without(q, i)
           places == {p \in DOMAIN q : q[p] = i}
<1>0. Len(q) \in Nat /\ DOMAIN q = 1 .. Len(q)
  BY LenProperties
<1>1. CASE places = {}
  BY <1>1 DEF Without, Waits
<1>2. CASE places # {}
  <2>1. PICK k : k = CHOOSE p \in places : TRUE
    OBVIOUS
  <2>2. k \in DOMAIN q /\ q[k] = i
    BY <1>2, <2>1
  <2>3. w = [p \in 1 .. Len(q) - 1 |-> IF p < k THEN q[p] ELSE q[p + 1]]
    BY <1>2, <2>1 DEF Without
  <2> HIDE DEF w
  <2>4. \A p \in DOMAIN w : \/ p \in DOMAIN q /\ p # k /\ w[p] = q[p]
                            \/ p + 1 \in DOMAIN q /\ p + 1 # k /\ w[p] = q[p + 1]
    BY <1>0, <2>2, <2>3
  <2>5. \A r \in DOMAIN q : r # k => q[r] # i
    BY <2>2 DEF Once
  <2> QED BY <2>4, <2>5 DEF Waits, w
<1> QED BY <1>1, <1>2

(* What is out at once was out at once before, or is new.                    *)
LEMMA InlineOps ==
    ASSUME IInv, Next
    PROVE  \A f \in flights' : f.stage = "inline" =>
              \/ \E h \in flights : h.stage = "inline" /\ h.op = f.op
              \/ f.op = Len(intent) + 1
<1> SUFFICES ASSUME NEW f \in flights', f.stage = "inline"
             PROVE  \/ \E h \in flights : h.stage = "inline" /\ h.op = f.op
                    \/ f.op = Len(intent) + 1
  OBVIOUS
<1>1. CASE flights' = flights
  BY <1>1
<1>2. ASSUME NEW h \in flights, NEW g, Replaced(h, g)
      PROVE  \E x \in flights : x.stage = "inline" /\ x.op = f.op
  BY <1>2 DEF Replaced
<1>3. ASSUME NEW h \in flights, Ends(h)
      PROVE  \E x \in flights : x.stage = "inline" /\ x.op = f.op
  BY <1>3, Ending, Dropping
<1>4. ASSUME NEW t \in Tabs, Close(t)
      PROVE  \E x \in flights : x.stage = "inline" /\ x.op = f.op
  BY <1>4, Closing, Dropping
<1>5. ASSUME NEW t \in Tabs, NEW a \in Acts(t), Act(t, a)
      PROVE  (\E x \in flights : x.stage = "inline" /\ x.op = f.op) \/ f.op = Len(intent) + 1
  BY <1>5, Sending
<1>6. ASSUME NEW h \in flights,
             \/ Serve(h) /\ h.stage # "adrift"
             \/ Fail(h) \/ KeepText(h) \/ UpdateCopy(h) \/ FreshCopy(h)
      PROVE  \E x \in flights : x.stage = "inline" /\ x.op = f.op
  BY <1>2, <1>6, Replacing
<1>7. ASSUME NEW t \in Tabs, ReplayHead(t)
      PROVE  \E x \in flights : x.stage = "inline" /\ x.op = f.op
  BY <1>7, Replaying
<1> QED BY <1>1, <1>3, <1>4, <1>5, <1>6, <1>7
        DEF Next, Open, Load, Replay, StartReplay, ReplayEmpty, ReplayDoomed, Settle, Ends, Landed,
            Refetch, Disconnect, Reconnect, Foreign, ForgetKey

(* Only a create that lands tells what its temporary id became.              *)
LEMMA IdsOnly ==
    ASSUME IInv, Next
    PROVE  \/ ids' = ids
           \/ \E f \in flights : Landed(f)
BY ZenonT(40) DEF Next, Open, Load, Close, Act, Replay, StartReplay, ReplayEmpty, ReplayDoomed,
       ReplayHead, Serve, Fail, InlineLost, ReplayLost, Settle, InlineDone, InlineRefused, Landed,
       KeepText, UpdateCopy, FreshCopy, ReplayBusy, ReplayRefused, Foreign, ForgetKey, Refetch,
       Disconnect, Reconnect, box

LEMMA MadeStep ==
    ASSUME IInv, Next
    PROVE  MadeOK'
<1>0. /\ TypeOK /\ Shape /\ KeysOK /\ FlightsOK /\ InlineOK /\ MadeOK /\ Later
      /\ queue \in Seq(Intents) /\ Once(queue) /\ Len(intent) \in Nat
      /\ \A p \in ids : p[1] \in Intents /\ p[1] # Len(intent) + 1
      /\ \A i \in Intents : intent'[i] = intent[i]
      /\ DOMAIN queue = 1 .. Len(queue) /\ \A p \in DOMAIN queue : queue[p] \in Intents
  <2>1. /\ TypeOK /\ Shape /\ KeysOK /\ FlightsOK /\ InlineOK /\ MadeOK /\ Later
        /\ queue \in Seq(Intents) /\ Once(queue)
    BY Parts, StepLater DEF IInv, TypeOK, Once
  <2>2. Len(intent) \in Nat /\ \A i \in Intents : i # Len(intent) + 1
    BY <2>1, Basics DEF Intents
  <2>3. \A p \in ids : p[1] \in Intents
    BY <2>1 DEF TypeOK
  <2> QED BY <2>1, <2>2, <2>3, Basics DEF Later
<1>1. ASSUME NEW p \in ids
      PROVE  ~InQueue(p[1])' /\ \A f \in flights' : f.stage = "inline" => f.op # p[1]
  <2>1. \A f \in flights' : f.stage = "inline" => f.op # p[1]
    BY <1>0, InlineOps DEF MadeOK
  <2>2. PICK c : c = p[1] /\ c # Len(intent) + 1 /\ ~InQueue(c)
    BY <1>0 DEF MadeOK
  <2>3. ASSUME queue' = queue
        PROVE  ~InQueue(c)'
    BY <2>2, <2>3 DEF InQueue
  <2>4. ASSUME Shrinks
        PROVE  ~InQueue(c)'
    BY <2>2, <2>4 DEF InQueue, Shrinks, Thinned, Waits
  <2>5. ASSUME NEW i, Joins(i), i # c
        PROVE  ~InQueue(c)'
    BY <2>2, <2>5 DEF InQueue, Joins, Joined
  <2>6. ASSUME NEW f \in flights, InlineLost(f)
        PROVE  f.op # c
    BY <1>0, <2>2, <2>6 DEF MadeOK, InlineLost
  <2>7. ~InQueue(c)'
    BY <2>2, <2>3, <2>4, <2>5, <2>6, QueueStep
  <2> QED BY <2>1, <2>2, <2>7 DEF InQueue
<1>2. ASSUME NEW f \in flights, Landed(f), intent[f.op].k = "create"
      PROVE  ~InQueue(f.op)' /\ \A g \in flights' : g.stage = "inline" => g.op # f.op
  <2>1. f \in Replays /\ queue' = Without(queue, f.op)
    BY <1>0, <1>2, Landing DEF Land
  <2>2. ~InQueue(f.op)'
    BY <1>0, <2>1, NotWithin DEF InQueue, Waits
  <2>3. InQueue(f.op)
    BY <1>0, <1>2, <2>1 DEF MadeOK
  <2>4. \A g \in flights' : g.stage = "inline" => g \in flights
    BY <1>2, Ending, Dropping DEF Ends
  <2> QED BY <1>0, <2>2, <2>3, <2>4 DEF InlineOK
<1>3. ASSUME NEW p \in ids'
      PROVE  ~InQueue(p[1])' /\ \A f \in flights' : f.stage = "inline" => f.op # p[1]
  <2>1. CASE p \in ids
    BY <1>1, <2>1
  <2>2. ASSUME NEW f \in flights, Landed(f), p \notin ids
        PROVE  intent[f.op].k = "create" /\ p[1] = f.op
    BY <1>0, <2>2, LandedKeys DEF Later
  <2> QED BY <1>2, <2>1, <2>2, IdsOnly
<1>4. ASSUME NEW f \in Replays', intent'[f.op].k = "create"
      PROVE  InQueue(f.op)'
  <2>1. /\ f.op \in Intents
        /\ \/ InQueue(f.op)
           \/ f.op = Head(queue) /\ queue # <<>> /\ queue' = queue
    <3>1. ASSUME NEW h \in Replays, h.op = f.op
          PROVE  f.op \in Intents /\ InQueue(f.op)
      <4>1. f.op \in Intents
        BY <1>0, <3>1 DEF FlightsOK, RequestOK, Replays
      <4> QED BY <1>0, <1>4, <3>1, <4>1 DEF MadeOK
    <3>2. CASE f.op = Head(queue) /\ queue # <<>> /\ queue' = queue
      <4>1. Head(queue) \in Intents
        BY <1>0, <3>2, Basics
      <4> QED BY <3>2, <4>1
    <3> QED BY <3>1, <3>2, ReplayOps
  <2>2. CASE f.op = Head(queue) /\ queue # <<>> /\ queue' = queue
    <3>1. 1 \in DOMAIN queue /\ Head(queue) = queue[1]
      BY <1>0, <2>2, Basics
    <3> QED BY <2>2, <3>1 DEF InQueue
  <2>3. CASE InQueue(f.op)
    <3>1. PICK p \in DOMAIN queue : queue[p] = f.op
      BY <2>3 DEF InQueue
    <3>2. ~Shrinks
      BY <1>4 DEF Shrinks
    <3>3. ASSUME NEW i, Joins(i)
          PROVE  InQueue(f.op)'
      <4>1. p \in DOMAIN queue' /\ (queue'[p] = queue[p] \/ intent'[queue[p]].k = "text")
        BY <3>1, <3>3 DEF Joins, Joined
      <4> QED BY <1>4, <3>1, <4>1 DEF InQueue
    <3>4. CASE queue' = queue
      BY <3>1, <3>4 DEF InQueue
    <3> QED BY <3>2, <3>3, <3>4, QueueStep
  <2> QED BY <2>1, <2>2, <2>3
<1>5. \A p, q \in ids' : p[1] = q[1] => p = q
  BY <1>0 DEF Later
<1> QED BY <1>3, <1>4, <1>5 DEF MadeOK

LEMMA Preserved ==
    ASSUME IInv, [Next]_vars
    PROVE  IInv'
<1>1. CASE Next
  <2>1. IntentOK' /\ KeysOK'
    BY <1>1, Parts, StepLater DEF Later
  <2> QED BY <1>1, <2>1, TypeStep, ShapeStep, OwnStep, FlightsStep, NothingLostStep, InlineStep,
             ReplaysGo, AppliedStep, OrderStep, MadeStep DEF IInv
<1>2. CASE UNCHANGED vars
  <2>1. /\ intent' = intent /\ queue' = queue /\ ids' = ids /\ dead' = dead /\ revs' = revs
        /\ copies' = copies /\ tries' = tries /\ tab' = tab /\ holder' = holder
        /\ flights' = flights /\ minted' = minted /\ notes' = notes /\ base' = base
        /\ spent' = spent /\ seen' = seen
    BY <1>2 DEF vars, box
  <2>2. Intents' = Intents /\ Replays' = Replays
    BY <2>1 DEF Intents, Replays
  <2>3. \A i : (IsText(i)' <=> IsText(i)) /\ (IsEdit(i)' <=> IsEdit(i))
    BY <2>1 DEF IsText, IsEdit
  <2>4. \A i : (Resolvable(i)' <=> Resolvable(i)) /\ RealNote(i)' = RealNote(i)
    BY <2>1 DEF Resolvable, RealNote, Became
  <2>5. TypeOK' /\ Shape'
    BY <2>1, <2>2 DEF IInv, TypeOK, Shape
  <2>6. IntentOK' /\ KeysOK'
    BY <2>1, <2>2, <2>3 DEF IInv, IntentOK, KeysOK
  <2>7. OwnOK'
    BY <2>1 DEF IInv, OwnOK, Own, Ours
  <2>8. \A f \in flights : RequestOK(f)' /\ AnswerOK(f)' /\ TextOK(f)'
    BY <2>1, <2>2, <2>3, <2>4 DEF IInv, FlightsOK, RequestOK, AnswerOK, TextOK, Ours
  <2>9. FlightsOK'
    BY <2>1, <2>8 DEF FlightsOK
  <2>10. NothingLost' /\ InlineOK' /\ ReplaysOK'
    BY <2>1, <2>2, <2>3 DEF IInv, NothingLost, Accounted, Superseded, InlineOK, InQueue, ReplaysOK
  <2>11. AppliedOK' /\ OrderOK'
    BY <2>1, <2>2, <2>3, <2>4 DEF IInv, AppliedOK, OrderOK, Orderly
  <2>12. MadeOK'
    BY <2>1, <2>2 DEF IInv, MadeOK, InQueue
  <2> QED BY <2>5, <2>6, <2>7, <2>9, <2>10, <2>11, <2>12 DEF IInv
<1> QED BY <1>1, <1>2

LEMMA Invariance == Spec => []IInv
BY Start, Preserved, PTL DEF Spec

-----------------------------------------------------------------------------
(* What the invariant says of the properties.                                *)

(* An item keeps the newest of the changes that went through.                *)
LEMMA OrderSays ==
    ASSUME IInv
    PROVE  LastEditStands
<1> SUFFICES ASSUME Orderly, NEW n \in DOMAIN notes, NEW i \in EditsOf(n)
             PROVE  i <= notes[n].label
  BY DEF LastEditStands, Orderly
<1>1. i \in seen.applied /\ IsEdit(i) /\ RealNote(i) = n
  BY DEF EditsOf, IsEdit
<1>2. NewestShown
  BY OrderParts DEF IInv
<1> QED BY <1>1, <1>2 DEF NewestShown

(* Notes made by the same create have the same key, so they are one.  And a  *)
(* create is no text: nothing takes its place.                               *)
LEMMA KeysSay ==
    ASSUME IInv
    PROVE  CreatedOnce
<1>1. ASSUME NEW m \in DOMAIN notes, NEW n \in DOMAIN notes,
             notes[m].typing = NoTyping, notes[n].typing = NoTyping, notes[m].by = notes[n].by,
             notes[m].known, notes[n].known
      PROVE  m = n
  <2>1. notes[m].key = notes[n].key
    BY <1>1 DEF IInv, KeysOK
  <2> QED BY <1>1, <2>1 DEF IInv, KeysOK
<1>2. ASSUME NEW i \in Intents, intent[i].k = "create"
      PROVE  Accounted(i)
  <2>1. ~Superseded(i)
    BY <1>2 DEF Superseded, IsText
  <2>2. i \notin seen.ousted
    BY <1>2 DEF IInv, AppliedOK, IsText
  <2> QED BY <2>1, <2>2 DEF IInv, NothingLost
<1> QED BY <1>1, <1>2 DEF CreatedOnce

\* The words at note n of another device give way to these of flight f.
Seen(f, n) ==
    /\ f \notin flights' /\ f.req.note = n /\ f.stage # "update"
    /\ intent[f.op].rev = NoRev \/ intent[f.op].rev >= notes[n].rev

(* A text that is taken names no revision, or the one that stands; one that  *)
(* holds another device's words is not this device's own.                    *)
LEMMA TakenText ==
    ASSUME IInv, NEW f \in flights, Serve(f), NEW n \in DOMAIN notes, notes[n].body < 0,
           notes'[n].body # notes[n].body
    PROVE  Seen(f, n)
<1> DEFINE r == f.req
           h == Handle(r)
<1>0. /\ r \in Requests /\ notes' = h.notes /\ ~Answered(f) /\ TextOK(f) /\ f.op \in Intents
      /\ Len(notes) \in Nat /\ DOMAIN notes = 1 .. Len(notes)
      /\ \A k \in DOMAIN notes : notes[k] \in NoteRecords
      /\ (r.what # "create" => r.note \in DOMAIN notes)
      /\ f \in Flights
  BY Parts, Basics DEF Shape, Flights, FlightsOK, RequestOK, Serve
<1>1. Swap(f, IF f.stage = "adrift" THEN {} ELSE {[f EXCEPT !.ans = h.ans]})
  BY DEF Serve
<1> HIDE DEF r, h
<1>2. notes' # notes /\ ~Insertion(r, h)
  <2>1. ASSUME Insertion(r, h) PROVE FALSE
    <3> DEFINE w == NewNote(r)
    <3>1. w \in NoteRecords
      BY <1>0, FreshNote
    <3>2. notes' = Append(notes, w)
      BY <1>0, <2>1 DEF Insertion
    <3> HIDE DEF w
    <3>3. notes'[n] = notes[n]
      BY <1>0, <3>1, <3>2, AppendProperties, Parts DEF Shape
    <3> QED BY <3>3
  <2> QED BY <2>1
<1>3. Change(r, h)
  BY <1>0, <1>2, Handling DEF Refusal, Conflict, Repeat, h
<1> DEFINE w == Written(notes[r.note], r)
<1>4. /\ r.what # "create" /\ notes' = [notes EXCEPT ![r.note] = w]
      /\ r.what = "text" => r.rev \in {NoRev, notes[r.note].rev}
      /\ h.ans = Shows("ok", r.note, w)
  BY <1>0, <1>3 DEF Change
<1>5. r.what = "edit" => w.body = notes[r.note].body
  BY <1>0, <1>4, WrittenNote
<1> HIDE DEF w
<1>6. r.note = n /\ r.what = "text"
  <2>1. r.note = n
    BY <1>4
  <2>2. r.what # "edit"
    BY <1>0, <1>4, <1>5, <2>1
  <2>3. r.what \in {"create", "edit", "text"}
    BY <1>0 DEF Requests
  <2> QED BY <1>4, <2>1, <2>2, <2>3
<1>7. f \notin flights'
  <2> DEFINE g == [f EXCEPT !.ans = h.ans]
  <2>1. h.ans.st = "ok"
    BY <1>4 DEF Shows
  <2>2. g.ans = h.ans
    BY <1>0 DEF Flights
  <2>3. f.ans.st = "none"
    BY <1>0 DEF Answered
  <2> HIDE DEF g
  <2>4. g # f
    BY <2>1, <2>2, <2>3
  <2>5. flights' = flights \ {f} \/ flights' = (flights \ {f}) \cup {g}
    BY <1>1 DEF Swap, g
  <2> QED BY <2>4, <2>5
<1>8. notes[n].rev \in Nat /\ intent[f.op].rev \in Revs /\ notes[n].body \in Int
  BY <1>0, Parts, Basics DEF NoteRecords, Intent
<1>9. ~Ours(n, notes[n].rev)
  BY <1>8 DEF Ours
<1>10. f.stage # "update" /\ r.rev = intent[f.op].rev
  <2>1. \/ f.stage # "update" /\ r.rev = intent[f.op].rev
        \/ r.rev \in Nat /\ Ours(n, r.rev)
    BY <1>0, <1>6 DEF TextOK, r
  <2>2. ~(r.rev \in Nat /\ Ours(n, r.rev))
    BY <1>4, <1>6, <1>9 DEF NoRev
  <2> QED BY <2>1, <2>2
<1> QED BY <1>4, <1>6, <1>7, <1>8, <1>10 DEF Seen, r

(* Only a write of the other device or a text that is taken changes a text.  *)
LEMMA TextStep ==
    ASSUME IInv, [Next]_vars, NEW n \in DOMAIN notes, notes[n].body < 0,
           notes'[n].body # notes[n].body
    PROVE  notes'[n].body < 0 \/ \E f \in flights : Seen(f, n)
<1>1. ASSUME NEW f \in flights, Serve(f)
      PROVE  Seen(f, n)
  BY <1>1, TakenText
<1>2. ASSUME NEW k \in DOMAIN notes, Foreign(k)
      PROVE  notes'[n].body < 0
  <2> DEFINE b == -(spent.foreign + 1)
             v == notes[k].rev + 1
  <2>0. spent.foreign \in Nat /\ \A m \in DOMAIN notes : notes[m] \in NoteRecords
    BY Parts, Basics DEF Shape, Spendings
  <2>1. b < 0
    BY <2>0
  <2>2. \/ notes' = [notes EXCEPT ![k].body = b, ![k].rev = v, ![k].theirs = TRUE]
        \/ notes' = [notes EXCEPT ![k].gone = TRUE, ![k].theirs = TRUE]
    BY <1>2 DEF Foreign, ForgetKey
  <2> HIDE DEF b, v
  <2> DEFINE w1 == [notes[k] EXCEPT !.body = b, !.rev = v, !.theirs = TRUE]
             w2 == [notes[k] EXCEPT !.gone = TRUE, !.theirs = TRUE]
  <2>3. w1.body = b /\ w2.body = notes[k].body
    BY <2>0 DEF NoteRecords
  <2>4. notes' = [notes EXCEPT ![k] = w1] \/ notes' = [notes EXCEPT ![k] = w2]
    BY <2>2
  <2> HIDE DEF w1, w2
  <2> QED BY <2>1, <2>3, <2>4
<1>3. notes' # notes
  OBVIOUS
<1>4. ASSUME NEW k \in DOMAIN notes, ForgetKey(k)
      PROVE  FALSE
  BY <1>4, Parts, Forgetting
<1> QED BY ZenonT(40), <1>1, <1>2, <1>3, <1>4
        DEF Next, vars, Open, Load, Close, Replay, Act, StartReplay, ReplayEmpty, ReplayDoomed, ReplayHead,
            Fail, InlineLost, ReplayLost, Settle, InlineDone, InlineRefused, ReplayLanded,
            AlreadyThere, KeepText, CopyMade, UpdateCopy, CopyUpdated, FreshCopy, ReplayBusy,
            ReplayRefused, Land, Refetch, Disconnect, Reconnect

-----------------------------------------------------------------------------
(* The theorems.                                                             *)

(* Every variable keeps its shape, an intent waits in the queue once, and    *)
(* one request of one replay is out at a time, of the page that holds the    *)
(* replay lock (notesOutbox.ts: the record's read-modify-write, replay).     *)
THEOREM TypeCorrect == Spec => []TypeOK
<1>1. IInv => TypeOK
  BY DEF IInv
<1> QED BY <1>1, Invariance, PTL

(* However many pages there are and whatever is lost, refused, or arrives    *)
(* late: what the user did is on the server, waits, is out, was reported, or *)
(* gave way to newer text (sendNoteOp, enqueueOp, dropOp).  Newer text gives *)
(* way to older only if two saves were out at once: those words are lost.    *)
THEOREM Kept == Spec => []NothingLost
<1>1. IInv => NothingLost
  BY DEF IInv
<1> QED BY <1>1, Invariance, PTL

(* A create sent any number of times, by any page, makes one note while the  *)
(* server remembers its key: of two notes of one create the key of one is    *)
(* forgotten.  No create is lost (the key minted with the intent).           *)
THEOREM OneNotePerCreate == Spec => []CreatedOnce
<1>1. IInv => CreatedOnce
  BY KeysSay
<1> QED BY <1>1, Invariance, PTL

(* Once all is sent, an item shows the newest change made to it, if nothing  *)
(* was sent past what another page had waiting, at once, or late (sendNoteOp *)
(* waits behind the queue; replay goes from its head).                       *)
THEOREM NewestEditStands == Spec => []LastEditStands
<1>1. IInv => LastEditStands
  BY OrderSays
<1> QED BY <1>1, Invariance, PTL

(* Text of another device gives way only to words typed by someone who had   *)
(* seen it, or that never named a revision (rebaseOnOwnRevs: the device      *)
(* walks over its own writes only; the server refuses a stale revision).     *)
THEOREM TheirsStand == Spec => TheirTextStands
<1> DEFINE Giving ==
        \A n \in DOMAIN notes : notes[n].body < 0 /\ notes'[n].body # notes[n].body =>
            \/ notes'[n].body < 0
            \/ \E f \in flights : /\ f \notin flights' /\ f.req.note = n /\ f.stage # "update"
                                  /\ intent[f.op].rev = NoRev \/ intent[f.op].rev >= notes[n].rev
<1>1. ASSUME IInv, [Next]_vars
      PROVE  Giving
  BY <1>1, TextStep DEF Seen
<1>2. IInv /\ [Next]_vars => [Giving]_vars
  BY <1>1
<1> QED BY <1>2, Invariance, PTL DEF Spec, TheirTextStands
-----------------------------------------------------------------------------
(* Copies: a second invariant, that rests on the first.                      *)

\* Why words may become a copy.
Excused ==
    notes[1].theirs \/ seen.unheard \/ seen.late \/ seen.overlapped \/ seen.overtook \/ seen.elsewhere

\* The writes this device made, known to the page that replays or not, and those whose
\* answers are on their way.
Known == revs \cup seen.direct \cup UNION {Watched(f) : f \in flights}

\* From any revision note 1 has had they lead to the one it has.
LeadTo(W, r, b) ==
    \A S \in SUBSET (0 .. b) :
        r \in S /\ (\A w \in W : w[1] = 1 /\ w[2] \in S /\ w[2] < w[3] /\ w[3] <= b => w[3] \in S)
            => b \in S
WholeOK == ~Excused => \A r \in 0 .. notes[1].rev : LeadTo(Known, r, notes[1].rev)

\* Text in a replay names the newest revision, and is not refused for it.
CopyFlight(f) == f.stage \in {"copy", "update", "fresh"}
Timely(f) ==
    /\ f.req.typing # NoTyping => f.req.typing[1] = 1
    /\ f.stage = "op" /\ f.req.what = "text" /\ f.req.rev # NoRev /\ ~Answered(f) =>
         f.req.note = 1 /\ (Excused \/ f.req.rev = notes[1].rev)
    /\ CopyFlight(f) \/ (f.stage = "op" /\ f.ans.st = "stale") => Excused
TimelyOK == \A f \in flights : Timely(f)
ExcusedOK == \A n \in DOMAIN notes : notes[n].typing # NoTyping => notes[n].typing[1] = 1 /\ Excused

\* Nothing tore a copy from its record, and the server knows the keys of all copies.
Intact == ~seen.torn /\ ~seen.late /\ ~CopyForgotten

\* Text that may go into a copy, and the typing it belongs to.
Typed(i) == i \in Intents /\ IsText(i) /\ intent[i].rev # NoRev
At(i) == <<1, intent[i].rev>>

\* Only note 1 and notes made by a create are written to by name, a copy never.
NamesOK ==
    /\ \A i \in Intents : IsText(i) /\ intent[i].note >= 0 => intent[i].note = 1
    /\ \A p \in ids : intent[p[1]].k = "create"
    /\ notes[1].typing = NoTyping /\ notes[1].by = 0
    /\ \A n \in DOMAIN notes : notes[n].gone => notes[n].theirs

\* A key belongs to the typing of the text it was minted for.
Fits(key, at) == Typed(key[1]) /\ At(key[1]) = at
RecordOK ==
    /\ \A c \in copies : Fits(c.key, c.at)
    /\ \A c, d \in copies : c.at = d.at => c = d
NotesFit ==
    \A n \in DOMAIN notes :
        IF notes[n].typing # NoTyping THEN Fits(notes[n].key, notes[n].typing)
        ELSE n = 1 \/ (notes[n].by \in Intents /\ intent[notes[n].by].k = "create")

\* What a replay believes of the copy of its typing.
Words(f) == intent[f.op].words
Begun(f) == f.stage \in {"op", "copy", "update"} => f.key = CopyKey(f.op) /\ f.sent = CopySent(f.op)
Renewed(f) ==
    f.stage = "fresh" => \E c \in copies : c.at = At(f.op) /\ c.key = f.key /\ Words(f) \in c.sent
Keyed(f) ==
    /\ CopyFlight(f) => Fits(f.key, At(f.op))
    /\ f.stage \in {"copy", "fresh"} => f.req.key = f.key /\ f.req.typing = At(f.op)
Found(f) ==
    f.stage = "copy" =>
        /\ f.ans.st = "gone" => \E n \in DOMAIN notes : notes[n].key = f.key /\ notes[n].theirs
        /\ f.ans.st = "ok" /\ ~notes[f.ans.note].theirs =>
             f.ans.body \in f.sent \cup {Words(f)} /\ f.ans.rev = notes[f.ans.note].rev
Updating(f) ==
    f.stage = "update" =>
        /\ notes[f.req.note].key = f.key
        /\ ~notes[f.req.note].theirs =>
             /\ ~Answered(f) => f.req.rev = notes[f.req.note].rev
             /\ f.ans.st \notin {"stale", "refused"}
Believes(f) == Begun(f) /\ Renewed(f) /\ Keyed(f) /\ Found(f) /\ Updating(f)
BelievesOK == \A f \in flights : Typed(f.op) /\ f.stage # "adrift" => Believes(f)
TargetsOK ==
    \A f \in flights : f.req.what = "text" /\ f.stage \in {"inline", "op"} =>
        notes[f.req.note].typing = NoTyping

\* A copy nobody else wrote holds words the record names under its key, or a replay's.
Recorded(n) ==
    \E c \in copies : c.at = notes[n].typing /\ c.key = notes[n].key /\ notes[n].body \in c.sent
Held(f, n) ==
    /\ CopyFlight(f) /\ At(f.op) = notes[n].typing /\ f.key = notes[n].key
    /\ notes[n].body = Words(f) \/ (f.stage # "fresh" /\ notes[n].body \in f.sent)
CopiesOK ==
    \A n \in DOMAIN notes : notes[n].typing # NoTyping /\ ~notes[n].theirs =>
        Recorded(n) \/ \E f \in flights : Held(f, n)

CInv ==
    /\ WholeOK /\ TimelyOK /\ ExcusedOK /\ NamesOK
    /\ Intact => RecordOK /\ NotesFit /\ BelievesOK /\ TargetsOK /\ CopiesOK
-----------------------------------------------------------------------------
(* Which flights go, and which come.                                         *)

LEMMA FlightGoes ==
    ASSUME IInv, Next, NEW f \in flights, f \notin flights'
    PROVE  \/ Serve(f) \/ Fail(f) \/ KeepText(f) \/ UpdateCopy(f) \/ FreshCopy(f) \/ Ends(f)
           \/ \E t \in Tabs : Close(t) /\ f.tab = t /\ f.stage # "adrift"
<1>1. ASSUME NEW g \in flights, NEW S, Swap(g, S)
      PROVE  f = g
  BY <1>1 DEF Swap
<1>2. ASSUME NEW out, GiveUp(out)
      PROVE  f \in out
  BY <1>2 DEF GiveUp
<1>3. CASE flights' = flights
  BY <1>3
<1>4. ASSUME NEW t \in Tabs, Close(t)
      PROVE  f.tab = t /\ f.stage # "adrift"
  BY <1>2, <1>4 DEF Close
<1>5. ASSUME NEW t \in Tabs, NEW a \in Acts(t), Act(t, a)
      PROVE  FALSE
  BY <1>5 DEF Act
<1>6. ASSUME NEW t \in Tabs, ReplayHead(t)
      PROVE  FALSE
  BY <1>6 DEF ReplayHead
<1>7. ASSUME NEW g \in flights, Serve(g) \/ Fail(g) \/ KeepText(g) \/ UpdateCopy(g) \/ FreshCopy(g)
      PROVE  f = g
  BY <1>1, <1>7 DEF Serve, Fail, KeepText, UpdateCopy, FreshCopy
<1>8. ASSUME NEW g \in flights, Ends(g)
      PROVE  f = g
  <2>1. CASE Serve(g) \/ InlineDone(g) \/ InlineRefused(g) \/ ReplayBusy(g) \/ ReplayRefused(g)
    BY <1>1, <2>1 DEF Serve, InlineDone, InlineRefused, ReplayBusy, ReplayRefused
  <2>2. CASE Landed(g)
    BY <1>1, <2>2 DEF Landed, ReplayLanded, AlreadyThere, CopyMade, CopyUpdated, Land
  <2>3. CASE InlineLost(g) \/ ReplayLost(g)
    BY <1>2, <2>3 DEF InlineLost, ReplayLost
  <2> QED BY <1>8, <2>1, <2>2, <2>3 DEF Ends
<1>9. ASSUME NEW g \in flights,
             Serve(g) \/ Fail(g) \/ InlineLost(g) \/ ReplayLost(g) \/ Settle(g)
      PROVE  Serve(f) \/ Fail(f) \/ KeepText(f) \/ UpdateCopy(f) \/ FreshCopy(f) \/ Ends(f)
  <2>1. Serve(g) \/ Fail(g) \/ KeepText(g) \/ UpdateCopy(g) \/ FreshCopy(g) \/ Ends(g)
    BY <1>9 DEF Settle, Ends, Landed
  <2> QED BY <1>7, <1>8, <2>1
<1> QED BY <1>3, <1>4, <1>5, <1>6, <1>9
        DEF Next, Open, Load, Replay, StartReplay, ReplayEmpty, ReplayDoomed,
            Refetch, Disconnect, Reconnect, Foreign, ForgetKey

\* The flight that Act sends at once.
Sent(t, a, i) ==
    [tab |-> t, op |-> i, stage |-> "inline", ans |-> NoAnswer, key |-> KeyOf(i),
     sent |-> {}, req |-> [what |-> a.k, note |-> a.note, words |-> a.words,
                           rev |-> a.rev, key |-> KeyOf(i), op |-> i, typing |-> NoTyping]]

\* g is what a step makes of f.
Becomes(f, g) ==
    \/ Serve(f) /\ f.stage # "adrift" /\ g = [f EXCEPT !.ans = Handle(f.req).ans]
    \/ Fail(f) /\ g = [f EXCEPT !.ans = Said("busy")]
    \/ KeepText(f) /\ g = [f EXCEPT !.stage = "copy", !.req = CopyRequest(f.op, f.key), !.ans = NoAnswer]
    \/ UpdateCopy(f) /\ g = [f EXCEPT !.stage = "update", !.ans = NoAnswer,
                                      !.req = Request(f.op, f.ans.note, f.ans.rev)]
    \/ /\ FreshCopy(f)
       /\ g = [f EXCEPT !.stage = "fresh", !.key = <<f.op, minted + 1>>,
                        !.req = CopyRequest(f.op, <<f.op, minted + 1>>), !.ans = NoAnswer]

LEMMA FlightComes ==
    ASSUME IInv, Next, NEW g \in flights', g \notin flights
    PROVE  \/ \E f \in flights : Becomes(f, g)
           \/ \E t \in Tabs : \E a \in Acts(t) : Act(t, a) /\ ~MustQueue(t, a) /\ g = Sent(t, a, Len(intent) + 1)
           \/ \E t \in Tabs : /\ ReplayHead(t)
                              /\ g = Flight(t, Head(queue), "op",
                                            Request(Head(queue), RealNote(Head(queue)),
                                                    HeadRev(t, Head(queue))))
           \/ \E f \in flights : ~Answered(f) /\ g = [f EXCEPT !.stage = "adrift"]
<1>1. ASSUME NEW f \in flights, Swap(f, {})
      PROVE  FALSE
  BY <1>1 DEF Swap
<1>2. ASSUME NEW out \in SUBSET flights, GiveUp(out)
      PROVE  \E f \in flights : ~Answered(f) /\ g = [f EXCEPT !.stage = "adrift"]
  BY <1>2 DEF GiveUp
<1>3. CASE flights' = flights
  BY <1>3
<1>4. ASSUME NEW t \in Tabs, Close(t)
      PROVE  \E f \in flights : ~Answered(f) /\ g = [f EXCEPT !.stage = "adrift"]
  <2> DEFINE out == {f \in flights : f.tab = t /\ f.stage # "adrift"}
  <2>1. GiveUp(out) /\ out \in SUBSET flights
    BY <1>4 DEF Close
  <2> HIDE DEF out
  <2> QED BY <1>2, <2>1
<1>5. ASSUME NEW t \in Tabs, NEW a \in Acts(t), Act(t, a)
      PROVE  ~MustQueue(t, a) /\ g = Sent(t, a, Len(intent) + 1)
  BY <1>5 DEF Act, Sent
<1>6. ASSUME NEW t \in Tabs, ReplayHead(t)
      PROVE  g = Flight(t, Head(queue), "op", Request(Head(queue), RealNote(Head(queue)),
                                                      HeadRev(t, Head(queue))))
  BY <1>6 DEF ReplayHead, HeadRev
<1>7. ASSUME NEW f \in flights, Serve(f) \/ Fail(f)
      PROVE  Becomes(f, g)
  BY <1>7 DEF Serve, Fail, Swap, Becomes
<1>8. ASSUME NEW f \in flights, KeepText(f) \/ UpdateCopy(f) \/ FreshCopy(f)
      PROVE  Becomes(f, g)
  BY <1>8 DEF KeepText, UpdateCopy, FreshCopy, Swap, Becomes
<1>9. ASSUME NEW f \in flights, InlineLost(f) \/ ReplayLost(f)
      PROVE  \E h \in flights : ~Answered(h) /\ g = [h EXCEPT !.stage = "adrift"]
  <2>1. GiveUp({f}) /\ {f} \in SUBSET flights
    BY <1>9 DEF InlineLost, ReplayLost
  <2> QED BY <1>2, <2>1
<1>10. ASSUME NEW f \in flights,
              \/ InlineDone(f) \/ InlineRefused(f) \/ ReplayLanded(f) \/ AlreadyThere(f)
              \/ CopyMade(f) \/ CopyUpdated(f) \/ ReplayBusy(f) \/ ReplayRefused(f)
       PROVE  FALSE
  BY <1>1, <1>10 DEF InlineDone, InlineRefused, ReplayLanded, AlreadyThere, CopyMade, CopyUpdated,
                     ReplayBusy, ReplayRefused, Land
<1> HIDE DEF Becomes
<1> QED BY <1>3, <1>4, <1>5, <1>6, <1>7, <1>8, <1>9, <1>10
        DEF Next, Open, Load, Replay, StartReplay, ReplayEmpty, ReplayDoomed, Settle,
            Refetch, Disconnect, Reconnect, Foreign, ForgetKey
-----------------------------------------------------------------------------
(* What a step does to the notes.                                            *)

\* The note as it was, but for what a request or another device writes.
LEMMA Rewritten ==
    ASSUME NEW n \in NoteRecords, NEW r \in Requests
    PROVE  LET w == Written(n, r) IN w.theirs = n.theirs /\ w.gone = n.gone
BY DEF Written, NoteRecords

\* What the server makes of a request's note.
LEMMA Serving ==
    ASSUME IInv, NEW f \in flights, Serve(f)
    PROVE  LET r == f.req
               h == Handle(r)
           IN  /\ r \in Requests
               /\ \/ notes' = notes
                  \/ /\ r.what = "create" /\ notes' = Append(notes, NewNote(r))
                     /\ h.ans = Shows("ok", Len(notes) + 1, NewNote(r))
                     /\ \A n \in DOMAIN notes : notes[n].known => notes[n].key # r.key
                  \/ /\ r.what # "create" /\ r.note \in DOMAIN notes
                     /\ r.what = "text" => r.rev \in {NoRev, notes[r.note].rev}
                     /\ notes' = [notes EXCEPT ![r.note] = Written(notes[r.note], r)]
                     /\ h.ans = Shows("ok", r.note, Written(notes[r.note], r))
               /\ f.stage # "adrift" => flights' = (flights \ {f}) \cup {[f EXCEPT !.ans = h.ans]}
<1> DEFINE r == f.req
           h == Handle(r)
<1>1. r \in Requests /\ (r.what # "create" => r.note \in DOMAIN notes) /\ notes' = h.notes
  BY Parts DEF Shape, Flights, FlightsOK, RequestOK, Serve
<1>2. f.stage # "adrift" => flights' = (flights \ {f}) \cup {[f EXCEPT !.ans = h.ans]}
  BY DEF Serve, Swap
<1>3. Refusal(r, h) \/ Conflict(r, h) \/ Repeat(r, h) \/ Insertion(r, h) \/ Change(r, h)
  BY <1>1, Handling
<1> HIDE DEF h, r
<1>4. CASE Refusal(r, h) \/ Conflict(r, h) \/ Repeat(r, h)
  BY <1>1, <1>2, <1>4 DEF Refusal, Conflict, Repeat, h, r
<1>5. CASE Insertion(r, h)
  BY <1>1, <1>2, <1>5 DEF Insertion, h, r
<1>6. CASE Change(r, h)
  BY <1>1, <1>2, <1>6 DEF Change, h, r
<1> QED BY <1>3, <1>4, <1>5, <1>6

\* What a step makes of a note that was there.
LEMMA NoteSteps ==
    ASSUME IInv, Next, NEW n \in DOMAIN notes
    PROVE  /\ n \in DOMAIN notes' /\ notes'[n].key = notes[n].key /\ notes'[n].by = notes[n].by
           /\ notes'[n].typing = notes[n].typing
           /\ notes'[n].known => notes[n].known
           /\ notes[n] \in NoteRecords /\ notes'[n] \in NoteRecords
           /\ notes[n].theirs => notes'[n].theirs
           /\ notes'[n].gone => notes[n].gone \/ notes'[n].theirs
           /\ notes'[n].body # notes[n].body \/ notes'[n].rev # notes[n].rev =>
                \/ notes'[n].theirs
                \/ \E f \in flights :
                     /\ Serve(f) /\ f.req.what = "text" /\ f.req.note = n
                     /\ f.req.rev \in {NoRev, notes[n].rev}
                     /\ notes'[n].body = f.req.words /\ notes'[n].rev = notes[n].rev + 1
                     /\ Handle(f.req).ans = Shows("ok", n, notes'[n])
<1>0. Later /\ TypeOK /\ Shape /\ notes[n] \in NoteRecords
  BY Parts, StepLater, Basics
<1>1. /\ n \in DOMAIN notes' /\ notes'[n].key = notes[n].key /\ notes'[n].by = notes[n].by
      /\ notes'[n].typing = notes[n].typing /\ notes'[n] \in NoteRecords
      /\ notes'[n].known => notes[n].known
  BY <1>0 DEF Later, Grown
<1>2. CASE notes'[n] = notes[n]
  BY <1>0, <1>1, <1>2
<1>3. ASSUME NEW k \in DOMAIN notes, Foreign(k)
      PROVE  notes'[n] = notes[n] \/ (notes'[n].theirs /\ n = k)
  <2>1. CASE n # k
    BY <1>3, <2>1 DEF Foreign, ForgetKey
  <2>2. CASE n = k
    <3>1. \/ notes'[n] = [notes[n] EXCEPT !.body = -(spent.foreign + 1), !.rev = @ + 1, !.theirs = TRUE]
          \/ notes'[n] = [notes[n] EXCEPT !.gone = TRUE, !.theirs = TRUE]
      BY <1>3, <2>2 DEF Foreign, ForgetKey
    <3> QED BY <1>0, <2>2, <3>1 DEF NoteRecords
  <2> QED BY <2>1, <2>2
<1>4. ASSUME NEW f \in flights, Serve(f), notes'[n] # notes[n]
      PROVE  /\ f.req.what # "create" /\ f.req.note = n /\ f.req \in Requests
             /\ f.req.what = "text" => f.req.rev \in {NoRev, notes[n].rev}
             /\ notes'[n] = Written(notes[n], f.req)
             /\ Handle(f.req).ans = Shows("ok", n, notes'[n])
  <2> DEFINE r == f.req
             h == Handle(r)
             w == NewNote(r)
             v == Written(notes[r.note], r)
  <2>1. /\ r \in Requests
        /\ \/ notes' = notes
           \/ r.what = "create" /\ notes' = Append(notes, w)
           \/ /\ r.what # "create" /\ r.note \in DOMAIN notes
              /\ r.what = "text" => r.rev \in {NoRev, notes[r.note].rev}
              /\ notes' = [notes EXCEPT ![r.note] = v]
              /\ h.ans = Shows("ok", r.note, v)
    BY <1>4, Serving
  <2>2. w \in NoteRecords
    BY <2>1, FreshNote
  <2> HIDE DEF h, w
  <2>3. notes' = Append(notes, w) => notes'[n] = notes[n]
    <3>1. n \in 1 .. Len(notes)
      BY <1>0, Basics
    <3> QED BY <1>0, <2>2, <3>1, AppendProperties DEF Shape
  <2>4. /\ r.what # "create" /\ r.note \in DOMAIN notes
        /\ r.what = "text" => r.rev \in {NoRev, notes[r.note].rev}
        /\ notes' = [notes EXCEPT ![r.note] = v] /\ h.ans = Shows("ok", r.note, v)
    BY <1>4, <2>1, <2>3
  <2> HIDE DEF v
  <2>5. r.note = n /\ notes'[n] = v
    BY <1>4, <2>4
  <2> QED BY <2>1, <2>4, <2>5 DEF v, h
<1>5. ASSUME NEW f \in flights, Serve(f), notes'[n] # notes[n]
      PROVE  /\ notes'[n].theirs = notes[n].theirs /\ notes'[n].gone = notes[n].gone
             /\ notes'[n].body # notes[n].body \/ notes'[n].rev # notes[n].rev =>
                  /\ f.req.what = "text" /\ f.req.note = n /\ f.req.rev \in {NoRev, notes[n].rev}
                  /\ notes'[n].body = f.req.words /\ notes'[n].rev = notes[n].rev + 1
                  /\ Handle(f.req).ans = Shows("ok", n, notes'[n])
  <2> DEFINE a == Handle(f.req).ans
  <2>1. /\ f.req.what # "create" /\ f.req.note = n /\ f.req \in Requests
        /\ f.req.what = "text" => f.req.rev \in {NoRev, notes[n].rev}
        /\ notes'[n] = Written(notes[n], f.req)
        /\ a = Shows("ok", n, notes'[n])
    BY <1>4, <1>5
  <2>2. f.req.what \in {"create", "edit", "text"}
    BY <2>1 DEF Requests
  <2> HIDE DEF a
  <2>3. /\ notes'[n].theirs = notes[n].theirs /\ notes'[n].gone = notes[n].gone
        /\ f.req.what = "edit" => notes'[n].body = notes[n].body /\ notes'[n].rev = notes[n].rev
        /\ f.req.what # "edit" => notes'[n].body = f.req.words /\ notes'[n].rev = notes[n].rev + 1
    BY <1>0, <2>1, WrittenNote, Rewritten
  <2> QED BY <2>1, <2>2, <2>3 DEF a
<1>7. ASSUME NEW k \in DOMAIN notes, ForgetKey(k)
      PROVE  /\ notes'[n].theirs = notes[n].theirs /\ notes'[n].gone = notes[n].gone
             /\ notes'[n].body = notes[n].body /\ notes'[n].rev = notes[n].rev
  BY <1>0, <1>7, Forgetting
<1>6. \/ notes' = notes \/ (\E f \in flights : Serve(f))
      \/ (\E k \in DOMAIN notes : Foreign(k)) \/ (\E k \in DOMAIN notes : ForgetKey(k))
  BY ZenonT(40) DEF Next, Open, Load, Close, Act, Replay, StartReplay, ReplayEmpty, ReplayDoomed, ReplayHead,
         Fail, InlineLost, ReplayLost, Settle, InlineDone, InlineRefused, ReplayLanded,
         AlreadyThere, KeepText, CopyMade, UpdateCopy, CopyUpdated, FreshCopy, ReplayBusy,
         ReplayRefused, Land, Refetch, Disconnect, Reconnect
<1> QED BY <1>0, <1>1, <1>2, <1>3, <1>5, <1>6, <1>7

\* A note that comes.
LEMMA NoteComes ==
    ASSUME IInv, Next, NEW n \in DOMAIN notes', n \notin DOMAIN notes
    PROVE  \E f \in flights :
             /\ Serve(f) /\ f.req.what = "create" /\ notes'[n] = NewNote(f.req) /\ f.req \in Requests
             /\ \A m \in DOMAIN notes : notes[m].known => notes[m].key # f.req.key
             /\ Handle(f.req).ans = Shows("ok", n, notes'[n])
<1>0. TypeOK /\ Shape /\ DOMAIN notes = 1 .. Len(notes) /\ Len(notes) \in Nat
  BY Parts, Basics
<1>1. DOMAIN notes' = DOMAIN notes \/ \E f \in flights : Serve(f)
  BY ZenonT(40) DEF Next, Open, Load, Close, Act, Replay, StartReplay, ReplayEmpty, ReplayDoomed, ReplayHead,
         Fail, InlineLost, ReplayLost, Settle, InlineDone, InlineRefused, ReplayLanded,
         AlreadyThere, KeepText, CopyMade, UpdateCopy, CopyUpdated, FreshCopy, ReplayBusy,
         ReplayRefused, Land, Refetch, Disconnect, Reconnect, Foreign, ForgetKey
<1>2. PICK f \in flights : Serve(f)
  BY <1>1
<1> DEFINE r == f.req
           h == Handle(r)
           w == NewNote(r)
           v == Written(notes[r.note], r)
<1>3. /\ r \in Requests
      /\ \/ notes' = notes
         \/ /\ r.what = "create" /\ notes' = Append(notes, w) /\ h.ans = Shows("ok", Len(notes) + 1, w)
            /\ \A m \in DOMAIN notes : notes[m].known => notes[m].key # r.key
         \/ notes' = [notes EXCEPT ![r.note] = v]
  BY <1>2, Serving
<1>4. w \in NoteRecords
  BY <1>3, FreshNote
<1> HIDE DEF h, w, v
<1>5. /\ r.what = "create" /\ notes' = Append(notes, w) /\ h.ans = Shows("ok", Len(notes) + 1, w)
      /\ \A m \in DOMAIN notes : notes[m].known => notes[m].key # r.key
  BY <1>3
<1>6. n = Len(notes) + 1 /\ notes'[n] = w
  BY <1>0, <1>4, <1>5, AppendProperties, LenProperties DEF Shape
<1> QED BY <1>2, <1>3, <1>5, <1>6 DEF h, w
-----------------------------------------------------------------------------
(* Words become a copy for another device's sake.                            *)

(* An excuse stays one.                                                      *)
LEMMA ExcusedStays ==
    ASSUME IInv, Next, Excused
    PROVE  Excused'
<1>1. 1 \in DOMAIN notes
  BY Parts, Basics
<1>2. notes[1].theirs => notes'[1].theirs
  BY <1>1, NoteSteps
<1> QED BY <1>2, Parts, HistoryGrows DEF Excused, Remembered

(* While there is none, this page and the record know every write this       *)
(* device made.                                                              *)
LEMMA KnownStays ==
    ASSUME IInv, Next, ~seen'.unheard
    PROVE  Known \subseteq Known'
<1>0. /\ TypeOK /\ Shape /\ FlightsOK /\ seen.direct \subseteq seen'.direct /\ seen \in Histories
  BY Parts, HistoryGrows DEF Remembered, Shape
<1>1. revs \subseteq revs'
  BY ZenonT(40) DEF Next, Open, Load, Close, Act, Replay, StartReplay, ReplayEmpty, ReplayDoomed, ReplayHead,
         Serve, Fail, InlineLost, ReplayLost, Settle, InlineDone, InlineRefused, ReplayLanded,
         AlreadyThere, KeepText, CopyMade, UpdateCopy, CopyUpdated, FreshCopy, ReplayBusy,
         ReplayRefused, Land, Foreign, ForgetKey, Refetch, Disconnect, Reconnect, box
<1>2. ASSUME NEW f \in flights, f \notin flights', NEW w \in Watched(f)
      PROVE  w \in revs' \cup seen'.direct
  <2>0. f.req.what = "text" /\ f.ans.st = "ok" /\ Answered(f) /\ RequestOK(f)
    BY <1>0, <1>2 DEF Watched, Answered, FlightsOK
  <2>1. ~Serve(f) /\ ~Fail(f) /\ ~KeepText(f) /\ ~InlineRefused(f) /\ ~ReplayBusy(f) /\ ~ReplayRefused(f)
    BY <2>0 DEF Serve, Fail, KeepText, InlineRefused, ReplayBusy, ReplayRefused
  <2>2. ~UpdateCopy(f) /\ ~FreshCopy(f)
    BY <2>0 DEF UpdateCopy, FreshCopy, CopyTaken, RequestOK
  <2>3. CASE InlineDone(f)
    <3> DEFINE W == Watched(f)
    <3>1. seen' = [seen EXCEPT !.direct = @ \cup W]
      BY <2>3 DEF InlineDone, Note
    <3>2. w \in W
      BY <1>2
    <3> HIDE DEF W
    <3> QED BY <1>0, <3>1, <3>2 DEF Histories
  <2>4. CASE Landed(f)
    BY <1>2, <2>4 DEF Landed, ReplayLanded, AlreadyThere, CopyMade, CopyUpdated, Land
  <2>5. CASE InlineLost(f)
    <3>1. /\ Unheard({f})
          /\ seen' = [seen EXCEPT !.queued = @ \cup {f.op}, !.ousted = @ \cup Ousted(f.op),
                                 !.unheard = @ \/ Unheard({f})]
      BY <2>0, <2>5 DEF InlineLost, Unheard
    <3> HIDE DEF Unheard, Ousted
    <3> QED BY <1>0, <3>1 DEF Histories
  <2>6. CASE ReplayLost(f)
    <3>1. Unheard({f}) /\ seen' = [seen EXCEPT !.unheard = @ \/ Unheard({f})]
      BY <2>0, <2>6 DEF ReplayLost, Unheard
    <3> HIDE DEF Unheard
    <3> QED BY <1>0, <3>1 DEF Histories
  <2>7. ASSUME NEW t \in Tabs, Close(t), f.tab = t, f.stage # "adrift"
        PROVE  FALSE
    <3> DEFINE out == {x \in flights : x.tab = t /\ x.stage # "adrift"}
               A == {x.op : x \in out \ Replays}
               b == \E x \in out : x.stage \in {"copy", "update"}
    <3>1. Unheard(out) /\ seen' = [seen EXCEPT !.abandoned = @ \cup A, !.torn = @ \/ b, !.unheard = @ \/ Unheard(out)]
      BY <2>0, <2>7 DEF Close, Unheard
    <3> HIDE DEF A, b, out, Unheard
    <3> QED BY <1>0, <3>1 DEF Histories
  <2> QED BY <1>2, <2>1, <2>2, <2>3, <2>4, <2>5, <2>6, <2>7, FlightGoes DEF Ends
<1> QED BY <1>0, <1>1, <1>2 DEF Known

LEMMA LeadOn ==
    ASSUME NEW W, NEW V, W \subseteq V, NEW r, NEW b, LeadTo(W, r, b)
    PROVE  LeadTo(V, r, b)
BY DEF LeadTo

(* A write more leads further.                                               *)
LEMMA LeadFurther ==
    ASSUME NEW W, NEW b \in Nat, \A r \in 0 .. b : LeadTo(W, r, b), NEW w \in W, w[1] = 1,
           w[2] = b, w[3] = b + 1, \A x \in W : x[2] \in Int /\ x[3] \in Int
    PROVE  \A r \in 0 .. b + 1 : LeadTo(W, r, b + 1)
<1> SUFFICES ASSUME NEW r \in 0 .. b + 1, NEW S \in SUBSET (0 .. b + 1), r \in S,
                    \A x \in W : x[1] = 1 /\ x[2] \in S /\ x[2] < x[3] /\ x[3] <= b + 1 => x[3] \in S
             PROVE  b + 1 \in S
  BY DEF LeadTo
<1>1. CASE r = b + 1
  BY <1>1
<1>2. CASE r # b + 1
  <2> DEFINE T == {x \in S : x <= b}
  <2>1. r \in 0 .. b /\ r \in T
    BY <1>2
  <2>2. T \in SUBSET (0 .. b)
    <3>1. \A x \in T : x \in 0 .. b + 1 /\ x <= b
      OBVIOUS
    <3>2. \A x \in T : x \in 0 .. b
      BY <3>1
    <3> QED BY <3>2
  <2>3. ASSUME NEW x \in W, x[1] = 1, x[2] \in T, x[2] < x[3], x[3] <= b
        PROVE  x[3] \in T
    <3>1. x[3] \in S
      <4>1. x[2] \in S /\ x[3] <= b + 1
        BY <2>3
      <4> QED BY <2>3, <4>1
    <3> QED BY <2>3, <3>1
  <2>4. b \in T
    BY <2>1, <2>2, <2>3 DEF LeadTo
  <2>5. b \in S /\ b < b + 1 /\ b + 1 <= b + 1
    BY <2>4
  <2> QED BY <2>5
<1> QED BY <1>1, <1>2

(* The writes known are numbers.                                             *)
Triples == \A w \in Known : w[1] \in Nat /\ w[2] \in Int /\ w[3] \in Int

LEMMA KnownTriples == IInv => Triples
<1> SUFFICES ASSUME IInv PROVE Triples
  OBVIOUS
<1>1. TypeOK /\ Shape /\ FlightsOK
  BY Parts
<1>2. \A w \in revs : w[1] \in Nat /\ w[2] \in Int /\ w[3] \in Int
  BY SMTT(30), <1>1, Basics DEF TypeOK
<1>3. \A w \in seen.direct : w[1] \in Nat /\ w[2] \in Int /\ w[3] \in Int
  BY <1>1 DEF Shape, Histories
<1>4. ASSUME NEW f \in flights, NEW w \in Watched(f)
      PROVE  w[1] \in Nat /\ w[2] \in Int /\ w[3] \in Int
  BY <1>1, WatchedOurs, Basics
<1> QED BY <1>2, <1>3, <1>4 DEF Known, Triples

LEMMA WholeStep ==
    ASSUME IInv, IInv', Next, WholeOK
    PROVE  WholeOK'
<1> SUFFICES ASSUME ~Excused'
             PROVE  \A r \in 0 .. notes'[1].rev : LeadTo(Known', r, notes'[1].rev)
  BY DEF WholeOK
<1>1. ~Excused /\ ~seen'.unheard /\ ~seen'.late /\ ~notes'[1].theirs
  BY ExcusedStays DEF Excused
<1>2. 1 \in DOMAIN notes /\ notes[1].rev \in Nat /\ Known \subseteq Known'
  BY <1>1, KnownStays, Parts, Basics DEF NoteRecords
<1>3. \A r \in 0 .. notes[1].rev : LeadTo(Known', r, notes[1].rev)
  BY <1>1, <1>2, LeadOn DEF WholeOK
<1>4. CASE notes'[1].rev = notes[1].rev
  BY <1>3, <1>4
<1>5. CASE notes'[1].rev # notes[1].rev
  <2>1. PICK f \in flights :
          /\ Serve(f) /\ f.req.what = "text" /\ f.req.note = 1 /\ notes'[1].rev = notes[1].rev + 1
          /\ Handle(f.req).ans = Shows("ok", 1, notes'[1])
    BY <1>1, <1>2, <1>5, NoteSteps
  <2>2. f.stage # "adrift"
    BY <1>1, <2>1, LateSeen
  <2> DEFINE a == Handle(f.req).ans
             g == [f EXCEPT !.ans = a]
  <2>3. g \in flights'
    BY <2>1, <2>2 DEF Serve, Swap
  <2>4. a.st = "ok" /\ a.rev = notes[1].rev + 1
    BY <2>1 DEF Shows
  <2>5. f \in Flights
    BY Parts DEF Shape
  <2> HIDE DEF a
  <2>6. g.req = f.req /\ g.ans = a
    BY <2>5 DEF Flights
  <2> HIDE DEF g
  <2> DEFINE w == <<1, notes[1].rev, notes[1].rev + 1>>
  <2>7. w \in Watched(g)
    <3>1. a.rev - 1 = notes[1].rev /\ a.rev = notes[1].rev + 1
      BY <1>2, <2>4
    <3>2. Watched(g) = {<<1, a.rev - 1, a.rev>>}
      BY <2>1, <2>4, <2>6 DEF Watched
    <3>3. Watched(g) = {<<1, notes[1].rev, notes[1].rev + 1>>}
      BY <3>1, <3>2
    <3> QED BY <3>3
  <2>8. w \in Known'
    BY <2>3, <2>7 DEF Known
  <2>9. \A x \in Known' : x[2] \in Int /\ x[3] \in Int
    <3>1. (IInv => Triples)'
      BY KnownTriples, PTL
    <3> QED BY <3>1 DEF Triples
  <2>10. w[1] = 1 /\ w[2] = notes[1].rev /\ w[3] = notes[1].rev + 1
    OBVIOUS
  <2> HIDE DEF w
  <2>11. PICK K : K = Known'
    OBVIOUS
  <2>12. PICK b \in Nat : b = notes[1].rev
    BY <1>2
  <2>13. \A r \in 0 .. b + 1 : LeadTo(K, r, b + 1)
    BY <1>3, <2>8, <2>9, <2>10, <2>11, <2>12, LeadFurther
  <2> QED BY <2>1, <2>11, <2>12, <2>13
<1> QED BY <1>4, <1>5

(* The walk on the device's own writes reaches the newest revision.          *)
LEMMA RebasedUp ==
    ASSUME NEW own, NEW r \in Nat, NEW B \in Nat, r <= B,
           \A w \in own : w[2] \in Nat /\ w[3] \in Nat,
           \A w \in own : w[1] = 1 => w[3] <= B,
           LeadTo(own, r, B)
    PROVE  RebaseOnOwnRevs(own, 1, r) = B
<1> DEFINE steps == {<<w[2], w[3]>> : w \in {v \in own : v[1] = 1 /\ v[3] > v[2]}}
           T == Reached(steps, r)
           ends == {r} \cup {x[2] : x \in steps}
<1>1. \A x \in steps : \E w \in own : w[1] = 1 /\ w[3] = x[2] /\ w[2] = x[1] /\ x[2] \in Nat
  <2> TAKE x \in steps
  <2>1. PICK w \in own : w[1] = 1 /\ x = <<w[2], w[3]>>
    OBVIOUS
  <2> QED BY <2>1
<1>2. \A w \in own : w[1] = 1 /\ w[2] < w[3] => \E x \in steps : x[1] = w[2] /\ x[2] = w[3]
  <2> TAKE w \in own
  <2> HAVE w[1] = 1 /\ w[2] < w[3]
  <2>1. <<w[2], w[3]>> \in steps
    OBVIOUS
  <2> QED BY <2>1
<1> HIDE DEF steps
<1>3. \A x \in ends : x \in 0 .. B
  BY <1>1
<1>4. ASSUME NEW S \in SUBSET ends, r \in S, \A x \in steps : x[1] \in S => x[2] \in S
      PROVE  B \in S
  <2>1. S \in SUBSET (0 .. B)
    BY <1>3
  <2>2. \A w \in own : w[1] = 1 /\ w[2] \in S /\ w[2] < w[3] /\ w[3] <= B => w[3] \in S
    BY <1>2, <1>4
  <2> QED BY <1>4, <2>1, <2>2 DEF LeadTo
<1>5. B \in ends
  <2>1. r \in ends /\ \A x \in steps : x[2] \in ends
    OBVIOUS
  <2> HIDE DEF ends
  <2> QED BY <1>4, <2>1
<1>6. B \in T /\ T \subseteq ends
  BY <1>4, <1>5 DEF Reached
<1> HIDE DEF T, ends
<1>7. \A x \in T : x \in Nat /\ x <= B
  BY <1>3, <1>6
<1>8. PICK x : x = CHOOSE z \in T : \A y \in T : y <= z
  OBVIOUS
<1>9. x \in T /\ B <= x
  <2>1. \E z \in T : \A y \in T : y <= z
    BY <1>6, <1>7
  <2>2. x \in T /\ \A y \in T : y <= x
    BY <1>8, <2>1
  <2> QED BY <1>6, <2>2
<1>10. RebaseOnOwnRevs(own, 1, r) = x
  BY <1>8 DEF RebaseOnOwnRevs, T, steps
<1> QED BY <1>7, <1>9, <1>10

\* Only requests nobody waits for are out while a replay takes up its head.
LEMMA HeadAlone ==
    ASSUME IInv, Orderly, NEW t \in Tabs, AtHead(t), queue # <<>>
    PROVE  \A f \in flights : f.stage = "adrift" /\ ~Answered(f) /\ Watched(f) = {}
<1> SUFFICES ASSUME NEW f \in flights
             PROVE  f.stage = "adrift" /\ ~Answered(f) /\ Watched(f) = {}
  OBVIOUS
<1>1. f \notin Replays /\ RequestOK(f)
  BY Parts DEF AtHead, FlightsOK
<1>2. f.stage # "inline"
  BY DEF IInv, OrderOK
<1>3. f.stage = "adrift" /\ ~Answered(f)
  BY <1>1, <1>2 DEF Replays, RequestOK
<1> QED BY <1>3 DEF Watched, Answered

\* Text that is replayed for the first time names the newest revision.
LEMMA HeadTimely ==
    ASSUME IInv, Next, WholeOK, NEW t \in Tabs, ReplayHead(t), Typed(Head(queue)), ~Excused'
    PROVE  HeadRev(t, Head(queue)) = notes[1].rev
<1> DEFINE i == Head(queue)
           own == revs \cup tab[t].live
<1>0. /\ TypeOK /\ Shape /\ IntentOK /\ OwnOK /\ AtHead(t) /\ queue # <<>>
      /\ seen' = [seen EXCEPT !.elsewhere = @ \/ Unknown(t)] /\ seen \in Histories
  BY Parts DEF ReplayHead, Shape
<1>1. ~Excused /\ ~seen'.elsewhere
  BY ExcusedStays DEF Excused
<1>2. ~Unknown(t)
  BY <1>0, <1>1 DEF Histories
<1>3. Orderly
  BY <1>1 DEF Orderly, Excused
<1>4. Known \subseteq own
  BY <1>0, <1>2, <1>3, HeadAlone DEF Known, Unknown
<1>5. /\ RealNote(i) = 1 /\ intent[i].rev \in Nat /\ intent[i].rev <= notes[1].rev /\ HasTyping(i)
      /\ notes[1].rev \in Nat /\ 1 \in DOMAIN notes
  BY <1>0, TypingOf, Basics DEF Typed, HasTyping, NoteRecords
<1>6. \A w \in own : w \in Own /\ w[2] \in Nat /\ w[3] \in Nat
  BY SMTT(30), <1>0 DEF Own, TypeOK, Shape, Pages
<1>7. \A w \in own : w[1] = 1 => w[3] <= notes[1].rev
  BY <1>0, <1>6 DEF OwnOK, Ours
<1>8. HeadRev(t, i) = RebaseOnOwnRevs(own, 1, intent[i].rev)
  BY <1>5 DEF HeadRev
<1> HIDE DEF i, own
<1>9. LeadTo(Known, intent[i].rev, notes[1].rev)
  BY <1>1, <1>5 DEF WholeOK
<1>10. LeadTo(own, intent[i].rev, notes[1].rev)
  BY <1>4, <1>9, LeadOn
<1> QED BY <1>5, <1>6, <1>7, <1>8, <1>10, RebasedUp DEF i

(* What becomes of a flight, field by field.                                 *)
LEMMA Turning ==
    ASSUME IInv, NEW f \in flights, NEW g, Becomes(f, g)
    PROVE  /\ g.op = f.op /\ g.tab = f.tab /\ g.sent = f.sent /\ f.stage # "adrift"
           /\ \/ /\ Serve(f) /\ g.stage = f.stage /\ g.req = f.req /\ g.key = f.key
                 /\ g.ans = Handle(f.req).ans
              \/ /\ Fail(f) /\ g.stage = f.stage /\ g.req = f.req /\ g.key = f.key
                 /\ g.ans.st = "busy"
              \/ /\ KeepText(f) /\ g.stage = "copy" /\ g.req = CopyRequest(f.op, f.key)
                 /\ g.key = f.key /\ g.ans.st = "none"
              \/ /\ UpdateCopy(f) /\ g.stage = "update" /\ g.key = f.key /\ g.ans.st = "none"
                 /\ g.req = Request(f.op, f.ans.note, f.ans.rev)
              \/ /\ FreshCopy(f) /\ g.stage = "fresh" /\ g.key = <<f.op, minted + 1>>
                 /\ g.req = CopyRequest(f.op, <<f.op, minted + 1>>) /\ g.ans.st = "none"
<1>0. f \in Flights
  BY Parts DEF Shape
<1>1. CASE Serve(f) /\ f.stage # "adrift" /\ g = [f EXCEPT !.ans = Handle(f.req).ans]
  <2>1. PICK a : a = Handle(f.req).ans
    OBVIOUS
  <2>2. g = [f EXCEPT !.ans = a]
    BY <1>1, <2>1
  <2>3. /\ g.op = f.op /\ g.tab = f.tab /\ g.sent = f.sent /\ g.stage = f.stage
        /\ g.req = f.req /\ g.key = f.key /\ g.ans = a
    BY <1>0, <2>2 DEF Flights
  <2> QED BY <1>1, <2>1, <2>3
<1>2. CASE Fail(f) /\ g = [f EXCEPT !.ans = Said("busy")]
  <2>1. /\ g.op = f.op /\ g.tab = f.tab /\ g.sent = f.sent /\ g.stage = f.stage
        /\ g.req = f.req /\ g.key = f.key /\ g.ans.st = "busy"
    BY <1>0, <1>2 DEF Flights, Said
  <2>2. f.stage # "adrift"
    BY <1>2 DEF Fail
  <2> QED BY <1>2, <2>1, <2>2
<1>3. CASE KeepText(f) /\ g = [f EXCEPT !.stage = "copy", !.req = CopyRequest(f.op, f.key), !.ans = NoAnswer]
  <2>1. PICK r : r = CopyRequest(f.op, f.key)
    OBVIOUS
  <2>2. /\ g.op = f.op /\ g.tab = f.tab /\ g.sent = f.sent /\ g.stage = "copy"
        /\ g.req = r /\ g.key = f.key /\ g.ans.st = "none"
    BY <1>0, <1>3, <2>1 DEF Flights, NoAnswer, Said
  <2>3. f.stage # "adrift"
    BY <1>3 DEF KeepText
  <2> QED BY <1>3, <2>1, <2>2, <2>3
<1>4. CASE UpdateCopy(f) /\ g = [f EXCEPT !.stage = "update", !.ans = NoAnswer,
                                          !.req = Request(f.op, f.ans.note, f.ans.rev)]
  <2>1. PICK r : r = Request(f.op, f.ans.note, f.ans.rev)
    OBVIOUS
  <2>2. /\ g.op = f.op /\ g.tab = f.tab /\ g.sent = f.sent /\ g.stage = "update"
        /\ g.req = r /\ g.key = f.key /\ g.ans.st = "none"
    BY <1>0, <1>4, <2>1 DEF Flights, NoAnswer, Said
  <2>3. f.stage # "adrift"
    BY <1>4 DEF UpdateCopy
  <2> QED BY <1>4, <2>1, <2>2, <2>3
<1>5. CASE /\ FreshCopy(f)
           /\ g = [f EXCEPT !.stage = "fresh", !.key = <<f.op, minted + 1>>,
                            !.req = CopyRequest(f.op, <<f.op, minted + 1>>), !.ans = NoAnswer]
  <2>0. PICK k : k = <<f.op, minted + 1>>
    OBVIOUS
  <2>1. PICK r : r = CopyRequest(f.op, k)
    OBVIOUS
  <2>2. /\ g.op = f.op /\ g.tab = f.tab /\ g.sent = f.sent /\ g.stage = "fresh"
        /\ g.req = r /\ g.key = k /\ g.ans.st = "none"
    BY <1>0, <1>5, <2>0, <2>1 DEF Flights, NoAnswer, Said
  <2>3. f.stage # "adrift"
    BY <1>5 DEF FreshCopy, CopyTaken
  <2> QED BY <1>5, <2>0, <2>1, <2>2, <2>3
<1> QED BY <1>1, <1>2, <1>3, <1>4, <1>5 DEF Becomes

\* While a replayed text waits for its answer, only another device raises the revision.
LEMMA RevStands ==
    ASSUME IInv, Next, NEW g \in flights, g \in flights', g \in Replays, ~Answered(g), ~Excused'
    PROVE  notes'[1].rev = notes[1].rev
<1> SUFFICES ASSUME notes'[1].rev # notes[1].rev
             PROVE  FALSE
  OBVIOUS
<1>1. 1 \in DOMAIN notes /\ ~notes'[1].theirs /\ ~seen'.late /\ ~Excused
  BY Parts, Basics, ExcusedStays DEF Excused
<1>2. PICK f \in flights : Serve(f) /\ Handle(f.req).ans = Shows("ok", 1, notes'[1])
  BY <1>1, NoteSteps
<1>3. f.stage # "adrift"
  BY <1>1, <1>2, LateSeen
<1>4. CASE f = g
  <2>1. PICK a : a = Handle(f.req).ans
    OBVIOUS
  <2>2. flights' = (flights \ {g}) \cup {[g EXCEPT !.ans = a]}
    BY <1>2, <1>3, <1>4, <2>1 DEF Serve, Swap
  <2>3. g = [g EXCEPT !.ans = a]
    BY <2>2
  <2>4. g.ans = a
    BY <2>3, Parts DEF Shape, Flights
  <2> QED BY <1>2, <1>4, <2>1, <2>4 DEF Shows, Answered
<1>5. CASE f # g /\ f.stage # "inline"
  BY <1>3, <1>5 DEF IInv, ReplaysOK, Replays
<1>6. CASE f.stage = "inline"
  <2>1. Orderly
    BY <1>1 DEF Orderly, Excused
  <2> QED BY <1>6, <2>1 DEF IInv, ReplaysOK, OrderOK
<1> QED BY <1>4, <1>5, <1>6

\* A text is called stale for the revision it names.
LEMMA StaleFor ==
    ASSUME NEW r, Handle(r).ans.st = "stale"
    PROVE  r.what = "text" /\ r.rev # NoRev /\ r.rev # notes[r.note].rev
BY DEF Handle, CreateNote, PatchNote, Shows, Said

\* An answer is one.
LEMMA Answering ==
    ASSUME NEW r \in Requests
    PROVE  Handle(r).ans.st \in {"ok", "gone", "refused", "stale"}
<1> DEFINE h == Handle(r)
<1>1. Refusal(r, h) \/ Conflict(r, h) \/ Repeat(r, h) \/ Insertion(r, h) \/ Change(r, h)
  BY Handling
<1>2. PICK a : a = h.ans
  OBVIOUS
<1> HIDE DEF h
<1>3. CASE Refusal(r, h)
  BY <1>2, <1>3 DEF Refusal, Said, h
<1>4. ASSUME NEW n, NEW w, NEW s, a = Shows(s, n, w)
      PROVE  a.st = s
  BY <1>4 DEF Shows
<1>5. CASE ~Refusal(r, h)
  <2>1. \E s \in {"ok", "stale"} : \E n, w : a = Shows(s, n, w)
    BY <1>1, <1>2, <1>5 DEF Conflict, Repeat, Insertion, Change, h
  <2> QED BY <1>2, <1>4, <2>1 DEF h
<1> QED BY <1>3, <1>5

LEMMA TimelyStep ==
    ASSUME IInv, IInv', Next, WholeOK, TimelyOK
    PROVE  TimelyOK'
<1> SUFFICES ASSUME NEW g \in flights'
             PROVE  Timely(g)'
  BY DEF TimelyOK
<1>0. Excused => Excused'
  BY ExcusedStays
<1>1. CASE g \in flights
  <2>1. Timely(g)
    BY <1>1 DEF TimelyOK
  <2>2. CASE g.stage = "op" /\ ~Answered(g) /\ ~Excused'
    <3>1. notes'[1].rev = notes[1].rev
      BY <1>1, <2>2, RevStands DEF Replays
    <3> QED BY <1>0, <2>1, <3>1 DEF Timely, CopyFlight, Answered
  <2> QED BY <1>0, <2>1, <2>2 DEF Timely, CopyFlight, Answered
<1>2. ASSUME NEW f \in flights, g = [f EXCEPT !.stage = "adrift"]
      PROVE  Timely(g)'
  <2>1. Timely(f) /\ g.req = f.req /\ g.stage = "adrift"
    BY <1>2, Parts DEF TimelyOK, Shape, Flights
  <2> QED BY <2>1 DEF Timely, CopyFlight
<1>3. ASSUME NEW t \in Tabs, NEW a \in Acts(t), g = Sent(t, a, Len(intent) + 1)
      PROVE  Timely(g)'
  <2>1. g.stage = "inline" /\ g.req.typing = NoTyping
    BY <1>3 DEF Sent
  <2> QED BY <2>1 DEF Timely, CopyFlight
<1>4. ASSUME NEW t \in Tabs, ReplayHead(t),
             g = Flight(t, Head(queue), "op", Request(Head(queue), RealNote(Head(queue)),
                                                      HeadRev(t, Head(queue))))
      PROVE  Timely(g)'
  <2> DEFINE i == Head(queue)
  <2>0. i \in Intents
    BY <1>4, Parts, Basics DEF ReplayHead
  <2>1. PICK v : v = HeadRev(t, i)
    OBVIOUS
  <2>2. /\ g.stage = "op" /\ g.req.typing = NoTyping /\ g.ans.st = "none"
        /\ g.req.what = intent[i].k /\ g.req.note = RealNote(i) /\ g.req.rev = v
    BY <1>4, <2>1 DEF Flight, Request, NoAnswer, Said
  <2>3. CASE intent[i].k = "text" /\ v # NoRev
    <3>1. IsText(i) /\ intent[i].rev # NoRev
      BY <2>1, <2>3 DEF HeadRev, HasTyping, IsText
    <3>2. RealNote(i) = 1 /\ Typed(i)
      BY <2>0, <3>1, Parts, TypingOf DEF Typed
    <3>3. notes' = notes
      BY <1>4 DEF ReplayHead
    <3>4. Excused' \/ v = notes'[1].rev
      BY <1>4, <2>1, <3>2, <3>3, HeadTimely
    <3> HIDE DEF i
    <3> QED BY <2>2, <3>2, <3>4 DEF Timely, CopyFlight
  <2>4. CASE intent[i].k # "text" \/ v = NoRev
    <3> HIDE DEF i
    <3> QED BY <2>2, <2>4 DEF Timely, CopyFlight
  <2> QED BY <2>3, <2>4
<1>5. ASSUME NEW f \in flights, Becomes(f, g)
      PROVE  Timely(g)'
  <2>0. Timely(f) /\ f \in Flights /\ RequestOK(f) /\ f.req \in Requests
    BY Parts DEF TimelyOK, Shape, FlightsOK, Flights
  <2>1. CASE Serve(f) /\ g.stage = f.stage /\ g.req = f.req /\ g.ans = Handle(f.req).ans
    <3>1. PICK a : a = Handle(f.req).ans
      OBVIOUS
    <3>2. a.st # "none" /\ (a.st = "stale" => f.req.what = "text" /\ f.req.rev # NoRev
                                              /\ f.req.rev # notes[f.req.note].rev)
      BY <2>0, <3>1, StaleFor, Answering
    <3>3. ~Answered(f)
      BY <2>1 DEF Serve
    <3> QED BY <1>0, <2>0, <2>1, <3>1, <3>2, <3>3 DEF Timely, CopyFlight, Answered
  <2>2. CASE Fail(f) /\ g.stage = f.stage /\ g.req = f.req /\ g.ans.st = "busy"
    BY <1>0, <2>0, <2>2 DEF Timely, CopyFlight, Answered
  <2>3. CASE KeepText(f) /\ g.stage = "copy" /\ g.req = CopyRequest(f.op, f.key)
    <3>1. Excused
      BY <2>0, <2>3 DEF Timely, KeepText
    <3>2. IsText(f.op) /\ intent[f.op].rev # NoRev /\ f.op \in Intents
      BY <2>0, <2>3, Parts DEF KeepText, RequestOK, FlightsOK, AnswerOK
    <3>3. g.req.typing = <<1, intent[f.op].rev>>
      BY <2>0, <2>3, <3>2, Parts, CopyRequested, TypingOf DEF Flights
    <3> QED BY <1>0, <2>3, <3>1, <3>3 DEF Timely
  <2>4. CASE UpdateCopy(f) /\ g.stage = "update" /\ g.req = Request(f.op, f.ans.note, f.ans.rev)
    <3>1. g.req.typing = NoTyping
      BY <2>4 DEF Request
    <3> QED BY <1>0, <2>0, <2>4, <3>1 DEF Timely, UpdateCopy, CopyFlight
  <2>5. CASE FreshCopy(f) /\ g.stage = "fresh" /\ g.req = CopyRequest(f.op, <<f.op, minted + 1>>)
    <3>1. CopyFlight(f) /\ IsText(f.op) /\ intent[f.op].rev # NoRev /\ f.op \in Intents
      BY <2>0, <2>5 DEF FreshCopy, CopyTaken, CopyFlight, RequestOK
    <3>2. <<f.op, minted + 1>> \in Keys
      BY <2>0, Parts DEF Flights, Keys, Shape
    <3>3. g.req.typing = <<1, intent[f.op].rev>>
      BY <2>5, <3>1, <3>2, Parts, CopyRequested, TypingOf
    <3> QED BY <1>0, <2>0, <2>5, <3>1, <3>3 DEF Timely
  <2> QED BY <1>5, <2>1, <2>2, <2>3, <2>4, <2>5, Turning
<1> QED BY <1>1, <1>2, <1>3, <1>4, <1>5, FlightComes

LEMMA ExcusedStep ==
    ASSUME IInv, Next, TimelyOK, ExcusedOK
    PROVE  ExcusedOK'
<1> SUFFICES ASSUME NEW n \in DOMAIN notes', notes'[n].typing # NoTyping
             PROVE  notes'[n].typing[1] = 1 /\ Excused'
  BY DEF ExcusedOK
<1>1. CASE n \in DOMAIN notes
  BY <1>1, NoteSteps, ExcusedStays DEF ExcusedOK
<1>2. CASE n \notin DOMAIN notes
  <2>1. PICK f \in flights : Serve(f) /\ f.req.what = "create" /\ notes'[n] = NewNote(f.req) /\ f.req \in Requests
    BY <1>2, NoteComes
  <2>2. f.req.typing # NoTyping /\ notes'[n].typing = f.req.typing
    BY <2>1, FreshNote
  <2>3. Timely(f) /\ RequestOK(f) /\ f.stage \in Stages
    BY Parts DEF TimelyOK, FlightsOK, Shape, Flights
  <2>4. CASE f.stage = "adrift"
    <3>1. seen'.late
      BY <2>1, <2>4, LateSeen
    <3> QED BY <2>2, <2>3, <3>1 DEF Timely, Excused
  <2>5. CASE f.stage # "adrift"
    <3>1. CopyFlight(f)
      BY <2>1, <2>2, <2>3, <2>5 DEF RequestOK, CopyFlight, Stages
    <3> QED BY <2>2, <2>3, <3>1, ExcusedStays DEF Timely
  <2> QED BY <2>4, <2>5
<1> QED BY <1>1, <1>2
-----------------------------------------------------------------------------
(* The record of the copies.                                                 *)

(* Typed text has a typing, of note 1.                                       *)
TypingsKept ==
    \A i \in Intents : Typed(i) =>
        /\ HasTyping(i) /\ Typing(i) = At(i) /\ At(i) # NoTyping
        /\ CopyOf(i) = {c \in copies : c.at = At(i)}

LEMMA TypedAt == IInv => TypingsKept
<1> SUFFICES ASSUME IInv, NEW i \in Intents, Typed(i)
             PROVE  /\ HasTyping(i) /\ Typing(i) = At(i) /\ At(i) # NoTyping
                    /\ CopyOf(i) = {c \in copies : c.at = At(i)}
  BY DEF TypingsKept
<1>1. Typing(i) = At(i) /\ At(i) # NoTyping
  BY Parts, TypingOf DEF Typed, At
<1> QED BY <1>1 DEF Typed, HasTyping, CopyOf

(* What the record says of a typing is what its replay begins with.          *)
LEMMA OurCopy ==
    ASSUME IInv, RecordOK, NEW i \in Intents, Typed(i), NEW c \in copies, c.at = At(i)
    PROVE  CopyKey(i) = c.key /\ CopySent(i) = c.sent
<1>1. HasTyping(i) /\ CopyOf(i) = {c}
  BY TypedAt DEF RecordOK, TypingsKept
<1> QED BY <1>1 DEF CopyKey, CopySent

LEMMA SentBy ==
    ASSUME IInv, RecordOK, NEW i \in Intents, Typed(i), NEW w \in CopySent(i)
    PROVE  \E c \in copies : c.at = At(i) /\ c.key = CopyKey(i) /\ w \in c.sent
<1>1. \E c \in copies : c.at = At(i) /\ w \in c.sent
  BY TypedAt DEF CopySent, TypingsKept
<1> QED BY <1>1, OurCopy

(* What recording makes of the record.                                       *)
LEMMA Recording ==
    ASSUME IInv, NEW i \in Intents, Typed(i), NEW key
    PROVE  LET new == RecordCopy(i, key)
           IN  /\ \A c \in copies : c.at # At(i) => c \in new
               /\ \E e \in new :
                    /\ e.at = At(i) /\ e.key = key /\ intent[i].words \in e.sent
                    /\ \A c \in copies : c.at = At(i) /\ c.key = key => c.sent \subseteq e.sent
                    /\ \A c \in new : c = e \/ (c \in copies /\ c.at # At(i))
<1> DEFINE S == {intent[i].words} \cup UNION {c.sent : c \in {d \in CopyOf(i) : d.key = key}}
           e == [at |-> Typing(i), key |-> key, sent |-> S]
<1>1. HasTyping(i) /\ Typing(i) = At(i) /\ CopyOf(i) = {c \in copies : c.at = At(i)}
  BY TypedAt DEF TypingsKept
<1>2. RecordCopy(i, key) = (copies \ CopyOf(i)) \cup {e}
  BY <1>1 DEF RecordCopy
<1>3. intent[i].words \in S /\ \A c \in copies : c.at = At(i) /\ c.key = key => c.sent \subseteq S
  BY <1>1
<1> HIDE DEF S
<1>4. e.at = At(i) /\ e.key = key /\ e.sent = S
  BY <1>1
<1> HIDE DEF e
<1> QED BY <1>1, <1>2, <1>3, <1>4

(* When the record of the copies changes.                                    *)
LEMMA CopiesOnly ==
    ASSUME IInv, Next
    PROVE  \/ copies' = copies
           \/ \E f \in flights :
                /\ copies' = RecordCopy(f.op, f.key) /\ f \in Replays /\ f \notin flights'
                /\ CopyMade(f) \/ CopyUpdated(f) \/ ReplayLost(f) \/ ReplayBusy(f) \/ ReplayRefused(f)
           \/ \E f \in flights : FreshCopy(f) /\ copies' = RecordCopy(f.op, <<f.op, minted + 1>>)
<1>1. ASSUME NEW f \in flights, CopyMade(f) \/ CopyUpdated(f)
      PROVE  copies' = RecordCopy(f.op, f.key) /\ f \in Replays /\ f \notin flights'
  BY <1>1 DEF CopyMade, CopyUpdated, Land, Swap, Replays
<1>2. ASSUME NEW f \in flights, ReplayBusy(f)
      PROVE  copies' = RecordCopy(f.op, f.key) /\ f \in Replays /\ f \notin flights'
  BY <1>2 DEF ReplayBusy, Swap
<1>3. ASSUME NEW f \in flights, ReplayLost(f)
      PROVE  copies' = RecordCopy(f.op, f.key) /\ f \in Replays /\ f \notin flights'
  <2>1. GiveUp({f}) /\ {f} \in SUBSET flights /\ f \in Replays /\ copies' = RecordCopy(f.op, f.key)
    BY <1>3 DEF ReplayLost
  <2>2. f.stage # "adrift"
    BY <2>1 DEF Replays
  <2>3. \A g \in flights' : g.stage # "adrift" => g \in flights \ {f}
    BY <2>1, Parts, GivenUp
  <2> QED BY <2>1, <2>2, <2>3
<1>4. ASSUME NEW f \in flights, ReplayRefused(f)
      PROVE  \/ copies' = copies
             \/ copies' = RecordCopy(f.op, f.key) /\ f \in Replays /\ f \notin flights'
  BY <1>4 DEF ReplayRefused, Swap
<1>5. ASSUME NEW f \in flights, ReplayLanded(f) \/ AlreadyThere(f)
      PROVE  copies' = copies
  BY <1>5 DEF ReplayLanded, AlreadyThere, Land
<1>6. ASSUME NEW f \in flights, FreshCopy(f)
      PROVE  copies' = RecordCopy(f.op, <<f.op, minted + 1>>)
  BY <1>6 DEF FreshCopy
<1>7. \/ copies' = copies
      \/ \E f \in flights : \/ CopyMade(f) \/ CopyUpdated(f) \/ ReplayBusy(f) \/ ReplayLost(f)
                            \/ ReplayRefused(f) \/ FreshCopy(f)
  BY ZenonT(40), <1>5 DEF Next, Open, Load, Close, Act, Replay, StartReplay, ReplayEmpty, ReplayDoomed, ReplayHead,
         Serve, Fail, InlineLost, Settle, InlineDone, InlineRefused, KeepText, UpdateCopy,
         Refetch, Disconnect, Reconnect, Foreign, ForgetKey, box
<1> QED BY <1>1, <1>2, <1>3, <1>4, <1>6, <1>7

(* The text that was typed stays what it was.                                *)
LEMMA TypedStays ==
    ASSUME IInv, Next
    PROVE  /\ \A i \in Intents : /\ i \in Intents' /\ intent'[i] = intent[i]
                                 /\ At(i)' = At(i) /\ (Typed(i)' <=> Typed(i))
           /\ \A k, at : Fits(k, at) => Fits(k, at)'
<1>1. \A i \in Intents : i \in Intents' /\ intent'[i] = intent[i]
  BY Parts, StepLater DEF Later
<1>2. \A i \in Intents : At(i)' = At(i) /\ (Typed(i)' <=> Typed(i))
  BY <1>1 DEF At, Typed, IsText
<1> QED BY <1>1, <1>2 DEF Fits, Typed

(* The key that a replay was last sent under is one of its typing.           *)
LEMMA KeyFits ==
    ASSUME IInv, RecordOK, BelievesOK, NEW f \in Replays, Typed(f.op)
    PROVE  Fits(f.key, At(f.op))
<1>1. Believes(f) /\ f.stage \in {"op", "copy", "update", "fresh"} /\ f.op \in Intents
  BY Parts DEF BelievesOK, Replays, Shape, Flights, Stages, Typed
<1>2. CASE CopyFlight(f)
  BY <1>1, <1>2 DEF Believes, Keyed
<1>3. CASE f.stage = "op" /\ CopyOf(f.op) # {}
  <2>1. PICK c \in copies : c.at = At(f.op)
    BY <1>1, <1>3, TypedAt DEF TypingsKept
  <2>2. f.key = c.key
    BY <1>1, <1>3, <2>1, OurCopy DEF Believes, Begun
  <2> QED BY <2>1, <2>2 DEF RecordOK
<1>4. CASE f.stage = "op" /\ CopyOf(f.op) = {}
  <2>1. f.key = <<f.op, 0>>
    BY <1>1, <1>4 DEF Believes, Begun, CopyKey, KeyOf
  <2>2. f.key[1] = f.op
    BY <2>1
  <2> QED BY <2>2 DEF Fits
<1> QED BY <1>1, <1>2, <1>3, <1>4 DEF CopyFlight

LEMMA NamesStep ==
    ASSUME IInv, IInv', Next, NamesOK
    PROVE  NamesOK'
<1>0. TypeOK /\ Shape /\ FlightsOK /\ 1 \in DOMAIN notes /\ Later
  BY Parts, Basics, StepLater
<1>1. ASSUME NEW i \in Intents', IsText(i)', intent'[i].note >= 0
      PROVE  intent'[i].note = 1
  <2>1. CASE i \in Intents
    BY <1>0, <1>1, <2>1 DEF NamesOK, IsText, Later
  <2>2. CASE i \notin Intents
    <3>0. PICK t \in Tabs : \E a \in Acts(t) : Act(t, a)
      BY <2>2, IntentsOnly
    <3>1. PICK a \in Acts(t) : Act(t, a)
      BY <3>0
    <3>2. intent'[i] = a /\ a \in Intent
      BY <1>0, <2>2, <3>1, Acting
    <3>3. a.k = "text" /\ a.note >= 0 /\ a.note \in Int
      BY <1>1, <3>2 DEF IsText, Intent
    <3>4. a.note = 1
      BY <3>3 DEF Acts
    <3> QED BY <3>2, <3>4
  <2> QED BY <2>1, <2>2
<1>2. ASSUME NEW p \in ids'
      PROVE  intent'[p[1]].k = "create"
  <2>1. CASE p \in ids
    <3>1. p[1] \in Intents
      BY <1>0, <2>1 DEF TypeOK
    <3> QED BY <1>0, <2>1, <3>1 DEF NamesOK, Later
  <2>2. CASE p \notin ids
    <3>1. PICK f \in flights : Landed(f)
      BY ZenonT(40), <2>2 DEF Next, Open, Load, Close, Act, Replay, StartReplay, ReplayEmpty, ReplayDoomed, ReplayHead,
         Serve, Fail, InlineLost, ReplayLost, Settle, InlineDone, InlineRefused, KeepText, UpdateCopy,
         FreshCopy, ReplayBusy, ReplayRefused, Refetch, Disconnect, Reconnect, Foreign, ForgetKey, box, Landed
    <3>2. Land(f, copies) \/ Land(f, RecordCopy(f.op, f.key))
      BY <1>0, <3>1, Landing
    <3>3. PICK cs : Land(f, cs)
      BY <3>2
    <3>4. intent[f.op].k = "create" /\ p = <<f.op, f.ans.note>> /\ intent' = intent
      BY <2>2, <3>3 DEF Land
    <3>5. p[1] = f.op
      BY <3>4
    <3> QED BY <3>4, <3>5
  <2> QED BY <2>1, <2>2
<1>3. notes'[1].typing = NoTyping /\ notes'[1].by = 0
  BY <1>0, NoteSteps DEF NamesOK
<1>4. ASSUME NEW n \in DOMAIN notes', notes'[n].gone
      PROVE  notes'[n].theirs
  <2>1. CASE n \in DOMAIN notes
    BY <1>4, <2>1, NoteSteps DEF NamesOK
  <2>2. CASE n \notin DOMAIN notes
    <3>1. PICK r : notes'[n] = NewNote(r)
      BY <2>2, NoteComes
    <3> QED BY <1>4, <3>1 DEF NewNote
  <2> QED BY <2>1, <2>2
<1> QED BY <1>1, <1>2, <1>3, <1>4 DEF NamesOK

LEMMA RecordStep ==
    ASSUME IInv, IInv', Next, RecordOK, BelievesOK
    PROVE  RecordOK'
<1>0. TypeOK /\ Shape /\ FlightsOK
  BY Parts
<1>1. CASE copies' = copies
  BY <1>1, TypedStays DEF RecordOK
<1>2. ASSUME NEW i \in Intents, Typed(i), NEW k, Fits(k, At(i)), copies' = RecordCopy(i, k)
      PROVE  RecordOK'
  <2>1. PICK e \in copies' : /\ e.at = At(i) /\ e.key = k
                             /\ \A c \in copies' : c = e \/ (c \in copies /\ c.at # At(i))
    BY <1>2, Recording
  <2>2. \A c \in copies' : Fits(c.key, c.at)
    BY <1>2, <2>1 DEF RecordOK
  <2>3. \A c, d \in copies' : c.at = d.at => c = d
    BY <2>1 DEF RecordOK
  <2> QED BY <2>2, <2>3, TypedStays DEF RecordOK
<1>3. ASSUME NEW i \in Intents, ~Typed(i), NEW k, copies' = RecordCopy(i, k)
      PROVE  copies' = copies
  BY <1>3 DEF RecordCopy, Typed, HasTyping
<1>4. ASSUME NEW f \in flights, f \in Replays, copies' = RecordCopy(f.op, f.key)
      PROVE  RecordOK'
  BY <1>0, <1>1, <1>2, <1>3, <1>4, KeyFits DEF FlightsOK, RequestOK
<1>5. ASSUME NEW f \in flights, FreshCopy(f), copies' = RecordCopy(f.op, <<f.op, minted + 1>>)
      PROVE  RecordOK'
  <2>1. PICK k : k = <<f.op, minted + 1>>
    OBVIOUS
  <2>2. k[1] = f.op /\ f.op \in Intents
    BY <1>0, <2>1 DEF FlightsOK, RequestOK
  <2>3. Typed(f.op)
    BY <1>0, <1>5, <2>2 DEF FreshCopy, CopyTaken, FlightsOK, RequestOK, Typed
  <2>4. Fits(k, At(f.op))
    BY <2>2, <2>3 DEF Fits
  <2> QED BY <1>2, <1>5, <2>1, <2>2, <2>3, <2>4
<1> QED BY <1>1, <1>4, <1>5, CopiesOnly
-----------------------------------------------------------------------------
(* The notes that are copies.                                                *)

(* A note made under a typing's key is its copy.                             *)
LEMMA KeyOfCopy ==
    ASSUME IInv, NamesOK, NotesFit, NEW n \in DOMAIN notes, NEW at, Fits(notes[n].key, at)
    PROVE  notes[n].typing = at /\ notes[n].typing # NoTyping
<1>1. CASE notes[n].typing # NoTyping
  BY <1>1 DEF NotesFit, Fits
<1>2. CASE notes[n].typing = NoTyping
  <2>1. notes[n].key = <<notes[n].by, 0>>
    BY <1>2, Parts DEF KeysOK, KeyOf
  <2>2. notes[n].key[1] = notes[n].by
    BY <2>1
  <2>3. CASE n = 1
    BY <2>2, <2>3 DEF NamesOK, Fits, Typed, Intents
  <2>4. CASE n # 1
    BY <1>2, <2>2, <2>4 DEF NotesFit, Fits, Typed, IsText
  <2> QED BY <2>3, <2>4
<1> QED BY <1>1, <1>2

(* Nobody but its update writes a copy that others leave alone.              *)
LEMMA CopyStands ==
    ASSUME IInv, Next, Intact', TargetsOK, NEW n \in DOMAIN notes,
           notes[n].typing # NoTyping, ~notes'[n].theirs
    PROVE  \/ notes'[n].body = notes[n].body /\ notes'[n].rev = notes[n].rev
           \/ \E f \in flights : /\ Serve(f) /\ f.stage = "update" /\ f.req.note = n
                                 /\ notes'[n].body = f.req.words
<1>1. CASE notes'[n].body # notes[n].body \/ notes'[n].rev # notes[n].rev
  <2>1. PICK f \in flights : /\ Serve(f) /\ f.req.what = "text" /\ f.req.note = n
                             /\ notes'[n].body = f.req.words
    BY <1>1, NoteSteps
  <2>2. f.stage # "adrift"
    BY <2>1, LateSeen DEF Intact
  <2>3. f.stage \in Stages /\ RequestOK(f)
    BY Parts DEF Shape, Flights, FlightsOK
  <2>4. f.stage = "update"
    BY <2>1, <2>2, <2>3 DEF TargetsOK, RequestOK, Stages
  <2> QED BY <2>1, <2>4
<1> QED BY <1>1

(* A served request goes on as its answer.                                   *)
LEMMA ServedGoes ==
    ASSUME IInv, NEW f \in flights, Serve(f), f.stage # "adrift"
    PROVE  \E g \in flights' : /\ Becomes(f, g) /\ g.op = f.op /\ g.stage = f.stage /\ g.key = f.key
                               /\ g.sent = f.sent /\ g.req = f.req /\ g.ans = Handle(f.req).ans
<1>1. PICK a : a = Handle(f.req).ans
  OBVIOUS
<1>2. PICK g : g = [f EXCEPT !.ans = a]
  OBVIOUS
<1>3. g \in flights' /\ Becomes(f, g)
  BY <1>1, <1>2 DEF Serve, Swap, Becomes
<1>4. /\ g.op = f.op /\ g.stage = f.stage /\ g.key = f.key /\ g.sent = f.sent /\ g.req = f.req
      /\ g.ans = a
  BY <1>2, Parts DEF Shape, Flights
<1> QED BY <1>1, <1>3, <1>4

(* The request of a copy's create is one, and no other create has a typing.  *)
LEMMA CopyServed ==
    ASSUME IInv, Next, Intact', BelievesOK, NEW f \in flights, Serve(f), f.req.what = "create"
    PROVE  /\ f.op \in Intents
           /\ \/ /\ f.req.typing = NoTyping /\ f.req.op = f.op /\ intent[f.op].k = "create"
              \/ /\ f.stage \in {"copy", "fresh"} /\ Typed(f.op) /\ Believes(f)
                 /\ f.req.typing = At(f.op) /\ f.req.key = f.key /\ Fits(f.key, At(f.op))
                 /\ f.req.words = Words(f)
<1>1. RequestOK(f) /\ f.stage \in Stages /\ f.stage # "adrift"
  BY Parts, LateSeen DEF Shape, Flights, FlightsOK, Intact
<1>2. CASE f.stage \in {"inline", "op"}
  BY <1>1, <1>2 DEF RequestOK
<1>3. CASE f.stage \in {"copy", "fresh"}
  <2>1. Typed(f.op) /\ f.op \in Intents /\ f.req.words = Words(f)
    BY <1>1, <1>3 DEF RequestOK, Typed, Words
  <2>2. Believes(f)
    BY <1>1, <2>1 DEF BelievesOK
  <2> QED BY <1>3, <2>1, <2>2 DEF Believes, Keyed, CopyFlight
<1> QED BY <1>1, <1>2, <1>3 DEF RequestOK, Stages

LEMMA NotesFitStep ==
    ASSUME IInv, IInv', Next, Intact', NotesFit, BelievesOK
    PROVE  NotesFit'
<1> SUFFICES ASSUME NEW n \in DOMAIN notes'
             PROVE  (IF notes[n].typing # NoTyping THEN Fits(notes[n].key, notes[n].typing)
                     ELSE n = 1 \/ (notes[n].by \in Intents /\ intent[notes[n].by].k = "create"))'
  BY DEF NotesFit
<1>1. CASE n \in DOMAIN notes
  <2>1. notes'[n].key = notes[n].key /\ notes'[n].typing = notes[n].typing /\ notes'[n].by = notes[n].by
    BY <1>1, NoteSteps
  <2>2. CASE notes[n].typing # NoTyping
    <3>1. PICK k, at : k = notes[n].key /\ at = notes[n].typing
      OBVIOUS
    <3>2. Fits(k, at)
      BY <1>1, <2>2, <3>1 DEF NotesFit
    <3>3. Fits(k, at)'
      BY <3>2, TypedStays
    <3> QED BY <2>1, <2>2, <3>1, <3>3 DEF Fits
  <2>3. CASE notes[n].typing = NoTyping
    BY <1>1, <2>1, <2>3, TypedStays DEF NotesFit
  <2> QED BY <2>2, <2>3
<1>2. CASE n \notin DOMAIN notes
  <2>1. PICK f \in flights : Serve(f) /\ f.req.what = "create" /\ notes'[n] = NewNote(f.req) /\ f.req \in Requests
    BY <1>2, NoteComes
  <2>2. notes'[n].key = f.req.key /\ notes'[n].typing = f.req.typing /\ notes'[n].by = f.req.op
    BY <2>1, FreshNote
  <2>3. CASE f.req.typing = NoTyping /\ f.req.op = f.op /\ intent[f.op].k = "create" /\ f.op \in Intents
    BY <2>2, <2>3, TypedStays
  <2>4. CASE f.req.typing = At(f.op) /\ f.req.key = f.key /\ Fits(f.key, At(f.op)) /\ Typed(f.op) /\ f.op \in Intents
    <3>1. At(f.op) # NoTyping
      BY <2>4, TypedAt DEF TypingsKept
    <3>2. PICK k, at : k = f.key /\ at = At(f.op)
      OBVIOUS
    <3>3. Fits(k, at)'
      BY <2>4, <3>2, TypedStays
    <3> QED BY <2>2, <2>4, <3>1, <3>2, <3>3 DEF Fits
  <2> QED BY <2>1, <2>3, <2>4, CopyServed
<1> QED BY <1>1, <1>2

LEMMA TargetsStep ==
    ASSUME IInv, IInv', Next, Intact', NamesOK, NotesFit, TargetsOK
    PROVE  TargetsOK'
<1> SUFFICES ASSUME NEW g \in flights', g.req.what = "text", g.stage \in {"inline", "op"}
             PROVE  notes'[g.req.note].typing = NoTyping
  BY DEF TargetsOK
<1>0. TypeOK /\ Shape /\ IntentOK /\ KeysOK /\ FlightsOK /\ 1 \in DOMAIN notes
  BY Parts, Basics
<1>1. ASSUME NEW f \in flights, f.req = g.req, f.stage = g.stage
      PROVE  notes'[g.req.note].typing = NoTyping
  <2>1. f.req.note \in DOMAIN notes /\ notes[f.req.note].typing = NoTyping
    BY <1>0, <1>1 DEF FlightsOK, RequestOK, TargetsOK
  <2> QED BY <1>1, <2>1, NoteSteps
<1>2. CASE g \in flights
  BY <1>1, <1>2
<1>3. ASSUME NEW f \in flights, g = [f EXCEPT !.stage = "adrift"]
      PROVE  FALSE
  BY <1>0, <1>3 DEF Shape, Flights
<1>4. ASSUME NEW t \in Tabs, NEW a \in Acts(t), Act(t, a), ~MustQueue(t, a), g = Sent(t, a, Len(intent) + 1)
      PROVE  notes'[g.req.note].typing = NoTyping
  <2>1. g.req.what = a.k /\ g.req.note = a.note
    BY <1>4 DEF Sent
  <2>2. a \in Intent
    BY <1>0, <1>4, Acting
  <2>3. a.k = "text" /\ a.note >= 0
    BY <1>4, <2>1, <2>2 DEF MustQueue, Intent
  <2>4. a.note = 1
    <3>1. a \in Acts(t) /\ a.note \in Int
      BY <2>2 DEF Intent
    <3> QED BY <2>3, <3>1 DEF Acts
  <2> QED BY <1>0, <2>1, <2>4, NoteSteps DEF NamesOK
<1>5. ASSUME NEW t \in Tabs, ReplayHead(t),
             g = Flight(t, Head(queue), "op", Request(Head(queue), RealNote(Head(queue)),
                                                      HeadRev(t, Head(queue))))
      PROVE  notes'[g.req.note].typing = NoTyping
  <2>0. PICK i : i = Head(queue)
    OBVIOUS
  <2>1. i \in Intents /\ Resolvable(i)
    BY <1>0, <1>5, <2>0, Basics DEF ReplayHead, Doomed
  <2>2. PICK v, n : v = HeadRev(t, i) /\ n = RealNote(i)
    OBVIOUS
  <2>3. g.req.what = intent[i].k /\ g.req.note = n
    BY <1>5, <2>0, <2>2 DEF Flight, Request
  <2>4. intent[i].k = "text" /\ intent[i].note \in Int
    BY <1>0, <2>1, <2>3, Basics DEF Intent
  <2>5. CASE intent[i].note >= 0
    <3>1. n = 1
      BY <1>0, <2>1, <2>2, <2>4, <2>5, Resolution DEF NamesOK, IsText
    <3> QED BY <1>0, <2>3, <3>1, NoteSteps DEF NamesOK
  <2>6. CASE intent[i].note < 0
    <3>1. PICK c : c = -intent[i].note
      OBVIOUS
    <3>2. n \in DOMAIN notes /\ <<c, n>> \in ids
      BY <1>0, <2>1, <2>2, <2>6, <3>1, Resolution
    <3>3. PICK p \in ids : p[1] = c /\ p[2] = n
      BY <3>2
    <3>4. notes[n].key = <<c, 0>> /\ intent[c].k = "create"
      BY <1>0, <3>3 DEF KeysOK, KeyOf, NamesOK
    <3>5. notes[n].key[1] = c
      BY <3>4
    <3>6. notes[n].typing = NoTyping
      BY <3>2, <3>4, <3>5 DEF NotesFit, Fits, Typed, IsText
    <3> QED BY <2>3, <3>2, <3>6, NoteSteps
  <2> QED BY <2>4, <2>5, <2>6
<1>6. ASSUME NEW f \in flights, Becomes(f, g)
      PROVE  notes'[g.req.note].typing = NoTyping
  <2>1. g.stage = f.stage /\ g.req = f.req
    BY <1>6, Turning
  <2> QED BY <1>1, <2>1
<1> QED BY <1>2, <1>3, <1>4, <1>5, <1>6, FlightComes
-----------------------------------------------------------------------------
(* What a replay believes of the copy is so.                                 *)

(* A request that is served is not out any more.                             *)
LEMMA ServedOut ==
    ASSUME IInv, NEW f \in flights, Serve(f)
    PROVE  f \notin flights'
<1>1. PICK a : a = Handle(f.req).ans
  OBVIOUS
<1>2. f \in Flights /\ ~Answered(f) /\ f.req \in Requests
  BY Parts DEF Shape, Flights, Serve
<1>3. a.st # "none"
  BY <1>1, <1>2, Answering
<1>4. f # [f EXCEPT !.ans = a]
  <2>1. [f EXCEPT !.ans = a].ans = a
    BY <1>2 DEF Flights
  <2> QED BY <1>2, <1>3, <2>1 DEF Answered
<1> QED BY <1>1, <1>4 DEF Serve, Swap

(* While a replay stays where it is, so does the record of the copies.       *)
LEMMA StaysAlone ==
    ASSUME IInv, Next, NEW g \in flights, g \in flights', g \in Replays
    PROVE  copies' = copies
<1>1. ASSUME NEW f \in flights, FreshCopy(f)
      PROVE  FALSE
  <2>1. f.stage \in {"copy", "update"} /\ f \in Replays
    BY <1>1 DEF FreshCopy, CopyTaken, Replays
  <2>2. f = g
    BY <2>1 DEF IInv, ReplaysOK
  <2>3. PICK r, k : flights' = (flights \ {f}) \cup {[f EXCEPT !.stage = "fresh", !.key = k, !.req = r,
                                                               !.ans = NoAnswer]}
    BY <1>1 DEF FreshCopy, Swap
  <2>4. f = [f EXCEPT !.stage = "fresh", !.key = k, !.req = r, !.ans = NoAnswer]
    BY <2>2, <2>3
  <2>5. f.stage = "fresh"
    BY <2>4, Parts DEF Shape, Flights
  <2> QED BY <2>1, <2>5
<1> QED BY <1>1, CopiesOnly DEF IInv, ReplaysOK

LEMMA KeyStays ==
    ASSUME IInv, IInv', Next, copies' = copies, NEW i \in Intents, Typed(i)
    PROVE  CopyKey(i)' = CopyKey(i) /\ CopySent(i)' = CopySent(i)
<1>1. HasTyping(i) /\ CopyOf(i) = {c \in copies : c.at = At(i)}
  BY TypedAt DEF TypingsKept
<1>2. i \in Intents' /\ Typed(i)' /\ At(i)' = At(i)
  BY TypedStays
<1>3. (IInv => TypingsKept)'
  BY TypedAt, PTL
<1>4. HasTyping(i)' /\ CopyOf(i)' = CopyOf(i)
  BY <1>1, <1>2, <1>3 DEF TypingsKept
<1> QED BY <1>1, <1>4 DEF CopyKey, CopySent, KeyOf

(* The facts of a copy that nobody else has written outlast a step in which  *)
(* its replay has no part.                                                   *)
LEMMA BelievesStays ==
    ASSUME IInv, IInv', Next, Intact', NamesOK, NotesFit, BelievesOK, TargetsOK,
           NEW g \in flights, g \in flights', g \in Replays, Typed(g.op)
    PROVE  Believes(g)'
<1>0. /\ Believes(g) /\ g.op \in Intents /\ copies' = copies /\ RequestOK(g) /\ AnswerOK(g)
      /\ CopyFlight(g)' = CopyFlight(g) /\ Words(g)' = Words(g) /\ At(g.op)' = At(g.op)
  BY Parts, StaysAlone, TypedStays DEF BelievesOK, Replays, Typed, FlightsOK, CopyFlight, Words
<1>1. Begun(g)'
  BY <1>0, KeyStays DEF Believes, Begun
<1>2. Renewed(g)'
  BY <1>0 DEF Believes, Renewed
<1>3. Keyed(g)'
  <2>1. PICK k, at : k = g.key /\ at = At(g.op)
    OBVIOUS
  <2>2. Fits(k, at) => Fits(k, at)'
    BY TypedStays
  <2> QED BY <1>0, <2>1, <2>2 DEF Believes, Keyed, Fits
<1>4. ASSUME NEW n \in DOMAIN notes, notes[n].key = g.key, CopyFlight(g), ~notes'[n].theirs
      PROVE  ~notes[n].theirs /\ notes'[n].rev = notes[n].rev
  <2>1. notes[n].typing # NoTyping
    BY <1>0, <1>4, KeyOfCopy DEF Believes, Keyed
  <2>2. ASSUME NEW f \in flights, Serve(f), f.stage = "update"
        PROVE  FALSE
    <3>1. f = g
      BY <2>2 DEF IInv, ReplaysOK, Replays
    <3> QED BY <2>2, <3>1, ServedOut
  <2> QED BY <1>4, <2>1, <2>2, CopyStands, NoteSteps
<1>5. Found(g)'
  <2> SUFFICES ASSUME g.stage = "copy"
               PROVE  /\ g.ans.st = "gone" => \E n \in DOMAIN notes' : notes'[n].key = g.key /\ notes'[n].theirs
                      /\ g.ans.st = "ok" /\ ~notes'[g.ans.note].theirs =>
                           g.ans.body \in g.sent \cup {Words(g)} /\ g.ans.rev = notes'[g.ans.note].rev
    BY <1>0 DEF Found
  <2>1. ASSUME g.ans.st = "gone"
        PROVE  \E n \in DOMAIN notes' : notes'[n].key = g.key /\ notes'[n].theirs
    BY <1>0, <2>1, NoteSteps DEF Believes, Found
  <2>2. ASSUME g.ans.st = "ok", ~notes'[g.ans.note].theirs
        PROVE  g.ans.body \in g.sent \cup {Words(g)} /\ g.ans.rev = notes'[g.ans.note].rev
    <3>1. g.ans.note \in DOMAIN notes /\ notes[g.ans.note].key = g.key
      BY <1>0, <2>2 DEF AnswerOK, RequestOK, Believes, Keyed
    <3>2. ~notes[g.ans.note].theirs /\ notes'[g.ans.note].rev = notes[g.ans.note].rev
      BY <1>4, <2>2, <3>1 DEF CopyFlight
    <3> QED BY <1>0, <2>2, <3>2 DEF Believes, Found
  <2> QED BY <2>1, <2>2
<1>6. Updating(g)'
  <2> SUFFICES ASSUME g.stage = "update"
               PROVE  /\ notes'[g.req.note].key = g.key
                      /\ ~notes'[g.req.note].theirs =>
                           /\ ~Answered(g) => g.req.rev = notes'[g.req.note].rev
                           /\ g.ans.st \notin {"stale", "refused"}
    BY DEF Updating, Answered
  <2>1. g.req.note \in DOMAIN notes /\ notes[g.req.note].key = g.key
    BY <1>0 DEF RequestOK, Believes, Updating
  <2>2. notes'[g.req.note].key = g.key
    BY <2>1, NoteSteps
  <2>3. ASSUME ~notes'[g.req.note].theirs
        PROVE  ~notes[g.req.note].theirs /\ notes'[g.req.note].rev = notes[g.req.note].rev
    BY <1>4, <2>1, <2>3 DEF CopyFlight
  <2> QED BY <1>0, <2>2, <2>3 DEF Believes, Updating
<1> QED BY <1>1, <1>2, <1>3, <1>5, <1>6 DEF Believes

(* A create is told that its note is gone, and a text is taken.              *)
LEMMA GoneFor ==
    ASSUME NEW r, Handle(r).ans.st = "gone"
    PROVE  \E n \in DOMAIN notes : notes[n].key = r.key /\ notes[n].gone
<1>1. r.what = "create" /\ CreateNote(r).ans.st = "gone"
  BY DEF Handle, PatchNote, Shows, Said
<1>2. Claimed(r.key) # {}
  BY <1>1 DEF CreateNote, Shows
<1>3. PICK n : n = CHOOSE c \in Claimed(r.key) : TRUE
  OBVIOUS
<1>4. n \in Claimed(r.key)
  BY <1>2, <1>3
<1>5. notes[n].gone
  BY <1>1, <1>2, <1>3 DEF CreateNote, Shows
<1> QED BY <1>4, <1>5 DEF Claimed

LEMMA TakenFor ==
    ASSUME NEW r, r.what = "text", ~notes[r.note].gone, r.rev = notes[r.note].rev
    PROVE  Handle(r).ans.st = "ok"
BY DEF Handle, PatchNote, Shows

(* What a copy's create finds, or makes, holds words of its typing unless    *)
(* another device has written it.                                            *)
LEMMA CopyFound ==
    ASSUME IInv, IInv', Next, Intact', RecordOK, NamesOK, NotesFit, BelievesOK, CopiesOK,
           NEW f \in flights, Serve(f), f.stage = "copy", Typed(f.op), Handle(f.req).ans.st = "ok",
           ~notes'[Handle(f.req).ans.note].theirs
    PROVE  /\ Handle(f.req).ans.body \in f.sent \cup {Words(f)}
           /\ Handle(f.req).ans.rev = notes'[Handle(f.req).ans.note].rev
<1> DEFINE r == f.req
<1>0. /\ TypeOK /\ Shape /\ RequestOK(f) /\ Believes(f) /\ f.op \in Intents /\ r \in Requests
      /\ r.what = "create" /\ r.words = Words(f)
  BY Parts DEF Shape, Flights, FlightsOK, RequestOK, BelievesOK, Words, Typed
<1>1. r.key = f.key /\ Fits(f.key, At(f.op)) /\ f.key = CopyKey(f.op) /\ f.sent = CopySent(f.op)
  BY <1>0 DEF Believes, Begun, Keyed, CopyFlight
<1>2. PICK h : h = Handle(r)
  OBVIOUS
<1>3. notes' = h.notes
  BY <1>2 DEF Serve
<1>4. Refusal(r, h) \/ Conflict(r, h) \/ Repeat(r, h) \/ Insertion(r, h) \/ Change(r, h)
  BY <1>0, <1>2, Handling
<1> HIDE DEF r
<1>5. ~Refusal(r, h) /\ ~Conflict(r, h) /\ ~Change(r, h)
  BY <1>0, <1>2 DEF Refusal, Conflict, Change, Said, r
<1>6. CASE Repeat(r, h)
  <2>1. PICK n \in DOMAIN notes : notes[n].key = r.key /\ h.ans = Shows("ok", n, notes[n])
    BY <1>6 DEF Repeat
  <2>2. h.ans.note = n /\ h.ans.body = notes[n].body /\ h.ans.rev = notes[n].rev /\ notes' = notes
    BY <1>3, <1>6, <2>1 DEF Shows, Repeat
  <2>3. notes[n].key = f.key
    BY <1>1, <2>1 DEF r
  <2>4. notes[n].typing = At(f.op) /\ notes[n].typing # NoTyping
    BY <1>1, <2>3, KeyOfCopy
  <2>5. ~notes[n].theirs
    BY <1>2, <2>2 DEF r
  <2>6. CASE Recorded(n)
    <3>1. PICK c \in copies : c.at = At(f.op) /\ notes[n].body \in c.sent
      BY <2>4, <2>6 DEF Recorded
    <3> QED BY <1>0, <1>1, <1>2, <2>2, <3>1, OurCopy DEF r
  <2>7. ASSUME NEW x \in flights, Held(x, n)
        PROVE  notes[n].body \in f.sent \cup {Words(f)}
    <3>1. x = f
      BY <2>7 DEF Held, CopyFlight, Replays, IInv, ReplaysOK
    <3> QED BY <2>7, <3>1 DEF Held
  <2> QED BY <1>2, <2>2, <2>4, <2>5, <2>6, <2>7 DEF CopiesOK, r
<1>7. CASE Insertion(r, h)
  <2> DEFINE w == NewNote(r)
             m == Len(notes) + 1
  <2>1. w \in NoteRecords /\ w.body = r.words
    BY <1>0, FreshNote DEF r
  <2>2. h.ans.note = m /\ h.ans.body = w.body /\ h.ans.rev = w.rev /\ notes' = Append(notes, w)
    BY <1>3, <1>7 DEF Insertion, Shows
  <2> HIDE DEF w
  <2>3. notes'[m] = w
    BY <1>0, <2>1, <2>2, AppendProperties DEF Shape
  <2> QED BY <1>0, <1>2, <2>1, <2>2, <2>3 DEF r
<1> QED BY <1>4, <1>5, <1>6, <1>7

LEMMA BelievesServed ==
    ASSUME IInv, IInv', Next, Intact', RecordOK, NamesOK, NotesFit, BelievesOK, CopiesOK,
           NEW f \in flights, Serve(f), f.stage # "adrift", Typed(f.op),
           NEW g, g.op = f.op, g.stage = f.stage, g.key = f.key, g.sent = f.sent, g.req = f.req,
           g.ans = Handle(f.req).ans
    PROVE  Believes(g)'
<1>0. /\ Believes(f) /\ g.op \in Intents /\ copies' = copies /\ RequestOK(f)
      /\ CopyFlight(g)' = CopyFlight(f) /\ Words(g)' = Words(f) /\ At(g.op)' = At(f.op)
  BY Parts, TypedStays DEF BelievesOK, Typed, FlightsOK, CopyFlight, Words, Serve, box
<1>1. Begun(g)'
  BY <1>0, KeyStays DEF Believes, Begun
<1>2. Renewed(g)'
  BY <1>0 DEF Believes, Renewed
<1>3. Keyed(g)'
  <2>1. PICK k, at : k = g.key /\ at = At(g.op)
    OBVIOUS
  <2>2. Fits(k, at) => Fits(k, at)'
    BY TypedStays
  <2> QED BY <1>0, <2>1, <2>2 DEF Believes, Keyed, Fits
<1>4. Found(g)'
  <2> SUFFICES ASSUME g.stage = "copy"
               PROVE  /\ g.ans.st = "gone" => \E n \in DOMAIN notes' : notes'[n].key = g.key /\ notes'[n].theirs
                      /\ g.ans.st = "ok" /\ ~notes'[g.ans.note].theirs =>
                           g.ans.body \in g.sent \cup {Words(g)} /\ g.ans.rev = notes'[g.ans.note].rev
    BY <1>0 DEF Found, Words
  <2>1. ASSUME g.ans.st = "gone"
        PROVE  \E n \in DOMAIN notes' : notes'[n].key = g.key /\ notes'[n].theirs
    <3>1. PICK n \in DOMAIN notes : notes[n].key = f.req.key /\ notes[n].gone
      BY <2>1, GoneFor
    <3>2. f.req.key = f.key /\ notes[n].theirs
      BY <1>0, <3>1 DEF Believes, Keyed, NamesOK
    <3> QED BY <3>1, <3>2, NoteSteps
  <2>2. ASSUME g.ans.st = "ok", ~notes'[g.ans.note].theirs
        PROVE  g.ans.body \in g.sent \cup {Words(g)} /\ g.ans.rev = notes'[g.ans.note].rev
    BY <2>2, CopyFound DEF Words
  <2> QED BY <2>1, <2>2
<1>5. Updating(g)'
  <2> SUFFICES ASSUME g.stage = "update"
               PROVE  /\ notes'[g.req.note].key = g.key
                      /\ ~notes'[g.req.note].theirs => Answered(g) /\ g.ans.st \notin {"stale", "refused"}
    BY DEF Updating, Answered
  <2>1. g.req.note \in DOMAIN notes /\ notes[g.req.note].key = g.key /\ f.req.what = "text"
    BY <1>0 DEF RequestOK, Believes, Updating
  <2>2. notes'[g.req.note].key = g.key /\ (~notes'[g.req.note].theirs => ~notes[g.req.note].theirs)
    BY <2>1, NoteSteps
  <2>3. ASSUME ~notes[g.req.note].theirs
        PROVE  g.ans.st = "ok"
    <3>1. ~notes[f.req.note].gone /\ f.req.rev = notes[f.req.note].rev
      BY <1>0, <2>1, <2>3 DEF NamesOK, Believes, Updating, Serve
    <3> QED BY <2>1, <3>1, TakenFor
  <2> QED BY <2>2, <2>3 DEF Answered
<1> QED BY <1>1, <1>2, <1>3, <1>4, <1>5 DEF Believes

(* A replay that goes over to a copy knows the copy's key.                   *)
LEMMA BelievesTurned ==
    ASSUME IInv, IInv', Next, Intact', RecordOK, NamesOK, NotesFit, BelievesOK,
           NEW f \in flights, NEW g, g.op = f.op, g.sent = f.sent, g.ans.st = "none", Typed(f.op),
           \/ KeepText(f) /\ g.stage = "copy" /\ g.key = f.key /\ g.req = CopyRequest(f.op, f.key)
           \/ UpdateCopy(f) /\ g.stage = "update" /\ g.key = f.key
              /\ g.req = Request(f.op, f.ans.note, f.ans.rev)
           \/ FreshCopy(f) /\ g.stage = "fresh" /\ g.key = <<f.op, minted + 1>>
              /\ g.req = CopyRequest(f.op, <<f.op, minted + 1>>)
    PROVE  Believes(g)'
<1>0. /\ f.op \in Intents /\ RequestOK(f) /\ AnswerOK(f) /\ f \in Flights
      /\ Words(g)' = Words(f) /\ At(g.op)' = At(f.op) /\ Typing(f.op) = At(f.op)
  BY Parts, TypedAt, TypedStays DEF Typed, FlightsOK, Words, TypingsKept, Shape
<1>1. ASSUME NEW k, NEW at, Fits(k, at)
      PROVE  Fits(k, at)'
  BY <1>1, TypedStays
<1>2. ASSUME NEW k \in Keys
      PROVE  CopyRequest(f.op, k).key = k /\ CopyRequest(f.op, k).typing = At(f.op)
  BY <1>0, <1>2, Parts, CopyRequested DEF Typed
<1>3. CASE KeepText(f) /\ g.stage = "copy" /\ g.key = f.key /\ g.req = CopyRequest(f.op, f.key)
  <2>1. f \in Replays /\ f.stage = "op" /\ Believes(f) /\ copies' = copies
    BY <1>3 DEF KeepText, Replays, BelievesOK, box
  <2>2. Fits(f.key, At(f.op))
    BY <2>1, KeyFits
  <2>3. g.key = CopyKey(f.op)' /\ g.sent = CopySent(f.op)'
    BY <1>0, <1>3, <2>1, KeyStays DEF Believes, Begun
  <2>4. f.key \in Keys
    BY <1>0 DEF Flights
  <2>5. g.req.key = g.key /\ g.req.typing = At(f.op)
    BY <1>2, <1>3, <2>4
  <2>6. Begun(g)'
    BY <2>3 DEF Begun
  <2>7. Keyed(g)'
    BY <1>0, <1>1, <1>3, <2>2, <2>5 DEF Keyed
  <2> QED BY <1>3, <2>6, <2>7 DEF Believes, Renewed, Found, Updating
<1>4. CASE UpdateCopy(f) /\ g.stage = "update" /\ g.key = f.key /\ g.req = Request(f.op, f.ans.note, f.ans.rev)
  <2>1. /\ f.stage = "copy" /\ f.ans.st = "ok" /\ Believes(f) /\ copies' = copies /\ notes' = notes
    BY <1>4 DEF UpdateCopy, HoldsEarlierWords, BelievesOK, box
  <2>2. Fits(f.key, At(f.op)) /\ f.req.key = f.key
    BY <2>1 DEF Believes, Keyed, CopyFlight
  <2>3. g.key = CopyKey(f.op)' /\ g.sent = CopySent(f.op)'
    BY <1>0, <1>4, <2>1, KeyStays DEF Believes, Begun
  <2>4. g.req.note = f.ans.note /\ g.req.rev = f.ans.rev
    BY <1>4 DEF Request
  <2>5. notes[f.ans.note].key = f.key
    BY <1>0, <2>1, <2>2 DEF AnswerOK, RequestOK
  <2>6. ~notes[f.ans.note].theirs => f.ans.rev = notes[f.ans.note].rev
    BY <2>1 DEF Believes, Found
  <2>7. Begun(g)'
    BY <2>3 DEF Begun
  <2>8. Keyed(g)'
    BY <1>0, <1>1, <1>4, <2>2 DEF Keyed
  <2>9. Updating(g)'
    BY <1>4, <2>1, <2>4, <2>5, <2>6 DEF Updating
  <2> QED BY <1>4, <2>7, <2>8, <2>9 DEF Believes, Renewed, Found
<1>5. CASE /\ FreshCopy(f) /\ g.stage = "fresh" /\ g.key = <<f.op, minted + 1>>
           /\ g.req = CopyRequest(f.op, <<f.op, minted + 1>>)
  <2>1. PICK k : k = <<f.op, minted + 1>>
    OBVIOUS
  <2>2. k \in Keys /\ k[1] = f.op
    BY <1>0, <2>1, Parts DEF Flights, Keys, Shape
  <2>3. copies' = RecordCopy(f.op, k)
    BY <1>5, <2>1 DEF FreshCopy
  <2>4. \E c \in copies' : c.at = At(f.op) /\ c.key = k /\ Words(f) \in c.sent
    BY <1>0, <2>3, Recording DEF Words
  <2>5. Fits(k, At(f.op))
    BY <2>2 DEF Fits
  <2>6. g.req.key = k /\ g.req.typing = At(f.op)
    BY <1>2, <1>5, <2>1, <2>2
  <2>7. Renewed(g)'
    BY <1>0, <1>5, <2>1, <2>4 DEF Renewed
  <2>8. Keyed(g)'
    BY <1>0, <1>1, <1>5, <2>1, <2>5, <2>6 DEF Keyed
  <2> QED BY <1>5, <2>7, <2>8 DEF Believes, Begun, Found, Updating
<1> QED BY <1>3, <1>4, <1>5

LEMMA BelievesStep ==
    ASSUME IInv, IInv', Next, Intact', RecordOK, NamesOK, NotesFit, BelievesOK, TargetsOK, CopiesOK
    PROVE  BelievesOK'
<1> SUFFICES ASSUME NEW g \in flights', Typed(g.op)', g.stage # "adrift"
             PROVE  Believes(g)'
  BY DEF BelievesOK
<1>1. CASE g.stage = "inline"
  BY <1>1 DEF Believes, Begun, Renewed, Keyed, Found, Updating, CopyFlight
<1>2. ASSUME NEW f \in flights, f.op = g.op
      PROVE  f.op \in Intents /\ Typed(f.op)
  <2>1. f.op \in Intents
    BY Parts DEF FlightsOK, RequestOK
  <2> QED BY <1>2, <2>1, TypedStays
<1>3. CASE g \in flights /\ g.stage # "inline"
  BY <1>2, <1>3, BelievesStays DEF Replays
<1>4. ASSUME NEW f \in flights, g = [f EXCEPT !.stage = "adrift"]
      PROVE  FALSE
  BY <1>4, Parts DEF Shape, Flights
<1>5. ASSUME NEW t \in Tabs, NEW a \in Acts(t), g = Sent(t, a, Len(intent) + 1)
      PROVE  g.stage = "inline"
  BY <1>5 DEF Sent
<1>6. ASSUME NEW t \in Tabs, ReplayHead(t),
             g = Flight(t, Head(queue), "op", Request(Head(queue), RealNote(Head(queue)),
                                                      HeadRev(t, Head(queue))))
      PROVE  Believes(g)'
  <2>0. PICK i : i = Head(queue)
    OBVIOUS
  <2>1. i \in Intents
    BY <1>6, <2>0, Parts, Basics DEF ReplayHead
  <2>2. PICK r : r = Request(i, RealNote(i), HeadRev(t, i))
    OBVIOUS
  <2>3. PICK k, S : k = CopyKey(i) /\ S = CopySent(i)
    OBVIOUS
  <2>4. g.op = i /\ g.stage = "op" /\ g.key = k /\ g.sent = S
    BY <1>6, <2>0, <2>2, <2>3 DEF Flight
  <2>5. Typed(i) /\ copies' = copies
    BY <1>6, <2>1, <2>4, TypedStays DEF ReplayHead, box
  <2>6. CopyKey(i)' = k /\ CopySent(i)' = S
    BY <2>1, <2>3, <2>5, KeyStays
  <2> QED BY <2>4, <2>6 DEF Believes, Begun, Renewed, Keyed, Found, Updating, CopyFlight
<1>7. ASSUME NEW f \in flights, Becomes(f, g)
      PROVE  Believes(g)'
  <2>1. g.op = f.op /\ f.stage # "adrift" /\ Typed(f.op) /\ g.sent = f.sent
    BY <1>2, <1>7, Turning
  <2>2. CASE Serve(f) /\ g.stage = f.stage /\ g.req = f.req /\ g.key = f.key /\ g.ans = Handle(f.req).ans
    BY <2>1, <2>2, BelievesServed
  <2>3. CASE Fail(f) /\ g.stage = f.stage /\ g.req = f.req /\ g.key = f.key /\ g.ans.st = "busy"
    <3>1. /\ Believes(f) /\ f.op \in Intents /\ copies' = copies /\ notes' = notes /\ ~Answered(f)
          /\ CopyFlight(g)' = CopyFlight(f) /\ Words(g)' = Words(f) /\ At(g.op)' = At(f.op)
      BY <2>1, <2>3, TypedStays DEF BelievesOK, Typed, CopyFlight, Words, Fail, box
    <3>2. Begun(g)'
      BY <2>1, <2>3, <3>1, KeyStays DEF Believes, Begun
    <3>3. Keyed(g)'
      <4>1. PICK k, at : k = g.key /\ at = At(g.op)
        OBVIOUS
      <4>2. Fits(k, at) => Fits(k, at)'
        BY TypedStays
      <4> QED BY <2>1, <2>3, <3>1, <4>1, <4>2 DEF Believes, Keyed, Fits
    <3>4. Renewed(g)' /\ Found(g)' /\ Updating(g)'
      BY <2>1, <2>3, <3>1 DEF Believes, Renewed, Found, Updating, Answered
    <3> QED BY <3>2, <3>3, <3>4 DEF Believes
  <2>4. CASE /\ g.ans.st = "none"
             /\ \/ KeepText(f) /\ g.stage = "copy" /\ g.key = f.key /\ g.req = CopyRequest(f.op, f.key)
                \/ UpdateCopy(f) /\ g.stage = "update" /\ g.key = f.key
                   /\ g.req = Request(f.op, f.ans.note, f.ans.rev)
                \/ FreshCopy(f) /\ g.stage = "fresh" /\ g.key = <<f.op, minted + 1>>
                   /\ g.req = CopyRequest(f.op, <<f.op, minted + 1>>)
    <3> HIDE DEF Believes
    <3> QED BY <2>1, <2>4, BelievesTurned
  <2> QED BY <1>7, <2>2, <2>3, <2>4, Turning
<1> QED BY <1>1, <1>3, <1>4, <1>5, <1>6, <1>7, FlightComes
-----------------------------------------------------------------------------
(* The words of a copy are on record.                                        *)

(* A copy whose key is known was known before.                               *)
LEMMA StaysIntact ==
    ASSUME IInv, Next, Intact'
    PROVE  Intact
<1>1. Remembered /\ Grown
  BY Parts, HistoryGrows, StepLater DEF Later
<1>2. ASSUME NEW n \in DOMAIN notes, notes[n].typing # NoTyping
      PROVE  notes[n].known
  <2>1. n \in DOMAIN notes' /\ notes'[n].typing # NoTyping /\ (notes'[n].known => notes[n].known)
    BY <1>1, <1>2 DEF Grown
  <2> QED BY <2>1 DEF Intact, CopyForgotten
<1> QED BY <1>1, <1>2 DEF Intact, CopyForgotten, Remembered

(* A replay that goes over to a fresh copy leaves one that others have       *)
(* written, or that is gone.                                                 *)
LEMMA TakenByOthers ==
    ASSUME IInv, Intact, RecordOK, NamesOK, NotesFit, BelievesOK, NEW f \in flights, CopyTaken(f),
           NEW n \in DOMAIN notes, notes[n].key = f.key
    PROVE  notes[n].theirs
<1>1. RequestOK(f) /\ AnswerOK(f) /\ Typed(f.op) /\ f.stage \in {"copy", "update"}
  BY Parts DEF FlightsOK, RequestOK, Typed, CopyTaken
<1>2. Believes(f)
  BY <1>1 DEF BelievesOK
<1>3. ASSUME NEW m \in DOMAIN notes, notes[m].key = f.key, notes[m].theirs
      PROVE  notes[n].theirs
  <2>1. Fits(f.key, At(f.op))
    BY <1>1, <1>2 DEF Believes, Keyed, CopyFlight
  <2>2. notes[m].known /\ notes[n].known
    BY <1>3, <2>1, KeyOfCopy DEF Intact, CopyForgotten
  <2> QED BY <1>3, <2>2, Parts DEF KeysOK
<1>4. CASE f.stage = "copy" /\ f.ans.st = "gone"
  BY <1>2, <1>3, <1>4 DEF Believes, Found
<1>5. CASE f.stage = "copy" /\ f.ans.st = "ok" /\ f.ans.body \notin {intent[f.op].words} \cup f.sent
  <2>1. f.ans.note \in DOMAIN notes /\ notes[f.ans.note].key = f.key
    BY <1>1, <1>2, <1>5 DEF AnswerOK, RequestOK, Believes, Keyed
  <2> QED BY <1>2, <1>3, <1>5, <2>1 DEF Believes, Found, Words
<1>6. CASE f.stage = "update" /\ f.ans.st \in {"stale", "refused"}
  <2>1. f.req.note \in DOMAIN notes /\ notes[f.req.note].key = f.key
    BY <1>1, <1>2, <1>6 DEF RequestOK, Believes, Updating
  <2> QED BY <1>2, <1>3, <1>6, <2>1 DEF Believes, Updating
<1> QED BY <1>4, <1>5, <1>6 DEF CopyTaken

(* What the record names, it goes on naming.                                 *)
LEMMA RecordedStays ==
    ASSUME IInv, IInv', Next, Intact', RecordOK, NamesOK, NotesFit, BelievesOK,
           NEW n \in DOMAIN notes, ~notes'[n].theirs, notes'[n].body = notes[n].body, Recorded(n)
    PROVE  Recorded(n)'
<1>0. /\ notes'[n].key = notes[n].key /\ notes'[n].typing = notes[n].typing /\ ~notes[n].theirs
      /\ FlightsOK
  BY Parts, NoteSteps
<1>1. PICK c \in copies : c.at = notes[n].typing /\ c.key = notes[n].key /\ notes[n].body \in c.sent
  BY DEF Recorded
<1>2. CASE copies' = copies
  BY <1>0, <1>1, <1>2 DEF Recorded
<1>3. ASSUME NEW i \in Intents, NEW k, copies' = RecordCopy(i, k), Typed(i) /\ c.at = At(i) => c.key = k
      PROVE  Recorded(n)'
  <2>1. CASE ~Typed(i)
    BY <1>2, <1>3, <2>1 DEF RecordCopy, Typed, HasTyping
  <2>2. CASE Typed(i) /\ c.at # At(i)
    <3>1. c \in copies'
      BY <1>3, <2>2, Recording
    <3> QED BY <1>0, <1>1, <3>1 DEF Recorded
  <2>3. CASE Typed(i) /\ c.at = At(i)
    <3>1. PICK e \in copies' : e.at = At(i) /\ e.key = k /\ c.sent \subseteq e.sent
      BY <1>3, <2>3, Recording
    <3> QED BY <1>0, <1>1, <1>3, <2>3, <3>1 DEF Recorded
  <2> QED BY <2>1, <2>2, <2>3
<1>4. ASSUME NEW f \in flights, f \in Replays, copies' = RecordCopy(f.op, f.key)
      PROVE  Recorded(n)'
  <2>1. ASSUME Typed(f.op), c.at = At(f.op)
        PROVE  c.key = f.key
    <3>1. f.op \in Intents /\ Believes(f) /\ f.stage \in {"op", "copy", "update", "fresh"}
      BY <1>4, <2>1, Parts DEF Typed, BelievesOK, Replays, Shape, Flights, Stages
    <3>2. CASE f.stage = "fresh"
      BY <2>1, <3>1, <3>2 DEF Believes, Renewed, RecordOK
    <3>3. CASE f.stage # "fresh"
      BY <2>1, <3>1, <3>3, OurCopy DEF Believes, Begun
    <3> QED BY <3>2, <3>3
  <2> QED BY <1>0, <1>3, <1>4, <2>1 DEF FlightsOK, RequestOK
<1>5. ASSUME NEW f \in flights, FreshCopy(f), copies' = RecordCopy(f.op, <<f.op, minted + 1>>)
      PROVE  Recorded(n)'
  <2>1. PICK k : k = <<f.op, minted + 1>>
    OBVIOUS
  <2>2. CopyTaken(f) /\ f.op \in Intents /\ f.stage \in {"copy", "update"}
    BY <1>0, <1>5 DEF FreshCopy, CopyTaken, FlightsOK, RequestOK
  <2>3. ASSUME Typed(f.op), c.at = At(f.op)
        PROVE  FALSE
    <3>1. f.key = CopyKey(f.op)
      BY <2>2, <2>3 DEF BelievesOK, Believes, Begun
    <3>2. notes[n].key = f.key
      BY <1>1, <2>2, <2>3, <3>1, OurCopy
    <3> QED BY <1>0, <2>2, <3>2, TakenByOthers, StaysIntact
  <2> QED BY <1>3, <1>5, <2>1, <2>2, <2>3
<1> QED BY <1>2, <1>4, <1>5, CopiesOnly

(* What a replay holds, it goes on holding, or leaves to the record.         *)
LEMMA HeldStays ==
    ASSUME IInv, IInv', Next, Intact', RecordOK, NamesOK, NotesFit, BelievesOK,
           NEW n \in DOMAIN notes, ~notes'[n].theirs, notes'[n].body = notes[n].body,
           NEW f \in flights, Held(f, n)
    PROVE  Recorded(n)' \/ \E g \in flights' : Held(g, n)'
<1>0. /\ notes'[n].key = notes[n].key /\ notes'[n].typing = notes[n].typing /\ ~notes[n].theirs
      /\ f.op \in Intents /\ Typed(f.op) /\ f \in Replays /\ f \in Flights
      /\ At(f.op)' = At(f.op) /\ intent'[f.op] = intent[f.op]
  <2>1. RequestOK(f) /\ f \in Flights /\ CopyFlight(f)
    BY Parts DEF FlightsOK, Shape, Held
  <2>2. f.op \in Intents /\ Typed(f.op) /\ f \in Replays
    BY <2>1 DEF RequestOK, CopyFlight, Typed, Replays
  <2> QED BY <2>1, <2>2, NoteSteps, TypedStays
<1>1. Believes(f)
  BY <1>0 DEF BelievesOK, Replays
<1>2. \A g \in flights' :
          /\ g.op = f.op /\ g.key = f.key /\ g.sent = f.sent
          /\ g.stage = f.stage \/ (g.stage = "update" /\ f.stage = "copy")
          => Held(g, n)'
  <2> SUFFICES ASSUME NEW g \in flights',
                      g.op = f.op /\ g.key = f.key /\ g.sent = f.sent,
                      g.stage = f.stage \/ (g.stage = "update" /\ f.stage = "copy")
               PROVE  Held(g, n)'
    OBVIOUS
  <2> QED BY <1>0 DEF Held, CopyFlight, Words
<1>3. CASE f \in flights'
  BY <1>2, <1>3
<1>4. CASE Serve(f)
  <2>1. PICK g \in flights' : g.op = f.op /\ g.stage = f.stage /\ g.key = f.key /\ g.sent = f.sent
    BY <1>0, <1>4, ServedGoes DEF Replays
  <2> QED BY <1>2, <2>1
<1>5. CASE ~Serve(f) /\ (Fail(f) \/ UpdateCopy(f))
  <2>1. PICK g \in flights' : Becomes(f, g)
    <3>1. CASE Fail(f)
      BY <3>1 DEF Fail, Swap, Becomes
    <3>2. CASE UpdateCopy(f)
      BY <3>2 DEF UpdateCopy, Swap, Becomes
    <3> QED BY <1>5, <3>1, <3>2
  <2>2. ~KeepText(f) /\ ~FreshCopy(f)
    <3>1. CASE Fail(f)
      BY <3>1 DEF Fail, KeepText, FreshCopy, CopyTaken, Answered
    <3>2. CASE UpdateCopy(f)
      BY <3>2 DEF UpdateCopy, HoldsEarlierWords, KeepText, FreshCopy, CopyTaken
    <3> QED BY <1>5, <3>1, <3>2
  <2>3. /\ g.op = f.op /\ g.key = f.key /\ g.sent = f.sent
        /\ g.stage = f.stage \/ (UpdateCopy(f) /\ g.stage = "update")
    BY <1>5, <2>1, <2>2, Turning
  <2>4. UpdateCopy(f) => f.stage = "copy"
    BY DEF UpdateCopy
  <2> QED BY <1>2, <2>1, <2>3, <2>4
<1>6. CASE KeepText(f)
  BY <1>6 DEF KeepText, Held, CopyFlight
<1>7. CASE FreshCopy(f)
  BY <1>0, <1>7, TakenByOthers, StaysIntact DEF FreshCopy, Held
<1>8. CASE copies' = RecordCopy(f.op, f.key)
  <2>1. PICK e \in copies' : /\ e.at = At(f.op) /\ e.key = f.key /\ Words(f) \in e.sent
                             /\ \A c \in copies : c.at = At(f.op) /\ c.key = f.key => c.sent \subseteq e.sent
    BY <1>0, <1>8, Recording DEF Words
  <2>2. CASE notes[n].body = Words(f)
    BY <1>0, <2>1, <2>2 DEF Held, Recorded
  <2>3. CASE f.stage # "fresh" /\ notes[n].body \in f.sent
    <3>1. f.key = CopyKey(f.op) /\ f.sent = CopySent(f.op)
      BY <1>1, <2>3 DEF Held, CopyFlight, Believes, Begun
    <3>2. PICK c \in copies : c.at = At(f.op) /\ c.key = f.key /\ notes[n].body \in c.sent
      BY <1>0, <2>3, <3>1, SentBy
    <3> QED BY <1>0, <2>1, <3>2 DEF Held, Recorded
  <2> QED BY <2>2, <2>3 DEF Held
<1>9. CASE Ends(f)
  <2>1. ~(Serve(f) /\ f.stage = "adrift") /\ ~InlineDone(f) /\ ~InlineRefused(f) /\ ~InlineLost(f)
    BY <1>0 DEF Replays, InlineDone, InlineRefused, InlineLost
  <2>2. CASE Landed(f)
    BY <1>8, <2>2 DEF Landed, ReplayLanded, AlreadyThere, CopyMade, CopyUpdated, Land, Held, CopyFlight
  <2>3. CASE ReplayBusy(f) \/ ReplayLost(f) \/ ReplayRefused(f)
    BY <1>8, <2>3 DEF ReplayBusy, ReplayLost, ReplayRefused, Held, CopyFlight
  <2> QED BY <1>9, <2>1, <2>2, <2>3 DEF Ends
<1>10. ASSUME NEW t \in Tabs, Close(t), f.tab = t, f.stage # "adrift"
       PROVE  Recorded(n)'
  <2> DEFINE out == {x \in flights : x.tab = t /\ x.stage # "adrift"}
             A == {x.op : x \in out \ Replays}
             b == \E x \in out : x.stage \in {"copy", "update"}
             u == Unheard(out)
  <2>1. /\ seen' = [seen EXCEPT !.abandoned = @ \cup A, !.torn = @ \/ b, !.unheard = @ \/ u]
        /\ copies' = copies
    BY <1>10 DEF Close, box
  <2>2. f \in out
    BY <1>10
  <2>3. CASE f.stage \in {"copy", "update"}
    <3>1. b
      BY <2>2, <2>3
    <3> HIDE DEF b, A, u
    <3>2. seen'.torn
      BY <2>1, <3>1, Parts DEF Shape, Histories
    <3> QED BY <3>2 DEF Intact
  <2>4. CASE f.stage = "fresh"
    <3>1. notes[n].body = Words(f)
      BY <2>4 DEF Held
    <3>2. PICK c \in copies : c.at = At(f.op) /\ c.key = f.key /\ Words(f) \in c.sent
      BY <1>1, <2>4 DEF Believes, Renewed
    <3> QED BY <1>0, <2>1, <3>1, <3>2 DEF Recorded, Held
  <2> QED BY <2>3, <2>4 DEF Held, CopyFlight
<1> QED BY <1>3, <1>4, <1>5, <1>6, <1>7, <1>9, <1>10, FlightGoes

LEMMA CopiesHeld ==
    ASSUME IInv, IInv', Next, Intact', RecordOK, NamesOK, NotesFit, BelievesOK, TargetsOK, CopiesOK
    PROVE  CopiesOK'
<1> SUFFICES ASSUME NEW n \in DOMAIN notes', notes'[n].typing # NoTyping, ~notes'[n].theirs
             PROVE  Recorded(n)' \/ \E g \in flights' : Held(g, n)'
  BY DEF CopiesOK
<1>1. ASSUME NEW f \in flights, Serve(f), f.stage \in {"copy", "update", "fresh"}, f.op \in Intents,
             notes'[n].typing = At(f.op), notes'[n].key = f.key, notes'[n].body = Words(f)
      PROVE  \E g \in flights' : Held(g, n)'
  <2>1. PICK g \in flights' : g.op = f.op /\ g.stage = f.stage /\ g.key = f.key
    BY <1>1, ServedGoes
  <2>2. At(f.op)' = At(f.op) /\ Words(f)' = Words(f)
    BY <1>1, TypedStays DEF Words
  <2>3. Held(g, n)'
    BY <1>1, <2>1, <2>2 DEF Held, CopyFlight, Words
  <2> QED BY <2>3
<1>2. CASE n \notin DOMAIN notes
  <2>1. PICK f \in flights : Serve(f) /\ f.req.what = "create" /\ notes'[n] = NewNote(f.req) /\ f.req \in Requests
    BY <1>2, NoteComes
  <2>2. notes'[n].key = f.req.key /\ notes'[n].typing = f.req.typing /\ notes'[n].body = f.req.words
    BY <2>1, FreshNote
  <2>3. /\ f.op \in Intents /\ f.stage \in {"copy", "fresh"} /\ f.req.typing = At(f.op)
        /\ f.req.key = f.key /\ f.req.words = Words(f)
    BY <2>1, <2>2, CopyServed
  <2> QED BY <1>1, <2>1, <2>2, <2>3
<1>3. CASE n \in DOMAIN notes
  <2>1. notes[n].typing # NoTyping /\ ~notes[n].theirs /\ notes'[n].typing = notes[n].typing
        /\ notes'[n].key = notes[n].key
    BY <1>3, NoteSteps
  <2>2. CASE notes'[n].body = notes[n].body
    BY <1>3, <2>1, <2>2, RecordedStays, HeldStays DEF CopiesOK
  <2>3. CASE notes'[n].body # notes[n].body
    <3>1. PICK f \in flights : Serve(f) /\ f.stage = "update" /\ f.req.note = n /\ notes'[n].body = f.req.words
      BY <1>3, <2>1, <2>3, CopyStands
    <3>2. /\ RequestOK(f) /\ f.op \in Intents /\ Typed(f.op) /\ f.req.words = Words(f)
      BY <3>1, Parts DEF FlightsOK, RequestOK, Typed, Words
    <3>3. Believes(f)
      BY <3>1, <3>2 DEF BelievesOK
    <3>4. notes[n].key = f.key /\ Fits(f.key, At(f.op))
      BY <3>1, <3>3 DEF Believes, Updating, Keyed, CopyFlight
    <3>5. notes[n].typing = At(f.op)
      BY <1>3, <3>4, KeyOfCopy
    <3> QED BY <1>1, <2>1, <3>1, <3>2, <3>4, <3>5
  <2> QED BY <2>2, <2>3
<1> QED BY <1>2, <1>3
-----------------------------------------------------------------------------
(* The second invariant holds from the start, and every step keeps it.       *)

LEMMA CStart ==
    ASSUME Init
    PROVE  CInv
<1>0. Len(intent) = 0 /\ Intents = {}
  BY DEF Init, Intents
<1>1. /\ notes[1].rev = 0 /\ notes[1].typing = NoTyping /\ notes[1].by = 0 /\ notes[1].gone = FALSE
      /\ \A n \in DOMAIN notes : n = 1
  BY DEF Init
<1>2. WholeOK
  <2>1. \A r \in 0 .. 0 : LeadTo(Known, r, 0)
    <3>1. \A r \in 0 .. 0 : r = 0
      OBVIOUS
    <3> QED BY <3>1 DEF LeadTo
  <2> QED BY <1>1, <2>1 DEF WholeOK
<1>3. TimelyOK /\ BelievesOK /\ TargetsOK
  BY DEF Init, TimelyOK, BelievesOK, TargetsOK
<1>4. ExcusedOK /\ NotesFit /\ CopiesOK
  BY <1>1 DEF ExcusedOK, NotesFit, CopiesOK
<1>5. NamesOK
  BY <1>0, <1>1 DEF Init, NamesOK
<1>6. RecordOK
  BY DEF Init, RecordOK
<1> QED BY <1>2, <1>3, <1>4, <1>5, <1>6 DEF CInv

LEMMA CStep ==
    ASSUME IInv, IInv', CInv, Next
    PROVE  CInv'
<1>1. WholeOK' /\ TimelyOK' /\ ExcusedOK' /\ NamesOK'
  BY WholeStep, TimelyStep, ExcusedStep, NamesStep DEF CInv
<1>2. ASSUME Intact'
      PROVE  RecordOK' /\ NotesFit' /\ BelievesOK' /\ TargetsOK' /\ CopiesOK'
  <2>1. Intact
    BY <1>2, StaysIntact
  <2>2. NamesOK /\ RecordOK /\ NotesFit /\ BelievesOK /\ TargetsOK /\ CopiesOK
    BY <2>1 DEF CInv
  <2> QED BY <1>2, <2>2, RecordStep, NotesFitStep, BelievesStep, TargetsStep, CopiesHeld
<1> QED BY <1>1, <1>2 DEF CInv

LEMMA CStutter ==
    ASSUME CInv, UNCHANGED vars
    PROVE  CInv'
<1>1. /\ intent' = intent /\ ids' = ids /\ revs' = revs /\ copies' = copies /\ flights' = flights
      /\ notes' = notes /\ seen' = seen
  BY DEF vars, box
<1>2. Excused' = Excused /\ Known' = Known /\ Intact' = Intact
  BY <1>1 DEF Excused, Known, Intact, CopyForgotten, Watched
<1>3. WholeOK' /\ ExcusedOK' /\ NamesOK'
  BY <1>1, <1>2 DEF CInv, WholeOK, ExcusedOK, NamesOK, IsText, Intents
<1>4. TimelyOK'
  BY <1>1, <1>2 DEF CInv, TimelyOK, Timely, CopyFlight, Answered
<1>5. /\ \A i : Typed(i)' = Typed(i) /\ At(i)' = At(i)
      /\ \A i : CopyKey(i)' = CopyKey(i) /\ CopySent(i)' = CopySent(i)
      /\ \A k, at : Fits(k, at)' = Fits(k, at)
  <2>1. \A i : Typed(i)' = Typed(i) /\ At(i)' = At(i) /\ HasTyping(i)' = HasTyping(i)
               /\ Typing(i)' = Typing(i)
    BY <1>1 DEF Typed, At, Intents, IsText, HasTyping, Typing, RealNote, Became
  <2>2. \A i : CopyOf(i)' = CopyOf(i)
    BY <1>1, <2>1 DEF CopyOf
  <2>3. \A i : CopyKey(i)' = CopyKey(i) /\ CopySent(i)' = CopySent(i)
    <3> TAKE i
    <3>1. HasTyping(i)' = HasTyping(i) /\ CopyOf(i)' = CopyOf(i)
      BY <2>1, <2>2
    <3>2. CopyKey(i)' = CopyKey(i)
      BY <3>1 DEF CopyKey, KeyOf
    <3>3. CopySent(i)' = CopySent(i)
      BY <3>1 DEF CopySent
    <3> QED BY <3>2, <3>3
  <2> QED BY <2>1, <2>3 DEF Fits
<1>6. RecordOK' = RecordOK /\ NotesFit' = NotesFit /\ TargetsOK' = TargetsOK
  BY <1>1, <1>5 DEF RecordOK, NotesFit, TargetsOK, Intents
<1>7. BelievesOK' = BelievesOK
  BY <1>1, <1>5 DEF BelievesOK, Believes, Begun, Renewed, Keyed, Found, Updating, CopyFlight, Words, Answered
<1>8. CopiesOK' = CopiesOK
  BY <1>1, <1>5 DEF CopiesOK, Recorded, Held, CopyFlight, Words
<1> QED BY <1>2, <1>3, <1>4, <1>6, <1>7, <1>8 DEF CInv

LEMMA CInvariance == Spec => []CInv
<1>1. Init => CInv
  BY CStart
<1>2. IInv /\ IInv' /\ CInv /\ [Next]_vars => CInv'
  BY CStep, CStutter
<1> QED BY <1>1, <1>2, Invariance, PTL DEF Spec

(* Two copies of one typing would be two notes of one key.                   *)
LEMMA CopiesSay ==
    ASSUME IInv, CInv
    PROVE  CopyOnlyForOthers
<1>1. ASSUME NEW n \in DOMAIN notes, notes[n].typing # NoTyping
      PROVE  \/ notes[notes[n].typing[1]].theirs
             \/ seen.unheard \/ seen.late \/ seen.overlapped \/ seen.overtook \/ seen.elsewhere
  BY <1>1 DEF CInv, ExcusedOK, Excused
<1>2. ASSUME NEW n \in DOMAIN notes, NEW k \in DOMAIN notes, notes[n].typing # NoTyping,
             notes[k].typing = notes[n].typing, Intact, ~notes[n].theirs, ~notes[k].theirs
      PROVE  n = k
  <2>0. RecordOK /\ BelievesOK /\ CopiesOK
    BY <1>2 DEF CInv
  <2>1. ASSUME NEW c \in copies, c.at = notes[n].typing, NEW f \in flights, CopyFlight(f),
               At(f.op) = notes[n].typing
        PROVE  c.key = f.key
    <3>1. RequestOK(f) /\ f.stage # "adrift"
      BY <2>1, Parts DEF FlightsOK, CopyFlight
    <3>2. f.op \in Intents /\ Typed(f.op) /\ Believes(f)
      BY <2>0, <2>1, <3>1 DEF RequestOK, CopyFlight, Typed, BelievesOK
    <3>3. CASE f.stage = "fresh"
      BY <2>0, <2>1, <3>2, <3>3 DEF Believes, Renewed, RecordOK
    <3>4. CASE f.stage # "fresh"
      BY <2>0, <2>1, <3>2, <3>4, OurCopy DEF Believes, Begun, CopyFlight
    <3> QED BY <3>3, <3>4
  <2>2. notes[n].key = notes[k].key
    <3>1. CASE Recorded(n) /\ Recorded(k)
      BY <1>2, <2>0, <3>1 DEF Recorded, RecordOK
    <3>2. ASSUME NEW f \in flights, Recorded(n), Held(f, k)
          PROVE  notes[n].key = notes[k].key
      BY <1>2, <2>1, <3>2 DEF Recorded, Held
    <3>3. ASSUME NEW f \in flights, Held(f, n), Recorded(k)
          PROVE  notes[n].key = notes[k].key
      BY <1>2, <2>1, <3>3 DEF Recorded, Held
    <3>4. ASSUME NEW f \in flights, NEW g \in flights, Held(f, n), Held(g, k)
          PROVE  notes[n].key = notes[k].key
      <4>1. f = g
        BY <3>4 DEF Held, CopyFlight, IInv, ReplaysOK, Replays
      <4> QED BY <3>4, <4>1 DEF Held
    <3> QED BY <1>2, <2>0, <3>1, <3>2, <3>3, <3>4 DEF CopiesOK
  <2>3. notes[n].known /\ notes[k].known
    BY <1>2 DEF Intact, CopyForgotten
  <2> QED BY <2>2, <2>3, Parts DEF KeysOK
<1> QED BY <1>1, <1>2 DEF CopyOnlyForOthers, Intact

(* A copy is made for another device's words, or because this device could   *)
(* not know its own, and what is typed on one revision goes into one copy,   *)
(* but for what CopyOnlyForOthers names (keepOfflineText, rebaseOnOwnRevs,   *)
(* recordCopy, keepCopyKey).                                                 *)
THEOREM CopiesForOthers == Spec => []CopyOnlyForOthers
<1>1. IInv /\ CInv => CopyOnlyForOthers
  BY CopiesSay
<1> QED BY <1>1, Invariance, CInvariance, PTL
=============================================================================
