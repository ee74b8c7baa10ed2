---------------------------- MODULE ChannelKeys ----------------------------
(***************************************************************************)
(* The group keys of one encrypted channel: how members agree on them and  *)
(* replace them when somebody comes or goes (frontend/src/api/             *)
(* channelKeys.ts, src/key_handlers.rs, migrations/015).                   *)
(*                                                                         *)
(* The server numbers keys by epoch, keeps a copy wrapped for each member, *)
(* and counts the changes of membership (its generation).  Whoever writes  *)
(* calls ensureChannelKey, which reads all that and, when the newest epoch *)
(* is of another generation, makes the key of the next one.  A page runs   *)
(* several such calls at once; an account is on several pages.             *)
(*                                                                         *)
(* Each call makes one key at most, so a key is named by the call that     *)
(* made it.  Identity keys never change and the server is honest: wraps    *)
(* open, pins agree, nobody is hidden.                                     *)
(* Definitions commented "Faulty" are mutants, not part of the model.      *)
(***************************************************************************)
EXTENDS Integers, FiniteSets

CONSTANTS
    Users,          \* accounts that are or become members
    Pages,          \* pages of their browsers, each of its own profile
    Account,        \* the account a page is signed in to
    Calls,          \* the calls of ensureChannelKey
    PageOf,         \* the page a call is made on
    OldKey,         \* a key of the channel's past
    Floors,         \* what the profiles may remember of keys since purged
    MaxChanges,     \* bound: changes of membership and visibility
    MaxEvents       \* bound: requests that fail, pages that close

ASSUME KeysAssumption ==
    /\ Account \in [Pages -> Users] /\ PageOf \in [Calls -> Pages] /\ OldKey \notin Calls
    /\ Floors \subseteq [Pages -> Nat] /\ {MaxChanges, MaxEvents} \subseteq Nat

VARIABLES
    members,    \* members of the server
    viewers,    \* the members who may see the channel
    generation, \* servers.member_generation
    due,        \* changes of permissions that have not bumped it yet
    lagging,    \* whom the channel was opened or closed to since the last bump
    rows,       \* channel_keys: the wrapped copies
    floor,      \* per profile: the highest epoch it has seen
    minted,     \* per page: the keys it made, by epoch
    confirmed,  \* per page: wrappers found to be members
    load,       \* per page: the one load of keys under way
    call,       \* the calls
    given,      \* history: the keys the server had for a user who may read
    split,      \* history: epochs published twice
    spent       \* changes and events so far

server == <<members, viewers, generation, due, lagging>>
page == <<floor, minted, confirmed, load>>
vars == <<server, rows, page, call, given, split, spent>>

-----------------------------------------------------------------------------
Keys == Calls \cup {OldKey}
Me(c) == Account[PageOf[c]]
Of(p) == {c \in Calls : PageOf[c] = p}

\* A call starts with no epoch in mind; the key it may make is named after it.
NewCall(c) == [at |-> "new", epoch |-> 0, gen |-> 0, to |-> {}, seen |-> {}, key |-> c,
               out |-> {}, blind |-> FALSE, heard |-> TRUE, answer |-> "none"]
NoLoad == [at |-> "none", cur |-> 0, max |-> 0, gen |-> 0, egen |-> 0,
           rows |-> {}, out |-> {}, blind |-> FALSE]

\* Of the members of S, none is larger than e; 0 when there is none.
Newest(e, S) == e \in S \cup {0} /\ \A x \in S : x <= e
EpochsOf(R) == {r.epoch : r \in R}
RowsTo(u) == {r \in rows : r.to = u}

Spend(what, most) ==
    /\ spent[what] < most
    /\ spent' = [spent EXCEPT ![what] = @ + 1]

\* Nothing is left of a call but what it answered.
Over(k, at) == [NewCall(k.key) EXCEPT !.at = at]
Failed(k) == Over(k, "failed")
Done(k, e, out) == [Over(k, "done") EXCEPT !.epoch = e, !.out = out]

-----------------------------------------------------------------------------
(* Members come and go; the channel is opened and closed to them.          *)

\* Whoever may read again is no longer shut out, and is handed the rows kept.
Returns(u) ==
    /\ given' = [given EXCEPT ![u] = @ \cup {r.key : r \in RowsTo(u)}]
    /\ load' = [p \in Pages |-> [load[p] EXCEPT !.out = @ \ {u}]]
    /\ call' = [c \in Calls |-> [call[c] EXCEPT !.out = @ \ {u}]]

\* The trigger on server_members bumps the generation in the transaction.
Join(u) ==
    /\ u \notin members /\ Spend("changes", MaxChanges)
    /\ members' = members \cup {u} /\ viewers' = viewers \cup {u}
    /\ generation' = generation + 1 /\ lagging' = {}
    /\ Returns(u)
    /\ UNCHANGED <<due, rows, floor, minted, confirmed, split>>

\* It also deletes the rows addressed to who leaves or is put out; and the
\* handler counts that as a change of permissions too.
Leave(u) ==
    /\ u \in members /\ Spend("changes", MaxChanges)
    /\ members' = members \ {u} /\ viewers' = viewers \ {u}
    /\ generation' = generation + 1 /\ lagging' = {} /\ due' = due + 1
    /\ rows' = rows \ RowsTo(u)
    /\ UNCHANGED <<page, call, given, split>>

Deny(u) ==
    /\ u \in viewers /\ Spend("changes", MaxChanges)
    /\ viewers' = viewers \ {u}
    /\ due' = due + 1 /\ lagging' = lagging \cup {u}
    /\ UNCHANGED <<members, generation, rows, page, call, given, split>>

Grant(u) ==
    /\ u \in members \ viewers /\ Spend("changes", MaxChanges)
    /\ viewers' = viewers \cup {u}
    /\ due' = due + 1 /\ lagging' = lagging \cup {u}
    /\ Returns(u)
    /\ UNCHANGED <<members, generation, rows, floor, minted, confirmed, split>>

\* perms_changed bumps after the commit, unless its query fails.
Bump ==
    /\ due > 0 /\ due' = due - 1
    /\ generation' = generation + 1 /\ lagging' = {}
    /\ UNCHANGED <<members, viewers, rows, page, call, given, split, spent>>

BumpFails ==
    /\ due > 0 /\ due' = due - 1 /\ Spend("events", MaxEvents)
    /\ UNCHANGED <<members, viewers, generation, lagging, rows, page, call, given, split>>

-----------------------------------------------------------------------------
(* getState: a page has one load of keys under way, joined by who comes.   *)

Loading(p) == IF load[p].at = "none" THEN [load EXCEPT ![p].at = "asked"] ELSE load

\* ensureChannelKey begins.
Begin(c) ==
    /\ call[c].at = "new"
    /\ call' = [call EXCEPT ![c].at = "waiting"]
    /\ load' = Loading(PageOf[c])
    /\ UNCHANGED <<server, rows, floor, minted, confirmed, given, split, spent>>

Rejected(p) ==
    /\ load' = [load EXCEPT ![p] = NoLoad]
    /\ call' = [c \in Calls |-> IF c \in Of(p) /\ call[c].at \in {"waiting", "adopting"}
                                THEN Failed(call[c]) ELSE call[c]]
    /\ UNCHANGED <<server, rows, floor, minted, confirmed, given, split>>

Refuse(p) ==
    /\ load[p].at = "asked" /\ Account[p] \notin viewers
    /\ Rejected(p) /\ UNCHANGED spent

\* The request is lost, or the server cannot tell whether the page may see the
\* channel.  Past that it answers whatever fails: each read has a value for it.
LoadFails(p) ==
    /\ load[p].at = "asked" /\ Spend("events", MaxEvents)
    /\ Rejected(p)

\* The page is let in and told of the epochs; who is out is noted.
LetIn(p, cur, max, blind) ==
    [load[p] EXCEPT !.at = "epochs", !.cur = cur, !.max = max, !.blind = blind,
                    !.out = Users \ (viewers \cup lagging)]

\* get_channel_keys: whoever holds no row is told the newest epoch of all; and
\* that there is none when the query fails (a blind answer).
ReadEpochs(p) ==
    /\ load[p].at = "asked" /\ Account[p] \in viewers
    /\ \/ \E mine, max \in EpochsOf(rows) \cup {0} :
            /\ Newest(mine, EpochsOf(RowsTo(Account[p]))) /\ Newest(max, EpochsOf(rows))
            /\ load' = [load EXCEPT ![p] =
                           LetIn(p, IF mine = 0 THEN max ELSE mine, max, FALSE)]
            /\ UNCHANGED spent
       \/ /\ load' = [load EXCEPT ![p] = LetIn(p, 0, 0, TRUE)]
          /\ Spend("events", MaxEvents)
    /\ UNCHANGED <<server, rows, floor, minted, confirmed, call, given, split>>

\* Faulty: a failed query answers 0, as it once did.
AnswersZero(p) ==
    /\ load[p].at = "epochs"
    /\ \/ /\ load' = [load EXCEPT ![p] = [@ EXCEPT !.at = "generation", !.gen = generation]]
          /\ UNCHANGED spent
       \/ /\ load' = [load EXCEPT ![p] = [@ EXCEPT !.at = "generation", !.gen = 0]]
          /\ Spend("events", MaxEvents)
    /\ UNCHANGED <<server, rows, floor, minted, confirmed, call, given, split>>

\* A failed query answers -1, which no epoch is stamped with.
ReadGeneration(p) ==
    /\ load[p].at = "epochs"
    /\ \/ /\ load' = [load EXCEPT ![p] = [@ EXCEPT !.at = "generation", !.gen = generation]]
          /\ UNCHANGED spent
       \/ /\ load' = [load EXCEPT ![p] = [@ EXCEPT !.at = "generation", !.gen = -1]]
          /\ Spend("events", MaxEvents)
    /\ UNCHANGED <<server, rows, floor, minted, confirmed, call, given, split>>

\* The generation of any one row of the epoch, and the caller's rows: 0 and none
\* when the query fails.
ReadRows(p) ==
    LET stamps == {r.gen : r \in {s \in rows : s.epoch = load[p].cur}}
        mine   == RowsTo(Account[p])
    IN  /\ load[p].at = "generation"
        /\ \E g \in stamps \cup {0}, got \in {mine, {}} :
            /\ load' = [load EXCEPT ![p] = [@ EXCEPT !.at = "rows", !.egen = g, !.rows = got]]
            /\ IF (g \in stamps \/ stamps = {}) /\ got = mine THEN UNCHANGED spent
                                                           ELSE Spend("events", MaxEvents)
        /\ UNCHANGED <<server, rows, floor, minted, confirmed, call, given, split>>

-----------------------------------------------------------------------------
(* loadKeys ends, and every call that waited for it goes on.               *)

\* Rows that may become current need a wrapper who can be vouched for.
Recent(l) == {r \in l.rows : r.epoch >= l.cur}
Trusted(p, vouched) ==
    EpochsOf({r \in Recent(load[p]) : r.by \in {Account[p]} \cup confirmed[p] \cup vouched})

SelfMinted(p, r) == [epoch |-> r.epoch, key |-> r.key] \in minted[p]
Held(l, e) == {r \in l.rows : r.epoch = e}
TheRow(l, e) == CHOOSE r \in Held(l, e) : TRUE
Raised(p, e) == IF e > floor[p] THEN e ELSE floor[p]

\* The epoch taken as current: under the floor, the best one held and trusted.
Current(p, best) ==
    IF load[p].cur < floor[p] /\ best > load[p].cur THEN best ELSE load[p].cur

\* Faulty: an older epoch is accepted when nothing newer can be trusted.
Accepting(p, cur) == FALSE

\* That is below the floor, and not a key this page made.
RolledBack(p, cur) ==
    /\ load[p].cur < floor[p] /\ cur < floor[p]
    /\ ~\E r \in Held(load[p], cur) : SelfMinted(p, r)

\* Past every epoch there is, not just the one held.
NextEpoch(p, cur) == (IF cur > load[p].max THEN cur ELSE load[p].max) + 1

Mint(k, p, e) ==
    [k EXCEPT !.at = "listing", !.epoch = e, !.gen = load[p].gen, !.out = load[p].out,
              !.blind = load[p].blind]
Use(k, p, e, out) ==
    [Done(k, e, out) EXCEPT !.key = TheRow(load[p], e).key, !.blind = k.blind]

\* ensureChannelKey, from the load to its answer or to mintEpoch.
Ensured(k, p, cur, trusted) ==
    LET refused == Held(load[p], load[p].cur) # {} /\ load[p].cur \notin trusted
    IN  CASE cur = 0 -> Mint(k, p, 1)
          [] cur # 0 /\ (refused \/ RolledBack(p, cur)) -> Mint(k, p, NextEpoch(p, cur))
          [] cur # 0 /\ ~refused /\ ~RolledBack(p, cur) /\ Held(load[p], cur) = {} -> Failed(k)
          [] OTHER -> IF load[p].egen = load[p].gen THEN Use(k, p, cur, load[p].out)
                      ELSE Mint(k, p, NextEpoch(p, cur))

\* mintEpoch after a 409: the winner's key, if it is trusted and not too old.
Adoptable(p, e, trusted) ==
    /\ Held(load[p], e) # {} /\ e \in trusted
    /\ \/ e >= Raised(p, load[p].cur)
       \/ SelfMinted(p, TheRow(load[p], e))
Adopted(k, p, trusted) ==
    IF Adoptable(p, k.epoch, trusted) THEN Use(k, p, k.epoch, k.out) ELSE Failed(k)

Resumed(k, p, cur, trusted) ==
    CASE k.at = "waiting"  -> Ensured(k, p, cur, trusted)
      [] k.at = "adopting" -> Adopted(k, p, trusted)
      [] OTHER             -> k

\* The epochs the profile has now seen: that of the load, and those adopted.
SeenNow(p, trusted) ==
    {Raised(p, load[p].cur)} \cup
        {call[c].epoch : c \in {d \in Of(p) : /\ call[d].at = "adopting"
                                             /\ Adoptable(p, call[d].epoch, trusted)}}

\* With member-keys out of reach, a wrapper stands on a pin this profile has.
Finish(p) ==
    /\ load[p].at = "rows"
    /\ \E found \in BOOLEAN : \E vouched \in IF found THEN {viewers} ELSE SUBSET members :
       \E best \in EpochsOf(load[p].rows) \cup {0} :
        LET trusted == Trusted(p, vouched)
            cur     == Current(p, best)
        IN  /\ found => Account[p] \in viewers
            /\ IF found \/ Account[p] \notin viewers THEN UNCHANGED spent
                                                  ELSE Spend("events", MaxEvents)
            /\ Newest(best, trusted)
            /\ call' = [c \in Calls |-> IF c \in Of(p) THEN Resumed(call[c], p, cur, trusted)
                                       ELSE call[c]]
            /\ \E f \in SeenNow(p, trusted) :
                /\ Newest(f, SeenNow(p, trusted))
                /\ floor' = [floor EXCEPT ![p] = f]
            /\ confirmed' = [confirmed EXCEPT ![p] = @ \cup
                  IF found THEN ({r.by : r \in Recent(load[p])} \cap viewers) \ {Account[p]} ELSE {}]
    /\ load' = [load EXCEPT ![p] = NoLoad]
    /\ UNCHANGED <<server, rows, minted, given, split>>

-----------------------------------------------------------------------------
(* mintEpoch: a new key for the members the server names and people see.   *)

\* An answer nobody waits for is the end of the call.
Answer(c, a) ==
    IF call[c].heard
    THEN [call[c] EXCEPT !.at = "answered", !.gen = 0, !.to = {}, !.seen = {}, !.answer = a]
    ELSE Failed(call[c])

\* GET member-keys, for who may see the channel only; and if a list on screen
\* has not all of them, it is fetched afresh.
ListMembers(c) ==
    /\ call[c].at = "listing"
    /\ \E cached \in BOOLEAN :
        call' = [call EXCEPT ![c] =
                 IF Me(c) \notin viewers THEN Failed(@)
                 ELSE [@ EXCEPT !.at = IF cached THEN "sending" ELSE "seeing",
                                !.to = viewers]]
    /\ UNCHANGED <<server, rows, page, given, split, spent>>

SeeMembers(c) ==
    /\ call[c].at = "seeing"
    /\ call' = [call EXCEPT ![c] =
                IF Me(c) \notin members THEN Failed(@)
                ELSE [@ EXCEPT !.at = "sending", !.to = call[c].to \cap members]]
    /\ UNCHANGED <<server, rows, page, given, split, spent>>

\* publish_channel_keys: the gate, then the viewers, before the transaction.
Gate(c) ==
    /\ call[c].at = "sending"
    /\ call' = [call EXCEPT ![c] =
                IF Me(c) \in viewers THEN [@ EXCEPT !.at = "writing", !.seen = viewers]
                ELSE Answer(c, "refused")]
    /\ UNCHANGED <<server, rows, page, given, split, spent>>

\* Faulty: the epoch counts as made for the members there are when it is stored.
StampedOnArrival(g) == generation

Stamp(g) == IF g < 0 THEN 0 ELSE IF g > generation THEN generation ELSE g
Copies(c) ==
    {[epoch |-> call[c].epoch, to |-> u, by |-> Me(c), key |-> c, gen |-> Stamp(call[c].gen)] :
        u \in call[c].to \cap call[c].seen}
\* Faulty: copies are inserted whatever is there.
AllCopies(c) == Copies(c)

\* ON CONFLICT DO NOTHING
NewCopies(c) ==
    {n \in Copies(c) : \A r \in rows : ~(r.epoch = n.epoch /\ r.to = n.to)}
Rivals(c) == {r \in rows : r.epoch = call[c].epoch /\ r.by # Me(c)}

\* The transaction under the lock of its epoch.
Write(c) ==
    LET e == call[c].epoch
        others == {r \in rows : r.epoch = e}
    IN  /\ call[c].at = "writing"
        /\ \/ /\ ~\E r \in rows : r.epoch >= e - 1
              /\ e > 1
              /\ call' = [call EXCEPT ![c] = Answer(c, "refused")]
              /\ UNCHANGED <<rows, given, split>>
           \/ /\ e = 1 \/ \E r \in rows : r.epoch >= e - 1
              /\ Rivals(c) # {} \/ Copies(c) = {}
              /\ call' = [call EXCEPT ![c] = Answer(c, "taken")]
              /\ UNCHANGED <<rows, given, split>>
           \/ /\ e = 1 \/ \E r \in rows : r.epoch >= e - 1
              /\ Rivals(c) = {} /\ Copies(c) # {}
              /\ rows' = rows \cup NewCopies(c)
              /\ given' = [u \in Users |->
                            IF u \in viewers /\ \E r \in NewCopies(c) : r.to = u
                            THEN given[u] \cup {c} ELSE given[u]]
              /\ split' = IF others = {} THEN split ELSE split \cup {e}
              /\ call' = [call EXCEPT ![c] = Answer(c, "stored")]
        /\ UNCHANGED <<server, page, spent>>

\* The answer: the key is used, or the keys are loaded again for the winner's.
Hear(c) ==
    LET p == PageOf[c]
        e == call[c].epoch
    IN  /\ call[c].at = "answered"
        /\ \/ /\ call[c].answer = "stored"
              /\ call' = [call EXCEPT ![c] = Done(@, e, @.out)]
              /\ minted' = [minted EXCEPT ![p] =
                             {m \in @ : m.epoch # e} \cup {[epoch |-> e, key |-> c]}]
              /\ floor' = [floor EXCEPT ![p] = Raised(p, e)]
              /\ UNCHANGED load
           \/ /\ call[c].answer = "taken"
              /\ call' = [call EXCEPT ![c].at = "adopting"]
              /\ load' = Loading(p)
              /\ UNCHANGED <<floor, minted>>
           \/ /\ call[c].answer = "refused"
              /\ call' = [call EXCEPT ![c] = Failed(@)]
              /\ UNCHANGED <<floor, minted, load>>
        /\ UNCHANGED <<server, rows, confirmed, given, split, spent>>

-----------------------------------------------------------------------------
(* Requests fail, and pages close; a publish may be through all the same.  *)

Posted == {"sending", "writing"}
Dropped(k) ==
    CASE k.at \in Posted -> [k EXCEPT !.heard = FALSE]
      [] k.at \in {"new", "done", "failed"} -> k
      [] OTHER -> Failed(k)

\* A publish that fails later is one that fails here and goes through.
RequestFails(c) ==
    /\ call[c].at \in {"listing", "sending"} /\ call[c].heard
    /\ Spend("events", MaxEvents)
    /\ call' = [call EXCEPT ![c] = Dropped(@)]
    /\ UNCHANGED <<server, rows, page, given, split>>

\* The page is loaded anew, or its user signs out and in: its memory is empty.
Reload(p) ==
    /\ Spend("events", MaxEvents)
    /\ call' = [c \in Calls |-> IF c \in Of(p) THEN Dropped(call[c]) ELSE call[c]]
    /\ load' = [load EXCEPT ![p] = NoLoad]
    /\ minted' = [minted EXCEPT ![p] = {}] /\ confirmed' = [confirmed EXCEPT ![p] = {}]
    /\ UNCHANGED <<server, rows, floor, given, split>>

-----------------------------------------------------------------------------
\* No key has been made yet, or epoch 1 was made for all who may see the channel.
OldRow(u, by) == [epoch |-> 1, to |-> u, by |-> by, key |-> OldKey, gen |-> 0]

Init ==
    /\ members \in SUBSET Users /\ viewers \in SUBSET members
    /\ generation = 0 /\ due = 0 /\ lagging = {}
    /\ \/ rows = {}
       \/ /\ viewers # {}
          /\ \E u \in members : rows = {OldRow(v, u) : v \in viewers}
    /\ floor \in Floors
    /\ minted = [p \in Pages |-> {}] /\ confirmed = [p \in Pages |-> {}]
    /\ load = [p \in Pages |-> NoLoad]
    /\ call = [c \in Calls |-> NewCall(c)]
    /\ given = [u \in Users |-> {r.key : r \in RowsTo(u)}] /\ split = {}
    /\ spent = [changes |-> 0, events |-> 0]

Membership ==
    \/ \E u \in Users : Join(u) \/ Leave(u) \/ Deny(u) \/ Grant(u)
    \/ Bump \/ BumpFails

Loads ==
    \E p \in Pages :
        \/ Refuse(p) \/ LoadFails(p) \/ ReadEpochs(p)
        \/ ReadGeneration(p) \/ ReadRows(p) \/ Finish(p) \/ Reload(p)

Minting ==
    \E c \in Calls :
        \/ Begin(c) \/ ListMembers(c) \/ SeeMembers(c) \/ Gate(c)
        \/ Write(c) \/ Hear(c) \/ RequestFails(c)

Next == Membership \/ Loads \/ Minting

Spec == Init /\ [][Next]_vars

-----------------------------------------------------------------------------
(* Properties *)

Row == [epoch : Nat \ {0}, to : Users, by : Users, key : Keys, gen : Nat]
Load == [at : {"none", "asked", "epochs", "generation", "rows"}, cur : Nat, max : Nat,
         gen : Int, egen : Nat, rows : SUBSET Row, out : SUBSET Users, blind : BOOLEAN]
Call == [at : {"new", "waiting", "listing", "seeing", "sending", "writing", "answered",
               "adopting", "done", "failed"},
         epoch : Nat, gen : Int, to : SUBSET Users, seen : SUBSET Users, key : Keys,
         out : SUBSET Users, blind : BOOLEAN, heard : BOOLEAN,
         answer : {"none", "stored", "taken", "refused"}]

\* Types, and one copy of one epoch for one member.
TypeOK ==
    /\ members \subseteq Users /\ viewers \subseteq members /\ lagging \subseteq Users
    /\ generation \in Nat /\ due \in Nat
    /\ rows \subseteq Row
    /\ \A r, s \in rows : r.epoch = s.epoch /\ r.to = s.to => r = s
    /\ floor \in [Pages -> Nat]
    /\ minted \in [Pages -> SUBSET [epoch : Nat \ {0}, key : Calls]]
    /\ confirmed \in [Pages -> SUBSET Users]
    /\ load \in [Pages -> Load] /\ call \in [Calls -> Call]
    /\ given \in [Users -> SUBSET Keys] /\ split \subseteq Nat
    /\ spent \in [changes : Nat, events : Nat]

\* A copy stamped with the current generation, whose epoch nobody will replace:
\* everybody who may see the channel has a copy of that epoch, and the key of
\* this one was never handed to anybody who may not; except for changes that
\* have yet to bump.
CurrentEpochFits ==
    \A r \in rows : r.gen = generation =>
        /\ \A u \in viewers \ lagging : \E s \in rows : s.epoch = r.epoch /\ s.to = u
        /\ \A u \in Users : r.key \in given[u] => u \in viewers \cup lagging

\* Nobody who was out when a call asked for the keys, and has not come back,
\* was ever handed the key it writes under.  Two cases leave it only the keys it
\* made itself: the epoch was published twice; or the answer it acts on was a
\* blind one, so that it makes an epoch there may be already, and takes the
\* winner's key of it.
ShutOutLacksKey ==
    \A c \in Calls :
        /\ call[c].at = "done"
        /\ call[c].key = c \/ ~(call[c].epoch \in split \/ call[c].blind)
        => \A u \in call[c].out : call[c].key \notin given[u]

\* A device does not write under an epoch below the highest it has seen (whose
\* key may be one that somebody ejected holds), unless it made that key itself.
NeverBack ==
    [][\A c \in Calls :
        call[c].at # "done" /\ call'[c].at = "done" =>
            \/ call'[c].epoch >= floor[PageOf[c]]
            \/ [epoch |-> call'[c].epoch, key |-> call'[c].key] \in minted'[PageOf[c]]]_vars

\* docs/E2EE.md:217: two holders who rotate at once do not split the channel.
NoSplit ==
    \A c, d \in Calls :
        /\ call[c].at = "done" /\ call[d].at = "done" /\ call[c].epoch = call[d].epoch
        => call[c].key = call[d].key
=============================================================================
