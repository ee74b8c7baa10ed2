------------------------- MODULE ChannelKeysProofs -------------------------
(***************************************************************************)
(* Proofs about ChannelKeys: its types, that an epoch which counts as       *)
(* current fits the members, that nobody writes under a key of somebody who *)
(* is shut out, and that no device goes back to an older epoch.             *)
(***************************************************************************)
EXTENDS ChannelKeys, TLAPS

\* From the epoch a call means to make to the answer it gets.
Making == {"listing", "seeing", "sending", "writing", "answered", "adopting"}

\* Calls whose key is in nobody's rows yet.
Unwritten == {"new", "waiting", "listing", "seeing", "sending", "writing"}

\* Loads that the server has begun to answer.
Answered == {"epochs", "generation", "rows"}

\* Until it is done a call has no key but its own, and what it makes has a number.
OwnKey ==
    \A c \in Calls :
        /\ call[c].at # "done" => call[c].key = c
        /\ call[c].at \in Making => call[c].epoch > 0

\* The generation only grows, so that nothing is ahead of it.
GenOK ==
    /\ \A r \in rows : r.gen <= generation
    /\ \A c \in Calls : call[c].gen <= generation
    /\ \A p \in Pages : load[p].gen <= generation

\* Who was out and has not come back does not see the channel; nor was the
\* channel closed to them since the bump, until the generation is read.
OutOut ==
    /\ \A c \in Calls : call[c].out \cap viewers = {}
    /\ \A p \in Pages : load[p].out \cap viewers = {}
    /\ \A p \in Pages : load[p].at = "epochs" => load[p].out \cap lagging = {}

\* An epoch published once has one key.
OneKey == \A r, s \in rows : r.epoch = s.epoch /\ r.epoch \notin split => r.key = s.key

\* A key that has not been written is nobody's.
FreshKeys ==
    \A c \in Calls : call[c].at \in Unwritten =>
        /\ \A u \in Users : c \notin given[u]
        /\ \A r \in rows : r.key # c

\* A publish that will be stamped with the present generation has copies for
\* everybody who may see the channel, whatever is still to be counted.
Covers ==
    \A c \in Calls : Stamp(call[c].gen) = generation =>
        /\ call[c].at \in {"seeing", "sending", "writing"} => viewers \ lagging \subseteq call[c].to
        /\ call[c].at = "writing" => viewers \ lagging \subseteq call[c].seen

\* The rows a load got are one an epoch.
LoadRows == \A p \in Pages : \A r, s \in load[p].rows : r.epoch = s.epoch => r = s

\* Nobody out was handed the key of a row that is newer than what the load found,
\* unless its answer was a blind one, nor of a row of the generation it found or
\* a later one.
Untouched(p) ==
    load[p].at \in Answered =>
        /\ load[p].cur <= load[p].max /\ (load[p].cur = 0 => load[p].max = 0)
        /\ load[p].blind => load[p].cur = 0
        /\ \A u \in load[p].out : \A r \in rows :
             \/ ~load[p].blind /\ r.epoch > load[p].max
             \/ ~load[p].blind /\ r.to = Account[p] /\ r.epoch > load[p].cur
             \/ load[p].at # "epochs" /\ load[p].gen >= 0 /\ r.gen >= load[p].gen
             => r.key \notin given[u]
Fetched(p) ==
    load[p].at = "rows" =>
        /\ load[p].blind => load[p].egen = 0
        /\ \A u \in load[p].out : \A r \in load[p].rows :
            \/ ~load[p].blind /\ r.epoch > load[p].cur
            \/ load[p].egen = load[p].gen /\ load[p].gen = 0
            \/ load[p].egen = load[p].gen /\ r.epoch = load[p].cur /\ r.epoch \notin split
            => r.key \notin given[u]
LoadSound == \A p \in Pages : Untouched(p) /\ Fetched(p)

\* Nobody out was handed the call's own key, or one of the epoch it makes (but
\* what epoch that is, a blind answer does not know).
MintSound ==
    \A c \in Calls : call[c].at \in Making =>
        \A u \in call[c].out :
            /\ c \notin given[u]
            /\ ~call[c].blind => \A r \in rows \cup load[PageOf[c]].rows :
                 r.epoch = call[c].epoch => r.key \notin given[u]

IInv ==
    /\ TypeOK /\ OwnKey /\ GenOK /\ OutOut /\ OneKey /\ FreshKeys
    /\ CurrentEpochFits /\ Covers /\ LoadRows /\ LoadSound /\ MintSound /\ ShutOutLacksKey

-----------------------------------------------------------------------------
(* Records of calls and loads *)

LEMMA CallFacts ==
    ASSUME NEW k \in Call
    PROVE  /\ Failed(k) \in Call /\ Failed(k).at = "failed" /\ Failed(k).key = k.key
           /\ Failed(k).gen = 0 /\ Failed(k).out = {} /\ Failed(k).epoch = 0
           /\ ~Failed(k).blind
           /\ \A e \in Nat : \A out \in SUBSET Users :
                /\ Done(k, e, out) \in Call /\ Done(k, e, out).at = "done"
                /\ Done(k, e, out).epoch = e /\ Done(k, e, out).out = out
                /\ Done(k, e, out).key = k.key /\ Done(k, e, out).gen = 0
<1> DEFINE new == NewCall(k.key)
<1>1. /\ new = [at |-> "new", epoch |-> 0, gen |-> 0, to |-> {}, seen |-> {}, key |-> k.key,
                out |-> {}, blind |-> FALSE, heard |-> TRUE, answer |-> "none"]
      /\ k.key \in Keys
  BY DEF NewCall, Call
<1> HIDE DEF new
<1>2. /\ new \in Call /\ new.epoch = 0 /\ new.gen = 0 /\ new.out = {} /\ new.key = k.key
      /\ ~new.blind
  BY <1>1 DEF Call
<1>3. Failed(k) = [new EXCEPT !.at = "failed"]
  BY DEF Failed, Over, new
<1>4. /\ Failed(k) \in Call /\ Failed(k).at = "failed" /\ Failed(k).key = k.key
      /\ Failed(k).gen = 0 /\ Failed(k).out = {} /\ Failed(k).epoch = 0 /\ ~Failed(k).blind
  BY <1>2, <1>3 DEF Call
<1>5. ASSUME NEW e \in Nat, NEW out \in SUBSET Users
      PROVE  /\ Done(k, e, out) \in Call /\ Done(k, e, out).at = "done"
             /\ Done(k, e, out).epoch = e /\ Done(k, e, out).out = out
             /\ Done(k, e, out).key = k.key /\ Done(k, e, out).gen = 0
  <2>1. Done(k, e, out) = [[new EXCEPT !.at = "done"] EXCEPT !.epoch = e, !.out = out]
    BY DEF Done, Over, new
  <2> QED
    BY <2>1, <1>2 DEF Call
<1> QED
  BY <1>4, <1>5

LEMMA DroppedFacts ==
    ASSUME NEW k \in Call
    PROVE  /\ Dropped(k) \in Call
           /\ \/ Dropped(k) = Failed(k) /\ k.at # "done"
              \/ /\ Dropped(k).at = k.at /\ Dropped(k).epoch = k.epoch /\ Dropped(k).gen = k.gen
                 /\ Dropped(k).to = k.to /\ Dropped(k).seen = k.seen
                 /\ Dropped(k).key = k.key /\ Dropped(k).out = k.out
                 /\ Dropped(k).blind = k.blind
<1>1. Failed(k) \in Call
  BY CallFacts
<1> HIDE DEF Failed
<1>2. CASE k.at \in Posted
  <2>1. Dropped(k) = [k EXCEPT !.heard = FALSE]
    BY <1>2 DEF Dropped, Posted
  <2> QED
    BY <2>1 DEF Call
<1>3. CASE k.at \notin Posted /\ k.at \in {"new", "done", "failed"}
  <2>1. Dropped(k) = k
    BY <1>3 DEF Dropped
  <2> QED
    BY <2>1
<1>4. CASE k.at \notin Posted /\ k.at \notin {"new", "done", "failed"}
  <2>1. Dropped(k) = Failed(k)
    BY <1>4 DEF Dropped
  <2> QED
    BY <2>1, <1>1, <1>4
<1> QED
  BY <1>2, <1>3, <1>4

LEMMA AnsweredFacts ==
    ASSUME NEW k \in Call, NEW a \in {"refused", "taken", "stored"}
    PROVE  LET m == [k EXCEPT !.at = "answered", !.gen = 0, !.to = {}, !.seen = {}, !.answer = a]
           IN  /\ m \in Call /\ m.at = "answered" /\ m.epoch = k.epoch
               /\ m.gen = 0 /\ m.key = k.key /\ m.out = k.out /\ m.blind = k.blind
<1> DEFINE m == [k EXCEPT !.at = "answered", !.gen = 0, !.to = {}, !.seen = {}, !.answer = a]
<1>1. /\ m.at = "answered" /\ m.epoch = k.epoch
      /\ m.gen = 0 /\ m.key = k.key /\ m.out = k.out /\ m.blind = k.blind
  BY DEF Call
<1>2. m \in Call
  <2>0. \A j \in Call : [j EXCEPT !.gen = 0] \in Call
    <3>1. 0 \in Int
      OBVIOUS
    <3> QED
      BY <3>1, Zenon DEF Call
  <2>1. [[k EXCEPT !.at = "answered"] EXCEPT !.gen = 0] \in Call
    <3>1. [k EXCEPT !.at = "answered"] \in Call
      BY DEF Call
    <3> QED
      BY <2>0, <3>1
  <2>2. \A j \in Call : [[j EXCEPT !.to = {}] EXCEPT !.seen = {}] \in Call
    BY DEF Call
  <2>3. \A j \in Call : [j EXCEPT !.answer = a] \in Call
    BY DEF Call
  <2>4. m = [[[[[k EXCEPT !.at = "answered"] EXCEPT !.gen = 0] EXCEPT !.to = {}]
              EXCEPT !.seen = {}] EXCEPT !.answer = a]
    OBVIOUS
  <2> HIDE DEF m
  <2> QED
    BY <2>1, <2>2, <2>3, <2>4
<1> QED
  BY <1>1, <1>2

LEMMA LoadFacts ==
    ASSUME TypeOK, NEW p \in Pages
    PROVE  /\ NoLoad \in Load /\ Loading(p) \in [Pages -> Load]
           /\ \A q \in Pages : q # p => Loading(p)[q] = load[q]
           /\ \/ Loading(p)[p] = load[p]
              \/ /\ Loading(p)[p].at = "asked" /\ Loading(p)[p].rows = load[p].rows
                 /\ Loading(p)[p].out = load[p].out /\ Loading(p)[p].gen = load[p].gen
<1>1. NoLoad \in Load
  BY DEF NoLoad, Load
<1>2. load \in [Pages -> Load]
  BY DEF TypeOK
<1>3. CASE load[p].at = "none"
  <2>1. Loading(p) = [load EXCEPT ![p] = [load[p] EXCEPT !.at = "asked"]]
    BY <1>3 DEF Loading
  <2>2. [load[p] EXCEPT !.at = "asked"] \in Load
    BY <1>2 DEF Load
  <2> QED
    BY <1>1, <1>2, <2>1, <2>2 DEF Load
<1>4. CASE load[p].at # "none"
  BY <1>1, <1>2, <1>4 DEF Loading
<1> QED
  BY <1>3, <1>4

-----------------------------------------------------------------------------
(* What a load's end makes of the calls that waited for it *)

\* The call goes on to make the key of an epoch nobody has.
Makes(c) ==
    LET p == PageOf[c]
    IN  \E e \in Nat \ {0} :
            /\ call[c].at = "waiting" /\ load[p].at = "rows"
            /\ (load[p].cur = 0 /\ e = 1) \/ e > load[p].max
            /\ call'[c] = Mint(call[c], p, e)

\* The call answers with a key the load has brought.
Finds(c) ==
    LET p == PageOf[c]
    IN  \E e \in Nat :
            /\ load[p].at = "rows" /\ Held(load[p], e) # {} /\ minted' = minted
            /\ \/ /\ call[c].at = "waiting" /\ call'[c] = Use(call[c], p, e, load[p].out)
                  /\ e >= load[p].cur /\ load[p].egen = load[p].gen /\ ~RolledBack(p, e)
               \/ /\ call[c].at = "adopting" /\ call'[c] = Use(call[c], p, e, call[c].out)
                  /\ e = call[c].epoch
                  /\ e >= floor[p] \/ SelfMinted(p, TheRow(load[p], e))

LEMMA EnsuredCases ==
    ASSUME TypeOK, NEW c \in Calls, NEW trusted, NEW cur \in Nat,
           call[c].at = "waiting", load[PageOf[c]].at = "rows", minted' = minted,
           cur >= load[PageOf[c]].cur,
           call'[c] = Ensured(call[c], PageOf[c], cur, trusted)
    PROVE  call'[c] = Failed(call[c]) \/ Makes(c) \/ Finds(c)
<1> DEFINE p == PageOf[c]
           k == call[c]
           next == NextEpoch(p, cur)
           held == Held(load[p], cur) # {}
           back == RolledBack(p, cur)
           refused == Held(load[p], load[p].cur) # {} /\ load[p].cur \notin trusted
<1>1. p \in Pages /\ load[p] \in Load
  BY KeysAssumption DEF TypeOK
<1>2. load[p].cur \in Nat /\ load[p].max \in Nat
  BY <1>1 DEF Load
<1>3. next \in Nat \ {0} /\ next > load[p].max
  BY <1>2 DEF NextEpoch
<1>4. call'[c] = CASE cur = 0 -> Mint(k, p, 1)
                   [] cur # 0 /\ (refused \/ back) -> Mint(k, p, next)
                   [] cur # 0 /\ ~refused /\ ~back /\ ~held -> Failed(k)
                   [] OTHER -> IF load[p].egen = load[p].gen THEN Use(k, p, cur, load[p].out)
                               ELSE Mint(k, p, next)
  BY DEF Ensured
<1> HIDE DEF p, k, next, held, back, refused
<1>5. CASE cur = 0
  <2>1. call'[c] = Mint(k, p, 1)
    BY <1>4, <1>5
  <2>2. load[p].cur = 0
    BY <1>2, <1>5 DEF p
  <2> QED
    BY <2>1, <2>2 DEF Makes, p, k
<1>6. CASE cur # 0 /\ (refused \/ back)
  <2>1. call'[c] = Mint(k, p, next)
    BY <1>4, <1>6
  <2> QED
    BY <2>1, <1>3 DEF Makes, p, k
<1>7. CASE cur # 0 /\ ~refused /\ ~back /\ ~held
  BY <1>4, <1>7 DEF k
<1>8. CASE cur # 0 /\ ~refused /\ ~back /\ held /\ load[p].egen = load[p].gen
  <2>1. call'[c] = Use(k, p, cur, load[p].out)
    BY <1>4, <1>8
  <2> QED
    BY <2>1, <1>8 DEF Finds, p, k, held, back
<1>9. CASE cur # 0 /\ ~refused /\ ~back /\ held /\ load[p].egen # load[p].gen
  <2>1. call'[c] = Mint(k, p, next)
    BY <1>4, <1>9
  <2> QED
    BY <2>1, <1>3 DEF Makes, p, k
<1> QED
  BY <1>5, <1>6, <1>7, <1>8, <1>9

LEMMA FinishCalls ==
    ASSUME TypeOK, NEW p \in Pages, Finish(p), NEW c \in Calls
    PROVE  \/ call'[c] = call[c]
           \/ call'[c] = Failed(call[c]) /\ call[c].at # "done"
           \/ PageOf[c] = p /\ (Makes(c) \/ Finds(c))
<1>1. /\ load[p] \in Load /\ floor[p] \in Nat /\ load[p].at = "rows" /\ minted' = minted
      /\ load[p].cur \in Nat
  BY DEF TypeOK, Finish, Load
<1>2. PICK vouched, best :
        /\ best \in EpochsOf(load[p].rows) \cup {0}
        /\ call' = [d \in Calls |->
                     IF d \in Of(p) THEN Resumed(call[d], p, Current(p, best), Trusted(p, vouched))
                     ELSE call[d]]
  BY DEF Finish
<1> DEFINE trusted == Trusted(p, vouched)
           cur == Current(p, best)
<1>3. cur \in Nat /\ cur >= load[p].cur
  <2>1. best \in Nat
    BY <1>1, <1>2 DEF EpochsOf, Load, Row
  <2> QED
    BY <1>1, <2>1 DEF Current
<1>4. c \in Of(p) => call'[c] = Resumed(call[c], p, cur, trusted)
  BY <1>2
<1>5. c \notin Of(p) => call'[c] = call[c]
  BY <1>2
<1> HIDE DEF trusted, cur
<1>6. CASE c \notin Of(p) \/ call[c].at \notin {"waiting", "adopting"}
  BY <1>4, <1>5, <1>6 DEF Resumed
<1>7. CASE c \in Of(p) /\ call[c].at = "waiting"
  <2>1. call'[c] = Ensured(call[c], p, cur, trusted) /\ PageOf[c] = p
    BY <1>4, <1>7 DEF Of, Resumed
  <2> QED
    BY <2>1, <1>1, <1>3, <1>7, EnsuredCases
<1>8. CASE c \in Of(p) /\ call[c].at = "adopting"
  <2> DEFINE e == call[c].epoch
  <2>1. call'[c] = Adopted(call[c], p, trusted) /\ PageOf[c] = p
    BY <1>4, <1>8 DEF Of, Resumed
  <2>2. e \in Nat
    BY DEF TypeOK, Call
  <2>3. CASE Adoptable(p, e, trusted)
    <3>1. call'[c] = Use(call[c], p, e, call[c].out)
      BY <2>1, <2>3 DEF Adopted
    <3>2. Held(load[p], e) # {} /\ (e >= floor[p] \/ SelfMinted(p, TheRow(load[p], e)))
      BY <1>1, <2>2, <2>3 DEF Adoptable, Raised
    <3> QED
      BY <3>1, <3>2, <2>1, <2>2, <1>1, <1>8 DEF Finds
  <2>4. CASE ~Adoptable(p, e, trusted)
    BY <2>1, <2>4, <1>8 DEF Adopted
  <2> QED
    BY <2>3, <2>4
<1> QED
  BY <1>6, <1>7, <1>8

-----------------------------------------------------------------------------
(* What one step may do to the server, the rows, the loads and the calls *)

\* Nothing of a call changes but who is out, or that nobody waits for its answer.
Stays(c) ==
    /\ call'[c].at = call[c].at /\ call'[c].epoch = call[c].epoch /\ call'[c].gen = call[c].gen
    /\ call'[c].to = call[c].to /\ call'[c].seen = call[c].seen /\ call'[c].key = call[c].key
    /\ call'[c].out \subseteq call[c].out /\ call'[c].blind = call[c].blind

\* A step of the call's own; nothing of what it has in mind changes.
Goes(c, from, to) ==
    /\ call[c].at \in from /\ call'[c].at \in to
    /\ call'[c].epoch = call[c].epoch /\ call'[c].gen \in {0, call[c].gen}
    /\ call'[c].key = call[c].key /\ call'[c].out = call[c].out
    /\ call'[c].blind = call[c].blind

\* It asks for the members, and drops who has gone.
Lists(c) ==
    /\ Goes(c, {"listing"}, {"seeing", "sending"})
    /\ call'[c].to = viewers /\ viewers' = viewers /\ lagging' = lagging
    /\ call'[c].gen = call[c].gen
Sees(c) ==
    /\ Goes(c, {"seeing"}, {"sending"})
    /\ call'[c].to = call[c].to \cap members /\ viewers' = viewers /\ lagging' = lagging
    /\ call'[c].gen = call[c].gen
Gates(c) ==
    /\ Goes(c, {"sending"}, {"writing"})
    /\ call'[c].to = call[c].to /\ call'[c].seen = viewers /\ call'[c].gen = call[c].gen
    /\ viewers' = viewers /\ lagging' = lagging

\* The server has stored its key, and it answers with it.
Keeps(c) ==
    /\ call[c].at = "answered" /\ call'[c] = Done(call[c], call[c].epoch, call[c].out)
    /\ [epoch |-> call[c].epoch, key |-> c] \in minted'[PageOf[c]]

CallStep(c) ==
    \/ Stays(c)
    \/ call'[c] = Failed(call[c]) /\ call[c].at # "done"
    \/ Goes(c, {"new"}, {"waiting"})
    \/ Lists(c) \/ Sees(c) \/ Gates(c)
    \/ Goes(c, {"sending", "writing"}, {"answered"})
    \/ Goes(c, {"answered"}, {"adopting"})
    \/ Keeps(c) \/ Makes(c) \/ Finds(c)

LoadStep(p) ==
    \/ /\ load'[p].at = load[p].at /\ load'[p].cur = load[p].cur /\ load'[p].max = load[p].max
       /\ load'[p].gen = load[p].gen /\ load'[p].egen = load[p].egen
       /\ load'[p].rows = load[p].rows /\ load'[p].out \subseteq load[p].out
       /\ load'[p].blind = load[p].blind
    \/ /\ load'[p].at \in {"none", "asked"} /\ load'[p].gen \in {0, load[p].gen}
       /\ load'[p].rows \in {{}, load[p].rows} /\ load'[p].out \in {{}, load[p].out}
    \/ ReadEpochs(p) \/ ReadGeneration(p) \/ ReadRows(p)

-----------------------------------------------------------------------------
(* Types *)

Typed == TypeOK /\ OwnKey

LEMMA TypedInit == Init => Typed
<1> SUFFICES ASSUME Init PROVE Typed
  OBVIOUS
<1> USE KeysAssumption
<1>1. \A c \in Calls : NewCall(c) \in Call /\ NewCall(c).key = c /\ NewCall(c).at = "new"
  BY DEF NewCall, Call, Keys
<1>2. NoLoad \in Load
  BY DEF NoLoad, Load
<1>3. \A v, u \in Users : OldRow(v, u) \in Row /\ OldRow(v, u).to = v
  BY DEF OldRow, Row, Keys
<1>4. rows \subseteq Row /\ \A r, s \in rows : r.epoch = s.epoch /\ r.to = s.to => r = s
  <2>1. CASE rows = {}
    BY <2>1
  <2>2. ASSUME NEW u \in members, rows = {OldRow(v, u) : v \in viewers}
        PROVE  rows \subseteq Row /\ \A r, s \in rows : r.to = s.to => r = s
    BY <2>2, <1>3 DEF Init
  <2> QED
    BY <2>1, <2>2 DEF Init
<1>5. given \in [Users -> SUBSET Keys]
  BY <1>4 DEF Init, RowsTo, Row
<1>6. floor \in [Pages -> Nat]
  BY DEF Init
<1>7. OwnKey
  BY <1>1 DEF Init, OwnKey, Making
<1> QED
  BY <1>1, <1>2, <1>4, <1>5, <1>6, <1>7 DEF Init, Typed, TypeOK

\* Members, whom the channel is open to, and the counters.
LEMMA MembershipStep ==
    ASSUME Typed, Membership
    PROVE  TypeOK' /\ (\A c \in Calls : Stays(c)) /\ (\A p \in Pages : LoadStep(p))
<1> USE DEF Typed
<1>1. load \in [Pages -> Load] /\ call \in [Calls -> Call]
  BY DEF TypeOK
<1>2. ASSUME NEW u \in Users, Returns(u)
      PROVE  /\ given' \in [Users -> SUBSET Keys] /\ load' \in [Pages -> Load]
             /\ call' \in [Calls -> Call]
             /\ (\A c \in Calls : Stays(c)) /\ (\A p \in Pages : LoadStep(p))
  <2>1. given' \in [Users -> SUBSET Keys]
    BY <1>2 DEF Returns, TypeOK, RowsTo, Row
  <2>2. load' \in [Pages -> Load]
    <3>1. \A p \in Pages : [load[p] EXCEPT !.out = @ \ {u}] \in Load
      BY <1>1 DEF Load
    <3> QED
      BY <3>1, <1>2 DEF Returns
  <2>5. \A p \in Pages : LoadStep(p)
    <3> SUFFICES ASSUME NEW p \in Pages PROVE LoadStep(p)
      OBVIOUS
    <3> DEFINE l == load[p]
               m == [l EXCEPT !.out = l.out \ {u}]
    <3>1. load'[p] = m /\ l \in Load
      BY <1>2, <1>1 DEF Returns
    <3> HIDE DEF l
    <3>2. /\ m.at = l.at /\ m.cur = l.cur /\ m.max = l.max /\ m.gen = l.gen
          /\ m.egen = l.egen /\ m.rows = l.rows /\ m.out \subseteq l.out /\ m.blind = l.blind
      BY <3>1 DEF Load
    <3> HIDE DEF m
    <3> QED
      BY <3>1, <3>2 DEF LoadStep, l
  <2>3. \A c \in Calls : /\ call'[c] = [call[c] EXCEPT !.out = call[c].out \ {u}]
                         /\ call[c] \in Call
    BY <1>2, <1>1 DEF Returns
  <2>4. call' = [c \in Calls |-> call'[c]]
    BY <1>2 DEF Returns
  <2>6. \A c \in Calls : Stays(c)
    <3> SUFFICES ASSUME NEW c \in Calls PROVE Stays(c)
      OBVIOUS
    <3> DEFINE k == call[c]
               m == [k EXCEPT !.out = k.out \ {u}]
    <3>1. call'[c] = m /\ k \in Call
      BY <2>3
    <3> HIDE DEF k
    <3>2. /\ m.at = k.at /\ m.epoch = k.epoch /\ m.gen = k.gen /\ m.to = k.to
          /\ m.seen = k.seen /\ m.key = k.key /\ m.out \subseteq k.out /\ m.blind = k.blind
      BY <3>1 DEF Call
    <3> HIDE DEF m
    <3> QED
      BY <3>1, <3>2 DEF Stays, k
  <2>7. call' \in [Calls -> Call]
    <3>1. \A k \in Call : [k EXCEPT !.out = k.out \ {u}] \in Call
      BY DEF Call
    <3> QED
      BY <2>3, <2>4, <3>1
  <2> QED
    BY <2>1, <2>2, <2>5, <2>6, <2>7
<1>3. ASSUME NEW what \in {"changes", "events"}, NEW most, Spend(what, most)
      PROVE  spent' \in [changes : Nat, events : Nat]
  BY <1>3 DEF Spend, TypeOK
<1> DEFINE Goal == TypeOK' /\ (\A c \in Calls : Stays(c)) /\ (\A p \in Pages : LoadStep(p))
<1>4. ASSUME UNCHANGED <<call, load>>
      PROVE  (\A c \in Calls : Stays(c)) /\ (\A p \in Pages : LoadStep(p))
  BY <1>4 DEF Stays, LoadStep
<1>5. ASSUME NEW u \in Users, Join(u) \/ Grant(u)
      PROVE  Goal
  <2>1. TypeOK'
    <3>1. /\ given' \in [Users -> SUBSET Keys] /\ load' \in [Pages -> Load]
          /\ call' \in [Calls -> Call] /\ spent' \in [changes : Nat, events : Nat]
      BY <1>2, <1>3, <1>5 DEF Join, Grant
    <3>2. CASE Join(u)
      BY <3>1, <3>2 DEF Join, TypeOK
    <3>3. CASE Grant(u)
      BY <3>1, <3>3 DEF Grant, TypeOK
    <3> QED
      BY <3>2, <3>3, <1>5
  <2> QED
    BY <2>1, <1>2, <1>5 DEF Join, Grant
<1>6. ASSUME NEW u \in Users, Leave(u) \/ Deny(u)
      PROVE  Goal
  <2>1. TypeOK'
    <3>1. spent' \in [changes : Nat, events : Nat]
      BY <1>3, <1>6 DEF Leave, Deny
    <3>2. CASE Leave(u)
      BY <3>1, <3>2 DEF Leave, TypeOK, page
    <3>3. CASE Deny(u)
      BY <3>1, <3>3 DEF Deny, TypeOK, page
    <3> QED
      BY <3>2, <3>3, <1>6
  <2> QED
    BY <2>1, <1>4, <1>6 DEF Leave, Deny, page
<1>7. CASE Bump
  <2>1. TypeOK'
    BY <1>7 DEF Bump, TypeOK, page
  <2> QED
    BY <2>1, <1>4, <1>7 DEF Bump, page
<1>8. CASE BumpFails
  <2>1. spent' \in [changes : Nat, events : Nat]
    BY <1>3, <1>8 DEF BumpFails
  <2>2. TypeOK'
    BY <2>1, <1>8 DEF BumpFails, TypeOK, page
  <2> QED
    BY <2>2, <1>4, <1>8 DEF BumpFails, page
<1> QED
  BY <1>5, <1>6, <1>7, <1>8 DEF Membership

\* A step at the server's other end: only loads and calls change, or the pages' memory.
LEMMA PageTyped ==
    ASSUME TypeOK, UNCHANGED <<server, rows, given, split>>,
           load' \in [Pages -> Load], call' \in [Calls -> Call],
           floor' \in [Pages -> Nat],
           minted' \in [Pages -> SUBSET [epoch : Nat \ {0}, key : Calls]],
           confirmed' \in [Pages -> SUBSET Users], spent' \in [changes : Nat, events : Nat]
    PROVE  TypeOK'
BY DEF TypeOK, server

LEMMA SpentTyped ==
    ASSUME TypeOK
    PROVE  \A what \in {"changes", "events"} : \A most :
               Spend(what, most) => spent' \in [changes : Nat, events : Nat]
BY DEF Spend, TypeOK

\* Loads of keys: a request refused, failed, or answered.
LEMMA RejectedStep ==
    ASSUME Typed, NEW p \in Pages, Rejected(p), spent' \in [changes : Nat, events : Nat]
    PROVE  TypeOK' /\ (\A c \in Calls : CallStep(c)) /\ (\A q \in Pages : LoadStep(q))
<1> USE DEF Typed
<1>1. NoLoad \in Load /\ load \in [Pages -> Load] /\ call \in [Calls -> Call]
  BY LoadFacts DEF TypeOK
<1>2. \A c \in Calls : /\ Failed(call[c]) \in Call /\ call[c] \in Call
                       /\ \/ call'[c] = call[c]
                          \/ call'[c] = Failed(call[c]) /\ call[c].at # "done"
  BY <1>1, CallFacts DEF Rejected
<1>3. load' = [load EXCEPT ![p] = NoLoad] /\ call' = [c \in Calls |-> call'[c]]
  BY DEF Rejected
<1>4. TypeOK'
  <2>1. load' \in [Pages -> Load] /\ call' \in [Calls -> Call]
    BY <1>1, <1>2, <1>3
  <2> QED
    BY <2>1, PageTyped DEF Rejected, TypeOK
<1>5. \A c \in Calls : CallStep(c)
  BY <1>2 DEF CallStep, Stays
<1>6. \A q \in Pages : LoadStep(q)
  <2>1. \A q \in Pages : IF q = p THEN load'[q] = NoLoad ELSE load'[q] = load[q]
    BY <1>1, <1>3
  <2> QED
    BY <2>1 DEF LoadStep, NoLoad
<1> QED
  BY <1>4, <1>5, <1>6

\* A page's load is changed, and nothing else.
LEMMA ReadStep ==
    ASSUME Typed, NEW p \in Pages, NEW l \in Load, load' = [load EXCEPT ![p] = l],
           UNCHANGED <<server, rows, floor, minted, confirmed, call, given, split>>,
           spent' \in [changes : Nat, events : Nat], LoadStep(p)
    PROVE  TypeOK' /\ (\A c \in Calls : CallStep(c)) /\ (\A q \in Pages : LoadStep(q))
<1> USE DEF Typed
<1>1. load \in [Pages -> Load]
  BY DEF TypeOK
<1>2. TypeOK'
  BY PageTyped, <1>1 DEF TypeOK
<1>3. \A c \in Calls : CallStep(c)
  BY DEF CallStep, Stays
<1>4. \A q \in Pages : q # p => load'[q] = load[q]
  BY <1>1
<1>5. \A q \in Pages : LoadStep(q)
  BY <1>4 DEF LoadStep
<1> QED
  BY <1>2, <1>3, <1>5

LEMMA ReadsStep ==
    ASSUME Typed, NEW p \in Pages, ReadEpochs(p) \/ ReadGeneration(p) \/ ReadRows(p)
    PROVE  TypeOK' /\ (\A c \in Calls : CallStep(c)) /\ (\A q \in Pages : LoadStep(q))
<1>1. /\ load \in [Pages -> Load] /\ load[p] \in Load /\ rows \subseteq Row /\ generation \in Nat
      /\ spent \in [changes : Nat, events : Nat] /\ viewers \subseteq Users
  BY DEF Typed, TypeOK
<1>2. LoadStep(p)
  BY DEF LoadStep
<1>3. CASE ReadEpochs(p)
  <2>1. PICK cur \in Nat, max \in Nat, blind \in BOOLEAN :
           load' = [load EXCEPT ![p] = LetIn(p, cur, max, blind)]
    <3>1. EpochsOf(rows) \cup {0} \subseteq Nat
      BY <1>1 DEF EpochsOf, Row
    <3> HIDE DEF LetIn
    <3>2. CASE load' = [load EXCEPT ![p] = LetIn(p, 0, 0, TRUE)]
      BY <3>2
    <3>3. ASSUME NEW mine \in EpochsOf(rows) \cup {0}, NEW max \in EpochsOf(rows) \cup {0},
                 load' = [load EXCEPT ![p] = LetIn(p, IF mine = 0 THEN max ELSE mine, max, FALSE)]
          PROVE  \E cur \in Nat, x \in Nat, blind \in BOOLEAN :
                     load' = [load EXCEPT ![p] = LetIn(p, cur, x, blind)]
      <4>1. (IF mine = 0 THEN max ELSE mine) \in Nat /\ max \in Nat
        BY <3>1
      <4> QED
        BY <3>3, <4>1
    <3> QED
      BY <1>3, <3>2, <3>3 DEF ReadEpochs
  <2>2. LetIn(p, cur, max, blind) \in Load
    BY <1>1 DEF LetIn, Load
  <2>3. spent' \in [changes : Nat, events : Nat]
    BY <1>1, <1>3, SpentTyped DEF ReadEpochs, Typed
  <2> HIDE DEF LetIn
  <2> QED
    BY <2>1, <2>2, <2>3, <1>2, <1>3, ReadStep DEF ReadEpochs
<1>4. CASE ReadGeneration(p)
  <2>1. PICK g \in {generation, -1} :
           load' = [load EXCEPT ![p] = [@ EXCEPT !.at = "generation", !.gen = g]]
    BY <1>4 DEF ReadGeneration
  <2> DEFINE l == [load[p] EXCEPT !.at = "generation", !.gen = g]
  <2>2. l \in Load
    <3>1. g \in Int
      BY <1>1
    <3> QED
      BY <1>1, <3>1 DEF Load
  <2>3. load' = [load EXCEPT ![p] = l]
    BY <2>1
  <2>4. spent' \in [changes : Nat, events : Nat]
    BY <1>1, <1>4, SpentTyped DEF ReadGeneration, Typed
  <2> HIDE DEF l
  <2> QED
    BY <2>2, <2>3, <2>4, <1>2, <1>4, ReadStep DEF ReadGeneration
<1>5. CASE ReadRows(p)
  <2>1. PICK g \in Nat, got \in {RowsTo(Account[p]), {}} :
           load' = [load EXCEPT ![p] = [@ EXCEPT !.at = "rows", !.egen = g, !.rows = got]]
    <3>1. \A r \in rows : r.gen \in Nat
      BY <1>1 DEF Row
    <3> QED
      BY <3>1, <1>5 DEF ReadRows
  <2> DEFINE l == [load[p] EXCEPT !.at = "rows", !.egen = g, !.rows = got]
  <2>2. RowsTo(Account[p]) \subseteq Row
    BY <1>1 DEF RowsTo
  <2>3. l \in Load
    BY <1>1, <2>1, <2>2 DEF Load
  <2>4. load' = [load EXCEPT ![p] = l]
    BY <2>1
  <2>5. spent' \in [changes : Nat, events : Nat]
    BY <1>1, <1>5, SpentTyped DEF ReadRows, Typed
  <2> HIDE DEF l
  <2> QED
    BY <2>3, <2>4, <2>5, <1>2, <1>5, ReadStep DEF ReadRows
<1> QED
  BY <1>3, <1>4, <1>5

-----------------------------------------------------------------------------
(* The end of a load, and the page's memory *)

LEMMA MintFacts ==
    ASSUME Typed, NEW c \in Calls, Makes(c)
    PROVE  LET k == call[c]
               p == PageOf[c]
           IN  \E e \in Nat \ {0} :
                /\ k.at = "waiting" /\ load[p].at = "rows"
                /\ (load[p].cur = 0 /\ e = 1) \/ e > load[p].max
                /\ call'[c] \in Call /\ call'[c].at = "listing" /\ call'[c].epoch = e
                /\ call'[c].gen = load[p].gen /\ call'[c].out = load[p].out /\ call'[c].key = k.key
                /\ call'[c].blind = load[p].blind
<1> DEFINE k == call[c]
           p == PageOf[c]
<1>1. k \in Call /\ load[p] \in Load
  BY KeysAssumption DEF Typed, TypeOK
<1>2. PICK e \in Nat \ {0} :
        /\ k.at = "waiting" /\ load[p].at = "rows"
        /\ (load[p].cur = 0 /\ e = 1) \/ e > load[p].max
        /\ call'[c] = Mint(k, p, e)
  BY DEF Makes
<1>3. /\ Mint(k, p, e) \in Call /\ Mint(k, p, e).at = "listing" /\ Mint(k, p, e).epoch = e
      /\ Mint(k, p, e).gen = load[p].gen /\ Mint(k, p, e).out = load[p].out
      /\ Mint(k, p, e).key = k.key /\ Mint(k, p, e).blind = load[p].blind
  <2> HIDE DEF k, p
  <2>1. Mint(k, p, e) = [k EXCEPT !.at = "listing", !.epoch = e, !.gen = load[p].gen,
                                  !.out = load[p].out, !.blind = load[p].blind]
    BY DEF Mint
  <2>2. load[p].gen \in Int /\ load[p].out \in SUBSET Users /\ load[p].blind \in BOOLEAN
    BY <1>1 DEF Load
  <2> QED
    BY <1>1, <2>1, <2>2 DEF Call
<1> QED
  BY <1>2, <1>3

LEMMA FindFacts ==
    ASSUME Typed, NEW c \in Calls, Finds(c)
    PROVE  LET k == call[c]
               p == PageOf[c]
           IN  \E r \in load[p].rows :
                /\ load[p].at = "rows" /\ minted' = minted /\ k.at # "done"
                /\ r = TheRow(load[p], r.epoch)
                /\ call'[c] \in Call /\ call'[c].at = "done" /\ call'[c].epoch = r.epoch
                /\ call'[c].key = r.key /\ call'[c].gen = 0 /\ call'[c].blind = k.blind
                /\ \/ /\ k.at = "waiting" /\ call'[c].out = load[p].out
                      /\ r.epoch >= load[p].cur /\ load[p].egen = load[p].gen
                      /\ ~RolledBack(p, r.epoch)
                   \/ /\ k.at = "adopting" /\ call'[c].out = k.out /\ r.epoch = k.epoch
                      /\ r.epoch >= floor[p] \/ SelfMinted(p, r)
<1> DEFINE k == call[c]
           p == PageOf[c]
<1>1. /\ k \in Call /\ load[p] \in Load /\ load[p].rows \subseteq Row
      /\ load[p].out \in SUBSET Users /\ k.out \in SUBSET Users /\ k.blind \in BOOLEAN
  BY KeysAssumption DEF Typed, TypeOK, Load, Call
<1>2. PICK e \in Nat :
        /\ load[p].at = "rows" /\ Held(load[p], e) # {} /\ minted' = minted
        /\ \/ /\ k.at = "waiting" /\ call'[c] = Use(k, p, e, load[p].out)
              /\ e >= load[p].cur /\ load[p].egen = load[p].gen /\ ~RolledBack(p, e)
           \/ /\ k.at = "adopting" /\ call'[c] = Use(k, p, e, k.out)
              /\ e = k.epoch
              /\ e >= floor[p] \/ SelfMinted(p, TheRow(load[p], e))
  BY DEF Finds
<1> DEFINE r == TheRow(load[p], e)
<1>3. r \in load[p].rows /\ r.epoch = e
  BY <1>2 DEF TheRow, Held
<1>4. r.key \in Keys
  BY <1>1, <1>3 DEF Row
<1> HIDE DEF k, p, r
<1>5. ASSUME NEW out \in SUBSET Users
      PROVE  LET u == Use(k, p, e, out)
             IN  /\ u \in Call /\ u.at = "done" /\ u.epoch = e /\ u.key = r.key /\ u.gen = 0
                 /\ u.out = out /\ u.blind = k.blind
  <2> DEFINE d == Done(k, e, out)
  <2>1. d \in Call /\ d.at = "done" /\ d.epoch = e /\ d.out = out /\ d.gen = 0
    BY <1>1, CallFacts
  <2>2. Use(k, p, e, out) = [d EXCEPT !.key = r.key, !.blind = k.blind]
    BY DEF Use, r
  <2> HIDE DEF d
  <2> QED
    BY <2>1, <2>2, <1>1, <1>4 DEF Call
<1>6. r = TheRow(load[p], r.epoch)
  BY <1>3 DEF r
<1>7. CASE k.at = "waiting"
  <2>1. /\ call'[c] = Use(k, p, e, load[p].out)
        /\ e >= load[p].cur /\ load[p].egen = load[p].gen /\ ~RolledBack(p, e)
    BY <1>2, <1>7
  <2> QED
    BY <2>1, <1>1, <1>2, <1>3, <1>5, <1>6, <1>7 DEF k, p
<1>8. CASE k.at = "adopting"
  <2>1. /\ call'[c] = Use(k, p, e, k.out) /\ e = k.epoch
        /\ e >= floor[p] \/ SelfMinted(p, r)
    BY <1>2, <1>8 DEF r
  <2> QED
    BY <2>1, <1>1, <1>2, <1>3, <1>5, <1>6, <1>8 DEF k, p
<1> QED
  BY <1>2, <1>7, <1>8

LEMMA FinishStep ==
    ASSUME Typed, NEW p \in Pages, Finish(p)
    PROVE  TypeOK' /\ (\A c \in Calls : CallStep(c)) /\ (\A q \in Pages : LoadStep(q))
<1>1. /\ load \in [Pages -> Load] /\ load[p] \in Load /\ call \in [Calls -> Call]
      /\ floor \in [Pages -> Nat] /\ confirmed \in [Pages -> SUBSET Users] /\ NoLoad \in Load
      /\ viewers \subseteq Users /\ spent \in [changes : Nat, events : Nat]
  BY LoadFacts DEF Typed, TypeOK
<1>2. \A c \in Calls : call'[c] \in Call /\ CallStep(c)
  <2> SUFFICES ASSUME NEW c \in Calls PROVE call'[c] \in Call /\ CallStep(c)
    OBVIOUS
  <2>1. call[c] \in Call /\ Failed(call[c]) \in Call
    BY <1>1, CallFacts
  <2>2. \/ call'[c] = call[c]
        \/ call'[c] = Failed(call[c]) /\ call[c].at # "done"
        \/ Makes(c) \/ Finds(c)
    BY FinishCalls DEF Typed
  <2>3. call'[c] \in Call
    BY <2>1, <2>2, MintFacts, FindFacts
  <2>4. CallStep(c)
    BY <2>2 DEF CallStep, Stays
  <2> QED
    BY <2>3, <2>4
<1>3. call' \in [Calls -> Call]
  <2>1. call' = [c \in Calls |-> call'[c]]
    BY DEF Finish
  <2> QED
    BY <1>2, <2>1
<1>4. load' = [load EXCEPT ![p] = NoLoad] /\ UNCHANGED <<server, rows, minted, given, split>>
  BY DEF Finish
<1>5. floor' \in [Pages -> Nat]
  <2>1. PICK trusted : \E f \in SeenNow(p, trusted) : floor' = [floor EXCEPT ![p] = f]
    BY DEF Finish
  <2>2. \A c \in Calls : call[c].epoch \in Nat
    BY <1>1 DEF Call
  <2>3. Raised(p, load[p].cur) \in Nat
    BY <1>1 DEF Raised, Load
  <2>4. SeenNow(p, trusted) \subseteq Nat
    BY <2>2, <2>3 DEF SeenNow, Of
  <2> QED
    BY <1>1, <2>1, <2>4
<1>6. confirmed' \in [Pages -> SUBSET Users]
  <2>1. PICK S : S \subseteq viewers /\ confirmed' = [confirmed EXCEPT ![p] = @ \cup S]
    BY DEF Finish
  <2> QED
    BY <1>1, <2>1
<1>7. spent' \in [changes : Nat, events : Nat]
  BY <1>1, SpentTyped DEF Finish, Typed
<1>8. TypeOK'
  <2>1. load' \in [Pages -> Load] /\ minted' \in [Pages -> SUBSET [epoch : Nat \ {0}, key : Calls]]
    BY <1>1, <1>4 DEF Typed, TypeOK
  <2> QED
    BY <2>1, <1>3, <1>4, <1>5, <1>6, <1>7, PageTyped DEF Typed
<1>9. \A q \in Pages : LoadStep(q)
  <2>1. \A q \in Pages : IF q = p THEN load'[q] = NoLoad ELSE load'[q] = load[q]
    BY <1>1, <1>4
  <2> QED
    BY <2>1 DEF LoadStep, NoLoad
<1> QED
  BY <1>2, <1>8, <1>9

LEMMA ReloadStep ==
    ASSUME Typed, NEW p \in Pages, Reload(p)
    PROVE  TypeOK' /\ (\A c \in Calls : CallStep(c)) /\ (\A q \in Pages : LoadStep(q))
<1>1. /\ load \in [Pages -> Load] /\ call \in [Calls -> Call] /\ NoLoad \in Load
      /\ confirmed \in [Pages -> SUBSET Users] /\ floor \in [Pages -> Nat]
      /\ minted \in [Pages -> SUBSET [epoch : Nat \ {0}, key : Calls]]
  BY LoadFacts DEF Typed, TypeOK
<1>2. \A c \in Calls : call'[c] \in Call /\ CallStep(c)
  <2> SUFFICES ASSUME NEW c \in Calls PROVE call'[c] \in Call /\ CallStep(c)
    OBVIOUS
  <2>1. call[c] \in Call /\ call'[c] \in {call[c], Dropped(call[c])}
    BY <1>1 DEF Reload
  <2> QED
    BY <2>1, DroppedFacts DEF CallStep, Stays
<1>3. call' \in [Calls -> Call]
  <2>1. call' = [c \in Calls |-> call'[c]]
    BY DEF Reload
  <2> QED
    BY <1>2, <2>1
<1>4. /\ load' = [load EXCEPT ![p] = NoLoad] /\ minted' = [minted EXCEPT ![p] = {}]
      /\ confirmed' = [confirmed EXCEPT ![p] = {}]
      /\ UNCHANGED <<server, rows, floor, given, split>>
  BY DEF Reload
<1>5. spent' \in [changes : Nat, events : Nat]
  BY SpentTyped DEF Reload, Typed
<1>6. TypeOK'
  BY <1>1, <1>3, <1>4, <1>5, PageTyped DEF Typed
<1>7. \A q \in Pages : LoadStep(q)
  <2>1. \A q \in Pages : IF q = p THEN load'[q] = NoLoad ELSE load'[q] = load[q]
    BY <1>1, <1>4
  <2> QED
    BY <2>1 DEF LoadStep, NoLoad
<1> QED
  BY <1>2, <1>6, <1>7

LEMMA LoadsStep ==
    ASSUME Typed, Loads
    PROVE  TypeOK' /\ (\A c \in Calls : CallStep(c)) /\ (\A q \in Pages : LoadStep(q))
<1>1. PICK p \in Pages :
        \/ Refuse(p) \/ LoadFails(p) \/ ReadEpochs(p)
        \/ ReadGeneration(p) \/ ReadRows(p) \/ Finish(p) \/ Reload(p)
  BY DEF Loads
<1>2. CASE Refuse(p) \/ LoadFails(p)
  <2>1. Rejected(p) /\ spent' \in [changes : Nat, events : Nat]
    BY <1>2, SpentTyped DEF Refuse, LoadFails, Typed, TypeOK
  <2> QED
    BY <2>1, RejectedStep
<1>3. CASE ReadEpochs(p) \/ ReadGeneration(p) \/ ReadRows(p)
  BY <1>3, ReadsStep
<1>4. CASE Finish(p)
  BY <1>4, FinishStep
<1>5. CASE Reload(p)
  BY <1>5, ReloadStep
<1> QED
  BY <1>1, <1>2, <1>3, <1>4, <1>5

-----------------------------------------------------------------------------
(* The calls' own steps *)

LEMMA OthersStay ==
    ASSUME Typed, NEW c \in Calls, NEW k \in Call, call' = [call EXCEPT ![c] = k]
    PROVE  /\ call' \in [Calls -> Call] /\ call'[c] = k
           /\ \A d \in Calls : d # c => CallStep(d)
BY DEF Typed, TypeOK, CallStep, Stays

LEMMA LoadingStep ==
    ASSUME Typed, NEW p \in Pages, load' = load \/ load' = Loading(p)
    PROVE  load' \in [Pages -> Load] /\ \A q \in Pages : LoadStep(q)
<1>1. load' \in [Pages -> Load]
  BY LoadFacts DEF Typed, TypeOK
<1>2. \A q \in Pages : q # p => load'[q] = load[q]
  BY LoadFacts DEF Typed
<1>3. \A q \in Pages : load'[q] = load[q] => LoadStep(q)
  BY DEF LoadStep
<1>4. LoadStep(p)
  BY <1>3, LoadFacts DEF Typed, LoadStep
<1> QED
  BY <1>1, <1>2, <1>3, <1>4

\* The steps that only change the call.
LEMMA OwnStep ==
    ASSUME Typed, NEW c \in Calls,
           \/ ListMembers(c) \/ SeeMembers(c) \/ Gate(c) \/ RequestFails(c)
    PROVE  TypeOK' /\ (\A d \in Calls : CallStep(d)) /\ (\A q \in Pages : LoadStep(q))
<1> DEFINE k == call[c]
<1>1. /\ k \in Call /\ Failed(k) \in Call /\ members \subseteq Users /\ viewers \subseteq Users
      /\ spent \in [changes : Nat, events : Nat]
  BY CallFacts DEF Typed, TypeOK
<1>2. UNCHANGED <<server, rows, page, given, split>>
  BY DEF ListMembers, SeeMembers, Gate, RequestFails
<1>3. \A q \in Pages : LoadStep(q)
  BY <1>2 DEF page, LoadStep
<1>4. spent' \in [changes : Nat, events : Nat]
  BY <1>1, SpentTyped DEF ListMembers, SeeMembers, Gate, RequestFails, Typed
<1>5. ASSUME NEW m \in Call, call' = [call EXCEPT ![c] = m], CallStep(c)
      PROVE  TypeOK' /\ \A d \in Calls : CallStep(d)
  <2>1. call' \in [Calls -> Call] /\ \A d \in Calls : CallStep(d)
    BY <1>5, OthersStay
  <2> QED
    BY <2>1, <1>2, <1>4, PageTyped DEF Typed, TypeOK, page
<1>6. ASSUME call' = [call EXCEPT ![c] = Failed(k)], k.at # "done"
      PROVE  TypeOK' /\ \A d \in Calls : CallStep(d)
  <2>1. call'[c] = Failed(k)
    BY <1>6 DEF Typed, TypeOK
  <2>2. CallStep(c)
    BY <2>1, <1>6 DEF CallStep
  <2> QED
    BY <2>2, <1>1, <1>5, <1>6
<1>7. CASE ListMembers(c)
  <2>1. CASE Me(c) \notin viewers
    BY <2>1, <1>6, <1>3, <1>7 DEF ListMembers
  <2>2. CASE Me(c) \in viewers
    <3>1. PICK to \in {"seeing", "sending"} :
            call' = [call EXCEPT ![c] = [k EXCEPT !.at = to, !.to = viewers]]
      BY <2>2, <1>7 DEF ListMembers
    <3> DEFINE m == [k EXCEPT !.at = to, !.to = viewers]
    <3>2. /\ m \in Call /\ m.at = to /\ m.to = viewers /\ m.epoch = k.epoch /\ m.gen = k.gen
          /\ m.key = k.key /\ m.out = k.out /\ m.blind = k.blind
      BY <1>1, <3>1 DEF Call
    <3> HIDE DEF m
    <3>3. call' = [call EXCEPT ![c] = m]
      BY <3>1 DEF m
    <3>4. call'[c] = m
      BY <3>3 DEF Typed, TypeOK
    <3>5. Lists(c)
      BY <3>1, <3>2, <3>4, <1>2, <1>7 DEF Lists, Goes, ListMembers, server
    <3> QED
      BY <3>2, <3>3, <3>5, <1>3, <1>5 DEF CallStep
  <2> QED
    BY <2>1, <2>2
<1>8. CASE SeeMembers(c)
  <2>1. CASE Me(c) \notin members
    BY <2>1, <1>6, <1>3, <1>8 DEF SeeMembers
  <2>2. CASE Me(c) \in members
    <3> DEFINE m == [k EXCEPT !.at = "sending", !.to = k.to \cap members]
    <3>1. call' = [call EXCEPT ![c] = m]
      BY <2>2, <1>8 DEF SeeMembers
    <3>2. /\ m \in Call /\ m.at = "sending" /\ m.to = k.to \cap members /\ m.epoch = k.epoch
          /\ m.gen = k.gen /\ m.key = k.key /\ m.out = k.out /\ m.blind = k.blind
      BY <1>1 DEF Call
    <3> HIDE DEF m
    <3>4. call'[c] = m
      BY <3>1 DEF Typed, TypeOK
    <3>5. Sees(c)
      BY <3>2, <3>4, <1>2, <1>8 DEF Sees, Goes, SeeMembers, server
    <3> QED
      BY <3>1, <3>2, <3>5, <1>3, <1>5 DEF CallStep
  <2> QED
    BY <2>1, <2>2
<1>9. CASE Gate(c)
  <2>1. CASE Me(c) \in viewers
    <3> DEFINE m == [k EXCEPT !.at = "writing", !.seen = viewers]
    <3>1. call' = [call EXCEPT ![c] = m]
      BY <2>1, <1>9 DEF Gate
    <3>2. /\ m \in Call /\ m.at = "writing" /\ m.to = k.to /\ m.seen = viewers
          /\ m.epoch = k.epoch /\ m.gen = k.gen /\ m.key = k.key /\ m.out = k.out /\ m.blind = k.blind
      BY <1>1 DEF Call
    <3> HIDE DEF m
    <3>4. call'[c] = m
      BY <3>1 DEF Typed, TypeOK
    <3>5. Gates(c)
      BY <3>2, <3>4, <1>2, <1>9 DEF Gates, Goes, Gate, server
    <3> QED
      BY <3>1, <3>2, <3>5, <1>3, <1>5 DEF CallStep
  <2>2. CASE Me(c) \notin viewers /\ ~k.heard
    BY <2>2, <1>6, <1>3, <1>9 DEF Gate, Answer
  <2>3. CASE Me(c) \notin viewers /\ k.heard
    <3> DEFINE m == [k EXCEPT !.at = "answered", !.gen = 0, !.to = {}, !.seen = {}, !.answer = "refused"]
    <3>1. call' = [call EXCEPT ![c] = m]
      BY <2>3, <1>9 DEF Gate, Answer
    <3>2. /\ m \in Call /\ m.at = "answered" /\ m.epoch = k.epoch
          /\ m.gen = 0 /\ m.key = k.key /\ m.out = k.out /\ m.blind = k.blind
      BY <1>1, AnsweredFacts
    <3> HIDE DEF m
    <3>4. call'[c] = m
      BY <3>1 DEF Typed, TypeOK
    <3>5. Goes(c, {"sending", "writing"}, {"answered"})
      BY <3>2, <3>4, <1>9 DEF Goes, Gate
    <3> QED
      BY <3>1, <3>2, <3>5, <1>3, <1>5 DEF CallStep
  <2> QED
    BY <2>1, <2>2, <2>3
<1>10. CASE RequestFails(c)
  <2>1. call' = [call EXCEPT ![c] = Dropped(k)] /\ Dropped(k) \in Call
    BY <1>1, <1>10, DroppedFacts DEF RequestFails
  <2>2. call'[c] = Dropped(k)
    BY <2>1 DEF Typed, TypeOK
  <2>3. CallStep(c)
    BY <2>2, <1>1, DroppedFacts DEF CallStep, Stays
  <2> QED
    BY <2>1, <2>3, <1>3, <1>5
<1> QED
  BY <1>7, <1>8, <1>9, <1>10

\* What a publish does to the rows, and to whom it hands its key.
Writes(c) ==
    /\ call[c].at = "writing" /\ Rivals(c) = {} /\ Copies(c) # {}
    /\ rows' = rows \cup NewCopies(c)
    /\ given' = [u \in Users |-> IF u \in viewers /\ \E r \in NewCopies(c) : r.to = u
                                 THEN given[u] \cup {c} ELSE given[u]]
    /\ split' = IF {r \in rows : r.epoch = call[c].epoch} = {} THEN split
                ELSE split \cup {call[c].epoch}

LEMMA WriteStep ==
    ASSUME Typed, NEW c \in Calls, Write(c)
    PROVE  /\ TypeOK' /\ (\A d \in Calls : CallStep(d)) /\ (\A q \in Pages : LoadStep(q))
           /\ UNCHANGED <<server, page, spent>>
           /\ Writes(c) \/ UNCHANGED <<rows, given, split>>
           /\ call'[c].at \in {"answered", "failed"}
<1> DEFINE k == call[c]
<1>1. /\ k \in Call /\ Failed(k) \in Call /\ Failed(k).at = "failed" /\ k.at = "writing"
      /\ k.epoch \in Nat \ {0}
      /\ rows \subseteq Row /\ generation \in Nat /\ given \in [Users -> SUBSET Keys]
      /\ split \subseteq Nat
  <2>1. k \in Call /\ k.at = "writing"
    BY DEF Typed, TypeOK, Write
  <2>2. k.epoch > 0
    BY <2>1 DEF Typed, OwnKey, Making
  <2> QED
    BY <2>1, <2>2, CallFacts DEF Typed, TypeOK, Call
<1>2. UNCHANGED <<server, page, spent>>
  BY DEF Write
<1>3. \A q \in Pages : LoadStep(q)
  BY <1>2 DEF page, LoadStep
<1>4. Writes(c) \/ UNCHANGED <<rows, given, split>>
  BY DEF Write, Writes
<1>5. PICK a \in {"refused", "taken", "stored"} : call' = [call EXCEPT ![c] = Answer(c, a)]
  BY DEF Write
<1>6. /\ call' \in [Calls -> Call] /\ \A d \in Calls : CallStep(d)
      /\ call'[c].at \in {"answered", "failed"}
  <2>1. CASE ~k.heard
    <3>1. call' = [call EXCEPT ![c] = Failed(k)]
      BY <2>1, <1>5 DEF Answer
    <3>2. call'[c] = Failed(k)
      BY <3>1 DEF Typed, TypeOK
    <3> QED
      BY <3>1, <3>2, <1>1, OthersStay DEF CallStep
  <2>2. CASE k.heard
    <3> DEFINE m == [k EXCEPT !.at = "answered", !.gen = 0, !.to = {}, !.seen = {}, !.answer = a]
    <3>1. call' = [call EXCEPT ![c] = m]
      BY <2>2, <1>5 DEF Answer
    <3>2. /\ m \in Call /\ m.at = "answered" /\ m.epoch = k.epoch
          /\ m.gen = 0 /\ m.key = k.key /\ m.out = k.out /\ m.blind = k.blind
      <4>1. k \in Call
        BY <1>1
      <4>2. a \in {"refused", "taken", "stored"}
        BY <1>5
      <4> HIDE DEF k
      <4> QED
        BY <4>1, <4>2, AnsweredFacts
    <3> HIDE DEF m
    <3>4. call'[c] = m
      BY <3>1 DEF Typed, TypeOK
    <3>5. Goes(c, {"sending", "writing"}, {"answered"})
      BY <3>2, <3>4, <1>1 DEF Goes
    <3> QED
      BY <3>1, <3>2, <3>4, <3>5, OthersStay DEF CallStep
  <2> QED
    BY <2>1, <2>2
<1>7. CASE UNCHANGED <<rows, given, split>>
  BY <1>2, <1>3, <1>4, <1>6, <1>7, PageTyped DEF Typed, TypeOK, page
<1>8. CASE Writes(c)
  <2>1. Stamp(k.gen) \in Nat
    BY <1>1 DEF Stamp, Call
  <2>2. Copies(c) \subseteq Row
    <3>1. Me(c) \in Users /\ c \in Keys
      BY KeysAssumption DEF Me, Keys
    <3>2. k.to \subseteq Users
      BY <1>1 DEF Call
    <3> QED
      BY <3>1, <3>2, <2>1, <1>1 DEF Copies, Row
  <2>3. rows' \subseteq Row
    BY <2>2, <1>1, <1>8 DEF Writes, NewCopies
  <2>4. ASSUME NEW r \in rows', NEW s \in rows', r.epoch = s.epoch, r.to = s.to
        PROVE  r = s
    <3>1. ASSUME NEW x \in NewCopies(c), NEW y \in NewCopies(c), x.to = y.to
          PROVE  x = y
      BY <3>1 DEF NewCopies, Copies
    <3>2. ASSUME NEW x \in NewCopies(c), NEW y \in rows
          PROVE  ~(y.epoch = x.epoch /\ y.to = x.to)
      BY <3>2 DEF NewCopies
    <3> QED
      BY <2>4, <3>1, <3>2, <1>8 DEF Writes, Typed, TypeOK
  <2>5. given' \in [Users -> SUBSET Keys] /\ split' \subseteq Nat
    BY <1>1, <1>8 DEF Writes, Keys
  <2>6. TypeOK'
    BY <2>3, <2>4, <2>5, <1>2, <1>6 DEF Typed, TypeOK, page, server
  <2> QED
    BY <2>6, <1>2, <1>3, <1>6, <1>8
<1> QED
  BY <1>4, <1>7, <1>8

LEMMA HearStep ==
    ASSUME Typed, NEW c \in Calls, Hear(c)
    PROVE  TypeOK' /\ (\A d \in Calls : CallStep(d)) /\ (\A q \in Pages : LoadStep(q))
<1> DEFINE k == call[c]
           p == PageOf[c]
<1>1. /\ k \in Call /\ Failed(k) \in Call /\ k.at = "answered" /\ p \in Pages
      /\ k.epoch \in Nat \ {0} /\ k.out \in SUBSET Users
      /\ floor \in [Pages -> Nat] /\ load \in [Pages -> Load]
      /\ minted \in [Pages -> SUBSET [epoch : Nat \ {0}, key : Calls]]
  <2>1. k \in Call /\ k.at = "answered"
    BY DEF Typed, TypeOK, Hear
  <2>2. k.epoch > 0
    BY <2>1 DEF Typed, OwnKey, Making
  <2> QED
    BY <2>1, <2>2, CallFacts, KeysAssumption DEF Typed, TypeOK, Call
<1>2. UNCHANGED <<server, rows, confirmed, given, split, spent>>
  BY DEF Hear
<1>3. ASSUME NEW m \in Call, call' = [call EXCEPT ![c] = m], CallStep(c),
             load' = load \/ load' = Loading(p), floor' \in [Pages -> Nat],
             minted' \in [Pages -> SUBSET [epoch : Nat \ {0}, key : Calls]]
      PROVE  TypeOK' /\ (\A d \in Calls : CallStep(d)) /\ (\A q \in Pages : LoadStep(q))
  <2>1. call' \in [Calls -> Call] /\ \A d \in Calls : CallStep(d)
    BY <1>3, OthersStay
  <2>2. load' \in [Pages -> Load] /\ \A q \in Pages : LoadStep(q)
    BY <1>1, <1>3, LoadingStep
  <2> HIDE DEF p
  <2> QED
    BY <2>1, <2>2, <1>2, <1>3, PageTyped DEF Typed, TypeOK
<1>4. CASE k.answer = "stored"
  <2> DEFINE m == Done(k, k.epoch, k.out)
             new == [epoch |-> k.epoch, key |-> c]
  <2>1. /\ call' = [call EXCEPT ![c] = m] /\ UNCHANGED load
        /\ minted' = [minted EXCEPT ![p] = {n \in @ : n.epoch # k.epoch} \cup {new}]
        /\ floor' = [floor EXCEPT ![p] = Raised(p, k.epoch)]
    BY <1>4 DEF Hear
  <2>2. m \in Call
    BY <1>1, CallFacts
  <2>3. Raised(p, k.epoch) \in Nat
    BY <1>1 DEF Raised
  <2>4. minted' \in [Pages -> SUBSET [epoch : Nat \ {0}, key : Calls]] /\ new \in minted'[p]
    BY <2>1, <1>1
  <2>5. call'[c] = m
    BY <2>1 DEF Typed, TypeOK
  <2>6. Keeps(c)
    BY <2>4, <2>5, <1>1 DEF Keeps
  <2> HIDE DEF m, p, new
  <2> QED
    BY <2>1, <2>2, <2>3, <2>4, <2>6, <1>1, <1>3 DEF CallStep
<1>5. CASE k.answer = "taken"
  <2> DEFINE m == [k EXCEPT !.at = "adopting"]
  <2>1. /\ call' = [call EXCEPT ![c] = m] /\ load' = Loading(p) /\ UNCHANGED <<floor, minted>>
    BY <1>5 DEF Hear
  <2>2. /\ m \in Call /\ m.at = "adopting" /\ m.epoch = k.epoch /\ m.gen = k.gen
        /\ m.key = k.key /\ m.out = k.out /\ m.blind = k.blind
    BY <1>1 DEF Call
  <2> HIDE DEF m
  <2>3. call'[c] = m
    BY <2>1 DEF Typed, TypeOK
  <2>4. Goes(c, {"answered"}, {"adopting"})
    BY <2>2, <2>3, <1>1 DEF Goes
  <2> HIDE DEF p
  <2> QED
    BY <2>1, <2>2, <2>4, <1>1, <1>3 DEF CallStep
<1>6. CASE k.answer = "refused"
  <2>1. call' = [call EXCEPT ![c] = Failed(k)] /\ UNCHANGED <<floor, minted, load>>
    BY <1>6 DEF Hear
  <2>2. call'[c] = Failed(k)
    BY <2>1 DEF Typed, TypeOK
  <2>3. CallStep(c)
    BY <2>2, <1>1 DEF CallStep
  <2> HIDE DEF p
  <2> QED
    BY <2>1, <2>3, <1>1, <1>3
<1> QED
  BY <1>4, <1>5, <1>6 DEF Hear

LEMMA BeginStep ==
    ASSUME Typed, NEW c \in Calls, Begin(c)
    PROVE  TypeOK' /\ (\A d \in Calls : CallStep(d)) /\ (\A q \in Pages : LoadStep(q))
<1> DEFINE m == [call[c] EXCEPT !.at = "waiting"]
<1>1. call[c] \in Call /\ call[c].at = "new" /\ PageOf[c] \in Pages
  BY KeysAssumption DEF Typed, TypeOK, Begin
<1>2. call' = [call EXCEPT ![c] = m]
  BY DEF Begin
<1>3. /\ m \in Call /\ m.at = "waiting" /\ m.epoch = call[c].epoch /\ m.gen = call[c].gen
      /\ m.key = call[c].key /\ m.out = call[c].out /\ m.blind = call[c].blind
  BY <1>1 DEF Call
<1> HIDE DEF m
<1>4. call'[c] = m
  BY <1>2 DEF Typed, TypeOK
<1>5. CallStep(c)
  BY <1>1, <1>3, <1>4 DEF CallStep, Goes
<1>6. call' \in [Calls -> Call] /\ \A d \in Calls : CallStep(d)
  BY <1>2, <1>3, <1>5, OthersStay
<1>7. load' \in [Pages -> Load] /\ \A q \in Pages : LoadStep(q)
  BY <1>1, LoadingStep DEF Begin
<1>8. TypeOK'
  BY <1>6, <1>7, PageTyped DEF Begin, Typed, TypeOK
<1> QED
  BY <1>6, <1>7, <1>8

LEMMA Steps ==
    ASSUME Typed, [Next]_vars
    PROVE  /\ Typed' /\ (\A c \in Calls : CallStep(c)) /\ (\A p \in Pages : LoadStep(p))
<1>1. TypeOK' /\ (\A c \in Calls : CallStep(c)) /\ (\A p \in Pages : LoadStep(p))
  <2>1. CASE UNCHANGED vars
    BY <2>1 DEF vars, server, page, Typed, TypeOK, CallStep, Stays, LoadStep
  <2>2. CASE Membership
    BY <2>2, MembershipStep DEF CallStep
  <2>3. CASE Loads
    BY <2>3, LoadsStep
  <2>4. CASE Minting
    BY <2>4, BeginStep, OwnStep, WriteStep, HearStep DEF Minting
  <2> QED
    BY <2>1, <2>2, <2>3, <2>4 DEF Next
<1>2. OwnKey'
  <2> SUFFICES ASSUME NEW c \in Calls
               PROVE  /\ call'[c].at # "done" => call'[c].key = c
                      /\ call'[c].at \in Making => call'[c].epoch > 0
    BY DEF OwnKey
  <2>1. /\ call[c].at # "done" => call[c].key = c
        /\ call[c].at \in Making => call[c].epoch > 0
        /\ call[c] \in Call
    BY DEF Typed, OwnKey, TypeOK
  <2>2. CASE Stays(c)
    BY <2>1, <2>2 DEF Stays
  <2>3. CASE call'[c] = Failed(call[c]) /\ call[c].at # "done"
    BY <2>1, <2>3, CallFacts DEF Making
  <2>4. CASE \/ Goes(c, {"new"}, {"waiting"}) \/ Lists(c) \/ Sees(c) \/ Gates(c)
             \/ Goes(c, {"sending", "writing"}, {"answered"})
             \/ Goes(c, {"answered"}, {"adopting"})
    BY <2>1, <2>4 DEF Goes, Lists, Sees, Gates, Making
  <2>5. CASE Keeps(c)
    <3>1. call[c].epoch \in Nat /\ call[c].out \in SUBSET Users
      BY <2>1 DEF Call
    <3> QED
      BY <3>1, <2>1, <2>5, CallFacts DEF Keeps, Making
  <2>6. CASE Makes(c)
    BY <2>1, <2>6, MintFacts
  <2>7. CASE Finds(c)
    BY <2>7, FindFacts DEF Making
  <2> QED
    BY <1>1, <2>2, <2>3, <2>4, <2>5, <2>6, <2>7 DEF CallStep
<1> QED
  BY <1>1, <1>2 DEF Typed

-----------------------------------------------------------------------------
(* The server's steps *)

\* The generation grows: whatever is stamped with it is past.
Bumps ==
    /\ generation' = generation + 1 /\ lagging' = {} /\ rows' \subseteq rows
    /\ split' = split

\* The channel is opened or closed to somebody.
Opens ==
    /\ generation' = generation /\ rows' = rows /\ split' = split
    /\ \E u \in Users : /\ lagging' = lagging \cup {u}
                        /\ u \in viewers \/ u \in viewers'
                        /\ \A v \in Users : v # u => /\ v \in viewers <=> v \in viewers'
                                                     /\ given'[v] = given[v]

Publishes ==
    /\ viewers' = viewers /\ lagging' = lagging /\ generation' = generation
    /\ members' = members
    /\ \E c \in Calls : Writes(c) /\ call'[c].at \in {"answered", "failed"}

ServerStep ==
    \/ Bumps \/ Opens \/ Publishes
    \/ UNCHANGED <<members, viewers, generation, lagging, rows, given, split>>

LEMMA ServerSteps ==
    ASSUME Typed, [Next]_vars
    PROVE  /\ ServerStep /\ split \subseteq split'
           /\ \A u \in Users : u \notin viewers' => given'[u] = given[u]
           /\ \A u \in viewers' \ viewers :
                /\ \A c \in Calls : u \notin call'[c].out
                /\ \A p \in Pages : u \notin load'[p].out
<1> DEFINE Handed == \A u \in Users : u \notin viewers' => given'[u] = given[u]
           Back(u) == /\ \A c \in Calls : u \notin call'[c].out
                      /\ \A p \in Pages : u \notin load'[p].out
<1>1. /\ given \in [Users -> SUBSET Keys] /\ viewers \subseteq members /\ members \subseteq Users
      /\ call \in [Calls -> Call] /\ load \in [Pages -> Load] /\ split \subseteq Nat
  BY DEF Typed, TypeOK
<1>2. ASSUME NEW u \in Users, Returns(u)
      PROVE  Back(u) /\ \A v \in Users : v # u => given'[v] = given[v]
  <2>1. /\ \A c \in Calls : call'[c] = [call[c] EXCEPT !.out = call[c].out \ {u}] /\ call[c] \in Call
        /\ \A p \in Pages : load'[p] = [load[p] EXCEPT !.out = load[p].out \ {u}] /\ load[p] \in Load
    BY <1>1, <1>2 DEF Returns
  <2>2. \A c \in Calls : u \notin call'[c].out
    <3>1. \A k \in Call : u \notin [k EXCEPT !.out = k.out \ {u}].out
      BY DEF Call
    <3> QED
      BY <2>1, <3>1
  <2>3. \A p \in Pages : u \notin load'[p].out
    <3>1. \A k \in Load : u \notin [k EXCEPT !.out = k.out \ {u}].out
      BY DEF Load
    <3> QED
      BY <2>1, <3>1
  <2> QED
    BY <2>2, <2>3, <1>1, <1>2 DEF Returns
<1>3. ASSUME NEW u \in Users, Join(u)
      PROVE  Bumps /\ Handed /\ \A v \in viewers' \ viewers : Back(v)
  BY <1>2, <1>3 DEF Join, Bumps
<1>4. ASSUME NEW u \in Users, Leave(u)
      PROVE  Bumps /\ Handed /\ viewers' \ viewers = {}
  BY <1>4 DEF Leave, Bumps
<1>5. ASSUME NEW u \in Users, Deny(u)
      PROVE  Opens /\ Handed /\ viewers' \ viewers = {}
  BY <1>5 DEF Deny, Opens
<1>6. ASSUME NEW u \in Users, Grant(u)
      PROVE  Opens /\ Handed /\ \A v \in viewers' \ viewers : Back(v)
  BY <1>2, <1>6 DEF Grant, Opens
<1>7. CASE Membership
  <2>1. Bump => Bumps /\ Handed /\ viewers' \ viewers = {}
    BY DEF Bump, Bumps
  <2>2. BumpFails => UNCHANGED <<members, viewers, generation, lagging, rows, given, split>>
    BY DEF BumpFails
  <2>3. split \subseteq split'
    BY <1>7, <1>3, <1>4, <1>5, <1>6, <2>1, <2>2 DEF Membership, Bumps, Opens
  <2> HIDE DEF Back
  <2>4. ServerStep
    BY <1>7, <1>3, <1>4, <1>5, <1>6, <2>1, <2>2 DEF Membership, ServerStep
  <2>5. Handed /\ \A u \in viewers' \ viewers : Back(u)
    BY <1>7, <1>3, <1>4, <1>5, <1>6, <2>1, <2>2 DEF Membership
  <2> QED
    BY <2>3, <2>4, <2>5 DEF Back
<1>8. ASSUME NEW c \in Calls, Write(c)
      PROVE  ServerStep /\ split \subseteq split' /\ Handed /\ viewers' \ viewers = {}
  <2>1. UNCHANGED server /\ call'[c].at \in {"answered", "failed"}
    BY <1>8, WriteStep
  <2>2. Writes(c) \/ UNCHANGED <<rows, given, split>>
    BY <1>8, WriteStep
  <2>3. CASE Writes(c)
    <3>1. Publishes
      BY <2>1, <2>3 DEF Publishes, server
    <3>2. split \subseteq split' /\ Handed
      BY <2>1, <2>3 DEF Writes, server
    <3> QED
      BY <3>1, <3>2, <2>1 DEF ServerStep, server
  <2>4. CASE UNCHANGED <<rows, given, split>>
    BY <2>1, <2>4 DEF ServerStep, server
  <2> QED
    BY <2>2, <2>3, <2>4
<1>9. CASE UNCHANGED <<server, rows, given, split>>
  BY <1>9 DEF ServerStep, server
<1>10. Loads \/ UNCHANGED vars => UNCHANGED <<server, rows, given, split>>
  BY DEF Loads, Refuse, LoadFails, Rejected, ReadEpochs, ReadGeneration, ReadRows, Finish, Reload,
         vars, server
<1>11. Minting => UNCHANGED <<server, rows, given, split>> \/ \E c \in Calls : Write(c)
  BY DEF Minting, Begin, ListMembers, SeeMembers, Gate, Hear, RequestFails, server
<1> QED
  BY <1>7, <1>8, <1>9, <1>10, <1>11 DEF Next

-----------------------------------------------------------------------------
(* Generations, and who is out *)

LEMMA CallMoves ==
    ASSUME Typed, NEW c \in Calls, CallStep(c)
    PROVE  LET k == call[c]
               l == call'[c]
               m == load[PageOf[c]]
           IN  /\ l.out \subseteq k.out \cup m.out
               /\ l.gen \in {0, k.gen, m.gen}
               /\ l.at \in Unwritten => k.at \in Unwritten
               /\ l.at \in Making =>
                    \/ Makes(c) /\ l.out = m.out /\ l.blind = m.blind
                    \/ /\ k.at \in Making /\ l.epoch = k.epoch /\ l.out \subseteq k.out
                       /\ l.blind = k.blind
<1> DEFINE k == call[c]
<1>1. k \in Call /\ k.epoch \in Nat /\ k.out \in SUBSET Users
  BY DEF Typed, TypeOK, Call
<1>2. CASE Stays(c)
  BY <1>2 DEF Stays
<1>3. CASE call'[c] = Failed(k)
  BY <1>1, <1>3, CallFacts DEF Unwritten, Making
<1>4. CASE \/ Goes(c, {"new"}, {"waiting"}) \/ Lists(c) \/ Sees(c) \/ Gates(c)
           \/ Goes(c, {"sending", "writing"}, {"answered"})
           \/ Goes(c, {"answered"}, {"adopting"})
  BY <1>4 DEF Goes, Lists, Sees, Gates, Unwritten, Making
<1>5. CASE Keeps(c)
  BY <1>1, <1>5, CallFacts DEF Keeps, Unwritten, Making
<1>6. CASE Makes(c)
  BY <1>6, MintFacts DEF Unwritten
<1>7. CASE Finds(c)
  BY <1>7, FindFacts DEF Unwritten, Making
<1> QED
  BY <1>2, <1>3, <1>4, <1>5, <1>6, <1>7 DEF CallStep

\* What the page is told of the epochs.
Told(p, l) ==
    \/ /\ ~l.blind
       /\ \E mine, max \in EpochsOf(rows) \cup {0} :
            /\ Newest(mine, EpochsOf(RowsTo(Account[p]))) /\ Newest(max, EpochsOf(rows))
            /\ l.cur = (IF mine = 0 THEN max ELSE mine) /\ l.max = max
    \/ l.blind /\ l.cur = 0 /\ l.max = 0

\* What the reads do to a load.
LEMMA ReadFacts ==
    ASSUME Typed, NEW p \in Pages, NEW l, l = load'[p]
    PROVE  /\ ReadEpochs(p) =>
                /\ Told(p, l) /\ l.at = "epochs"
                /\ l.gen = load[p].gen /\ l.egen = load[p].egen /\ l.rows = load[p].rows
                /\ l.out = Users \ (viewers \cup lagging)
           /\ ReadGeneration(p) =>
                /\ l.at = "generation" /\ l.gen \in {generation, -1}
                /\ l.cur = load[p].cur /\ l.max = load[p].max /\ load[p].at = "epochs"
                /\ l.egen = load[p].egen /\ l.rows = load[p].rows /\ l.out = load[p].out
                /\ l.blind = load[p].blind
           /\ ReadRows(p) =>
                /\ l.at = "rows" /\ load[p].at = "generation"
                /\ l.rows \subseteq RowsTo(Account[p]) /\ l.rows \in {RowsTo(Account[p]), {}}
                /\ l.gen = load[p].gen /\ l.cur = load[p].cur /\ l.max = load[p].max
                /\ l.out = load[p].out /\ l.blind = load[p].blind
                /\ l.egen = 0 \/ \E s \in rows : s.epoch = l.cur /\ s.gen = l.egen
<1>1. load \in [Pages -> Load] /\ load[p] \in Load
  BY DEF Typed, TypeOK
<1>2. ASSUME ReadEpochs(p)
      PROVE  /\ Told(p, l) /\ l.at = "epochs"
             /\ l.gen = load[p].gen /\ l.egen = load[p].egen /\ l.rows = load[p].rows
             /\ l.out = Users \ (viewers \cup lagging)
  <2>1. ASSUME NEW cur, NEW max, NEW blind, load' = [load EXCEPT ![p] = LetIn(p, cur, max, blind)]
        PROVE  /\ l.cur = cur /\ l.max = max /\ l.blind = blind /\ l.at = "epochs"
               /\ l.gen = load[p].gen /\ l.egen = load[p].egen /\ l.rows = load[p].rows
               /\ l.out = Users \ (viewers \cup lagging)
    <3>1. l = [load[p] EXCEPT !.at = "epochs", !.cur = cur, !.max = max, !.blind = blind,
                              !.out = Users \ (viewers \cup lagging)]
      BY <2>1, <1>1 DEF LetIn
    <3> QED
      BY <3>1, <1>1 DEF Load
  <2>2. CASE load' = [load EXCEPT ![p] = LetIn(p, 0, 0, TRUE)]
    <3> HIDE DEF LetIn
    <3> QED
      BY <2>1, <2>2 DEF Told
  <2>3. ASSUME NEW mine \in EpochsOf(rows) \cup {0}, NEW max \in EpochsOf(rows) \cup {0},
               Newest(mine, EpochsOf(RowsTo(Account[p]))) /\ Newest(max, EpochsOf(rows)),
               load' = [load EXCEPT ![p] = LetIn(p, IF mine = 0 THEN max ELSE mine, max, FALSE)]
        PROVE  /\ Told(p, l) /\ l.at = "epochs"
               /\ l.gen = load[p].gen /\ l.egen = load[p].egen /\ l.rows = load[p].rows
               /\ l.out = Users \ (viewers \cup lagging)
    <3> HIDE DEF LetIn
    <3>1. /\ l.cur = (IF mine = 0 THEN max ELSE mine) /\ l.max = max /\ l.blind = FALSE
          /\ l.at = "epochs" /\ l.gen = load[p].gen /\ l.egen = load[p].egen
          /\ l.rows = load[p].rows /\ l.out = Users \ (viewers \cup lagging)
      BY <2>1, <2>3
    <3> QED
      BY <2>3, <3>1 DEF Told
  <2> QED
    BY <1>2, <2>2, <2>3 DEF ReadEpochs
<1>3. ASSUME ReadGeneration(p)
      PROVE  /\ l.at = "generation" /\ l.gen \in {generation, -1}
             /\ l.cur = load[p].cur /\ l.max = load[p].max /\ load[p].at = "epochs"
             /\ l.egen = load[p].egen /\ l.rows = load[p].rows /\ l.out = load[p].out
             /\ l.blind = load[p].blind
  <2>1. PICK g \in {generation, -1} :
           load' = [load EXCEPT ![p] = [@ EXCEPT !.at = "generation", !.gen = g]]
    BY <1>3 DEF ReadGeneration
  <2>2. l = [load[p] EXCEPT !.at = "generation", !.gen = g]
    BY <2>1, <1>1
  <2> QED
    BY <2>1, <2>2, <1>1, <1>3 DEF Load, ReadGeneration
<1>4. ASSUME ReadRows(p)
      PROVE  /\ l.at = "rows" /\ load[p].at = "generation"
             /\ l.rows \subseteq RowsTo(Account[p]) /\ l.rows \in {RowsTo(Account[p]), {}}
             /\ l.gen = load[p].gen /\ l.cur = load[p].cur /\ l.max = load[p].max
             /\ l.out = load[p].out /\ l.blind = load[p].blind
             /\ l.egen = 0 \/ \E s \in rows : s.epoch = l.cur /\ s.gen = l.egen
  <2> DEFINE stamps == {r.gen : r \in {s \in rows : s.epoch = load[p].cur}}
  <2>1. PICK g \in stamps \cup {0}, got \in {RowsTo(Account[p]), {}} :
           load' = [load EXCEPT ![p] = [@ EXCEPT !.at = "rows", !.egen = g, !.rows = got]]
    BY <1>4 DEF ReadRows
  <2>2. l = [load[p] EXCEPT !.at = "rows", !.egen = g, !.rows = got]
    BY <2>1, <1>1
  <2>3. /\ l.at = "rows" /\ l.rows = got /\ l.egen = g
        /\ l.gen = load[p].gen /\ l.cur = load[p].cur /\ l.max = load[p].max
        /\ l.out = load[p].out /\ l.blind = load[p].blind
    BY <2>2, <1>1 DEF Load
  <2>4. g = 0 \/ \E s \in rows : s.epoch = load[p].cur /\ s.gen = g
    BY <2>1
  <2> QED
    BY <2>1, <2>3, <2>4, <1>4 DEF ReadRows
<1> QED
  BY <1>2, <1>3, <1>4

LEMMA GenStep ==
    ASSUME Typed, GenOK, [Next]_vars
    PROVE  GenOK'
<1>1. /\ generation \in Nat /\ generation' \in Nat /\ generation <= generation'
  BY Steps, ServerSteps DEF Typed, TypeOK, ServerStep, Bumps, Opens, Publishes
<1>2. ASSUME NEW r \in rows' PROVE r.gen <= generation'
  <2>1. CASE r \in rows
    <3>1. r.gen \in Nat /\ r.gen <= generation
      BY <2>1 DEF GenOK, Typed, TypeOK, Row
    <3> QED
      BY <3>1, <1>1
  <2>2. CASE r \notin rows
    <3>1. PICK c \in Calls : Writes(c)
      BY <2>2, <1>2, ServerSteps DEF ServerStep, Bumps, Opens, Publishes
    <3>2. r \in Copies(c)
      BY <3>1, <2>2, <1>2 DEF Writes, NewCopies
    <3>3. call[c].gen \in Int
      BY DEF Typed, TypeOK, Call
    <3> QED
      BY <3>2, <3>3, <1>1 DEF Copies, Stamp
  <2> QED
    BY <2>1, <2>2
<1>3. ASSUME NEW p \in Pages PROVE load'[p].gen <= generation'
  <2>1. load[p].gen \in Int /\ load[p].gen <= generation /\ load'[p].gen \in Int
    BY Steps DEF GenOK, Typed, TypeOK, Load
  <2>2. load'[p].gen \in {0, -1, generation, load[p].gen}
    <3>1. LoadStep(p)
      BY Steps
    <3> QED
      BY <3>1, ReadFacts DEF LoadStep
  <2> QED
    BY <2>1, <2>2, <1>1
<1>4. ASSUME NEW c \in Calls PROVE call'[c].gen <= generation'
  <2>1. /\ call[c].gen \in Int /\ call[c].gen <= generation /\ PageOf[c] \in Pages
        /\ load[PageOf[c]].gen \in Int /\ load[PageOf[c]].gen <= generation
    BY KeysAssumption DEF GenOK, Typed, TypeOK, Load, Call
  <2>2. call'[c].gen \in {0, call[c].gen, load[PageOf[c]].gen}
    BY Steps, CallMoves
  <2> QED
    BY <2>1, <2>2, <1>1
<1> QED
  BY <1>2, <1>3, <1>4 DEF GenOK

LEMMA OutStep ==
    ASSUME Typed, OutOut, [Next]_vars
    PROVE  OutOut'
<1>1. \A c \in Calls : call[c].out \subseteq Users \ viewers
  BY DEF OutOut, Typed, TypeOK, Call
<1>2. \A p \in Pages : /\ load[p].out \subseteq Users \ viewers
                       /\ load[p].at = "epochs" => load[p].out \cap lagging = {}
  BY DEF OutOut, Typed, TypeOK, Load
<1>3. ASSUME NEW c \in Calls PROVE call'[c].out \cap viewers' = {}
  <2>1. call'[c].out \subseteq call[c].out \cup load[PageOf[c]].out /\ PageOf[c] \in Pages
    BY Steps, CallMoves, KeysAssumption
  <2> QED
    BY <2>1, <1>1, <1>2, ServerSteps
<1>4. ASSUME NEW p \in Pages PROVE load'[p].out \cap viewers' = {}
  <2>1. load'[p].out \subseteq load[p].out \cup (Users \ viewers)
    <3>1. LoadStep(p)
      BY Steps
    <3> QED
      BY <3>1, ReadFacts DEF LoadStep
  <2> QED
    BY <2>1, <1>2, ServerSteps
<1>5. ASSUME NEW p \in Pages, load'[p].at = "epochs" PROVE load'[p].out \cap lagging' = {}
  <2>1. LoadStep(p)
    BY Steps
  <2>2. CASE ReadEpochs(p)
    <3>1. load'[p].out = Users \ (viewers \cup lagging)
      BY <2>2, ReadFacts
    <3> QED
      BY <3>1, <2>2 DEF ReadEpochs, server
  <2>3. CASE load[p].at = "epochs" /\ load'[p].out \subseteq load[p].out
    <3>1. load'[p].out \cap (viewers \cup viewers' \cup lagging) = {}
      BY <2>3, <1>2, <1>4
    <3>2. lagging' \subseteq lagging \cup viewers \cup viewers'
      BY ServerSteps DEF ServerStep, Bumps, Opens, Publishes
    <3> QED
      BY <3>1, <3>2
  <2>4. ReadGeneration(p) \/ ReadRows(p) => FALSE
    BY <1>5, ReadFacts
  <2> QED
    BY <2>1, <2>2, <2>3, <2>4, <1>5 DEF LoadStep
<1> QED
  BY <1>3, <1>4, <1>5 DEF OutOut

-----------------------------------------------------------------------------
(* Rows, and what counts as current *)

LEMMA OneKeyStep ==
    ASSUME Typed, OneKey, [Next]_vars
    PROVE  OneKey'
<1> SUFFICES ASSUME NEW r \in rows', NEW s \in rows', r.epoch = s.epoch, r.epoch \notin split'
             PROVE  r.key = s.key
  BY DEF OneKey
<1>1. CASE r \in rows /\ s \in rows
  BY <1>1, ServerSteps DEF OneKey
<1>2. CASE r \notin rows \/ s \notin rows
  <2>1. PICK c \in Calls : Writes(c)
    BY <1>2, ServerSteps DEF ServerStep, Bumps, Opens, Publishes
  <2>2. \A x \in NewCopies(c) : x.epoch = call[c].epoch /\ x.key = c
    BY DEF NewCopies, Copies
  <2>3. {x \in rows : x.epoch = call[c].epoch} = {}
    BY <1>2, <2>1, <2>2 DEF Writes
  <2> QED
    BY <1>2, <2>1, <2>2, <2>3 DEF Writes
<1> QED
  BY <1>1, <1>2

LEMMA FreshStep ==
    ASSUME Typed, FreshKeys, [Next]_vars
    PROVE  FreshKeys'
<1> SUFFICES ASSUME NEW c \in Calls, call'[c].at \in Unwritten
             PROVE  (\A u \in Users : c \notin given'[u]) /\ (\A r \in rows' : r.key # c)
  BY DEF FreshKeys
<1>1. /\ \A u \in Users : c \notin given[u]
      /\ \A r \in rows : r.key # c
  BY Steps, CallMoves DEF FreshKeys
<1>2. CASE \E d \in Calls : Writes(d) /\ call'[d].at \in {"answered", "failed"}
  <2>1. PICK d \in Calls : Writes(d) /\ d # c
    BY <1>2 DEF Unwritten
  <2> QED
    BY <1>1, <2>1 DEF Writes, NewCopies, Copies
<1>3. CASE UNCHANGED rows /\ UNCHANGED given
  BY <1>1, <1>3
<1>4. CASE Membership
  <2>1. rows' \subseteq rows
    BY <1>4 DEF Membership, Join, Leave, Deny, Grant, Bump, BumpFails
  <2>2. ASSUME NEW u \in Users, Returns(u) PROVE \A v \in Users : c \notin given'[v]
    BY <1>1, <2>2 DEF Returns, RowsTo, Typed, TypeOK
  <2>3. UNCHANGED given \/ \E u \in Users : Returns(u)
    BY <1>4 DEF Membership, Join, Leave, Deny, Grant, Bump, BumpFails
  <2> QED
    BY <1>1, <2>1, <2>2, <2>3
<1>5. Loads \/ UNCHANGED vars => UNCHANGED <<rows, given>>
  BY DEF Loads, Refuse, LoadFails, Rejected, ReadEpochs, ReadGeneration, ReadRows, Finish, Reload,
         vars
<1>6. ASSUME NEW d \in Calls, Write(d)
      PROVE  UNCHANGED <<rows, given>> \/ (Writes(d) /\ call'[d].at \in {"answered", "failed"})
  BY <1>6, WriteStep
<1>7. Minting => UNCHANGED <<rows, given>> \/ \E d \in Calls : Write(d)
  BY DEF Minting, Begin, ListMembers, SeeMembers, Gate, Hear, RequestFails
<1> QED
  BY <1>2, <1>3, <1>4, <1>5, <1>6, <1>7 DEF Next

\* Whom a publish must have copies for: everybody, until the next bump.
LEMMA CoversStep ==
    ASSUME Typed, GenOK, Covers, [Next]_vars
    PROVE  Covers'
<1> SUFFICES ASSUME NEW c \in Calls, (Stamp(call[c].gen) = generation)'
             PROVE  /\ call'[c].at \in {"seeing", "sending", "writing"} =>
                         viewers' \ lagging' \subseteq call'[c].to
                    /\ call'[c].at = "writing" => viewers' \ lagging' \subseteq call'[c].seen
  BY DEF Covers
<1> DEFINE k == call[c]
           l == call'[c]
<1>1. /\ k \in Call /\ l \in Call /\ k.gen \in Int /\ l.gen \in Int /\ k.gen <= generation
      /\ generation \in Nat /\ generation' \in Nat /\ viewers \subseteq members
      /\ k.epoch \in Nat /\ k.out \in SUBSET Users
  BY Steps DEF Typed, TypeOK, Call, GenOK
<1>2. CallStep(c)
  BY Steps
<1>3. CASE l.at \notin {"seeing", "sending", "writing"}
  BY <1>3
<1>4. CASE l.at \in {"seeing", "sending", "writing"}
  <2>1. l.gen = k.gen /\ (Stays(c) \/ Lists(c) \/ Sees(c) \/ Gates(c))
    <3>1. Failed(k).at = "failed" /\ Done(k, k.epoch, k.out).at = "done"
      <4> HIDE DEF k
      <4>1. Failed(k).at = "failed"
        BY <1>1, CallFacts
      <4>2. Done(k, k.epoch, k.out).at = "done"
        BY <1>1, CallFacts
      <4> QED
        BY <4>1, <4>2
    <3>2. Makes(c) => l.at = "listing"
      BY MintFacts
    <3>3. Finds(c) => l.at = "done"
      BY FindFacts
    <3>4. Stays(c) \/ Lists(c) \/ Sees(c) \/ Gates(c)
      BY <1>2, <1>4, <3>1, <3>2, <3>3 DEF CallStep, Goes, Keeps
    <3> QED
      BY <3>4 DEF Stays, Lists, Sees, Gates, Goes
  <2>2. generation' = generation /\ viewers' \ lagging' \subseteq viewers \ lagging
    <3>1. generation' # generation + 1
      BY <1>1, <2>1 DEF Stamp
    <3> QED
      <4>1. viewers \subseteq Users /\ viewers' \subseteq Users
        BY Steps DEF Typed, TypeOK
      <4>2. ServerStep
        BY ServerSteps
      <4>3. CASE Opens
        BY <4>1, <4>3 DEF Opens
      <4> QED
        BY <3>1, <4>2, <4>3 DEF ServerStep, Bumps, Publishes
  <2>3. Stamp(k.gen) = generation
    BY <2>1, <2>2 DEF Stamp
  <2>4. CASE Stays(c)
    BY <1>4, <2>2, <2>3, <2>4 DEF Stays, Covers
  <2>5. CASE Lists(c)
    BY <2>2, <2>5 DEF Lists, Goes
  <2>6. CASE Sees(c)
    BY <1>1, <2>2, <2>3, <2>6 DEF Sees, Goes, Covers
  <2>7. CASE Gates(c)
    BY <2>2, <2>3, <2>7 DEF Gates, Goes, Covers
  <2> QED
    BY <2>1, <2>4, <2>5, <2>6, <2>7
<1> QED
  BY <1>3, <1>4

LEMMA FitsStep ==
    ASSUME Typed, GenOK, FreshKeys, Covers, CurrentEpochFits, [Next]_vars
    PROVE  CurrentEpochFits'
<1> SUFFICES ASSUME NEW r \in rows', r.gen = generation'
             PROVE  /\ \A u \in viewers' \ lagging' : \E s \in rows' : s.epoch = r.epoch /\ s.to = u
                    /\ \A u \in Users : r.key \in given'[u] => u \in viewers' \cup lagging'
  BY DEF CurrentEpochFits
<1>1. viewers \subseteq Users /\ viewers' \subseteq Users /\ generation \in Nat
  BY Steps DEF Typed, TypeOK
<1>2. CASE Bumps
  <2>1. r \in rows /\ r.gen \in Nat /\ r.gen <= generation
    BY <1>2 DEF Bumps, GenOK, Typed, TypeOK, Row
  <2> QED
    BY <2>1, <1>1, <1>2 DEF Bumps
<1>3. CASE Opens
  <2>1. PICK u \in Users : /\ lagging' = lagging \cup {u}
                           /\ \A v \in Users : v # u => /\ v \in viewers <=> v \in viewers'
                                                        /\ given'[v] = given[v]
    BY <1>3 DEF Opens
  <2>2. r \in rows /\ r.gen = generation /\ rows' = rows
    BY <1>3 DEF Opens
  <2> QED
    BY <2>1, <2>2, <1>1 DEF CurrentEpochFits
<1>4. CASE Publishes
  <2>1. PICK c \in Calls : Writes(c)
    BY <1>4 DEF Publishes
  <2>2. call[c].at = "writing" /\ rows \subseteq rows'
    BY <2>1 DEF Writes
  <2>3. viewers' = viewers /\ lagging' = lagging /\ generation' = generation
    BY <1>4 DEF Publishes
  <2>4. \A u \in Users : given'[u] \subseteq given[u] \cup {c} /\ (u \notin viewers => given'[u] = given[u])
    BY <2>1 DEF Writes
  <2>5. CASE r \in rows
    BY <2>2, <2>3, <2>4, <2>5, <1>1 DEF CurrentEpochFits
  <2>6. CASE r \notin rows
    <3>1. r \in NewCopies(c)
      BY <2>1, <2>6 DEF Writes
    <3>2. r.epoch = call[c].epoch /\ r.key = c /\ r.gen = Stamp(call[c].gen)
      BY <3>1 DEF NewCopies, Copies
    <3>3. viewers \ lagging \subseteq call[c].to \cap call[c].seen
      BY <2>2, <2>3, <3>2 DEF Covers
    <3>4. ASSUME NEW u \in viewers \ lagging
          PROVE  \E s \in rows' : s.epoch = r.epoch /\ s.to = u
      <4> DEFINE n == [epoch |-> call[c].epoch, to |-> u, by |-> Me(c), key |-> c,
                       gen |-> Stamp(call[c].gen)]
      <4>1. n \in Copies(c) /\ n.epoch = call[c].epoch /\ n.to = u
        BY <3>3 DEF Copies
      <4>2. n \in NewCopies(c) \/ \E s \in rows : s.epoch = n.epoch /\ s.to = n.to
        BY <4>1 DEF NewCopies
      <4> HIDE DEF n
      <4> QED
        BY <2>1, <3>2, <4>1, <4>2 DEF Writes
    <3>5. \A u \in Users : c \notin given[u]
      BY <2>2 DEF FreshKeys, Unwritten
    <3> QED
      BY <2>3, <2>4, <3>2, <3>4, <3>5
  <2> QED
    BY <2>5, <2>6
<1>5. CASE UNCHANGED <<members, viewers, generation, lagging, rows, given, split>>
  BY <1>5 DEF CurrentEpochFits
<1> QED
  BY <1>2, <1>3, <1>4, <1>5, ServerSteps DEF ServerStep

-----------------------------------------------------------------------------
(* Whoever was out when the keys were asked for *)

\* What was given to somebody who is out stays as it was, and nothing new is theirs.
LEMMA Frozen ==
    ASSUME Typed, FreshKeys, [Next]_vars, NEW u \in Users, u \notin viewers'
    PROVE  given'[u] = given[u] /\ \A r \in rows' : r \in rows \/ r.key \notin given'[u]
<1>1. given'[u] = given[u]
  BY ServerSteps
<1>2. ASSUME NEW r \in rows', r \notin rows PROVE r.key \notin given[u]
  <2>1. PICK c \in Calls : Writes(c)
    BY <1>2, ServerSteps DEF ServerStep, Bumps, Opens, Publishes
  <2>2. r.key = c
    BY <1>2, <2>1 DEF Writes, NewCopies, Copies
  <2> QED
    BY <2>1, <2>2 DEF Writes, FreshKeys, Unwritten
<1> QED
  BY <1>1, <1>2

LEMMA LoadedRows ==
    ASSUME Typed, [Next]_vars, NEW p \in Pages
    PROVE  load'[p].rows \in {{}, load[p].rows, RowsTo(Account[p])}
<1>1. LoadStep(p)
  BY Steps
<1>2. load'[p].rows \in {{}, load[p].rows} \/ ReadEpochs(p) \/ ReadGeneration(p) \/ ReadRows(p)
  BY <1>1 DEF LoadStep
<1> QED
  BY <1>2, ReadFacts

LEMMA LoadRowsStep ==
    ASSUME Typed, LoadRows, [Next]_vars
    PROVE  LoadRows'
<1> SUFFICES ASSUME NEW p \in Pages, NEW r \in load'[p].rows, NEW s \in load'[p].rows,
                    r.epoch = s.epoch
             PROVE  r = s
  BY DEF LoadRows
<1>1. load'[p].rows \in {{}, load[p].rows, RowsTo(Account[p])}
  BY LoadedRows
<1> QED
  BY <1>1 DEF LoadRows, RowsTo, Typed, TypeOK

LEMMA UntouchedStep ==
    ASSUME Typed, GenOK, OutOut, FreshKeys, CurrentEpochFits, LoadSound, [Next]_vars,
           NEW p \in Pages
    PROVE  Untouched(p)'
<1> DEFINE l == load'[p]
           Free(u, r) == \/ ~l.blind /\ r.epoch > l.max
                         \/ ~l.blind /\ r.to = Account[p] /\ r.epoch > l.cur
                         \/ l.at # "epochs" /\ l.gen >= 0 /\ r.gen >= l.gen
<1> SUFFICES ASSUME l.at \in Answered
             PROVE  /\ l.cur <= l.max /\ (l.cur = 0 => l.max = 0)
                    /\ l.blind => l.cur = 0
                    /\ \A u \in l.out : \A r \in rows' : Free(u, r) => r.key \notin given'[u]
  BY DEF Untouched
<1>1. l.out \cap viewers' = {} /\ l.out \subseteq Users
  BY OutStep, Steps DEF OutOut, Typed, TypeOK, Load
<1>2. ASSUME NEW u \in l.out, NEW r \in rows', Free(u, r),
             r \in rows => r.key \notin given[u]
      PROVE  r.key \notin given'[u]
  BY <1>1, <1>2, Frozen
<1>3. \A r \in rows : r.epoch \in Nat \ {0} /\ r.gen \in Nat
  BY DEF Typed, TypeOK, Row
<1>4. LoadStep(p)
  BY Steps
<1>5. CASE /\ load[p].at \in Answered /\ l.cur = load[p].cur /\ l.max = load[p].max
           /\ l.gen = load[p].gen /\ l.out \subseteq load[p].out /\ l.blind = load[p].blind
           /\ l.at # "epochs" => load[p].at # "epochs"
  <2>1. Untouched(p)
    BY DEF LoadSound
  <2> QED
    BY <2>1, <1>2, <1>5 DEF Untouched
<1>6. CASE ReadEpochs(p)
  <2>0. Told(p, l) /\ l.at = "epochs"
    BY <1>6, ReadFacts
  <2>1. CASE l.blind /\ l.cur = 0 /\ l.max = 0
    BY <2>0, <2>1
  <2>2. CASE ~l.blind
    <3>1. PICK mine, max \in EpochsOf(rows) \cup {0} :
                /\ Newest(mine, EpochsOf(RowsTo(Account[p]))) /\ Newest(max, EpochsOf(rows))
                /\ l.cur = (IF mine = 0 THEN max ELSE mine) /\ l.max = max
      BY <2>0, <2>2 DEF Told
    <3>2. mine \in Nat /\ max \in Nat
      BY <1>3, <3>1 DEF EpochsOf
    <3>3. \A r \in rows : r.epoch <= max
      BY <3>1 DEF Newest, EpochsOf
    <3>4. \A r \in rows : r.to = Account[p] => r.epoch <= mine
      BY <3>1 DEF Newest, EpochsOf, RowsTo
    <3>5. ASSUME NEW u \in l.out, NEW r \in rows', Free(u, r) PROVE r \notin rows
      BY <1>3, <2>0, <3>1, <3>2, <3>3, <3>4, <3>5
    <3>6. mine <= max
      BY <1>3, <3>1, <3>2, <3>3 DEF Newest, EpochsOf, RowsTo
    <3> QED
      BY <1>2, <2>2, <3>1, <3>2, <3>5, <3>6
  <2> QED
    BY <2>0, <2>1, <2>2 DEF Told
<1>7. CASE ReadGeneration(p)
  <2>1. /\ l.at = "generation" /\ l.gen \in {generation, -1} /\ load[p].at = "epochs"
        /\ l.cur = load[p].cur /\ l.max = load[p].max /\ l.out = load[p].out
        /\ l.blind = load[p].blind
    BY <1>7, ReadFacts
  <2>2. Untouched(p) /\ l.out \cap (viewers \cup lagging) = {}
    BY <2>1 DEF LoadSound, OutOut
  <2>3. ASSUME NEW u \in l.out, NEW r \in rows, Free(u, r) PROVE r.key \notin given[u]
    <3>1. CASE l.gen >= 0 /\ r.gen >= l.gen
      <4>1. r.gen = generation
        <5>1. generation \in Nat /\ r.gen \in Nat /\ r.gen <= generation
          BY <1>3 DEF GenOK, Typed, TypeOK
        <5> QED
          BY <5>1, <2>1, <3>1
      <4> QED
        BY <4>1, <1>1, <2>2 DEF CurrentEpochFits
    <3>2. CASE ~(l.gen >= 0 /\ r.gen >= l.gen)
      BY <3>2, <2>1, <2>2, <2>3 DEF Untouched, Answered
    <3> QED
      BY <3>1, <3>2
  <2> QED
    BY <1>2, <2>1, <2>2, <2>3 DEF Untouched, Answered
<1>8. CASE ReadRows(p)
  <2>1. /\ l.at = "rows" /\ load[p].at = "generation" /\ l.gen = load[p].gen
        /\ l.cur = load[p].cur /\ l.max = load[p].max /\ l.out = load[p].out
        /\ l.blind = load[p].blind
    BY <1>8, ReadFacts
  <2> QED
    BY <2>1, <1>5 DEF Answered
<1> QED
  BY <1>4, <1>5, <1>6, <1>7, <1>8 DEF LoadStep, Answered

LEMMA FetchedStep ==
    ASSUME Typed, OutOut, OneKey, FreshKeys, LoadSound, [Next]_vars, NEW p \in Pages
    PROVE  Fetched(p)'
<1> DEFINE l == load'[p]
           Free(r) == \/ ~l.blind /\ r.epoch > l.cur
                      \/ l.egen = l.gen /\ l.gen = 0
                      \/ l.egen = l.gen /\ r.epoch = l.cur /\ r.epoch \notin split'
<1> SUFFICES ASSUME l.at = "rows"
             PROVE  /\ l.blind => l.egen = 0
                    /\ \A u \in l.out : \A r \in l.rows : Free(r) => r.key \notin given'[u]
  BY DEF Fetched
<1>1. \A u \in l.out : u \notin viewers' /\ u \in Users
  BY OutStep, Steps DEF OutOut, Typed, TypeOK, Load
<1>2. split \subseteq split' /\ \A u \in l.out : given'[u] = given[u]
  BY <1>1, ServerSteps
<1>3. CASE /\ load[p].at = "rows" /\ l.cur = load[p].cur /\ l.gen = load[p].gen
           /\ l.egen = load[p].egen /\ l.rows = load[p].rows /\ l.out \subseteq load[p].out
           /\ l.blind = load[p].blind
  <2>1. Fetched(p)
    BY DEF LoadSound
  <2> QED
    BY <1>2, <1>3, <2>1 DEF Fetched
<1>4. CASE ReadRows(p)
  <2>1. /\ l.rows \subseteq RowsTo(Account[p]) /\ load[p].at = "generation"
        /\ l.gen = load[p].gen /\ l.cur = load[p].cur /\ l.out = load[p].out
        /\ l.blind = load[p].blind
        /\ l.egen = 0 \/ \E s \in rows : s.epoch = l.cur /\ s.gen = l.egen
    BY <1>4, ReadFacts
  <2>2. Untouched(p) /\ load[p].at \in Answered
    BY <2>1 DEF LoadSound, Answered
  <2>3. \A r \in rows : r.epoch \in Nat \ {0} /\ r.gen \in Nat
    BY DEF Typed, TypeOK, Row
  <2>4. l.blind => l.egen = 0
    BY <2>1, <2>2, <2>3 DEF Untouched
  <2>5. ASSUME NEW u \in l.out, NEW r \in l.rows, Free(r) PROVE r.key \notin given'[u]
    <3>1. r \in rows /\ r.to = Account[p]
      BY <2>1 DEF RowsTo
    <3>2. CASE ~l.blind /\ r.epoch > l.cur
      BY <1>2, <2>1, <2>2, <3>1, <3>2 DEF Untouched
    <3>3. CASE l.gen = 0
      BY <1>2, <2>1, <2>2, <2>3, <3>1, <3>3 DEF Untouched
    <3>4. CASE l.gen # 0 /\ l.egen = l.gen /\ r.epoch = l.cur /\ r.epoch \notin split'
      <4>1. PICK s \in rows : s.epoch = l.cur /\ s.gen = l.gen
        BY <2>1, <3>4
      <4>2. s.key \notin given[u]
        BY <2>1, <2>2, <2>3, <4>1 DEF Untouched
      <4>3. r.key = s.key
        BY <1>2, <3>1, <3>4, <4>1 DEF OneKey
      <4> QED
        BY <1>2, <4>2, <4>3
    <3> QED
      BY <2>5, <3>2, <3>3, <3>4
  <2> QED
    BY <2>4, <2>5
<1>5. LoadStep(p)
  BY Steps
<1>6. ReadEpochs(p) \/ ReadGeneration(p) => FALSE
  BY ReadFacts
<1> QED
  BY <1>3, <1>4, <1>5, <1>6 DEF LoadStep

LEMMA MintSoundStep ==
    ASSUME Typed, GenOK, OutOut, FreshKeys, LoadRows, LoadSound, MintSound, [Next]_vars
    PROVE  MintSound'
<1> SUFFICES ASSUME NEW c \in Calls, call'[c].at \in Making, NEW u \in call'[c].out
             PROVE  /\ c \notin given'[u]
                    /\ ~call'[c].blind => \A r \in rows' \cup load'[PageOf[c]].rows :
                         r.epoch = call'[c].epoch => r.key \notin given'[u]
  BY DEF MintSound
<1> DEFINE p == PageOf[c]
           e == call'[c].epoch
<1>1. u \notin viewers' /\ u \in Users /\ p \in Pages
  BY OutStep, Steps, KeysAssumption DEF OutOut, Typed, TypeOK, Call
<1>2. given'[u] = given[u] /\ \A r \in rows' : r \in rows \/ r.key \notin given[u]
  BY <1>1, Frozen
<1>3. LoadStep(p) /\ CallStep(c)
  BY <1>1, Steps
<1>4. load'[p].rows \subseteq load[p].rows \cup rows
  BY <1>1, LoadedRows DEF RowsTo
<1>5. /\ c \notin given[u]
      /\ ~call'[c].blind => \A r \in rows \cup load[p].rows : r.epoch = e => r.key \notin given[u]
  <2>1. CASE /\ call[c].at \in Making /\ e = call[c].epoch /\ call'[c].out \subseteq call[c].out
             /\ call'[c].blind = call[c].blind
    BY <2>1 DEF MintSound
  <2>2. CASE Makes(c) /\ call'[c].out = load[p].out /\ call'[c].blind = load[p].blind
    <3>1. /\ call[c].at = "waiting" /\ load[p].at = "rows" /\ e \in Nat
          /\ (load[p].cur = 0 /\ e = 1) \/ e > load[p].max
      BY <2>2, MintFacts
    <3>2. Untouched(p) /\ Fetched(p)
      BY <1>1 DEF LoadSound
    <3>3. load[p].cur \in Nat /\ load[p].max \in Nat /\ e > load[p].max
      BY <1>1, <3>1, <3>2 DEF Typed, TypeOK, Load, Untouched, Answered
    <3>4. c \notin given[u]
      BY <1>1, <3>1 DEF FreshKeys, Unwritten
    <3>5. ~load[p].blind => \A r \in rows : r.epoch = e => r.key \notin given[u]
      BY <2>2, <3>1, <3>2, <3>3 DEF Untouched, Answered
    <3>6. ~load[p].blind => \A r \in load[p].rows : r.epoch = e => r.key \notin given[u]
      BY <2>2, <3>1, <3>2, <3>3 DEF Fetched, Untouched, Answered
    <3> QED
      BY <2>2, <3>4, <3>5, <3>6
  <2> QED
    BY <1>3, <2>1, <2>2, <1>1, CallMoves
<1> QED
  BY <1>2, <1>4, <1>5

LEMMA ShutOutStep ==
    ASSUME Typed, OutOut, FreshKeys, LoadRows, LoadSound, MintSound, ShutOutLacksKey, [Next]_vars
    PROVE  ShutOutLacksKey'
<1> SUFFICES ASSUME NEW c \in Calls, call'[c].at = "done",
                    call'[c].key = c \/ ~(call'[c].epoch \in split' \/ call'[c].blind),
                    NEW u \in call'[c].out
             PROVE  call'[c].key \notin given'[u]
  BY DEF ShutOutLacksKey
<1> DEFINE k == call[c]
           p == PageOf[c]
<1>1. u \notin viewers' /\ u \in Users /\ p \in Pages
  BY OutStep, Steps, KeysAssumption DEF OutOut, Typed, TypeOK, Call
<1>2. given'[u] = given[u] /\ split \subseteq split'
  BY <1>1, ServerSteps
<1>3. k \in Call /\ k.epoch \in Nat /\ k.out \in SUBSET Users
  BY DEF Typed, TypeOK, Call
<1>4. CASE Stays(c)
  BY <1>2, <1>4 DEF Stays, ShutOutLacksKey
<1>5. CASE Keeps(c)
  <2>1. k.at = "answered" /\ call'[c].key = k.key /\ call'[c].out = k.out
    BY <1>3, <1>5, CallFacts DEF Keeps
  <2>2. k.key = c
    BY <2>1 DEF Typed, OwnKey
  <2> QED
    BY <1>2, <2>1, <2>2 DEF MintSound, Making
<1>6. CASE Finds(c)
  <2>1. PICK r \in load[p].rows :
          /\ load[p].at = "rows" /\ call'[c].epoch = r.epoch /\ call'[c].key = r.key
          /\ call'[c].blind = k.blind
          /\ \/ /\ k.at = "waiting" /\ call'[c].out = load[p].out
                /\ r.epoch >= load[p].cur /\ load[p].egen = load[p].gen
             \/ /\ k.at = "adopting" /\ call'[c].out = k.out /\ r.epoch = k.epoch
    BY <1>6, FindFacts
  <2>2. CASE k.at = "adopting" /\ call'[c].out = k.out /\ r.epoch = k.epoch
    BY <1>2, <2>1, <2>2 DEF MintSound, Making
  <2>3. CASE /\ k.at = "waiting" /\ call'[c].out = load[p].out
             /\ r.epoch >= load[p].cur /\ load[p].egen = load[p].gen
    <3>1. Fetched(p)
      BY <1>1 DEF LoadSound
    <3>2. CASE r.key = c
      BY <1>1, <1>2, <2>1, <2>3, <3>2 DEF FreshKeys, Unwritten
    <3>3. CASE r.key # c
      <4>1. r.epoch \notin split
        BY <1>2, <2>1, <3>3
      <4>2. r.epoch \in Nat /\ load[p].cur \in Nat
        BY <1>1 DEF Typed, TypeOK, Load, Row
      <4> QED
        BY <1>2, <2>1, <2>3, <3>1, <4>1, <4>2 DEF Fetched
    <3> QED
      BY <3>2, <3>3
  <2> QED
    BY <2>1, <2>2, <2>3
<1>7. CASE \/ call'[c] = Failed(k) \/ Goes(c, {"new"}, {"waiting"})
           \/ Lists(c) \/ Sees(c) \/ Gates(c)
           \/ Goes(c, {"sending", "writing"}, {"answered"})
           \/ Goes(c, {"answered"}, {"adopting"}) \/ Makes(c)
  <2>1. call'[c].at # "done"
    BY <1>3, <1>7, CallFacts, MintFacts DEF Goes, Lists, Sees, Gates
  <2> QED
    BY <2>1
<1> QED
  BY <1>4, <1>5, <1>6, <1>7, Steps DEF CallStep

-----------------------------------------------------------------------------
(* The theorems *)

LEMMA InitIInv == Init => IInv
<1> SUFFICES ASSUME Init PROVE IInv
  OBVIOUS
<1>1. Typed
  BY TypedInit
<1>2. /\ \A c \in Calls : call[c] = NewCall(c) /\ call[c].at = "new" /\ call[c].out = {}
                          /\ call[c].gen = 0
      /\ \A p \in Pages : load[p] = NoLoad /\ load[p].at = "none" /\ load[p].out = {}
                          /\ load[p].gen = 0 /\ load[p].rows = {}
      /\ generation = 0 /\ lagging = {} /\ viewers \subseteq Users
  BY DEF Init, NewCall, NoLoad
<1>3. /\ \A r \in rows : r.gen = 0 /\ r.epoch = 1 /\ r.key = OldKey /\ r.to \in viewers
      /\ \A u \in viewers : rows # {} => \E r \in rows : r.to = u
      /\ \A u \in Users : given[u] = {r.key : r \in RowsTo(u)}
  <2>1. CASE rows = {}
    BY <2>1 DEF Init
  <2>2. ASSUME NEW u \in members, rows = {OldRow(v, u) : v \in viewers}
        PROVE  /\ \A r \in rows : r.gen = 0 /\ r.epoch = 1 /\ r.key = OldKey /\ r.to \in viewers
               /\ \A v \in viewers : \E r \in rows : r.to = v
    <3>1. \A v \in viewers : /\ OldRow(v, u).gen = 0 /\ OldRow(v, u).epoch = 1
                              /\ OldRow(v, u).key = OldKey /\ OldRow(v, u).to = v
      BY DEF OldRow
    <3> QED
      BY <2>2, <3>1
  <2> QED
    BY <2>1, <2>2 DEF Init
<1>4. GenOK /\ OutOut /\ OneKey /\ LoadRows
  BY <1>2, <1>3 DEF GenOK, OutOut, OneKey, LoadRows
<1>5. FreshKeys
  BY <1>2, <1>3, KeysAssumption DEF FreshKeys, RowsTo
<1>6. CurrentEpochFits
  BY <1>2, <1>3 DEF CurrentEpochFits, RowsTo
<1>7. Covers /\ LoadSound /\ MintSound /\ ShutOutLacksKey
  BY <1>2 DEF Covers, LoadSound, Untouched, Fetched, Answered, MintSound, Making, ShutOutLacksKey
<1> QED
  BY <1>1, <1>4, <1>5, <1>6, <1>7 DEF IInv, Typed

LEMMA NextIInv == IInv /\ [Next]_vars => IInv'
<1> SUFFICES ASSUME IInv, [Next]_vars PROVE IInv'
  OBVIOUS
<1>1. Typed /\ Typed'
  BY Steps DEF IInv, Typed
<1>2. GenOK' /\ OutOut' /\ OneKey' /\ FreshKeys' /\ Covers' /\ CurrentEpochFits' /\ LoadRows'
  BY <1>1, GenStep, OutStep, OneKeyStep, FreshStep, CoversStep, FitsStep, LoadRowsStep DEF IInv
<1>3. LoadSound'
  BY <1>1, UntouchedStep, FetchedStep DEF IInv, LoadSound
<1>4. MintSound' /\ ShutOutLacksKey'
  BY <1>1, MintSoundStep, ShutOutStep DEF IInv
<1> QED
  BY <1>1, <1>2, <1>3, <1>4 DEF IInv, Typed

\* What holds in every state, whoever comes and goes and however requests race.
THEOREM Invariance == Spec => []IInv
BY InitIInv, NextIInv, PTL DEF Spec

\* Every variable keeps its type, and the server one copy an epoch and member.
THEOREM TypeCorrect == Spec => []TypeOK
<1>1. IInv => TypeOK
  BY DEF IInv
<1> QED
  BY <1>1, Invariance, PTL

\* An epoch that counts as current was wrapped for all who may see the channel,
\* and its keys were handed to nobody else (publish_channel_keys, bump_generation).
THEOREM CurrentFits == Spec => []CurrentEpochFits
<1>1. IInv => CurrentEpochFits
  BY DEF IInv
<1> QED
  BY <1>1, Invariance, PTL

\* Nobody writes under a key of somebody who was out when the keys were asked for
\* (ensureChannelKey, mintEpoch).
THEOREM KeysOfTheShutOut == Spec => []ShutOutLacksKey
<1>1. IInv => ShutOutLacksKey
  BY DEF IInv
<1> QED
  BY <1>1, Invariance, PTL

LEMMA NoReturn ==
    ASSUME Typed, LoadRows, [Next]_vars, NEW c \in Calls,
           call[c].at # "done", call'[c].at = "done"
    PROVE  \/ call'[c].epoch >= floor[PageOf[c]]
           \/ [epoch |-> call'[c].epoch, key |-> call'[c].key] \in minted'[PageOf[c]]
<1> DEFINE k == call[c]
           p == PageOf[c]
<1>1. k \in Call /\ k.epoch \in Nat /\ k.out \in SUBSET Users /\ p \in Pages /\ CallStep(c)
  BY Steps, KeysAssumption DEF Typed, TypeOK, Call
<1>2. CASE Keeps(c)
  <2>1. k.at = "answered" /\ call'[c].key = k.key /\ call'[c].epoch = k.epoch
    BY <1>1, <1>2, CallFacts DEF Keeps
  <2>2. k.key = c
    BY <2>1 DEF Typed, OwnKey
  <2> QED
    BY <1>2, <2>1, <2>2 DEF Keeps
<1>3. CASE Finds(c)
  <2>1. PICK r \in load[p].rows :
          /\ load[p].at = "rows" /\ minted' = minted /\ r = TheRow(load[p], r.epoch)
          /\ call'[c].epoch = r.epoch /\ call'[c].key = r.key
          /\ \/ r.epoch >= load[p].cur /\ ~RolledBack(p, r.epoch)
             \/ r.epoch >= floor[p] \/ SelfMinted(p, r)
    BY <1>3, FindFacts
  <2>2. CASE r.epoch >= floor[p]
    BY <2>1, <2>2
  <2>3. CASE SelfMinted(p, r)
    BY <2>1, <2>3 DEF SelfMinted
  <2>4. CASE r.epoch >= load[p].cur /\ ~RolledBack(p, r.epoch) /\ ~(r.epoch >= floor[p])
    <3>1. r.epoch \in Nat /\ load[p].cur \in Nat /\ floor[p] \in Nat
      BY <1>1 DEF Typed, TypeOK, Load, Row
    <3>2. PICK s \in Held(load[p], r.epoch) : SelfMinted(p, s)
      BY <2>4, <3>1 DEF RolledBack
    <3>3. s = r
      BY <1>1, <3>2 DEF LoadRows, Held
    <3> QED
      BY <2>1, <3>2, <3>3 DEF SelfMinted
  <2> QED
    BY <2>1, <2>2, <2>3, <2>4
<1>4. CASE \/ Stays(c) \/ call'[c] = Failed(k) \/ Goes(c, {"new"}, {"waiting"})
           \/ Lists(c) \/ Sees(c) \/ Gates(c)
           \/ Goes(c, {"sending", "writing"}, {"answered"})
           \/ Goes(c, {"answered"}, {"adopting"}) \/ Makes(c)
  BY <1>1, <1>4, CallFacts, MintFacts DEF Stays, Goes, Lists, Sees, Gates
<1> QED
  BY <1>1, <1>2, <1>3, <1>4 DEF CallStep

\* No device goes back to an epoch older than the highest it has seen (loadKeys,
\* acceptServerEpochs), but to a key it made itself.
THEOREM NeverGoesBack == Spec => NeverBack
<1>1. IInv /\ [Next]_vars =>
        [\A c \in Calls :
            call[c].at # "done" /\ call'[c].at = "done" =>
                \/ call'[c].epoch >= floor[PageOf[c]]
                \/ [epoch |-> call'[c].epoch, key |-> call'[c].key] \in minted'[PageOf[c]]]_vars
  BY NoReturn DEF IInv, Typed
<1> QED
  BY <1>1, Invariance, PTL DEF Spec, NeverBack

====
