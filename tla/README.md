# Puca: specifications of the server's shared state and its clients' protocols

Puca is a self-hosted, end-to-end encrypted chat and voice service: one Rust server
(`src/src`, axum on a multi-threaded tokio runtime, PostgreSQL behind it), a React client
(`src/frontend/src`) for browsers, desktops and phones, and native agents (`src/crates`).
Most of what the server knows about people who are online lives in the maps of one
`AppState` (`state.rs`). Each WebSocket has a task (`ws.rs`, `handle_socket`), and those
tasks, the HTTP handlers, the spawned tasks and the timers all read and write these maps.
A handler awaits in the middle (a permission lookup, an audience query), other tasks run
meanwhile, and sockets die half-way. The clients are as concurrent: every `await` of the
browser's code lets frames, timers and clicks in between, and several devices and pages of
one account act at once. The modules here model that state and those handlers, component by
component. TLC checks them on small instances, and TLAPS proves the most important
properties of the server's core, and of file transfers, offline notes and group keys from end
to end, for every instance.

Contents: [1 inventory](#1-inventory) · [2 modules](#2-the-modules) ·
[3 runs, bounds, fairness](#3-what-the-runs-check) · [4 proofs](#4-what-is-proved) ·
[5 disagreements found](#5-where-code-and-comments-disagree) ·
[6 what is left out](#6-what-is-not-modelled) · [7 plan](#7-plan)

Every definition that models code is mapped in `PROJECT.json` ("map") to the lines it
translates; paths there start at the repository, so `src/src/ws.rs` is the server's
`ws.rs`. Below, `ws.rs` and `state.rs` mean those two files.

## 1 Inventory

### Modelled

| Component | State | Operations | Hard behaviour | What makes it correct |
|---|---|---|---|---|
| **Device sessions**: remote control of one device by another (`state.rs` `device_sessions`, `ws.rs` `Device*`, `device_handlers.rs` shares) | session id → the two devices, the two sockets, pending/active, detach stamps, idle clock, reprieve streak | connect (four accesses), accept, decline, signal, input, end, reattach; cleanup of a dying socket; reaper; end under a withdrawn share | the count and the insert of a connect are separate; a phone reattaches before its old socket closes; a task that panics never cleans up; a share is withdrawn while a connect waits | a session is always on sockets whose departure will be noticed; frames reach only its own two devices; a detached side gets its grace, then the session ends; ends are told |
| **Session registry and presence** (`state.rs` `sessions`, `presence.rs`) | user → sockets, which device each attested as, activity clocks | register with a cap of ten (evicting the oldest unprotected), attest, unregister, activity sweep | the protected set is computed before the entry is locked; an evicted socket's task runs on | at most ten sockets; an evicted socket loses its rights but still cleans up |
| **Voice rooms** (`state.rs` `Room`, `ws.rs` `JoinRoom` … `ScreenShareStop`, the rejoin list of `api/websocket.ts`) | room → member sockets, voice claims, shares; per session a tombstone and a recent drop; per client the rooms it will rejoin | join, Move here, leave, leave elsewhere, eviction, start/stop media, death, reconnect and replay | every handler awaits between its checks and its change; half-open sockets; several devices of one account | one call per account; no ghosts; a reaped socket hands its user's voice on; whoever is put out is told; a replay does not undo a leave |
| **Permission sweep** (`ws.rs` `perms_changed` … `evict_sweep`) | per server: runs started/wanted/finished, retries; an epoch; per change a waiter | a change commits, asks for a sweep and waits; the runner sweeps; a failed scope query is retried later; a panic clears the entry; a join rechecks after its insert | a change commits while a sweep runs; a join inserts after the snapshot; queries fail; the runner panics | when the change's work is done whoever was shut out is out; the speak flags agree with the database; nobody waits for ever |
| **File transfers** (`state.rs` 34-142, `ws.rs` 4849-5239, `api/fileTransferManager.ts`) | the transfer's two users, its two sockets, accepted, parked, hidden; per device a card, a connection, the certificate of the peer | offer, park, deliver, accept, decline, cancel, relay of descriptions, expiry; at the clients the checks and dialogs between them | all devices of the recipient see one offer; delivery, expiry, answers and lost sockets race; both ends may be one account | one device receives; the sender is never left waiting; nobody is sent their own frames; who hides looks offline |
| **Notes outbox** (`notes/model/notesOutbox.ts`, `useListContent.ts`, `api/listContent.ts`, `task_handlers.rs`) | a sealed queue of intents shared by all pages, temporary ids, revisions written, copies of lost text | act (send or queue), replay under a lock, retries, copies, refetch | an answer is lost after the commit; two pages share one queue; another device writes the same text | nothing lost in silence; no note made twice; the newest change stands; theirs is never overwritten unseen |
| **Voice mesh** (`api/rtc/manager.ts`, the calls `VoicePanel.tsx` makes, `iceConfig.ts`) | per peer a connection, a build under way, a chain of signalling tasks, a watchdog, the ladder of retries | join, call, offer, answer, add a track, teardown, rebuild, timers | both offer or rebuild at once; offers get lost; a member leaves and comes back while the last call's frames are on their way | one connection a side; one task at it; each description fits; both end connected; a healthy call is left alone |
| **Channel key epochs** (`api/channelKeys.ts`, `key_handlers.rs`, migration 015, the bump in `perms_changed`) | rows: epoch → wrapped copies, with who wrapped them and a stamp; the generation of the membership; per profile a floor, per page the keys it made and the wrappers it trusts | load, ensure, mint, publish, adopt after a 409; join, leave, open or close the channel | everything is read in one request and used in another; rotations race; epochs fall when rows go; the bump follows the commit and may fail | an epoch that counts as current fits the members; nobody writes under a key of somebody who was out when the keys were asked for, nor goes back to an older one |

The server's parts interact through the registry. A dying socket first drops its device sessions
(`drop_device_sessions_for_conn`) and then unregisters, which takes it out of every room
in the same call and notes the drop for a later join on another device. The sweep and
the bans reach rooms through `evict_user_from_voice_room`; a permission change reaches
a join through the sweep's epoch. Clients hear of all this in frames on their own
sockets and answer a `RoomLeft` by forgetting the room. File transfers ask the registry who
is there and lose their entry with an account's last visible socket. The mesh hears of
other members (`StreamStarted`, `StreamStopped`) from the rooms' handlers and sends its
descriptions through them; the outbox only meets the task API. Group keys follow the members of
a server and, through the permission sweep's first step, who may see a channel; whoever writes
a message, edits a task or joins a call asks for the current one first.

### Not modelled

| Component | State and operations | Interactions | Hard behaviour; what would make it correct |
|---|---|---|---|
| Device attestation and revocation (`ws.rs` 2682-2848, `device_handlers.rs` 382-523) | challenge per socket; the device row; the token's bound device | registry, device sessions, parked offers | bind commits, then the map is written, then the row is checked again. After a revocation no socket speaks for the device |
| SFU admission (`sfu.rs`) | seats, reservations, measured egress | tokens for members of a room; cuts when put out | reservation and join are apart; samples lag. The budget holds in the worst case or by measurement; nobody put out stays in |
| Games tables (`games.rs`, `crates/puca-games`) | tables of a call, seats, clocks by `TurnRef` | membership of the room, departures | a timer fires for a decision already made; leaving while dealt in. Chips are conserved; a stale timer does nothing |
| Clip proposals (`clip_handlers.rs`, `clipProposals.ts`) | proposal, votes, deadline | the room's presence log, uploads, messages | votes race expiry; consent is used once. No clip without everybody's yes |
| Client device sessions (`frontend/src/api/devices/session.ts`) | the client's side of the relay | device sessions over the socket | answers to attempts already given up; reattach loops |
| WebSocket client (`frontend/src/api/websocket.ts`) | rejoin list, back-off, pending frames | every handler | in `VoiceRooms` as far as the rejoin list goes |
| SFU client (`api/rtc/sfuManager.ts`) | the LiveKit room | SFU admission | the library's reconnections |
| Wake and push (`src/wake`, `push_*`) | parked notifications, endpoints | external push services | retries, delivery after a block |
| Agent and service (`crates/puca-agent`, `puca-service`) | a pipe to the platform | device sessions | little protocol of its own |
| Tasks and reminders, auth and recovery, roles and moderation, server modes | rows; one SQL transaction a request | the permission sweep | the database's concurrency |
| Migrations, deployment, UI, vendored crates | none | none | out of scope |

`PROJECT.json` "hazards" lists what is hard to test, each at its line, with the
properties that would catch it. The hazards with a note belong to modules of the plan.

## 2 The modules

| Module | Role |
|---|---|
| `DeviceSessions` | relay of device sessions, registration and cleanup of sockets, reaper, shares |
| `DeviceSessionsProofs` | its type invariant, `RoutedToOwnDevices`, `AttachedIsServed`, `GraceHonoured`, and for one worker thread `OneSessionPerHost`, `EndsTold` |
| `DeviceLifecycle` | the abstract relay: whatever happens to a session happens in one step |
| `DeviceRefinement` | the refinement mapping: `DeviceSessions` implements `DeviceLifecycle` |
| `DeviceRefinementProofs` | the proof of it |
| `VoiceRooms` | rooms, joins, leaves, evictions, media claims, tombstones, replays |
| `VoiceRoomsProofs` | its type invariant, `NoGhosts`, `VoiceOutlivesItsSocket`, `EvictedAreTold`, `ExclusiveUnlessRaced` |
| `PermsSweep` | permission changes, the queue of sweeps and its runner, the recheck of a join |
| `PermsSweepProofs` | its type invariant, `DeniedIsOut`, `RoomAgrees`, `RetriesKept` |
| `FileTransfers` | one transfer through the server and the managers of all devices of both accounts |
| `FileTransfersProofs` | all of its properties, from one inductive invariant |
| `NotesOutbox` | the offline queue of one device, its pages, the server and another device |
| `NotesOutboxProofs` | its type invariant and its safety properties; a second invariant for `CopyOnlyForOthers` |
| `Mesh` | the voice mesh between two members |
| `MeshProofs` | its type invariant, `OneConnection`, `SameHistory`, `CallKept`, with servers and keys at hand |
| `ChannelKeys` | the group keys of one channel: several pages, the server, a membership that changes |
| `ChannelKeysProofs` | all of its properties but the one it violates, from one inductive invariant |
| `MC…` | sets and functions of the small instances, views and symmetry |

All models follow one rule for granularity. A step is what a task does between two
points where others can see or change what it relies on; where a handler stands, and what
it carries across the gap, is kept in `task` (per socket), `join` or `runner`. A step
changes everything the handler changes there. Definitions commented "Faulty" are not part
of the specification: each is a plausible bug, placed before the definition it would
replace, and checked to break the property it is listed with under "mutants".

**`DeviceSessions`.** `conn[c]` is a socket: its device, the stage of its task (`arriving`,
`up`, `closing` → `dropped` → `gone`, or `ghost` after a panic), whether it is registered
and attested. `sess[id]` is an entry of `device_sessions`, `task[c]` the handler under way.
`DeviceConnect` is `ConnectAsk` (up to the database's answer), `ConnectSupersede`,
`ConnectCount`, `ConnectInsert`, since these access the map separately; `DeviceEnd` and a
declined response read the entry and remove it in two lookups (`EndRead`/`EndRemove`,
`DeclineRead`/`DeclineRemove`). Registration notes the protected sockets (`Arrive`) before
it takes the user's entry (`Register`). The cleanup after the receive loop is
`DropSessions`, then `Unregister`. With `Parallel = TRUE` tasks on several worker threads
interleave at every access; with `FALSE` a stretch without an await runs to its end
(`MayRun`). Time is counted in reaper periods (60 s, `main.rs`): `Tick` ages every stamp,
`Reap` is one pass. Shares are granted, withdrawn (`WithdrawShare`, the commit) and their
sessions ended afterwards (`EndShareSessions`). `out` holds what the last step sent.

**`VoiceRooms`.** `rooms[r]` holds the sockets that are members, speak (`stream`) and
share; what a *user* is or does is derived from their sockets, as `Room` does it. A socket
is `up`, `silent` (half-open: registered, but nothing reaches the client) or `gone`.
`JoinRoom` is `Join`/`Replay` (checks before the gate), `GateAllows`/`GateRefuses`,
`VacateOld`/`VacateNext` (one await per room to vacate), then the insert, and
`RecheckAllows`/`RecheckRefuses`/`MoveHere`. `LeaveOwnVoice` shares `displace_own_conns`
with Move here. A third party's eviction looks (`EvictAsk`) and, after its await, acts
(`Evict`). `recalls` is the client's list of rooms it will rejoin, `conn[c].todo` what is
still to be replayed on a socket; a `RoomLeft` that arrives shortens the list (`Forget`).
`raced` records accounts whose channel switches ever overlapped, so that exclusivity can be
stated for all others. Sections between two awaits are one step here: finer thread
interleavings inside one section are guarded by the room's map entry.

**`PermsSweep`.** One server with one voice room. A change commits (`Commit`), its
detached task asks for a sweep (`AskForSweep`) and waits (`Answered`); the wait in the
HTTP answer has a limit (`PERMS_CHANGE_WAIT`) that is not modelled, so "done" means the
detached work. `queue` is the entry of `perms_sweeps`; `runner` goes through
`loop → starting → started → scoping → sweeping ⇄ acting → loop`; a failed scope query
leaves a timer (`timers`) with one retry less; `Panic` is the drop guard `SweepRunner`. A
join passes its gate, inserts, reads the epoch, rechecks, stores the speak flag and asks
for another sweep if the epoch moved. A permission lookup is one read of the database.
`unsure` holds the users a sweep could not resolve and, by `sweep_keeps`, left as they were.

**`DeviceLifecycle`, `DeviceRefinement`.** The abstract module knows sockets, sessions with
two devices, and which sides are away; no handler, task, clock or share. Leaving settles all
sessions of a socket at once: a pending one ends, an active one notes the side that left. The
mapping says when the split handlers take effect: a socket counts as open while it is
`Served`, so it leaves when its cleanup has dropped its sessions (`DropSessions`), not when
its loop ended, and a session exists from `ConnectInsert` on. `ImplementsLifecycle` is the
abstract specification under that mapping.

**`FileTransfers`.** One transfer, `xfer` its record at the server, `conn[c]` a socket with the
stage of its task: `arrive → greet → idle` (registered; blocks looked up again; parked offers
collected), and `ask` while `FileOffer` waits for the recipient's presence setting. `cl[d]` is
the manager of a device: its card, how far an accept has come (`flow`: the dialog, the
connection being built), the accepts being verified (`checks`) and the connections being made
(`dials`), the certificate the accept named (`fp`), whose description was taken (`remote`).
`down[c]` holds the frames on their way to a client, in order; a client's frame and its
handling are one step, taken when the socket's task is free. A break loses what is on its way;
the server notices later (`Unregister`). `delivery` sockets are a phone's background sockets,
which drop transfer frames. Expiry may come at any time, since no age is ever compared with
another. `hist` records what the properties exempt or count.

**`NotesOutbox`.** An intent's number stands for its words and its key. `queue`, `ids`, `dead`,
`revs`, `copies`, `tries` are the sealed record, which every page reads and writes in one step
under the record's lock; `holder` is the page with the replay lock. A request is a flight with
a stage (`inline`: sent at once; `op`, `copy`, `update`, `fresh`: of a replay): `Serve` is the
server's commit, a `Settle` action what the page does with the answer, `InlineLost` and
`ReplayLost` what it does without one. A request nobody waits for any more may still arrive
(`adrift`). `Foreign` is the other device. Text is checked against its revision, items are not.
What a page shows of note 1 (`base`) and the saves it saw land (`live`) are its own: a page starts
from the cache on the device, which lags (`Open`), and reads the listing again now and then
(`Refetch`). `seen` is history that only properties read.

**`Mesh`.** `m[u]` is the manager of one side: its connections `pcs`, the one in its map
(`cur`), a build under way (`inflight`), its chains of signalling tasks (`jobs[c]`, of which `chain`
is the one that is added to), watchdogs (`watch`), the planned step of the ladder (`again`). A task is cut at every await
of `makeOffer` and `handleIncomingDescription`; a description in flight on a closed connection
never settles (`Hung`). A connection carries its signalling state, the identifier it was
negotiated with, and whether ICE connected it. The browser's part (pairing of two connections,
`negotiationneeded`) is marked external. With `SlowFetch = FALSE` ICE servers and keys are at
hand, as after the first call; with `TRUE` their fetches take time too.

**`ChannelKeys`.** `members`, `viewers`, `generation` are the server's; `due` counts changes of
permissions committed and not yet counted, `lagging` whom they concern. `rows` is the table. A
page has one `load` under way, which every call of `ensureChannelKey` joins (`Begin`); the
server answers it in three steps (`ReadEpochs`, `ReadGeneration`, `ReadRows`, the last one two
queries), each of which has a value for a query that fails: no epoch at all (the answer is then
`blind`), generation -1, stamp 0, no rows. `Finish` is the
rest of `loadKeys` with all that follows in the page up to the next request: `Ensured` for a call
that begins, `Adopted` for one that lost an epoch. A mint is `ListMembers`, `SeeMembers` (the list
on screen), then the publish: `Gate` (permission and viewers), `Write` (the transaction under the
epoch's lock), `Hear`. A request may fail with its work done (`RequestFails`), a page may be
loaded anew (`Reload`); the floor stays with the profile. Keys are named by the call that made them.
`given` and `split` are history, read by the properties only: which keys the server ever had for a
user who may read, and which epochs were published twice. `out`, in a load and in a call, are those
who could not read when its keys were asked for and have not come back.

## 3 What the runs check

| Run | States | Shows |
|---|---|---|
| `device_safety` | 400 895 | three sockets of two devices, two session ids, several worker threads: types, `AttachedIsServed`, `RoutedToOwnDevices`, `GraceHonoured`, and the refinement `ImplementsLifecycle` |
| `device_liveness` | 106 150 | a detached side returns or the session ends (`DetachResolves`), and quiet sessions end even under ghosts (`QuietSessionsEnd`) |
| `device_shares` | 415 328 | two accounts under a share, one worker thread, eviction at a cap of two sockets: no session ends silently (`EndsTold`), a host carries one (`OneSessionPerHost`) |
| `voice_safety` | 81 975 | one account on a PC that reconnects and a phone: types, `NoGhosts`, `VoiceOutlivesItsSocket`, `EvictedAreTold`, `ExclusiveUnlessRaced` |
| `perms_safety` | 319 236 | two changes and a join of one account on two sockets, a failing query, its retry, a panic: `DeniedIsOut`, `RoomAgrees`, `RetriesKept`, `ChangesAnswered` |
| `files_safety` | 2 129 969 | a file to one's own two other devices, to somebody with two, to somebody hidden: `SenderHears`, `OneReceiver`, `NoEcho`, `HiddenLooksOffline` |
| `notes_queue` | 123 343 | two pages, creates and changes of items, a lost request or answer, a late arrival, a page that closes: `CreatedOnce`, `LastEditStands`, `QueueDrains` |
| `notes_text` | 1 313 473 | one page, creates and texts, an outage, a lost answer, two writes of another device: `NothingLost`, `TheirTextStands`, `CopyOnlyForOthers` |
| `mesh_recovery` | 433 263 | a lost description, an ICE failure, an added track: `OneConnection` (and one task at it), `SameHistory`, `Converges` |
| `mesh_rejoin` | 359 507 | a member leaves and comes back: a call that is up on both sides is not replaced (`CallKept`), `Converges` |
| `keys_safety` | 3 206 328 | two messages on one page, one on another account's; one change of membership or visibility and one fault at any point; a profile that has seen epochs the server lost: types, `CurrentEpochFits`, `ShutOutLacksKey`, `NeverBack` |
| `keys_split` | violation | the disagreement of section 5 |

**Bounds and why they are enough.** Each bound is a constant, used in a guard and
nowhere else. *Devices*: three sockets allow an old and a new socket of one device beside
its peer, the least at which a reattach overtakes a cleanup; two session ids allow an
attempt beside a live session; `MaxPanics = 1` makes a ghost. Clocks run to their limits and
stop where no comparison tells ages apart (`Older`), with every limit one period: what is
compared is only which of two clocks has expired, and one period already separates "fresh",
"within" and "over". *Rooms*: two rooms, two sessions, three sockets, so that a channel switch, a
reconnect and a second device meet; `MaxEvents` bounds requests, silences, evictions and
expiries (three), while
replays, disconnects and everything a handler does afterwards are free. *Sweeps*: two
changes overlap (one during the sweep of the other), two joins overlap both, one or two
faults reach every retry, since `MaxRetries = 1` lets a retry be taken and run out.
*Files*: three devices, so that two can compete for one offer; three sockets ever, so that one
of them can be a second socket of the offering device or a phone's background socket; one
connection breaks. *Notes*: two acts, of which the second meets the first queued, out, or
lost; one retry (`MaxAttempts`, four in the code) is taken and runs out; texts on one page only,
since two pages, two texts and two foreign writes are too many states (the exemptions
`seen.overtook` and `seen.elsewhere` of `CopyOnlyForOthers` are for two pages: `notes_text` with
a second page, texts only, and one of a foreign write, a closing or a late arrival instead of two
foreign writes ends without error in two to six minutes). *Mesh*: two members,
since the manager treats every pair by itself; four connections a side, whose identifiers are
reused once nothing refers to them, as are the numbers of chains (`Room` makes what needs a number wait
for one; no state of the runs is left waiting); the ladder's and the watchdog's own limits are the code's.
*Keys*: three calls, so that two can share a page's load and race a third, of another account, for
an epoch; one change suffices to make a view stale, and one fault to lose an answer or a query at the
worst place; epochs and generations follow from these (that a blind answer makes a call take a key of
somebody shut out, which `ShutOutLacksKey` exempts, needs a second fault or a third account: with two faults
and without the exemption TLC finds it; the theorem speaks of any number). One page starts with a floor of two over rows of
epoch one or none. The theorems of section 4 need no bound.

Where nothing reads what the last step sent, a `VIEW` leaves it out; session ids, rooms,
sockets of one user and changes are symmetric where the run has no liveness
property. Deadlock is not checked: a server nobody uses stops. `RoomAgrees` speaks of a
moment of rest (nothing queued, no join under way). `DeniedIsOut` and `RoomAgrees` exempt
users a sweep could not resolve, which the code leaves in on purpose, and behaviours in
which a sweep panicked: that sweep is lost and nothing repeats it.

**Fairness.** `DeviceSessions`: weak fairness of `Tick` and `Reap` (the reaper is a tokio
interval), of each socket's own next step once a handler or its cleanup is under way (a spawned
task that is ready runs), and of `EndShareSessions`, which follows the commit in the same
handler. Nothing is assumed of clients: they may never send, close or return. `PermsSweep`:
the runner, timers and retries, the detached tasks of changes and the handlers of joins run on.
`NotesOutbox`: a page goes on where it stands, tries again while
it believes something waits (timer, focus, return of the connection), the server answers, a
connection comes back. `Mesh`: tasks, builds and frames go on, ICE connects two ends that
belong together, and timers run out, as does ICE's own timeout for an end whose other is gone;
only once all else is at rest, for they are seconds long. Timers that run out earlier are
bounded by `MaxEarly`. Faults, clicks and returns are never fair. `VoiceRooms`,
`FileTransfers` and `ChannelKeys` state no liveness: the first has no retries, in the second the reaper
alone decides, which `SenderHears` covers as a state property, and in the third a call that fails
is repeated by a person.

## 4 What is proved

TLAPS checks each theorem for every value of the constants, from the named assumptions in
the modules (`DeviceAssumption`, `ClockAssumption`, `VoiceAssumption`, `SweepAssumption`,
`QueueAssumption`, `FilesAssumption`, `OutboxAssumption`, `KeysAssumption`, `MeshAssumption`: kinds of numbers, that model values such as "no stamp" are not numbers or
records, ownership functions, and that a session's times to live are at least the detach
grace). TLC evaluates them in each run.

**Device sessions** (`TypeCorrect`, `Invariance`, `Routing`, `Attachment`, `Grace`). The
properties are not inductive by themselves. A connect that has counted will insert the
socket it found, so the invariant must say that handlers under way sit on sockets that are
up (`Placed`), that an attempt past its checks aims at a socket of the host's own device, not
the controller's (`Aimed`), and, for the reaper, that a detached side's idle clock is no
older than its detach stamp (`GraceClock`). `IInv` is their conjunction with the three
properties; each action has a step of its own.

`HostSlot` and `Endings` (`OneSessionPerHost`, `EndsTold`) hold of one worker thread, so they are
stated for `~Parallel`; with several threads the code does not keep the first (section 5). What makes them true is
`Alone`: at most one handler is in the middle of a stretch without an await, and `WhoRuns`
shows that meanwhile only that handler, the clock and the rows of the share table move. Hence what a connect counted is
still so when it inserts (`SlotFree`), and a handler that declines or ends a session still
has its true other end in hand (`Held`). `FewerOnHost` is the counting: no other step adds
to a host's sessions.

**Voice rooms** (`TypeCorrect`, `Ghosts`, `VoiceKeeps`, `Notices`, `OneCallEach`). The lemma
`HowRoomsChange` reduces all steps to five shapes: a room stays, a user is put out, some
sockets of a user are taken out, a registered socket is added, a user's own stop clears
claims. `UserOut` and `SocketsOut` show what the operations of `Room` preserve. `NoGhosts`
is then inductive with the types: only registered sockets are added (the handler runs on
one), and the one step that unregisters a socket takes it out everywhere. `VoiceKeeps` reads
the same lemma as an action property: the heirs of `inherit_stream_claim` keep the claim.
`Notices` needs `NoGhosts`: a notice goes to every *registered* socket of the user, so it
reaches each member because a member is registered, including one that entered while the
eviction waited. `OneCallEach` (`ExclusiveUnlessRaced`) is about a join that leaves the account's
other rooms one await at a time, from a list it made before the first: as long as no other
join of the account is doing the same (`Lone`), every room the account is still in is on that list or is
the one being entered (`Stocked`), so when the list is empty the room entered is the only one (`OneRoom`).

**Permission sweep** (`TypeCorrect`, `Revocation`, `Agreement`, `Retries`). `DeniedIsOut` speaks of
changes whose work is done, so the invariant must say who is still going to look: for each
user who is shut out and in the room, either a change on them is committed or waits for a
run that has not started (`Asked`), or the run that is going on has them still before it or
holds their refusal (`Underway`), or each of their sockets is to be rechecked (`Covered`).
A run that read an answer before the deny committed may keep the user; then a later run is owed
(`Stale`). `QueueOK` carries the arithmetic: at most one run is owed beyond the one started,
and nobody waits for a run that is not owed. `Revocation` follows for any number of
changes, joins, failures and retries. `Agreement` (`RoomAgrees`) needs the same for the speak flags,
and there an answer may be stored late: whoever is in the room with a flag that is not the database's is
before the run that is going on (`Before`), or a sweep is to come that no epoch counts yet (`Uncounted`), or a
join will notice that the epoch moved (`Outrun`), or each of their sockets is still to be checked
(`Checks`). `OldInJoin` and `OldInRun` say why an answer that is out of date does no harm: it was
read before a change whose sweep is either uncounted or has moved the epoch since.

**The refinement** (`Refinement`: `Spec => ImplementsLifecycle`). Initial states map to
initial states (`InitRefines`) and every step to a step of the abstract relay or to a stutter
(`StepRefines`), under the invariant `IInv` of the device sessions strengthened by
`Attempts` (what a connect carries from its checks to its insert: two different devices, the socket it
found). `DropRefines` is the heart: the one cleanup step that settles every session of a
socket matches `Leave`. `FrameRefines` shows that a frame changes at most one session, and that
as `Answer`, `Return` or `End` do; removals are `End`s (`RemovalRefines`).

**File transfers** (`Invariance`, `TypeCorrect`, `Hears`, `OneReceives`, `Echoes`, `Hidden`), for
any ownership of the devices, any recipient, hidden or not, any number of sockets and
breaks. Frames queue, so the invariant must speak of what is on its way: `Told` says that each
queued frame is true when it is read (`Sound`: an accept names the device that was
admitted, a sender's description follows a dial, no description sits in a queue of its author, nothing
telling is queued for the sender of somebody hidden). `Wired` ties a client to its one socket that
carries frames, which is what makes "the other end" another device. `OneOffer`,
`OneAccept` and `OneDial` order the life of the transfer: nothing is held before the offer, one accept
passes, by another device, the dial follows it, once. `Uncut` says that until its connection is cut the
sender is on the socket of the offer, so that an answer sent to the account reaches it.
`Hearing` and `Hiding` are the two properties on frames instead of places in a queue. The steps are
proved in groups: what a client's frame makes of record, history and queues (`Replied`,
`ClientSpeaks`), what any step makes of the managers (`ManagersStep`), of the server's part
(`ServerInvStep`), and of what the sender waits for (`ServerWaits`, `PeerWaits`, `SenderWaits`,
`OtherWaits`).

**Notes outbox** (`TypeCorrect`, `Kept`, `OneNotePerCreate`, `NewestEditStands`, `TheirsStand`,
`CopiesForOthers`), for any pages, acts, faults, closings, late arrivals and foreign writes. A request is made in one step,
committed in another and answered in a third, while the queue, the ids and the notes move on, so the
invariant (`IInv`) says of each flight what stays true of it: it says what its intent says
(`RequestOK`), its answer was true when given and remains so of the revision it names (`AnswerOK`).
`CreatedOnce` follows from `KeysOK` (a key has made one note, and a note of an intent has the intent's
key). `NothingLost` needs `InlineOK`: what is out at once is nowhere else, so that when it is lost it joins the queue
as the newest or was overlapped; `Left` and `Queued` say what leaving by the id and joining do to a
queue. `TheirTextStands` needs `OwnOK`: a revision this device knows for its own is past or holds this
device's words (`Ours`). `Rebased` carries that along the walk of `RebaseOnOwnRevs`, and `TextOK` along the
flight: if the revision a text names still stands, nobody else wrote it. `LastEditStands`
needs `OrderOK`: as long as nothing overtook, overlapped or came late, changes wait in the order they
were made, none behind one already applied, and the one being replayed is at the head. `Later` and
`Remembered` say once what every step leaves true; the lemmas on flights (`Replacing`, `Ending`, `Closing`,
`Sending`, `Replaying`) say what steps make of them.

`CopiesForOthers` needs a second invariant, `CInv`, whose step uses `IInv` before and after. For *why* a
copy is made: unless there is an excuse, the writes of this device that the record, the page's memory
and the answers on their way know (`Known`) lead from any revision to the newest (`WholeOK`). `Rebased`
walks exactly those, so a replayed text names the newest revision and cannot be refused as stale
(`TimelyOK`); who becomes a copy had an excuse (`ExcusedOK`). For *how many*: while nothing
tore a copy from its record (`Intact`), the record has one key for a typing, of that typing (`RecordOK`,
`NotesFit`), a replay begins with the record's key and words and its answers are judged by them
(`Believes`), and a copy that nobody else has written holds words the record names under
its key, or words the replay holds that is out (`CopiesOK`). Two such copies of one typing then have one
key, and a key has made one note (`KeysOK`). Without the page that closes during the *update* of a
copy this is not inductive: that is how the last case of section 5's notes was found.

**Channel keys** (`Invariance`, `TypeCorrect`, `CurrentFits`, `KeysOfTheShutOut`, `NeverGoesBack`), for
any accounts, pages, calls, changes and faults. A device decides by rows it read before others wrote
theirs, so the invariant says what stays true of an old reading. `CurrentEpochFits` needs `Covers`:
a publish that will be stamped with the *present* generation has listed everybody who may see the
channel, whatever bump is still due; any bump in between makes its stamp old. `ShutOutLacksKey` needs,
for whoever was out when a load was answered and has not come back: they were handed no key of an epoch
newer than what that load found, unless its answer was blind, nor one of the generation it found or a later
one (`Untouched`, `Fetched`), nor the key the call has made (`MintSound`, from `FreshKeys`: a key not yet written is in nobody's rows). Such a
statement survives another page's publish because copies go to those who see the channel at the time
and who comes back leaves the set (`OutOut`, `Frozen`). `OneKey` and `LoadRows` make "the key of an epoch" one
key, but for epochs published twice. The lemmas `Steps` and `ServerSteps` say what one step may do
to a call, a load and the rows; each part of the invariant follows from them.

**Voice mesh** (`TypeCorrect`, `SidesHold`, `OneConnectionHolds`, `SameHistoryHolds`, `OrderHolds`,
`CallKeptHolds`), for any number of connections, rejoins, lost descriptions, failures, added tracks and
early timers. All are stated for `~SlowFetch`: with servers and keys that must be fetched the code does
not keep the first (section 5). The two properties of a side follow from an invariant of that side alone
(`SideOK`). All its tasks are in the chain of the manager and only the first is at work (`ChainOK`),
because a teardown leaves behind only what the browser never settles. That task works on the entry
in the map or on a connection that was closed while it waited (`TaskOK`). An open connection is
the one in the map, and there is none while one is built (`PcsOK`). What a connection was negotiated with
is what it last heard of, but while an answer is applied, and then it waits for one (`PeerOK`).
For `CallKept` one side is not enough: a late offer would replace a call that is up. Why none comes is said of the
two sides and of what is between them (`OrderOK`): once a side has heard of the peer's present
connection, neither its chain nor the queue to it holds a description of an older one, nor the peer's
leaving (`InOrder`), and a connection that is still being built is unheard of (`Unheard`). This rests on the
queues in both directions being in order, so a loss does no harm and a reordering would. The steps
are proved on one manager: a lemma per action for its type and `SideOK`, one for what it sends, then one
for the order.

**Only model-checked.** Liveness (`DetachResolves`, `QuietSessionsEnd`, `ChangesAnswered`,
`QueueDrains`, `Converges`): liveness under fairness and `ENABLED` are beyond this prover. Every
invariant and every other action property of the passing runs is the statement of a theorem, some under
the hypotheses named above (`~Parallel`, `~SlowFetch`). No model uses a RECURSIVE operator.

## 5 Where code and comments disagree

One run finds a state that the repository's own documents rule out; `PROJECT.json` "findings"
quotes both sides.

- `keys_split`: two messages written at once on one page, or on two devices of one account, can
  make two keys for one epoch. The server tells rivals apart by the identity key of who publishes,
  which both calls share; the second publish passes, `ON CONFLICT DO NOTHING` drops its rows, and it
  is told that they are stored. Its message is then encrypted under a key that no row holds: once
  the page is gone nobody can read it, the author included.

Others were met while modelling. Where a property holds but for one of them, it names the
exemption; the rest is described here only.

*Devices and calls.*
- A connect that read the share before its withdrawal inserts its session after the withdrawal has
  ended the others (`ws.rs:4321`, `ws.rs:4469`), against "Any live session under it ends
  IMMEDIATELY" (`device_handlers.rs:1329`). One thread is enough (`ConnectAsk`, `WithdrawShare`,
  `EndShareSessions`, `ConnectInsert`).
- Two connects on different worker threads can each count no session on the host and both insert
  (`ws.rs:4417`); `OneSessionPerHost` holds on one thread (`Parallel = FALSE`).
- Two devices of one account that switch channels at once list the rooms to vacate before
  either has entered, and end up in two calls; `ExclusiveUnlessRaced` shows that this overlap
  is the only way.
- A start whose permission lookup spans its user's removal plants a claim for somebody who is
  no longer in the room (`ws.rs:3967`).
- A replay checks its tombstone before the awaited gate and not again (`ws.rs:3230`): a Leave
  pressed elsewhere in between is undone, against the comment at `ws.rs:3209-3211`.

*File transfers.*
- A parked transfer to oneself can be offered back to the device that sent it. Parked offers are
  collected when a socket registers (`ws.rs:458`), before it can have proved its device, so the
  comparison at `state.rs:2323-2326` has nothing to compare for the offering device's new
  socket while its old one lingers. The test `a_reconnected_offering_device_is_not_offered_its_own_file`
  attests first. The offer is used up, its sender told that it reached them, and the phone
  gets nothing (the model: `Break`, `Register`, `Resolve`, `Collect` after a parked offer).
- The last visible socket of an account takes parked offers along, and nobody is told
  (`state.rs:2728`); the sender was promised delivery or an expiry. `SenderHears` exempts it.
- `deliverable` is computed before the lookup of the presence setting (`ws.rs:4940-4968`): an
  offer may go out to nobody, or be parked for somebody who has come.
- A half-open socket counts as a second device; a decline on one device ends a transfer that runs
  on another (`FileReject` does not look at `accepted`); the cards of the other devices stay
  "offered" after an accept.
- `accept` and `onAccepted` go on after their awaits without looking whether the card was
  cancelled or declined meanwhile. If two devices accept nearly at once, both answer the sender's
  description, and the loser's answer, if first, is refused as an attack.
- An offer made while the socket is down is lost and its card waits (`hist.cut`); a cancel that
  arrives while the offer's authenticity is checked is ignored.

*Notes.*
- If the answer to a device's own text is lost and another write follows, the replay makes an
  offline copy of words that were saved (`docs/NOTES.md:767` says a copy means another device's
  text; `notesOutbox.ts:568`). `CopyOnlyForOthers` exempts it (`seen.unheard`).
- A page that does not know of another page's queue sends ahead of it, and the older change is
  replayed over the newer (`seen.overtook`). Two saves of one field may be out at once
  (`NoteBodyField.tsx:255`) and be taken in either order (`seen.overlapped`).
- A save sent at once is remembered by the page that sent it, in memory (`notesOutbox.ts:811`): when
  another page replays, or this one after a reload, it counts as another device's, and text typed
  on an older revision becomes an offline copy (`docs/NOTES.md:767` says the device's own changes
  do not count). `CopyOnlyForOthers` exempts it (`seen.elsewhere`).
- A page closed while a copy's create or update is out (the server took it, `noteCopy`,
  `notesOutbox.ts:1071`, did not run), or a request for a copy that arrives late, can leave a second copy,
  against "ONE COPY PER TYPING" (`notesOutbox.ts:459`): the replay after the reload does not know the
  words sent, takes the copy for another device's and makes a fresh one. `CopyOnlyForOthers` exempts it
  (`seen.torn`, `seen.late`). The case of the update takes more acts than the run has; the proof
  attempt found it, and a run with more acts confirmed it.

*Voice mesh.*
- The watchdog of a connection survives the ladder's rebuild of it (`manager.ts:1696-1712`), and
  a new one is not armed while it stands (`manager.ts:1560`): after an ICE failure and an added track
  an offer may wait with no watchdog on it.
- With a slow fetch of the ICE servers (`SlowFetch = TRUE`), a build begun before a teardown may end
  after the newer build, take its entry in the map, and take itself back out of it (`manager.ts:1973`,
  `2003-2006`): the newer connection stays open and nobody knows it, so that `OneConnection` fails.
- With slow fetches two tasks can work on one connection, and an answer names
  only the connection it is for, not the offer it answers.

*Channel keys.*
- `ensureChannelKey` means to refresh always (`channelKeys.ts:748`), but a load under way is joined
  whoever began it and whenever (`channelKeys.ts:687`); the state may be older than the call. `ShutOutLacksKey`
  therefore speaks of who was out when the *load* was answered.
- After a 409 the winner's key is taken whatever generation its epoch was made for.
- A second publish of one account adds the rows the first lacked, with a newer stamp; the
  generation of "any row" of the epoch (`key_handlers.rs:510`, `LIMIT 1`) may then be the newer one,
  although the key is older. `ShutOutLacksKey` exempts epochs published twice.
- A page whose epochs query fails is told that there are no keys (`key_handlers.rs:464-477`), although
  the comment below it (`key_handlers.rs:480-483`) calls reporting 0 what must not be done. It makes epoch 1
  (`channelKeys.ts:756`); if somebody else made that one it is answered 409, and if the
  profile's floor allows epoch 1 it takes the key of it, which somebody kicked may hold. `ShutOutLacksKey`
  exempts what a call *takes* after such an answer (`blind`), and covers the keys it makes itself.

## 6 What is not modelled

- Contents: messages, names, SDP, media, keys. The frames that matter are in
  `out`/`told`, by recipient.
- Frames to *other* members of a call (`UserJoined`, `StreamStopped`): whether each peer's
  roster converges is `VoiceRoster` of the plan. The hazards at `ws.rs:2135` and `ws.rs:3514`
  wait for it.
- In `DeviceSessions`: attestation's challenge (one step here), wake-ups, unattended
  access. In `VoiceRooms`: speak rights (`PermsSweep` has them), moderators' moves, the AFK channel,
  games, the SFU. In `PermsSweep`: other rooms and servers (a sweep is per server), the SFU
  pass and its lock, deleted channels, the HTTP answer's time limit.
- `VoiceRooms` and `PermsSweep` treat a section between two awaits as one step, and a
  permission lookup as one read although it is several queries.
- Requests that change nothing (leaving a room neither side lists, stopping what is not
  held) are left out, at the action that says so.
- In `FileTransfers`: a second transfer and the cap of eight, a device named by the sender (no
  client does), blocks placed while an offer waits (the lookup is a step, its answer is taken
  to be yes), hashing, candidates, resumes, relay limits, full send queues, and the timers that
  dismiss a card or stop waiting for the last acknowledgement.
- In `NotesOutbox`: attachments, reorders, moves between lists, checklists beyond one item, the
  encryption and the storage of the record.
- In `Mesh`: candidates and the check that ICE started, frame encryption, tracks and tiles, more
  than two members, clients without `connId` and therefore `rebuildAndAnswer`, which `SameHistory` shows
  to be out of reach between current clients.
- In `ChannelKeys`: identity pins and their conflicts, rows without a wrapper and unbound wraps of old
  clients, members the server lists and nobody sees, members without a key, loads for reading old
  messages, deletion of accounts and channels.
- The components marked "not modelled" above, with the reason in `PROJECT.json`.

## 7 Plan

In order of importance, with the abstraction or composition each adds:

1. `VoiceRoster`: composes `VoiceRooms`' announcements with a peer's view over FIFO
   sockets; at rest every roster equals the room.
2. `DeviceAttestation`: challenge, bind, second check, revocation. After a revocation is
   through no socket speaks for the device; `DeviceSessions`' `Attest` abstracts it.
3. `DeviceLink`: `DeviceSessions` with the state machine of `session.ts` over FIFO channels.
4. `ClipProposals`, games' pot arithmetic against a reference definition.
