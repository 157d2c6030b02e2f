# A TLA+ model of UmbraChat

UmbraChat is an end-to-end encrypted chat: an axum/Postgres server that relays opaque envelopes between devices
(`server/`), a WebAssembly wrapper of libsignal (`wasm-crypto/`), and a React client (`web/`). This directory holds TLA+
modules that model the parts of it where order, concurrency and failure matter, TLC configurations that check them on
small instances, and proofs that TLAPS checks for every instance.

## 1. Inventory

### Server (`server/`)

State: six tables (`accounts`, `devices`, `identity_keys` / `signed_prekeys` / `kyber_signed_prekeys`, `prekeys`,
`messages`, `pending_device_links`). Every request is a task of its own; a handler is a series of SQL statements, each a
transaction of its own unless the handler opens one (`register`, `complete_link`, the prekey part of
`get_prekey_bundle`), at Postgres's READ COMMITTED.

| Operation | What it does | Hard because |
| --- | --- | --- |
| `register` | one transaction: account, device, keys | - |
| `link_init` | checks the caller's account, then inserts a link code | the device may be unlinked between the two |
| `complete_link` | one transaction: deletes the code, then inserts the device | two requests with one code; failure after the delete; expiry |
| `unlink_device` | finds the target's account, checks it, deletes the device with all its cascades | runs between the statements of every other handler; waits for locked prekeys |
| `send_message` | looks up the caller's account, inserts the message | the INSERT takes its timestamp before it commits |
| `fetch_messages` | `DELETE ... RETURNING`, sorted | overlapping fetches, lost answers |
| `get_prekey_bundle` | three lookups, then takes one prekey with `FOR UPDATE SKIP LOCKED` | concurrent bundles of one device |
| authentication | looks up the caller's identity key | an unlink before, between or after |

What makes it correct: a one-time prekey goes out once; a code links one device, to its account, and survives a failed
attempt; no row outlives its device; an unlinked device is refused; each message is fetched once, and in order; nobody
waits for a row lock for ever.

### Client (`web/`, `wasm-crypto/`)

JavaScript runs one piece of code at a time, but every `await` (IndexedDB, fetch, WebRTC) lets another activation in:
the user's operations, polls that a timer starts, and call timers interleave there. None of them is locked against the
others.

| Part | State | Operations | Hard because |
| --- | --- | --- | --- |
| Screens (`App.tsx`, `screens/`) | the screen, the flags that disable buttons, the one poll timer; the account in IndexedDB | every handler, `enterIdentityReady`, `enterConversation`, `enterGroup`, `runPoll` | polls and handlers outlive their screen; an interval starts only after a first poll; flags are shared |
| Conversations (`chat/conversation.ts`, `storage/messageStore.ts`) | the 1:1 history, the disappearing timer | `sendText`, `sendFile`, `markFileOpened`, `setDisappearingTimer`, `poll` | the history is loaded before and saved after many awaits; a batch is lost if one envelope fails |
| Sessions (`crypto/session.ts`, `storage/keyStore.ts`, `wasm-crypto/src/session.rs`) | a ratchet per remote device, in memory and in IndexedDB | `openStore`, `restoreSession`, `persistSession`, `establish_session`, `encrypt`, `decrypt` | check, wait, import; a cut between send and persist; several stores of one page |
| Groups (`chat/group.ts`, `storage/groupStore.ts`) | each member's own roster and history of the group | `createGroup`, `sendGroupText`, `removeMember`, `handleGroupSignal` | no common order of rosters; check-then-act across awaits; fan-outs that stop half-way |
| Calls (`chat/call.ts`, `screens/CallScreen.tsx`) | the call state, the peer connection, buffered offer and candidates, two timers | `startCall`, `acceptCall`, `declineCall`, `hangUp`, `handleCallSignal`, timer and connection callbacks | user, timers, signals and media race; two clients must agree |

What makes it correct: no message leaves a history but by expiring or by being opened once; a status never goes back,
and once nothing is under way both sides agree; no message key is used twice and what was sent decrypts; one interval
polls for the screen on show; no button stays disabled; a device's account is one the server knows; nobody rings for
ever; a removed member leaves every roster.

Interaction: a client's operations call the server's routes; `sendToContact` turns one envelope into one message per
device of the contact; `poll` fetches and deletes the client's queue and hands each envelope to the history, to
`handleCallSignal` or to `handleGroupSignal`. The server's queue is the only channel between clients.

`PROJECT.json` lists every component and every hazard with the line where it bites.

## 2. Modules

| Module | Models | Extended by |
| --- | --- | --- |
| `Server` | `server/src/routes/*.rs`, `auth.rs` and the tables of `server/migrations` | `MCServer`, `ServerProofs` |
| `Mailbox` | the abstract promise of `messages.rs`: post once, take all, deliver at most once | instantiated by `Server` |
| `App` | `web/src/App.tsx` with what `web/src/screens` offers | `AppProofs` |
| `History` | `web/src/chat/conversation.ts` and `storage/messageStore.ts`, two users | `MCHistory`, `HistoryProofs`, `HistoryReceiptsProofs`, `HistoryAgreeProofs`, each of them extending the one before |
| `Session` | `web/src/crypto/session.ts`, `storage/keyStore.ts`, `wasm-crypto/src/session.rs`, two devices | `MCSession`, `SessionProofs` |
| `Groups` | `web/src/chat/group.ts` with the poll that calls it | `MCGroups`, `GroupsProofs` |
| `Call` | `web/src/chat/call.ts` with the buttons of a call, two clients | `CallProofs` |

The `MC*` modules only add the symmetry sets of the small instances; modules without one are checked as they are. The
component modules share no variables. What one takes from another is small and stated where it is used: a client's
queue at the server (`queue`, `net`) behaves as `Mailbox`, which `Server` implements; one envelope to a contact is one
step for `History`, `Groups` and `Call`, and `Session` has what it does on the way; whether a call rings is a flag of
`App` that may change at any time, and `Call` has when; how many polls may overlap, which `App` decides, is a set of
activations (`Poller`, `PollTask`, `Task`) in the others.

### Server

*Granularity.* A handler is a sequence of SQL statements on a pool of connections, so the model has one worker per
request in flight and one step per statement; a worker's record holds the route, the next statement, and what the Rust
handler keeps in local variables. `register`, `complete_link` from its DELETE on, and the prekey part of
`get_prekey_bundle` run in a transaction. Under READ COMMITTED nobody sees such a transaction before it commits, except
through the row locks it holds; so `register` is one step, `complete_link` is two (`CompleteLinkConsume`, the DELETE
that locks the code's row, and `CompleteLinkCommit`, the rest), and a bundle is one step per lookup and then
`BundlePick` (`FOR UPDATE SKIP LOCKED` locks a row) and `BundleTake`. The locks themselves are not variables: a row is
locked when some worker is at the step that holds it (`PrekeyLocked`, `CodeLocked`). A waiting DELETE re-checks its
condition when the lock is released, as Postgres does: the waiting `complete_link` finds the code gone, or finds it back
after a rollback.

*Correspondence.* `accounts`, `owner`, `rows`, `prekeys`, `links`, `minted`, `messages` are the tables; `owner[d]` is the
`account_id` of a device's row; `minted` is the account column of a code. `UnlinkRemove` is the DELETE on
`devices` with all the ON DELETE CASCADEs of the migrations. `clock` is `now()`: an INSERT into `messages` takes its
`created_at` in `SendStamp` and becomes visible in `SendCommit`, so a fetch can run between the two. Timestamps are
distinct in the model; Postgres's have microseconds. `Abort` ends any request at any step: an error, a dropped
connection or a lost response; a transaction that had not committed leaves no trace, a fetch that had deleted its rows
loses them. `ExpireCode` lets a code's `expires_at` pass.

*Left out.* Signature checks (every request is signed by the device it names), size and signature validation of
bundles, and `list_devices`, which changes nothing.

### Groups

*Granularity.* A task is one activation of an async function of one client: `createGroup`, `sendGroupText`,
`removeMember` or a poll. JavaScript switches between them only at an `await`, so a step is an IndexedDB read, an
IndexedDB write, or one `sendToContact` with what runs up to the next await.

*Correspondence.* `roster` is the `groups` store of each client (`{}`: no copy), `log` the group's history in the
`messages` store, `queue` what module Server calls the messages to that account's device (one device per account). The
order in which a fan-out reaches the members is left open, although the code goes through the roster array: the array's
order depends on who wrote it, and no property may rest on it. A task that throws stops where it is (`Fail`), which for
a fan-out leaves the rest unsent and for a poll loses the rest of its batch.

*History variables.* `removed` and `founders` are what rosters are measured against; `failures` counts tasks that
threw. `authors`: who created the group or removed from it; `crossed`: who started a removal while another of its own
ran; `overlapped`: who polled while another poll of its own ran. The properties about rosters and order except by them
what the code does not keep (section 3).

*Assumptions about the users.* Account ids typed into the group form are distinct and not the user's own. Clicking while
a text is being sent is excluded (`sending` disables the form), clicking on two removals, or on a text and a removal, is not.

### App

*Granularity.* A step runs from one `await` of a handler to the next. An activation is a record of the handler, the
place it is for (the identity screen, a contact, a group) and the await it is at: reading the account, registering or
linking, saving the account, loading a screen's data, opening its store, the screen's first poll, or the handler's
other work.

*Correspondence.* `screen` is `state.status` with the contact or group on show; `busy` has `creating`, `starting` and
`sending`; `timer` and `pace` are `pollTimer` and `pollIntervalRef`; `loop` is the browser's set of intervals nobody
has cleared, of which `timer` names at most one; `account` and `active` are kept by the browser, `registered` by the
server. `Offered` is what the screen on show lets the user do, `Flag` the flag a handler sets and its `finally` clears.
The three `enter` functions differ as in the code: `enterIdentityReady` shows before it opens its store, and
`enterConversation` leaves the interval to its poll (`PolledConversation`), which sets one when the pace has to change or
none is set. `Tick` starts a poll whether or not the one before has ended. `Fail` ends any activation at any await, and
`Reload` is a page that is closed and opened again at any time. React's StrictMode runs the first effect twice in a
development build: `Mounts` says how often it may run.

*History variables.* `overlapped`: a screen was entered while another one still was; `failed`: entering one has failed.
Both say when the code does not keep a property, see section 3.

*Left out.* Error texts, the chosen file, and what the polls bring, which the other modules have.

### History

*Granularity.* As in App; a step is one load, one save, one send or the handling of one envelope.

*Correspondence.* `history[u]` is what `loadMessages` returns for the one conversation, as a function from ids:
`status`, whether the message is `timed` (has a `timerSeconds`) and whether it `expires` (has an `expiresAt`); what was
sent under an id, by whom, is the same at both ends and is kept in `message`. `timer[u]` is whether `getTimerSeconds`
is not 0. An activation's `copy` is the array that `poll`, `sendText`, `sendFile` or `markFileOpened` has loaded and
changes, and saves as a whole. A text is receipted twice, `delivered` and `read`, before the poll goes on with the
next envelope, as in the code. `Expire` lets an expiry date pass at any time; `due` has those that have.

*History variables.* `stale` marks a copy whose history another activation saved since; saving one sets `clobbered`.
`overlapped`: two activations of a page were in progress at once. `crossed`: both users set the timer at once.

*Left out.* A third user's envelopes, which `poll` decrypts and drops; the chunks of a file; group and call envelopes,
which the same loop hands to Groups and Call.

### Session

*Granularity.* As in App: `restoreSession` is `Check` and, if the store has no session, `LoadSession` and `Import`,
with what follows without waiting (encrypting, decrypting, asking for a bundle) in the same step.

*Correspondence.* `disk` is the `sessions` store of `keyStore.ts`; `store` has the `SignalStore`s of a page, of which
`enterIdentityReady`, `enterConversation`, `enterGroup` and `createGroup` open one each and `current` is the screen's.
An activation keeps the store it was started with: until a screen shows, with the store it opened, the interval of the
screen before goes on polling with the store before, as activations that `Begin`; `EnterScreen` is the step that shows
it and drops the interval. A text that a poll decrypts is answered by two receipts, `delivered` and `read`, each
encrypted, sent and persisted as any envelope, before the session of the text is persisted (`AfterPersist`). A record
is a sequence of sessions, the current one first.

*libsignal,* an external crate, is modelled from how `session.rs` uses it, as the double ratchet it implements. A
session has a chain of keys it sends on and the keys it has received with; an envelope names its session, its key, and
the chain it answers. Receiving from a new chain of the peer starts a new one; a key opens one envelope; `decrypt`
tries every session of the record and makes the one that worked the current one; an envelope of an unanswered session
can start one at the receiver. libsignal's limits (five receiving chains, forty kept sessions, two thousand keys
ahead) are far beyond what these runs reach and are left out.

*Bounds in the model.* `MaxSends` envelopes, `MaxEvents` failures, screens entered, groups created and reloads.

*Left out.* More than one device per contact: the loop of `sendToContact` over a contact's devices repeats what is modelled.
IndexedDB ends the writes of a page in the order they were started, so a save is one step.

### Call

*Granularity.* As in Groups: one step per await of `startCall`, `acceptCall` and the answer branch of
`handleCallSignal`; offers, ends and clicks that do not wait are one step. Every `await` on the peer connection
(`createOffer`, `setLocalDescription`, ...) reads the module's variable `pc` afresh, as the code does, so an activation
can go on with the connection of another call.

*Correspondence.* `state`, `pc`, `offer`, `timer`, `reset` are the module's variables `state`, `pc`, `pendingOffer`,
`answerTimer`, `idleResetTimer`. `armed` is the browser's set of timeouts still to fire: `answerTimer` names only the
last of them. `live` and `open` are the media streams and connections that nobody has stopped or closed. `net` is what
the peer will still poll. `Offered` is what `CallScreen` and the conversation let the user click. A connection that has
both descriptions may come up (`Connected`) or fail (`Failed`) at any time, or do neither.

A connection may refuse a description (`Link` says which it has) and an answer or candidates that are not its own. Where
that is up to the two browsers it is left open: `AnswerRemote` and `AnswerReady` may take or refuse an answer and the
candidates with it, and so may `AcceptRemote`; a description that comes twice, as after a second click on Accept, is
refused. A function that is refused stops where it is, after what it did: the answer branch has cleared the answer timer
by then. A poll in which an envelope is refused loses the rest of its batch (`Refuse`, `Skip`).

*History variables.* `used`, `answered` and `losses` are the calls started, the own calls whose answer was handled, and
the failed sends and polls; `refused` are the own calls whose answer the own connection refused.

*Left out.* The candidates as messages, and `ontrack`: what candidates decide, whether a connection comes up and whether a
function or a poll that adds them goes on, is left open. Only one device per client; sends of one client overlap and end
in any order, which covers the sequential fan-out to several devices.

## 3. What the runs check

| Run | Checks | What it shows |
| --- | --- | --- |
| `server_tables` | `TypeOK`, `PrekeyOnce`, `CodeOnce`, `RevokedIsRefused`, `LinkAtomic` | requests mint, redeem and let expire a link code, take the last prekey, and unlink, with failures anywhere: one taker per prekey, one device per code, no code burnt by a failed request, no revoked device let in |
| `server_messages` | `Consistent`, `HandedInOrder`, `AtMostOnce`, `MailboxSpec` | sends, fetches and unlinks: no queued message outlives its devices, fetches take messages in real-time order, and the handlers implement `Mailbox` |
| `server_liveness` | `RequestsFinish`, `QueuesDrain` | nobody waits for a prekey lock for ever; queues drain |
| `app_all` | `TypeOK`, `NothingStuck`, `AccountIsRegistered`, `OneLoop`, `AccountKept`, `StaysOpen`, `Polls` | two handlers and a poll in any order, with failures and reloads: no button is stuck, the account is a registered one and stays, one interval polls for the screen on show and no late result moves the user elsewhere |
| `history_all` | `TypeOK`, `OpenedOnce`, `Told`, `Settled`, `Kept`, `Onward`, `Swept` | texts, files opened once, a timer, receipts, expiry, one failure: histories lose nothing but what expired or was opened, statuses go forward, and in the end both sides agree |
| `history_persists` | `HistoryPersists` | **violated**: a poll saves the history it loaded before a message was saved |
| `session_all` | `TypeOK`, `KeyOnce`, `Readable` | with or without a session, both sides starting one, sends and polls overlapping: no key is used twice and every envelope decrypts |
| `groups_all` | `TypeOK`, `TextsOnce`, `TextsInOrder` | calls and polls of each client overlap and fail, texts race a removal: no text is doubled, and whoever never polled twice at once has each sender's texts in order |
| `groups_admin` | `Converged`, `RemovedStops` | two calls and two polls of each client at once, two removals: when nothing is under way, the rosters of the remaining members whose polls did not overlap agree and list no removed member, if one removal ended before the next began |
| `groups_gone` | `OwnRoster`, `EventuallyGone` | two removers, one failure: nobody is added to a roster, and under fair scheduling a removed member leaves the remaining ones for good, if one member decided and nothing failed |
| `call_all` | `TypeOK`, `RingHasDeadline`, `NoLateTimeout`, `NoLoneRing`, `RingingSettles` | whatever races, is refused or fails: a ringing call has its own timer until its answer is handled, and that timer does not fire afterwards; with one call and nothing lost, nobody is left ringing without the other side and its timer, and so neither side rings for ever, but for the caller whose own connection refused the answer |
| `call_media` | `MediaReleased` | **violated**: a call ended while media or a description is awaited leaves the camera on |

Each violated run checks one property taken from a comment or a planning document of the repository; `PROJECT.json`
quotes it under `findings` and says what the code does instead. `TypeOK` is the only property that is about types.

Several properties have exceptions, which are history variables of the module and not conditions on its inputs: the
runs explore the excepted behaviours as well (only `session_all` stops where they begin), and the property says what holds
without them. `OneLoop`, `StaysOpen` and `Polls` except screens entered at once, and `Polls` and `AccountKept` a failure to
enter one. `Kept`, `OpenedOnce` and `Told` except a history saved over one saved after it was loaded, `Onward` overlapping
activations, and `Settled` failures and overlaps. `KeyOnce` and `Readable` except two activations restoring their session
at once, two stores of a page in use, and an activation that was cut short. `Converged`, `RemovedStops` and
`EventuallyGone` speak of the removals of one member that did not overlap and of which nothing failed (`Decided`), and with
`TextsInOrder` of the members whose own polls never overlapped; the polls and calls of all others may. `NoLoneRing` and
`RingingSettles` except a lost send, a second call, and the caller whose connection refused the answer. Next come the
behaviours behind those exceptions.

### Known departures

Modelling the code showed these. Each is reachable in the module named. Where a property is named that is in no run's
table row, the module defines it without the exception and TLC finds it false in the instance given.

* App: a screen entered while the first poll of another is awaited (`App.tsx:89`, `App.tsx:119`) ends with two
  intervals, of which nothing can clear one (`NeverTwo`, in `AppAll.cfg`); the comment at `App.tsx:106` says that
  "there's never more than one running at once". The interval of the closed screen may also be the one that
  `enterConversation` finds set, so that it starts none, and messages of the open conversation are then fetched, and
  dropped, by the other screen's poll.
* App: if a screen's first poll fails, its interval is never started (`App.tsx:88`, `App.tsx:145`).
* App: a group's poll or removal that ends while another group is on show replaces it (`App.tsx:138`, `:274`: the check is
  of the kind of screen); two groups must have been opened at once for that.
* App: if reading the account fails, the page shows the form that creates a new one over it; `AccountKept` excepts that.
* History: of two activations that both load, change and save the history, the later save takes back the earlier one's
  (`conversation.ts:271`, `:356`): messages vanish (`history_persists`) and opened files come back (`OpenedGone`, in
  `HistoryPersists.cfg` with `Kinds = {"once"}` and three acts).
* History: an envelope that fails ends the poll and the rest of its batch is lost, with what the poll had handled
  before (`conversation.ts:283`), although the senders may have had their receipts. `Told` and `Settled` except it.
* History: users who set the disappearing timer at once each end up with the other's value (`conversation.ts:164`;
  `TimersSynced`, in `HistoryPersists.cfg`). `sendText` reads the timer after its send (`conversation.ts:178`), so
  that a timer handled meanwhile gives the two copies of a message different lifetimes.
* History: a receipt that a poll handles before `sendText` has appended the message (`conversation.ts:342`) is lost.
* Session: two activations that restore at once (`session.ts:38`; `RestoresUnloaded`, in `SessionAll.cfg` without its
  constraint), or a page that uses two stores (`App.tsx:239`), can go back to an older ratchet: a key is used twice and the
  peer cannot read one of the envelopes. So can an activation cut between `sendMessage` and `persistSession`
  (`conversation.ts:133`; `SurvivesReload`, likewise, with one task and one store).
* Server: the responses of two overlapping fetches of one device may pass one another (`messages.rs:74`), so that
  missed messages do not "arrive, in order" (`DeliveredInOrder`, in `ServerMessages.cfg`).
* Groups: two removals by one client that overlap leave the roster of the one that saves last (`group.ts:46-57`;
  `RemovalsHold`, in `GroupsAdmin.cfg`); two members who remove at once leave the members with the roster that arrives
  last at each; an update that overtakes the invite is ignored, and the invite then stores the roster from before
  (`group.ts:69`); and of two polls of one client that overlap the later may save the older roster. `RemovalsHold` is
  false of all four.
* Groups: `handleGroupSignal` checks that the author of an update is a member, then saves in a later step
  (`group.ts:81`; `NoReturn`, in `GroupsGone.cfg`). A removal by the user in between is overwritten, and the removed
  member is back through its own update, which the comment at `group.ts:76-80` gives as what the check is for.
* Groups: two polls of one client that overlap may append texts of one sender in the other order (`App.tsx:87`).
* Groups: two activations that both load, append to and save a history lose one of the texts (`group.ts:93`).
* Call: `acceptCall` sets `connecting` after its awaits (`call.ts:135`), whatever became of the call: one that ended
  meanwhile shows as on at one side.
* Call: a call that starts less than three seconds after the last one ended is set to idle by that one's
  `idleResetTimer` (`call.ts:64`), though phase-3.md:80 has the reset follow the end of a call.
* Call: a connection that comes up before the state is `connecting` is not noticed, and the call never shows as
  connected (`call.ts:92`).
* Call: a second click on the call button starts a second call whose timer replaces `answerTimer` without clearing the
  first, which ends the answered call after thirty seconds (`call.ts:115`). `NoLateTimeout` is about a call's own timer.
* Call: the answer timer is cleared before the answer and the candidates are set (`call.ts:170-173`). When the caller's
  connection refuses one of them, after Accept was clicked twice or with candidates of the callee's other connection, the
  call rings on at the caller with no timer until its user hangs up, and the poll loses the rest of its batch.
* Call: a failed send of an answer or of a `call-end` leaves the other side as it was (`call.ts:112`): a callee whose
  `call-end` was lost rings until its user answers or declines.

### Bounds

* **Server.** Two workers are enough for each race between two requests; `server_messages` has a third, so that a
  message can be committed late while another is sent and fetched. Two devices of two accounts are the least with a
  sender and a recipient; `server_tables` has three devices, so that two can compete for the code that a third one
  minted, two accounts, so that a code could link to the wrong one, and one prekey, which two bundles can compete for.
  `Route` limits a run to the routes its question is about; together the runs have all of them. Account, device, code
  and key ids are never reused in the program (uuids; key ids per device), which is why small sets with `born` as
  history are enough.
* **App.** One contact and one group are the least with every pair of kinds of screens; two handlers let any pair of
  them overlap, and the poll of the interval a third. Two intervals are what the race of two screens needs. Two
  identities, so that a second one could replace the first. `Mounts = {1}` is the production build, where the first
  effect runs once; the theorems hold for the development build's `{2}` too.
* **History.** Two messages, two acts of the users, one handler and one poll of each page at a time, and queues of two
  envelopes (`MaxQueue` holds a sender back). So a handler and a poll of a page overlap, two messages can be in one
  batch, and one activation may fail or be cut by a reload. `Kinds = {"text", "once"}` leaves out files that stay and
  files that expire: they take the same steps as these two with fewer effects. The theorems hold for all four.
* **Session.** Three envelopes are a text with its two receipts, and the least for one to be answered by a session
  that the other side replaced; two activations of a page overlap; one event is a failure, a reload or a second store.
  `CONSTRAINT Undisturbed` stops the search where the exceptions of `KeyOnce` and `Readable` begin: they are never
  taken back, so both hold of all that comes after. `TypeOK` holds there too by `SessionProofs!TypeCorrect`.
* **Groups.** Two user tasks and two polls per client let every pair of activations overlap. Two members are the least with
  texts both ways; three the least with a remover, a removed and a bystander (`groups_gone`); `groups_admin` has a fourth,
  so that two removals, the least of which one can overtake the other, leave rosters to compare.
* **Call.** `MaxMedia` bounds the clicks on call and accept buttons of both clients: two let a client start two calls, or
  each client start one (glare), or one be accepted. `MaxLosses` is 1. A call that is accepted by a double click takes three
  clicks: with one caller, one call id, `MaxMedia = 3` and `MaxLosses = 0` in `CallAll.cfg` the same properties hold, and
  all but `RingingSettles` are proved for every number of clicks.

The bounds limit only what TLC sees: the theorems of section 5 hold for every value of the constants.

Runs have deadlock checking on where the system never stops (all Server runs: a request can always arrive or end) and
off where the users may simply do nothing more (the others).

## 4. Fairness

* **Server.** Tokio polls every ready task: weak fairness of each worker's next statement. Postgres grants a row lock in
  the order of the queue, so a waiting statement that is enabled again and again is not passed over for ever: strong
  fairness of the steps that take a lock. For `QueuesDrain` the clients keep polling and not every poll fails: strong
  fairness of a fetch's arrival, authentication and DELETE for each device.
* **App.** Reads and writes of the browser end, and an interval fires: weak fairness of an activation's next step and of
  `Tick`. A request that is made again and again is answered at some time: strong fairness of `Polled` and
  `PolledConversation`; a single poll may fail. The user owes nothing and a call may ring for ever.
* **Groups.** The browser runs ready promises and IndexedDB and fetch requests end: weak fairness of each task's next
  step, and of polling. Users owe nothing. `groups_gone` lets one task fail, and `EventuallyGone` excepts what follows: an
  update that was lost is not sent again, so a failed fan-out leaves rosters different for good.
* **Call.** One weak fairness condition per client, of whatever its browser can do next without its user: the next step of
  an activation, a delivery, a poll, a timer. As a client can take only finitely many such steps without a new click, and
  clicks are bounded, none of them waits for ever. No fairness for clicks, for the connection coming up or failing.
  `RingingSettles` says nothing of a client once a send was lost or a second call started: the callee has no timer of its
  own, so with a lost `call-end` it rings until its user answers or declines.

`History` and `Session` have safety only: what they promise in the end (`Settled`) is stated of the states in which
nothing is under way.

## 5. Proofs

All theorems hold for every value of the constants under the module's named assumption (`ServerAssumption`,
`AppAssumption`, ...), which only says what kind of value each constant has, and in `AppAssumption` that the user's
handlers in progress are finitely many. One theorem has a hypothesis of its own: `BothAgree` assumes `TwoUsers`, that
`User` has the two users the module is about; among three, `Peer` is no pairing. They are proved as `Init => I`, `I /\
[Next]_vars => I'`, `I => Property`, with one lemma per group of actions.

| Theorem | Property | Inductive invariant |
| --- | --- | --- |
| `ServerProofs!TypeCorrect` | `TypeOK` | `TypeInv`: types, and that a worker at a given statement has the local variables set that the statement reads (`Shape`) |
| `PrekeysOnce` | `PrekeyOnce` | `FreshInv` (the ids that requests in flight will insert are unused and distinct, and a device that was never born has no rows and granted no key) and `PrekeyInv`: a locked prekey is fresh, no two requests lock the same one, and a key was granted never, or once and is no longer fresh |
| `CodesOnce`, `LinksAtomic` | `CodeOnce`, `LinkAtomic` | `CodeInv`: a code with a row was minted; the worker between its DELETE and its commit holds the code alone, and the row is still there for a rollback; a used code is gone and was used by one device |
| `TablesConsistent` | `Consistent` | `Consistent` itself with `SenderInv`: the account a sender looked up is the one its device has, unless the device is gone |
| `Revoked` | `RevokedIsRefused` | `StaleInv`: a request whose device was unlinked on arrival is still at authentication, and that device was born and has no owner, so it will have no key again |
| `MessagesOnce` | `AtMostOnce` | `PlaceInv`: a committed message and its device are in one place only, the queue, the batch of one fetch, or what was received |
| `OldestFirst` | `HandedInOrder` | `StampInv` (stamps of sends that have yet to commit are distinct, unused, and later than everything their request found committed) and `OrderInv`: nothing that is queued for a device comes before something it was handed |
| `ImplementsMailbox` | `MailboxSpec` | `PlaceInv`, and `BoundInv`: the stamps given and the requests that have yet to take one stay within `MaxMessages`, so a commit is a `Post` of Mailbox. Each action maps to a step of Mailbox or a stutter |
| `AppProofs!TypeCorrect` | `TypeOK` | `TypeOK` is inductive as it stands |
| `ButtonsRecover` | `NothingStuck` | `NothingStuck` itself, with types: a flag is held by one activation, which cannot begin while the flag is set |
| `Registered`, `AccountStays` | `AccountIsRegistered`, `AccountKept` | `AccountInv`: at most one activation is making an account and it makes the last identity; once its request is accepted the server has that identity; and while an account is saved and nothing failed nobody makes another |
| `OneInterval`, `OnlyTheUserLeaves` | `OneLoop`, `StaysOpen` | `LoopInv`, while no screens overlapped: one activation at most is entering a screen, what each activation is at fits the screen on show (`Fits`), and only the one that is entering can find no interval set |
| `HistoryProofs!TypeCorrect` | `TypeOK` | `TypeInv`: types, and that what an activation carries fits its handler and its step (`ActOK`): a sender carries a message, a poll at a receipt has a message at the head of its batch |
| `HistoryKept`, `HistorySwept` | `Kept`, `Swept` | `HoldInv`: the copy an activation holds lacks of the saved history only messages that expired or the file it deletes, unless the copy is stale (`Comes`), and without an envelope it is the history (`Same`) |
| `OpenedStaysGone` | `OpenedOnce` | `PlacesInv`: `HoldInv`, what polls and handlers can hold at each step (`RoleInv`), that a message is in one place, a fan-out, a queue or a batch, until it is handled, and until then only its author's histories have it (`PlaceInv`), and that a file which was opened is in no history or copy that could be saved (`GoneInv`) |
| `HistoryReceiptsProofs!StatusOnward` | `Onward` | `RankInv`, until activations of a page overlap: what an activation holds is further than the history, message by message. It needs `AloneInv`, that there is one activation until then, and `FlowInv`: only texts are receipted and only files opened, the receipts of a text are in order along queue and batch, and none is ahead of the reading |
| `SentArrives`, `ReadIsKept` | `Told` | `ArriveInv`: a message that was sent is on its way, or the peer has it, or deleted it. With `FlowInv`, by which a text that is reported as read is on its way no more, `Told` follows |
| `HistoryAgreeProofs!BothAgree` | `Settled` | `AgreeInv`: with all of the above, and as long as nothing failed and no activations of a page overlapped, no copy is stale (`CleanInv`); who sent a message is still sending it, has it, or let it expire (`KeepInv`); a text is unread (with its sender, on its way, being handled, or its receipt is on its way) or noted as read wherever its sender has it, and likewise a file that was opened (`AckInv`); timers come to a user or are being set by the user, never both, nor with both users, and the last of them is the same for both (`TimerInv`) |
| `SessionProofs!TypeCorrect` | `TypeOK /\ TypeInv` | `TypeInv` itself: types, and that an activation that sends, replies or persists has a session in its store (`Works`) |
| `KeysOnce` | `KeyOnce` | `Calm`, while `Undisturbed`: a page uses its current store only; at most one of its activations is restoring, and then the store is empty; what was loaded is what is on disk; a store that nobody is using is persisted; and, for the record each device has or will restore (`Rec`), no two sessions of either device send on one chain and no key of a chain was used at or beyond where its session is (`KeyInv`) |
| `EverythingRead` | `Readable` | `ReadInv`, while `Undisturbed`: the envelopes between two devices have distinct keys, wherever they are (`Apart`, `Lines`), and the sessions of the two records fit one another and those envelopes (`Link`): the receiver has, or can start from the envelope itself, the session and the chain that each was encrypted on, and has not used its key |
| `GroupsProofs!TypeCorrect` | `TypeOK` | `TypeInv`: types, and that a task at work has an envelope |
| `RostersOwn` | `OwnRoster` | `OwnInv`: every invite, update and pending write lists only founders, its author and its recipient |
| `ShownOnce`, `ShownInOrder` | `TextsOnce`, `TextsInOrder` | `OrderInv`, which is `TextInv(W)` for the set `W` of clients whose polls never overlapped: along the way of a client's texts, from the fan-out that sends them over the queue and the batches of polls to the copies that wait to be written and the history, no text is twice and, for a client in `W`, the texts of each author are in the order of their numbers |
| `RostersConverge`, `RemovalsReachAll` | `Converged`, `RemovedStops` | `AdminInv`, while nothing failed and one member decided, one removal after the other (`Steady`): only that member's call sends rosters, and what it has yet to send is its own (`Calls`); it has stored the founders without the removed, and receives no roster (`Source`); on the way to each other member whose polls never overlapped, the queue behind the batch behind what is stored, the newest roster is the administrator's, unless the call is still to send it (`Newest`), and the invitation comes before any update, so that no update is refused (`InviteFirst`, `Invited`) |
| `CallProofs!TypeCorrect` | `TypeOK` | `TypeInv`: types, and that a client in a call and a connection know which (`Named`) |
| `RingsTimed`, `AnswerStopsTimer` | `RingHasDeadline`, `NoLateTimeout` | `TimedInv`: a call that is still starting has no timer and no answer, starts are of different calls, and the call that rings is the one `answerTimer` names |
| `NobodyRingsAlone` | `NoLoneRing` | `KnownInv`: every call id anywhere is of a call that was started. `LoneInv`, while one call was started and nothing lost: one client called and only it (`Roles`); its offer is unique, first on its way, and the other side is untouched until it polls it (`Dialing`, `Offering`); once an answer of the callee's exists or was handled, an `acceptCall` of the callee is at its send and will end its ringing (`RingsIn`); a caller whose answer was handled and who still rings has the activation that goes on with the answer, or a refused one (`RingsOut`); and while the callee rings or will, the caller does or will, unless a `call-end` is on its way or the callee is accepting (`Together`) |

Why the strengthening is needed: `PrekeyOnce` alone says nothing of a worker that is about to take a key; `CodeOnce`
nothing of one that has consumed a code but not yet inserted its device; `OwnRoster` nothing of rosters on the wire;
`Kept` nothing of what a save is about to write; `KeyOnce` nothing of the keys still to come, nor of the older record on
disk that a restore would bring back. `NoLateTimeout` would be broken by an answer to a call whose timer is not the one
`clearTimeout` reaches, and the invariant says that there is none. `AtMostOnce` and `HandedInOrder` say nothing of a
message that a fetch has deleted and not yet returned, nor of one whose INSERT has its timestamp and is not visible;
`Readable` says that nothing was rejected, and the whole of `Link` is about what is still to be received. `Settled` speaks
of the states in which nothing is under way, so all of `AgreeInv` is about what is; so do `Converged` and `RemovedStops`,
and `AdminInv` is about the rosters that are. `NoLoneRing` speaks of such states too: what is under way when it does not
apply is what ends the ringing of the callee, and `Together` says that something does.

`KeysOnce` rests on lemmas about libsignal's part of the model: encrypting moves one session one key ahead
(`EncryptKeys`), a new session has a chain of its own (`EstablishKeys`), and decrypting reorders the sessions and gives
at most one of them a new chain (`DecryptKeys`). TLC checked the invariants of these proofs before they were proved.

## 6. What is only model-checked, and what is not modelled

* Liveness (`RequestsFinish`, `QueuesDrain`, `Polls`, `EventuallyGone`, `RingingSettles`) stays with TLC: it needs
  fairness and `ENABLED`, which the installed provers do not do. What `RingingSettles` rests on is proved:
  `NobodyRingsAlone` shows that whoever rings when nothing is under way is in a call whose timer is still to fire, unless
  it is the caller whose connection refused the answer.
* Not modelled: identity generation, signatures, safety numbers and encodings, which are functions of their arguments;
  the React screens beyond what they offer and when; `LinkedDevices`, which shows what the server lists; the one-off data
  migration in 0004; start-up and the connection pool; ICE candidates, of which `Call` leaves open what they decide.
* Not composed: `History` and `Groups` take for granted that an envelope decrypts, which `Session` shows but for its
  exceptions, and that a queue behaves as `Mailbox`, which `Server` shows.

## 7. Plan

Every invariant and action property that a passing run checks is also a theorem. What is left is outside these proofs: the
liveness properties, which stay with TLC; the compositions that section 6 names, of `History` and `Groups` with
`Session` and `Mailbox`; and the departures of section 3, each of which needs a change of the code before more can be
said of it.
