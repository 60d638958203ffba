# Reinsteins CRM: a TLA+ model of its concurrent core

Reinsteins CRM is a multi-tenant work management system: an Express and
Socket.IO server over PostgreSQL (`src/server`; one platform database and one database
per company, reached through `config/pgCompat.js`) and a React client (`src/client`).
Most of it is create, read, update and delete over tables. What goes beyond that:
spreadsheets edited by several people at once, an end-to-end encrypted password vault
with key rotation, calls and meetings signalled over sockets, subscriptions and modules
that are switched off under the people who use them, sweeps that run on timers, and
cascading deletions that can be undone. The server runs as one Node process, so what
interleaves in it are the stretches of code between two `await`s; what interleaves
in the system are those stretches, the browsers' tabs, the timers, the transactions of
the database and the messages between them.

This directory holds the TLA+ modules of the parts where that matters, the TLC
runs that check them on small instances, and the TLAPS proofs that lift the most
important invariants to every value of the constants.

| Part | Modules | Checked by | Proved in |
|---|---|---|---|
| Live room of a sheet (server) | `SmartSheetServer` | `server` | `SmartSheetServerProofs` |
| Save queue of an editor tab | `SaveQueue` | `progress` | `SaveQueueProofs` |
| Tabs, wire and server together | `SmartSheetSync` (extends `SmartSheetServer`) | `sync_sharing`, `sync_troubled`, `progress`, and three runs that end in a counterexample | `SmartSheetSyncProofs` |
| What a save queue promises | `TabQueue` | refinement in `progress` | `SaveQueueProofs`, `SmartSheetSyncProofs` |
| What users are promised | `SharedSheet` | refinement in `sync_sharing` | `SmartSheetSyncProofs` |
| Payments and subscription life cycle | `Subscriptions` | `subscriptions`, `subscriptions_renewal` | `SubscriptionsProofs` |
| Modules of a company, on and off | `FeatureGate` | `server` | `SmartSheetServerProofs` |
| Keys of a vault collection | `VaultKeys` | `office` | `VaultKeysProofs` |
| Work items, sprints, recycle bin | `WorkItems` | `office`, `work_purge` | `WorkItemsProofs` |
| Who is online | `Presence` | `office` | `PresenceProofs` |
| Calls between two people | `Calls` (extends `Presence`) | `office` | `PresenceProofs` |
| Meetings | `Meetings` (extends `Presence`) | `office` | `PresenceProofs` |
| Reminders of tasks | `NotificationSweep` | `progress`, `reminders_deleted` | `NotificationSweepProofs` |

## 1. Inventory

For each component: the state it keeps, its operations, whom it talks to, what is
hard about it, and what makes it correct. "Correct when" says what one would ask of the
component; where the code keeps less, section 6 says so and the property of the module
states what it does keep.

### Smart Sheets: the live room (`server/services/smartSheetRealtime.js`)

* State: per socket the set of joined sheets; Socket.IO rooms; per sheet a promise
  chain (`sheetQueues`, `runExclusive`); a dedupe map from sheet and opId to the
  acknowledgement that was given.
* Operations: `join`, `leave`, `op`, `presence`, `disconnect`; from the REST side
  `evictUser`, `evictAll`, `notifyAccessChanged`.
* Interactions: emits of the tabs come in, broadcasts and acknowledgements go out;
  `smartSheetService` authorizes and saves; the controllers call the evictions
  after their transaction has committed.
* Hard: `join` awaits its access check twice around `socket.join`; an op waits in
  the line, authorizes, commits and announces with an `await` between each two;
  sockets drop, the process restarts, a COMMIT's answer is lost.
* Correct when: announcements leave in commit order; "saved" is true whenever it is
  said; a repeat is not applied twice; who loses the sheet is put out of its room. (Who
  loses the account itself, or the role of an administrator, is not: nothing is
  evicted then, and the socket goes on receiving until it drops.)

### Smart Sheets: service and store (`smartSheetService.js`, `smartSheetStore.js`)

* State: the sheet row (revision, status, totals), tabs, cells, layout, assignments.
* Operations: `authorize`, `applyOperation` (row lock, status and revision check,
  writes, commit), `getWorkbookState`, assign, unassign, archive, reopen, delete.
* Hard: authorization is a read before the transaction; the workbook answer reads
  the revision first and the cells later, without a lock.
* Correct when: an archived or deleted sheet is never written; the tab that receives
  the workbook can tell which changes it already contains.

### Smart Sheets: the save queue (`client/src/utils/smartSheetSync.js`, `createSaveQueue`)

* State: the queue, the change that is out, a pause, an idle timer, four counters
  (retries, rate-limited retries, transport attempts of this connection, transport
  failures of the change), the drain waiters.
* Operations: `enqueue`, `setConnected`, `revoke`, `whenDrained`, and the loop
  `run()` with its answers.
* Hard: many ways out of the loop, each of which must leave something behind that
  starts it again; counters that are reset at different points.
* Correct when: edits are sent in the order they were typed, none is dropped without
  a report, no edit waits with nothing scheduled, and giving up happens at the limit.

### Smart Sheets: the synchronisation controller and the editor (`smartSheetSession.js`, `SmartSheetEditor.jsx`)

* State: status of the controller, `running` and `rerun` flags, attempt number,
  the buffer of remote changes, what the screen shows, whether it is editable.
* Operations: `start`, `attemptLoop` (join, drain, fetch, mount, replay), `receive`,
  the socket events connect, disconnect, access-changed and access-revoked.
* Hard: every `await` of an attempt can be overtaken by a dropped connection, a
  remote change or a revocation.
* Correct when: all screens agree with the database once nothing is on its way; the
  workbook is never replaced under an unsaved edit; a tab that looks live is live;
  a tab that is not keeps trying.

### Smart Sheets: limits, validation, import and export

`smartSheetLimiter.js` is a fixed window per user; validation is pure; import and
export run a parser in a child process under a timeout. The limiter's refusals are
the environment's choice in the models (`OpRateLimited`); totals of cells and bytes
(kept by differences in `smartSheetStore.js`) are planned.

### Payments (`paymentService.js`, `platformPaymentController.js`, `razorpayService.js`)

* State: `platform.payments` with a status and the provider's order id.
* Operations: create a payment and its order, confirm from the browser, confirm from
  the webhook, manual payments, the Owner's status changes.
* Hard: the browser and the webhook confirm the same payment at the same time;
  marking paid and activating are separate statements; a failure between them.
* Correct when: one payment extends the subscription once; a paid payment has
  extended it, or the code has reported why not.

### Subscription life cycle (`subscriptionLifecycleService.js`, `platformCompanyService.js`)

* State: subscription status, trial end, subscription end, grace end and company
  status in `platform.companies`; `subscription_history`.
* Operations: the hourly sweep (trial expiry, start and end of the grace period,
  reminders), `activateSubscription`, the Owner's edit, suspension,
  `isCompanyAccessAllowed` on every login and request.
* Hard: the sweep reads all rows, then walks through them with queries and e-mails in
  between, and writes columns from what it read.
* Correct when: access ends within the grace period, a reminder is recorded once,
  nobody is expired without a grace period, and a renewal supersedes all of it.

### Tenant features (`companyFeatureService.js`, `socketFeatureGate.js`, `featureRealtimeService.js`)

* State: `company_features`; one cache entry per company with a time to live; the live
  rooms of a module; per socket a chain of checks.
* Operations: the gate of every request and socket event, the Owner's change
  (read, transaction, invalidation, notice, emptying of the rooms).
* Hard: a load that began before a change fills the cache after it was emptied; a join
  that was let in goes on after the room was emptied; two changes overlap.
* Correct when: a module that is off is refused at once, and nobody stays in its
  rooms. (The code gives a bound in time for the first and exceptions for the second.)

### ZioVault (`vaultService.js`, `vaultStore.js`; `client/src/vault/`)

* State: collections with a key version, members with a wrapped key, items with a
  wrapped key and a version, attachments, shares; in each tab the keys it has opened.
* Operations: members added, changed and removed, items created, edited, deleted and
  restored, attachments, shares, the re-key of a collection, offboarding, expiry.
* Interactions: the server cannot read what it stores; the tabs make, open and wrap the
  keys, and everybody else's row is written by the tab of the person who shares.
* Hard: a re-key is prepared in a browser for minutes; a tab wraps with keys that it
  opened earlier; the last-manager check is a count before a write.
* Correct when: whatever is in use can be opened by those entitled to it, accepted
  changes are not put back, who has left knows no present key, and a collection
  keeps a manager. (The last does not hold, the one before it for who is swept out.)

### Work items, sprints and the recycle bin (`workItemDeletionService.js`, `taskService.js`, `sprintService.js`)

* State: epics, features, user stories and tasks with parent, sprint, `deleted_at` and
  `deleted_batch_id`; sprints with a status.
* Operations: create, move below another parent, cascade into the bin, restore one or a
  batch, erase, put into a sprint, start, complete and delete a sprint.
* Hard: each operation is several queries under READ COMMITTED.
* Correct when: a subtree goes and returns together, a batch brings back what it
  took and no more, a sprint in the bin is not active and holds nothing, only the
  binned is erased. (Of these the second and the last two do not hold when requests cross.)

### Presence, calls and chat (`app.js`; `Chat.jsx`, `callService.js`)

* State: `onlineUsers`, from a person to the ids of their sockets; personal rooms; in a
  browser the phone, the local stream, the peer connection.
* Operations: connect, disconnect; dial, ring, accept, decline, end, fail, offer and
  answer; open and leave the Chat page.
* Hard: a manager's connection awaits a query before it is counted; events of a call
  wait for a query each, name people and never the call, and arrive at every tab.
* Correct when: a person is online as long as one tab is; nobody is connected with
  somebody they did not choose; both phones agree in the end and the microphone is
  closed when the call is over. (The last two do not hold.)

### Meetings (`meetingService.js`, `meetingController.js`, `app.js`, `meetingSessionManager.js`)

* State: `meetings.status` and the lock, `meeting_participants.status`, the Socket.IO
  room, in a client the session and the tiles.
* Operations: invite, join, admit, reject, remove, leave, start, end, resume, cancel,
  lock; `meeting:join`, `meeting:leave`, connections that break and return.
* Hard: REST handlers change rows and sockets in separate steps, against handlers
  that read a row and enter the room later.
* Correct when: who was removed is out and stays out (unless a join of theirs was under
  way), everybody sees who is there (a disconnect tells nobody).

### Reminders (`jobs/notificationSweep.js`)

* State: `sweepInProgress`, `nextStartCompanyId`, what a pass has read and made; the
  rows of `notifications`, which their readers may delete.
* Operations: one pass over all companies, with two caps; it asks before it writes.
* Hard: a pass may outlive its interval, fail half-way, stop at its cap, be restarted.
* Correct when: a reminder is made once (it is, until its reader deletes it), a pass is
  bounded, no company starves.

### The other components

| Component | State and operations | What is hard | Correct when |
|---|---|---|---|
| Sign-in, sessions, forced password change | tokens, session version, challenges | a change of the password racing requests with the old session | no old session acts after the change |
| Tenant provisioning and connections | databases created in steps, connection pools | a step fails after others succeeded | a company is usable or cleaned up |
| E-mail | mailboxes, bounded retries | a crash between send and record | at most, or at least, once |
| Chat | conversations, messages | little beyond order of delivery | - |
| Attendance, leave, shifts; files, SOPs, reports, demo requests, pages | dates, rows, files | little runs concurrently | - |

`PROJECT.json` names the sources of every component, the state of its modelling, and
each hazard at its line.

## 2. The modules

### `SmartSheetServer`: one live sheet on the server

A change is a model value: it writes itself into one item of the workbook (a cell, a
tab's name, a width), so an item's value is the change that wrote it last. `log`
lists the committed changes (revision k is its k-th element, as `revision` counts in
the database), `content` the items; `assignment`, `account` and `status` are what
`Access` (`resolveAccess`) reads: administrators, members by their assignment, and
accounts that are inactive.
`line` is the promise chain of the sheet: one task per op handler with its stage
(waiting, authorized, committed), and `MayRun` says that only the first one runs.
`joining` holds the join handlers between their awaits, `evicting` the evictions
whose transaction has committed and whose socket part has not run, `inbox` and
`outbox` the wire of each user, in order as Socket.IO delivers.

One action per stretch of code between two awaits: `JoinArrives`, `JoinCheck` (what the
first access query reads), `JoinEnters` (what is done with it), `JoinRecheck`,
`JoinAnswers`, `JoinFails`; `OpArrives`, `OpRateLimited`, `OpDuplicate`,
`OpAuthorize`, `OpReadOnly`, `OpNotFound`, `OpCommit`, `OpNotWritable`, `OpFails`,
`OpCommitLost`, `OpAnnounce`; `Assign`, `Unassign`, `SetStatus`, `SetAccount`, `Evict`;
`Connect`,
`Disconnect`, `Restart` and `Forget` (the dedupe map drops its oldest entries). Used
alone, the module lets clients emit anything at any time (`ClientEmits`).

Merged, because nothing that matters fits between: a refusal and the read it rests on;
the commit of an assignment and the notice of it (two notices can cross, and a tab can
then show the wrong permission until the server refuses it).

`Evict` and `Assign` emit to `userRoom(u)`, in which the sockets of managers who watch u sit
as well (`app.js:637-639`); the model reaches u only (section 6).

Every user has one tab and one socket. The presence list and the cap of five sheets
per socket are left out (one sheet is modelled).

### `SaveQueue`: the save queue of one tab

Every branch of `createSaveQueue`, with its four counters, the pause, the idle timer
and the drain waiters. `Loop` is one turn of `run()` up to its next await. The wire is
an environment: to a change that is out, any answer may come, or none.

`TabQueue` is what the comment on `createSaveQueue` promises, without answers, counters
or timers: changes leave one at a time, in the order they were typed, only while the
connection is up; the head stays until it is confirmed or reported, and nothing else is.
`Promise` at the end of `SaveQueue` is the refinement mapping (`ToldOf` says what the user
has been told of a change), `KeepsItsPromise` the property. The queues inside
`SmartSheetSync` implement the same module, which is how the two models of one piece
of code are tied together (section 4).

### `SmartSheetSync`: everybody together

Extends `SmartSheetServer` with one record per tab: where its controller stands
(`off`, `due`, `joining`, `draining`, `fetching`, `reading`, `mounting`, `live`,
`revoked`), its unsaved edits, its sender, its screen, the buffer, the revision of the
workbook it has fetched. The tab's emits are the server's inbox, its events the
outbox. The queue's counters are abstracted to one choice, `RetryOrGiveUp`: an
unanswered change is tried again or reported as lost; `SaveQueue` has the limits. What is
left of the queue is still a `TabQueue` (`EveryQueueKeepsItsPromise`).

* The server's and the tab's connect events are one step, so are the disconnects.
* socket.io-client fails the acknowledgements that are pending when a connection
  drops, so `Cut` ends whatever the tab was waiting for.
* The workbook read is two steps, `FetchRow` (access and revision) and `FetchCells`.
* The access query of that read and the read of the row are one step.
* The controlled reconnect of the queue (`requestReconnect`) is not in this module:
  with the limits the editor uses it is unreachable (section 5, `NeverReconnects`).
* A tab is not closed; presence and the spreadsheet widget itself are left out.

### `SharedSheet`: what users are promised

The abstract specification: a change that was typed is saved at most once and replaces
its item; it is confirmed only when it is saved; a change that is reported as not
saved may still turn out to be (its answer was lost).
`SmartSheetSync` implements it with `saved <- log, value <- content`
(`ImplementsSharedSheet`); the wire, the room, the line, the controller and all
buffers are steps the abstraction does not see.

### `Subscriptions`: one company, its payments and the sweep

`company` is the row, `payment` the status of each payment, `request` what each HTTP
request under way does next with the row it has read, `sweep` the same of the hourly
sweep. Days stand for timestamps. A confirmation is `ConfirmArrives`, `MarkPaid`
(the guarded UPDATE), `LoadCompany`, `Activate`, `ClearGrace`; the sweep is
`SweepReads` followed by one action per query, `ExpireTrial`, `StartGrace`,
`EndGrace`, `SweepClears`, `Remind` and `Tell`; `EditArrives` and `SaveEdit` are the
Owner's edit, `ToggleSuspended` and `SetPaymentStatus` their other operations.
`RequestFails`, `SweepFails` and `Crash` end one of them, or all, at any await.

Some variables are histories that no action reads (`told`, `activations`, `opened`
and the rest of the group declared with them); the properties use them.

Abstracted: invoice numbers, the plan, other history events, the wording of the
notifications. Confirming a payment that is already paid does nothing in the code and
is no action. Left out: creating orders, manual payments, changing plans, deletion,
and two sweeps at once (one is under way at a time; planned).

### `FeatureGate`: one module of one company

`enabled` is the row, `cache` the entry of the company, `call` what each socket's event
waits for (`checkChain` takes them one at a time; a request is a socket that never
joins), `change` what each change of the Owner's has done. A query is two moments: the
snapshot (or commit) in the database and the process hearing of it; `MaxQuery` is how
far apart they may be, `TimePasses` the clock. Times are ages that stop growing where
nothing tells them apart. `HandlerEnds` and `LeavesRoom` are the handlers of the socket
(`conversation:join` and `conversation:leave`), `SetApplied` is the emptying of the rooms. A
change may be rolled back (`SetFails`), or commit without the process hearing of it
(`SetCommitLost`): then the service throws, the cache keeps its entry and nobody
empties a room. Histories: `offFor` (how long the module has been off), `late` (who
came into the room with the module off), `unemptied` (a switch-off after which nobody
empties the rooms, because its COMMIT was not answered or its `before` did not see the
module on). `Staleness` is the bound that the code keeps: `MaxQuery + Ttl`.

### `VaultKeys`: the secret keys of one collection

A wrapper is modelled as the version of the key that opens it; 0 is no wrapper. A
tab's `task` is what it has opened and not yet sent; between the two anything may be
committed. A transaction of the server is one step and waits while another holds the
row it needs (`RowIsLocked`). `RekeyReads` takes an item's row, shares and attachments at
once, `RekeyCommit` has all the MISMATCH checks.

A membership may have a date. `Lapses` is the date passing: from then on every request
refuses the member (`Entitled`, `MayReveal`, `Manages`), the row stays. `SweepExpired` is the
hourly sweep that takes the rows away and asks for a re-key; a re-key in between seals
the new keys for the expired rows too (`Members`, `Holders`). `Offboard` is the account's
trigger, `RevokeCompanyAccess` the same from an administrator, behind SOLE_MANAGER. An item
may be edited, and files attached, by whoever has it in a share as well (`MayEdit`,
`OpensShared`).

Histories: `knows` (the newest keys each person was given as a member), `edits` (accepted
changes), `crossed` (wrappers made with a key that had been replaced). Left out: the details
keys, which follow the secret keys in every operation; `rotateItem`, which no browser
calls, and an item's own `rotation_required`, which guards nothing; dates on shares; personal
items, accounts and recovery, folders, nested grants, the audit trail, and the
cryptography itself.

### `WorkItems`: one project's items and sprints

The four tables are one function `row`, told apart by `Kind`. A request is a sequence
of queries: what one has read may change before the next writes, and the writes of a
transaction appear when it commits. `CascadeStarts`, `CascadeReads` (one level) and
`CascadeCommits` are the deletion of a subtree; `RestoreBatchReads` and `RestoreBatch`
the return of it; `PurgeChecks` and `Purge` the permanent deletion; `CreateChecks` and
`CreateInserts` a creation, `MoveChecks` and `Move` the move of a feature or a story below
another parent, read in one query and written, by id, in a later one; `AssignReads`,
`StartReads`, `CompleteReads` and `SoftDeleteSprintReads` with their second halves the
sprints. Histories: `apart` (items that came to life, or below their parent, beside a
deletion), `settled` (items that went into the bin unread by any cascade under way).
Left out: links, comments, statuses of items, boards.

### `Presence`: connections and who is online

Each tab has one connection at a time: `off`, `setup` (a manager's, while the direct
reports are looked up), `ready`, `watching` (a manager's that is in the personal rooms of
the reports), `broken` (gone while it was set up). `online` counts the sockets of
each person. `PersonalRoom(u)` are u's sockets and those of the managers who watch u.
`Disconnects` is the connection's end, `Closed` the "disconnect" handler.

### `Meetings`: one meeting

`meeting` and `part` are rows, `asking` a `POST /join` between its three queries,
`ending` the two updates of `endMeeting`, `evicting` a removal whose row is written and
whose sockets are not out. `wire` holds what a tab has sent; `MeetingJoinChecks` and
`MeetingJoins` are the two halves of `meeting:join`, which `MeetingLeaves` awaits
nothing to pass. `Says` lets a browser send a join or a leave whenever it likes, which is
what its sessions, its reconnects and its late callbacks amount to; the server has to
keep out whoever does not belong there. Histories: `banned` (who was removed or turned
down), `overtaken` (those a join of whom was under way when that was written).

Events that wait in a socket's check chain when its connection breaks still run; they
change nothing in the room (Socket.IO has taken the socket out, and puts a dead one into
none), so `LosesConnection` drops them. The emit after `endMeeting` is one more await behind the
second update (`EndReleases`); what browsers do on hearing it is covered by `Says`. Only the
host moderates. What each screen shows is left out: tiles follow the WebRTC connections as
well as the events (`meetingSessionManager.js:315-318, 542-556`); so are roles, the chat and
the media.

### `Calls`: calls between two people

The server keeps nothing about a call: an event waits for the gate and for
`verifyCallTarget` (`serving`, unordered: the events of one tab may pass each other)
and goes to the whole personal room of the other person. `active`, `popup` and `status` are
`activeCall`, `incomingCall` and `callStatus`, each written where the code writes it and
nowhere else (`StartCall` asks for the status only; a declined popup sets it to idle over
a live call). `peer` are the tabs with a peer connection and `line` is with whom it is
established. `tasks` are the handlers that wait for the microphone or for an offer to be
made: several in one tab, since a popup may be accepted twice and an accept may arrive
again. An event emitted without a connection waits in the browser for the next; `gone` marks
those whose connection has ended. `PassSignal` applies an offer or an answer to the
connection there is, or fails: a failed offer is caught and told to nobody, so both
phones stay "connecting". `n` numbers the presses to tell events apart; no handler reads
it. History: `agreed` (whom the person at a tab has dialled or accepted there).
The page is not left while one of its handlers waits. Media streams, ICE candidates,
names and the choice of audio or video are left out.

### `NotificationSweep`: the hourly reminders

`pass` is one run of `runSweepOnce`: `asleep`, `listing`, `between` companies, `asking`
for an existing notification, `writing` one; with what it has read, made, counted and
deferred. `Before` is `orderCompanies`, `Precedes` is `compareCandidates`.
`sweeping` and `startAt` are the variables of the module, `notified` the rows of the table
notifications that the duplicate check looks for: `Notifies` adds one, `DeletesReminder`,
the bin button of the bell, takes one away (`erased` is the history of those). A company
may fail anywhere (`CompanyFails`), the process may restart (`SweeperRestarts`), a tick may
find a pass under way. A task has one assignee; the candidates and "today" are read
together; deferring the rest of the companies and ending the pass are one step. The
e-mail, the vault's maintenance in the same timer, and an INSERT whose answer is
lost are left out.

### `MCSmartSheetServer`, `MCProgress` and `MCOffice`

Machines that share no state need no product: in these three instances a behaviour is about
one of them (`scene` says which, and which part of it), the others rest. Their
invariants are those of the modules, checked in every scene; in `MCProgress` each fairness
condition names the scene it is about.

## 3. What the runs check

Every property is stated with a comment in its module; every one also has a mutant in
`PROJECT.json`: a plausible bug in one definition that makes the same run fail.

| Run | Question | Bounds |
|---|---|---|
| `server` | Are announcements in order, answers true, repeats saved once? Does anybody come to linger in the room, or write, without access? For how long does a module that is off let anybody in, and who stays in its rooms? | scene `saving`: two users, one op each, of whom one loses connections, `MaxWire` 1, `MaxRevision` 2; `access`: an employee who joins twice at a time, whose account is closed in the end, an admin, one op; `gate`: one socket, one request, two changes of the Owner at once, `Ttl` 2, `MaxQuery` 1 |
| `progress` | Do queues neither stop nor overtake? The save queue settles every edit and implements `TabQueue`; a tab out of step gets back, and what is typed is settled; the reminders are bounded and no company starves | scene `queue`: two edits, limits 5/2/2/2; `tab`: one user, two ops, two faults; `reminders`: below |
| `sync_sharing` | Do two people who share a cell agree, under dropped connections, and is `SharedSheet` implemented? | ops a1, a2 of ann and b1 of bob; one drop |
| `sync_troubled` | The same when an admin assigns, unassigns, archives, deletes or changes an account, the server restarts or forgets | one op each, two faults |
| `subscriptions` | Is a payment activated once, does access end, is nobody reminded twice or expired early? | one payment, two requests, three days, one failure, one Owner's change |
| `office` | The rest, one scene each: keys of the vault, subtrees and sprints, removal from a meeting, who is online, who hears whom in a call | below |
| `sync_slow_answer`, `sync_saved_once`, `sync_first_load`, `subscriptions_renewal` | Four statements of the repository that the code does not keep (section 6) | one fault or none |
| `work_purge`, `reminders_deleted` | Two more | those of `office` and of `progress` |

Bounds and why they are enough:

* `MaxWire` is how many messages one direction of a wire holds when a client emits
  more; the server's own emits are not limited. The hazards are races of two handlers,
  and a second message enters as soon as the first is handled.
* `MaxRevision` caps how often changes are committed. Two committed changes tell
  commit order from announcement order; the composed runs leave room for repeats.
* `Joins` and `Attempts` number the joins and emits in flight, so that a late answer
  can be told from the one that is awaited. `Rejoin` is the queue's own join; one of
  those is under way at a time.
* `MaxFaults` counts what goes wrong. Every race in the hazards list needs at most two
  (a drop while another drop is being repaired; a restart and a revocation).
* Two users and one shared cell are the smallest instance in which last-write-wins has
  a loser; the author's two edits make order observable.
* In `Subscriptions`, `Horizon` 3 with a trial of one day, a term of two and a grace
  period of one lets a company be tried, paid, renewed, graced and expired.
  `Windows` is one warning day. One Owner's change and one failure are counted, two
  requests run at once; they are interchangeable, which the symmetry uses.
* `gate`: with `Ttl` 2 and `MaxQuery` 1 an entry can be fresh, one step from its end and
  expired while a load that is older than the change is still under way; a second
  change of the Owner's overlaps the first.
* `server`, `access`: the account is closed once and last, on an active sheet with no
  eviction due: before or after anything else ann may be doing, which is all that tells
  the other actions from it.
* `progress`, `queue`: five failures as in the program, and the two delays of the
  repository's own test of giving up (H4 in `_test_smart_sheets_resilience.js`). With the
  program's four the branch of the controlled reconnect would not be run at all
  (section 5). Two retries stand for its three, and for twenty of a rate-limited change.
* `progress`, `reminders`: two companies with two tasks each, days 0 to 2, a window of
  one day, two passes at a time, caps 2 and 2, so that one company's backlog spends the
  cap; at most two interruptions (restart, day, edit, company switched, company
  failed, reminder deleted).
* `office`, vault: two people, one item, one attachment, `MaxKey` 2 (one re-key),
  `MaxVersion` 3; three changes of the membership alone, an expiry and a sweep counted
  (`members`), two with an item to read (`people`), one with everything an editor does
  (`contents`). Each hazard is one re-key against one other task.
* `office`, work: a feature, its story and its task, one sprint, two requests,
  `MaxBatch` 2; the cascade has two levels to read, and a second request (another
  cascade, a restore, a creation, a move) at each await.
* `office`, meetings: at most four moves (events sent, rows changed, connections lost)
  and `MaxWire` 2, which holds an invitation, a join, a removal, and the return of
  the removed on either of two tabs. No connection breaks there while it is being set
  up; that is in `tabs`.
* `office`, `tabs` and `calls`: a person with two tabs (`ann`), one with one, a manager
  (`host`) who may watch ann; `MaxStuck` 1. In `calls` three buttons are pressed, or two and
  one mishap (an event dropped, the page left, a connection lost), after everybody has
  connected: a call dialled and accepted twice, two calls that cross, and a third
  person's call into either.

What goes wrong in which run. `sync_sharing` and `sync_troubled` drop connections
after the first load of a tab (before it, see `sync_first_load`), give up no join, take every item
to be a cell (renames and widths have no guard for pending edits, see section 6),
answer before the acknowledgement timeout on a connection that stands
(`sync_slow_answer`), and do not lose the answer of a COMMIT. Failing join
queries, rate limits and failing saves are in `progress` and in the server's own
run, which also has the lost COMMIT. `Converged` excepts a change that its author
has been told was not saved: it stays on their screen until they reload, as the
banner says.

`LiveIsInStep` is checked in `sync_troubled`, whose faults include those of
`sync_sharing`. Of the type invariants a run checks one, `SyncTypeOK`; TLC confirmed the
others on these instances and TLAPS proves all of them.

All configurations but `Server.cfg` switch deadlock checking off: with nothing typed and
everything delivered a sheet is at rest, a queue that is empty or revoked waits for
nobody, time ends at `Horizon`, and the scenes end when their moves are spent.

### Fairness

Only `progress` assumes any, for the actions of the scene that is played.

* `queue`: weak fairness of the acknowledgement timeout, the pause, the idle timer
  and the rejoin's answer, each of which is a JavaScript timer or an emit with a
  timeout, and of the reconnect, which socket.io-client repeats for ever.
  Nothing is assumed of the server: `EverySettles` holds if it does not answer
  NOT_JOINED for ever, a repeat the code does not count.
* `tab`: weak fairness of the server's handlers (`ServerProgress`), of each tab's
  own steps (`TabProgress`) and of its reconnect (`TabConnects`). Failures stop at
  `MaxFaults`; a tab cannot get back in step with a server that never answers.

## 4. What is proved

TLAPS proves these for every set of users, changes, items and payments and every value
of the limits, from the assumptions named in the modules (shape of the constants, finiteness
of some); `NeverReconnects` also compares two limits.

`SmartSheetServerProofs`: `TypeCorrect`, `AnnouncementsInOrder`, `AnswersAreTrue`,
`SavedOnlyOnce` and the action properties `NobodyStays` and `ArchivedStays`. The saving ones are not
inductive alone: `ServerInv` adds two conjuncts to the invariants that are checked:
`HeadOnly`, that only the first task of the line has started and the op it is saving
is not remembered, and `Remembered`, that an op in the log is remembered, forgotten, or
that of the committed task at the head. From them a repeat either finds its
acknowledgement or was forgotten, and the revision of a committed task is still the
last one when it is announced. `NobodyLingers` is about a step and needs the types only:
a join that enters on what it has read always looks again, and whatever takes access
away leaves an eviction due, except the change of an account, which the property
names.

The same module proves of `FeatureGate` `GateTypeCorrect`, `SwitchingOffWorks` (the bound
of `Ttl` and one query, an action property) and `RoomsEmpty`. `AnswersAge` says that a load that found
the module on is at least as old as the switch-off, and an entry that says so at most
one query younger, so that both run out in time, also when a COMMIT is not answered and
nobody drops the entry;
`SomebodyWillEmpty` that whoever is in the room of a module that is off came late or
has a committed change still to empty it, unless the last switch-off is `unemptied`.

`SmartSheetSyncProofs` is about everybody together.

* `SyncTypeCorrect`: `SyncInv` is the server's `ServerInv` with `TabsInv`: a queue that
  waits for an answer has something in it, and what a tab holds back for its mount is in
  the log at the revision the message gives.
* `EditsAreKept`: nothing is fetched or mounted over an unsaved edit. That is inductive
  with `SyncInv`: the drain ends with an empty queue, the editor is closed until the
  mount, and a queue given up or revoked leaves the phases of the load.
* `SavedInOrder`: `OrderInv` adds that the queue is the end of what was typed
  (`QueueIsEnd`), that everything before it is settled (`DoneIsSettled`), and that
  what is in flight, in an inbox, in the line or in the log, is the queue's head or settled
  (`NoneOvertakes`).
* `SheetIsShared`: `SyncSpec /\ []NothingForgotten => ImplementsSharedSheet`. The step
  that extends the log maps to a save, everything else to a typing, a report or a
  stutter; that a save happens once is where nothing may be forgotten. The hypothesis is
  what `sync_saved_once` shows to be necessary.
* `WhatIsSaidStands`: the half of that promise that needs no hypothesis. Also when an opId
  was forgotten and a repeat is applied twice, "saved" is said only of what is in the log
  (`SaidIsSaved`), and no report is ever revised (`WordsStand`). `SavedOnceIfRemembered` is
  the other half alone: `SyncSpec /\ []NothingForgotten => []SavedOnce`.
* `EveryQueueKeepsItsPromise`: for every user `u`, `SyncSpec => Queue(u)!TabQueueSpec`, under
  all the faults of the model. A step that moves only the flags of one queue is a `Send`,
  `LetGo`, `PutOff`, `Resume`, `ComesOnline` or `GoesOffline` (`FlagsMove`); one that
  settles a change tells it to the head's author and to nobody else (`HeadIsTold`, from
  `HeadIsNext` of `OrderInv`); the other queues do not move (`OneQueueMoves`). A restart
  moves all of them at once, each in its own way.
* `LiveIsConnected`: `CarefulSpec => []LiveIsInStep`. `CarefulSpec` is the specification
  without three steps: the tab gives up no join and no join fails at its second query (with
  both the invariant fails as section 6 tells), and no connection drops between the first join and
  the first mount (`sync_first_load`). Everything else may go
  wrong: failing queries, restarts, revocations, lost commits, changes given up.
  `StepInv` says where the one join of an attempt is, request, handler or answer
  (`OneJoin`), that who has joined is in the room or is about to hear why not (`Placed`),
  that a refusal for not being in the room comes after that news (`Warned`), and
  that a tab past its join is connected or will begin again (`Phased`). `sync_troubled`
  checks `LiveIsInStep` under the same restrictions.
* `EverybodySeesTheSame`: `CellItems = Items` gives `PromptSpec => []Converged`, the
  last-write-wins rule for any users, cells and changes. `PromptSpec` is `CarefulSpec` without
  two more steps, `AckTimeout` (`sync_slow_answer` is the counterexample) and
  `OpCommitLost` (a saved change that nobody is told of). Drops, restarts, evictions,
  refusals, failing loads and saves, repeats, forgotten opIds and changes given up
  may all happen; they are what the runs have, without a bound on how often.

  `Converged` speaks of a moment when nothing is on its way, so the invariant,
  `ScreensInv`, has to say what a screen shows while something is. It rests on the four
  invariants above and has three parts for each tab.
  `Wired` is the wire: a tab has one request out at most, for the head of its queue
  (`OneRequest`), announcements leave in the order of their revisions (`InOrder`), and from
  the first one a tab hears of on it hears of all (`NoGap`).
  `Loads`: all revisions newer than the one that was fetched are held back or still to
  come (`NewerIsHeld`), and a cell that was read differs from the database only
  if such a revision wrote it (`CellsAreRead`); so a mount and what follows it miss nothing.
  `Lives`: a live tab shows its own newest unsaved edit of a cell (`ShowsOwn`); such an edit is
  not in the log unless its answer is about to come (`NoneIsOld`: this is what
  a timeout breaks), and what comes after that answer is newer (`AckInOrder`), so that the
  announcements skipped meanwhile were older; every other cell shows what is stored,
  its author's lost edit, or is about to be told of (`Shows`).
  A step that concerns another tab is `Calm`, and calm steps keep all of it (`CalmStep`).

`SaveQueueProofs`: `QueueTypeCorrect`, `NothingTypedIsLost`, `NeverStuck` and
`NeverReconnects`. `QueueInv` adds to the checked invariants that
whoever awaits an answer or a delay does so for the head of the queue, that a change is
typed once, and that what was tried on this connection is among all that was tried; a
queue at rest with edits in it then always has its timer. `NeverReconnects` says that the transport
failures of a change cannot exhaust the delays of one connection and stay below the
limit at once when there are `MaxFailures - 1` delays or more: the editor's four
delays and five failures are exactly that.

`QueueKeepsItsPromise`, in the same module, is `QueueSpec => KeepsItsPromise`. Its leaves
follow the code: what a turn of the loop makes of a queue (`LoopMaySend`, `RunMaySend`), what
settles the head (`SettleIsTelling`, which needs `HeadIsPending`: a change is told
once), what puts it off (`RetryIsWaiting`, `UnansweredIsPromised`), and one lemma for the
answers (`AnswerIsPromised`). With `EveryQueueKeepsItsPromise` it says that what
`SmartSheetSync` leaves out of `createSaveQueue` - four counters, the idle timer, the
controlled reconnect - decides when and how often a change is sent, never what
may be sent or said.

`SubscriptionsProofs`: `PaymentsActivateOnce`, `PaidMeansActivated`, `AccessEnds`,
from `SubscriptionsInv`, the conjunction of `Shape` (types), `Aimed` (a confirmation is
about a payment, a save about an edit), `Granted` (no date in the row, or in the row the
sweep has read, lies beyond the last day that a trial, a term or the Owner granted),
`Accounted` (activations, requests still to activate and a payment still pending add up
to no more than the times it was opened) and `PaidIsActivated`. `ToldOnce` and
`SubscriptionsTypeCorrect` add `Recorded`: whoever has been told is in the history, and
a sweep about to tell has just written it there. `GraceIsGiven` is the action property
`EndedOnlyAfterGrace`. It needs `OwnGrace`: as long as no clean-up is due or was lost
and nobody wrote from an old row, a grace date in an active company's row is
counted from its own end. `RenewalsStandUnlessStale` is `[](~blurred => RenewalStands)`: the
end of the row is what has been paid for (`PaidIsTheEnd`) until somebody writes
from an old row.

`VaultKeysProofs`: `VaultTypeCorrect`, `NobodyStranded`, `ChangesStay`, `OutsidersLockedOut`,
all from `VaultInv`, for any finite staff and any items. It adds to the checked invariants
`TasksAreOld` (what a tab has read of an item is its past, and its present if the
version has not moved: this is what `expectedVersion` and the MISMATCH checks rest on),
`Wrapped` (`StrandedOnlyByCrossing` strengthened to what hangs on deleted items, which a
re-key passes over and a restore brings back), `KeysFollow` (nobody knows a key that is
ahead of the rows, so a new key is new to everybody) and `UpdatesHold` (a change of a
member that has read its row holds it until it writes). `OutsidersLockedOut` is about
people without a row that reveals: an expired membership keeps its row, and its keys,
until the hourly sweep.

`PresenceProofs`: `PresenceTypeCorrect` and `PresenceIsTrue`, from `Counted`: the count of
a person is the number of their working tabs, of those whose handler has not run, and of
the connections that broke while they were set up and have been counted. Since every step
of `Calls` is a step of `Presence` or leaves it alone, `CalledIfConnected` follows: whoever is
called offline has no tab that works. `CallsTypeCorrect`, and `CallsAreHeardByChoice` from
`CallsByChoice`: a tab is in a call, or about to accept one, only with whom its person
dialled or accepted there. The proof goes through although accepts, offers and ends
are believed from anybody, because the two handlers that establish a connection ask who
the signal is from.

Of `Meetings` the module proves `MeetingTypeCorrect` and `RemovedNeverReturn`. Its
invariant, `Out`, says of somebody removed or turned down beside no join of theirs that the row
still says so, that no POST /join of theirs has seen another one (`RowsKeep`), that no
"meeting:join" of theirs is let in, and that no tab of theirs is in the room once put out.

`WorkItemsProofs`: `WorkTypeCorrect`, `BatchesAreHonest`, `SubtreesGoTogether`.
`WorkInv` adds `KindsFit` (a parent is of the kind above, also one that a request is about to
write, so that the levels of a cascade end), `CascadeCovers` (what a cascade has read so
far holds every live child of what it has read, but those that came to life, or below
it, since) and `SettledUnread` (what is settled in the bin has been read by no cascade under
way). `StepFacts` says what one step may do to parents, batches and requests.
`PurgesAreSafe` is `WorkSpec /\ [][NotRestored]_workVars => PurgeOnlyWhatIsBinned`: what a
permanent delete has checked stays in the bin or is erased (`PurgeHolds`) unless it
is restored before the DELETE; `StatesStep` says which way the state of a row can go.

`NotificationSweepProofs`: `SweepTypeCorrect`, `RemindersBounded`, `EverybodyGetsATurn`,
`RemindedOnceUnlessDeleted`.
`OneAtATime` says that at most one pass is awake, and only with `sweeping` set; `Budgeted`
that what it has made and what it may still make stay within the caps; `Fresh` that
a reminder about to be written has no row; `Forward` and `Nearer` that a company
that was put off has fewer companies ahead of it in the order of the next pass. The
turns need `MaxPerTenant <= MaxPerRun` (`CapsLeaveRoom`), as the defaults are.

Only model-checked: all liveness (`EverySettles`, `KeepsTrying`, `TypedIsSettled`),
which needs fairness and ENABLED. Every safety invariant and action property of the
passing runs is stated by a theorem. `TabQueue` promises nothing about liveness: that a change settles in the
end is `EverySettles` of `SaveQueue` and `TypedIsSettled` of `SmartSheetSync`.

## 5. A consequence worth knowing: the controlled reconnect

`SMART_SHEETS.md:74-75` says that after repeated unanswered sends the queue asks for a
controlled reconnect. The code does not keep that: with the limits the editor runs with
(five failures, four delays, `smartSheetSync.js:478-479`) the fifth failure gives the change
up before the fourth delay of one connection has been used, so `requestReconnect` is never
reached. `NeverReconnects` proves it for every such pair of limits. No property of a run
claims the opposite. The scene `queue` of `progress` has two delays, those of the
repository's own test, so that the code behind that branch is run and its order and
progress checked; for the program's limits the branch is dead and the rest is the same.

## 6. Where the code and its documentation disagree

Six runs end in a counterexample; `PROJECT.json` quotes the lines. For each there is a
theorem that says what is missing, by proving the same property without it:
`EverybodySeesTheSame` (no answer after its timeout) for 1, `SavedOnceIfRemembered` (no
opId forgotten) for 2, `LiveIsConnected` (no drop during the first load) for 3,
`RenewalsStandUnlessStale` (nobody writes from an old row) for 4, `PurgesAreSafe` (nothing
restored between check and DELETE) for 5 and `RemindedOnceUnlessDeleted` (no reminder
deleted) for 6.

1. `sync_slow_answer`: a screen can keep a value the database does not hold. A change
   that was saved but whose answer takes longer than the timeout is still pending when
   a newer change of the same cell arrives, which is therefore skipped for good.
2. `sync_saved_once`: after a restart of the server a repeat is applied again, over
   what somebody else has written in between. The dedupe map lives in memory.
3. `sync_first_load`: a connection that drops and returns between a tab's first join
   and its first mount leaves the tab looking live, outside the room, with a queue
   that does not send.
4. `subscriptions_renewal`: the sweep expires a company from a row it read before the
   renewal, and puts the old end date back.
5. `work_purge`: an item that is restored between the check that it is in the bin and the
   DELETE is live and is erased.
6. `reminders_deleted`: the check that makes a reminder once looks for its row, which its
   reader may delete from the bell; the next pass writes it again, every hour if need be.

Without a run of their own (those a model has as steps are marked *; the property of that
module excepts exactly them):

* Smart Sheets, access. * Whoever loses the account (deactivated, or an administrator
  demoted) while the sheet is open stays in the room and goes on receiving changes
  until the socket drops: nothing is evicted then, as `SMART_SHEETS.md:124-125` says.
  `NobodyLingers` names it. An eviction and a change of permission go to the personal room
  of the person, where the managers who watch that person sit (`app.js:637-639`): a manager
  who has the same sheet open is put out of it as well.
* Smart Sheets, the rest. The controlled reconnect of `SMART_SHEETS.md:74-75` (section 5).
  Renames and layout changes of two people cross without the guard that
  cells have; a permission change can be overtaken by the workbook answer that holds
  the older one; * when a tab gives up a join whose answer is late and joins again, the
  handler of the first may still fail at its second access query and take the socket out
  of the room the second has put it in (`smartSheetRealtime.js:193`), and the tab goes
  on as live and hears of nobody else's change until it sends one of its own; * a change
  authorized before an unassign is saved
  after it, although `smartSheetService.js:21-24` says otherwise; * a leave that arrives
  while its join awaits finds nothing to leave, and the socket enters afterwards; two
  joins of one socket pass the five-sheet cap together; * a COMMIT whose answer is lost
  and whose author gives up is not announced; the totals of cells and bytes are kept
  by differences; the limiter's window lets twice the limit through around its boundary.
* Payments and subscriptions. Two requests can create two provider orders for one
  payment; * `updatePaymentStatus` is guarded by a read, not by the write; `setInterval`
  does not wait for a sweep that takes longer than an hour; * a trial that has just been
  paid for can be expired in the same way as in 4.
* Modules of a company. `TENANT_FEATURES.md:67-68`, `companyFeatureService.js:13-15` and
  `featureRealtimeService.js:7` promise that a change applies to the very next request.
  * A load that began before the change puts its old answer into the cache after the
  entry was dropped (`companyFeatureService.js:42-43`), and is believed for its time to live.
  * If the COMMIT takes effect and its answer is lost, the service throws before it drops the
  entry (`companyFeatureService.js:73`). `OffTakesEffect` is the bound that is left: one
  query and one time to live. "Every socket is removed" (`featureRealtimeService.js:12-13`)
  has three exceptions, which `RoomsAreEmptied` names: * a join that was let in before and
  enters after the emptying, * two changes that overlap, of which the second has read
  `before` with the module off, and * the lost answer of a COMMIT.
* ZioVault. * `ZIOVAULT_ARCHITECTURE.md:243` says that a collection cannot lose its last
  manager. Two managers who demote each other at once (the count is read before either
  writes), the account that is deactivated, and the membership that expires each leave it
  without one; `countManagers` (`vaultStore.js:356`), which SOLE_MANAGER rests on, counts
  expired managers too. No property claims it. * The sweep is "never needed for
  correctness" (`vaultService.js:1035`), and nothing depends on a timer
  (`ZIOVAULT_ARCHITECTURE.md:250`): for reading, that is so; but a collection asks to be
  re-keyed only when the sweep has run, and a re-key before that seals the new keys for the
  expired row too. `OutsidersHoldNoCurrentKey` therefore speaks of rows. * A tab wraps with
  the keys it opened earlier: a file, a share, a member or an item that crosses a re-key
  cannot be opened afterwards. The next re-key mends a member or a share; an item or
  a file of this kind stops it until it is deleted. `StrandedOnlyByCrossing` names it.
* Work items. * An item created, restored or moved (`updateFeature`, `updateUserStory`) below
  a parent between a cascade's query and its UPDATE stays live below a parent in the
  bin, against the header of `workItemDeletionService.js` (`NobodyIsLeftBehind`). * An item deleted
  by itself in that window is stamped by the cascade, which asks for ids only, and comes
  back with "Restore All" (`BatchTakesOnlyTheLiving` is about what was not read). * "An ACTIVE
  sprint cannot be deleted at all" (`workItemDeletionService.js:65-71`): a start that crosses
  the deletion makes one, and `uq_one_active_sprint_per_project`, which counts it, then
  keeps every other sprint of the project from starting; * items that are put into a
  sprint meanwhile stay in it, in the bin. A property that holds would have to except
  exactly these, so there is none.
* Presence. * A manager's connection that breaks while the reports are looked up is counted
  for ever (`stuck`). * A manager who watches a report is in that report's personal room
  for everything sent to it: the manager's tab rings for the report's calls and
  hears when they end, and is thrown out of a meeting when the report is removed.
* Calls. * The server believes "accepted", "rejected" and "ended" from anybody who may call
  the person, and a phone from anybody at all: a third person who dials somebody busy
  and hangs up ends that call on one side. * A call may be started over a live one, whose
  status a declined popup has set to idle (`Chat.jsx:1149-1154, 1339-1374`). * An offer that
  fails is caught and told to nobody, and both phones say "connecting" for good
  (`Chat.jsx:1933-1942`). * "Ringing" is confirmed though nobody has the Chat page open; two
  Chat tabs of one person both ring, and the second keeps ringing. So the two phones of
  a call need not come to agree, and no property says so. The microphone stays on
  when permission comes after the call is over, when the page is left in a call, and
  when a second `getUserMedia` overwrites the stream of the first (`callService.js:210-251`),
  which nobody stops then.
* Meetings. * A `POST /join` that has read its row writes "joined" over a removal
  (`meetingService.js:384-426`), and a "meeting:join" that was let in enters after the
  eviction: whoever was removed is back, although the row is asked for "itself"
  (`app.js:1359-1361`) and the sockets are put out (`meetingController.js:66-82`).
  `RemovedStayOut` is about those no join of whom was under way. * Somebody in the waiting
  room who asks to join a second time is joined without anybody having decided
  (`meetingService.js:410`, `CreateMeetingModal.jsx:338-339`). "This just tells the other
  participants" (`app.js:1798-1805`): on a disconnect the rooms have been left already, so
  it tells nobody. A person with two tabs in a meeting vanishes from everybody's screen
  when one of them leaves; a leave awaits nothing and passes a join of the same tab.
* Reminders. A `NOTIFICATION_SWEEP_MAX_PER_TENANT` without limit, or above
  `NOTIFICATION_SWEEP_MAX_PER_RUN`, lets one company with a backlog that grows keep the
  later ones waiting (`CapsLeaveRoom`).

## 7. Plan

Order: the parts where a wrong interleaving loses or reveals data come first.

1. Done: `SmartSheetServer`, `SaveQueue` with `TabQueue`, `SmartSheetSync` with `SharedSheet`,
   `Subscriptions`, `FeatureGate`, `VaultKeys`, `WorkItems`, `Presence`, `Meetings`,
   `Calls`, `NotificationSweep`.
2. Proofs. Done: all safety properties that the runs check, and that the queue of
   `SaveQueue` and those of `SmartSheetSync` implement `TabQueue`.
3. Models: the room of a meeting as its browsers show it, with the WebRTC connections;
   media streams of calls; managers in the personal rooms of `SmartSheetServer`; personal
   items and accounts of the vault; totals and the limiter of Smart Sheets; orders, manual
   payments and overlapping sweeps; sessions and the forced password change;
   provisioning; e-mail and mailboxes; chat.

### Not modelled, and why

The modules stand for a few thousand of the repository's lines. Most of the others are pages
(`client/src/pages`, more than half of the code) and controllers whose handlers are one
query between validation and an answer: attendance, leave, shifts, employees, files,
SOPs, reports, demo requests. Their state is a row that the last writer wins; no two of
their steps interleave in a way that a model would tell from a test. Import and export
are pure functions run in a child process. Cryptography, WebRTC, the spreadsheet widget
and the e-mail transport are libraries; the models take from them what the code takes.

## 8. Running

`tlc -config Server.cfg MCSmartSheetServer` and so on for every pair of module and
configuration that `PROJECT.json` lists; `tlapm SaveQueueProofs.tla` for a proof module.
