# Backplane: a verification project

TLA+ models of the parts of Backplane in which several parties change the same
state: runners that compete for cards, backend replicas that drain one merge
queue, a daemon on a developer's machine that must hand observations to the
server without losing or repeating them, a browser tab that keeps its copy of a
board true over a connection that comes and goes, and a device, a desktop
application and signed-in people who connect that device by a code. Each model
is checked by TLC on small instances, and every invariant and action property a
passing run checks is also proved with TLAPS for every instance.

Contents: [the system](#the-system), [inventory](#inventory),
[modules and code](#modules-and-code), [runs](#runs), [findings](#findings),
[proofs](#proofs), [what is only model-checked](#what-is-only-model-checked),
[what is not modelled](#what-is-not-modelled), [plan](#plan).

## The system

Backplane is a self-hosted workspace for a team and its coding agents.

| Part | Where | What it is |
| --- | --- | --- |
| backend | `src/backend/app` | FastAPI over Postgres, usually several replicas; owns boards, cards, agents, executions, reservations, the merge queue and captured sessions |
| runner | `src/runner` | a Go process per agent: polls for a card, claims it, sets a workspace up, lets a language model work, reports |
| companion | `src/companion` | a Go daemon and hooks on a developer's machine that capture sessions and upload them |
| MCP server | `src/mcp-server` | translates tool calls of an agent into requests to the backend |
| frontend | `src/frontend` | a React application: query caches kept true by one WebSocket per workspace |
| desktop | `src/companion/desktop` | the companion's window and menu, which talk to the daemon |

They interact by requests (runner, companion and MCP server to backend), by the
shared database (replicas among each other), by an event bus within a replica
with Postgres NOTIFY between replicas, by a WebSocket per open workspace
(backend to tab), by a local control interface (desktop to daemon), and by
directories on disk (hooks to daemon). Every request is one transaction; nothing spans two.

## Inventory

For each part that carries a protocol: its state, its operations, what is hard
about it and what makes it correct. `PROJECT.json` lists all components, with
the reason where one is not modelled, and the hazards with their lines.

**Assignment scheduler and runner tick** (`services/scheduling/assignment_service.py`,
`services/agents/execution.py`, `runner/internal/workloop`). State: cards
(column, hero, labels, `pr_url`), `agent_reservations`, `agent_executions`; in
the runner, the position in its tick and its deadlines. Operations: poll with
its busy guard, reapers, re-issue, sweep, scan and insert; claim; start, plain or
bound to a hold; close; suspend; fail. Hard: a poll reads before it writes,
holds and presence run out on clocks while work goes on, failure handling is a
row of best-effort requests, stages are edited under a running tick, runners die
anywhere. Correct means: one hold per card, nobody works on a card another runner
is working on, nobody's hero is removed while they work, a hold starts at most
one execution, failed attempts are bounded, and what a dead runner leaves behind
goes away.

**Merge queue, executor and landing** (`services/merge_queue.py`,
`services/merge_executor.py`, `services/conflict_consolidator.py`,
`services/kanban/reconciler.py`). State: one row per card in
`merge_queue_entries`, the workspace lock, the transaction of each replica's
tick, the forge. Operations: enqueue, re-enqueue, cancel, tick, merged event,
GitHub poll. Hard: the forge is outside the transaction, a tick is long, may hang
on a command and can be rolled back after a merge, events are handled before the commit, several
replicas tick. Correct means: merges of a branch are serial, rows agree with the
forge, nobody starves, a merged pull request's card reaches done.

**Companion delivery** (`companion/internal/queue`, `inbox`, `daemon`). State:
inbox files, queue files, ledger (acknowledged ids, recent ids, isolation,
backoff), server receipts. Operations: hook writes, drain, upload, settle,
reclaim. Hard: a crash between any two effects on the disk, lost or partial
answers, a 422 that does not name the bad record, everything bounded. Correct
means: nothing published is lost, nothing known to be settled is sent again, one
bad record does not wedge the rest, everything is delivered in the end.

**Approvals** (`services/approvals`): a pending row, decided by a person; the
runner parks on it. Hard: two deciders, expiry, resume after a crash. Correct
means: decided once, and the effect and the decision are one transaction.

**Completion policy** (`services/completion*.py`): candidates with evidence for
an exact source revision. Hard: evidence that is stale when it is used. Correct
means: done only with acceptance of the revision that landed.

**Live connection** (`services/events`, `routers/events.py`,
`frontend/src/lib/websocket.ts`, `providers/WebSocketProvider.tsx`). State: in
the tab the socket in use, the handlers per pattern, the reconnect timer and the
refused patterns; on the server a connection's patterns, its bounded backlog and
its closer. Operations: connect, subscribe, unsubscribe, disconnect, the socket's
callbacks; accept, subscribe frame, publish, send, close. Hard: every frame
replaces the whole pattern set, authority changes between queueing and sending,
a socket breaks or stalls anywhere, callbacks of replaced sockets come late.
Correct means: what the hooks want is what the server listens for, events come
once and in order without gaps while the connection holds, and it comes back.

**Board view** (`frontend/src/features/kanban`, `hooks/useDomainSync.ts`,
`services/activity.py`). State: the cached board, the query's fetch and its
invalidation, debounce timers, single-card reads in flight, own mutations with
the board they remember. Operations: event, read, merge, refetch, optimistic
create, update, move and delete with their success and failure. Hard: events are
published before their commit, each twice, a move's event does not carry the place
it moved to, answers in flight overwrite patches, a rollback restores an old board,
events are missed while disconnected. Correct
means: no card twice, no temporary card left over, and a board that is the
server's when everything has settled.

**Companion pairing** (`services/companion_pairing.py`,
`companion/internal/pairing`, `companion/cmd/backplane-companion`,
`companion/desktop/src/screens/onboarding`). State: a row per code; in the daemon
the current pairing, its poller and the stored installation; in the desktop the
code shown and the attempt each call belongs to. Operations: start, poll, look
up, approve, deny, collect; supersede, cancel, store, revoke; navigate, resume.
Hard: requests act on rows they read before, the token exists in one answer
only, a newer start supersedes an older one that may be storing its grant, every
revocation is one best-effort request, the user moves on while calls are out. Correct means: one installation per approval,
of the approver; a cancelled code never connects; no code that can be approved
is out of sight; the connection that is stored works and the younger of two wins;
no installation is active that nobody holds.

**Deferred events** (`services/committed_events.py`, `core/event_bus.py`): events
held per savepoint until the commit, dispatched in order with a timeout. Correct
means: no event of a rolled back write, order per workspace.

**Captured bodies** (`services/session_content_upload.py`): chunks staged
outside the transaction, finalize, expiry, purge. Correct means: an available
body is the declared one, nothing outlives its session.

**Dependencies, cost breaker, rate limits**: a graph that must stay acyclic, and
two counters over windows of time.

## Modules and code

| Module | Models | Checked through |
| --- | --- | --- |
| `CaptureQueue` | the companion's delivery path and the server's answers | `MCCaptureQueue`, `CaptureQueueProofs` |
| `Scheduler` | assignment, reservations, executions and the runner's tick | `MCScheduler`, `SchedulerProofs` |
| `MergeQueue` | the merge queue, its worker, the executor, landing of cards | `MCMergeQueue`, `MergeQueueProofs` |
| `EventChannel` | what the live connection promises one listening view (abstract) | `LiveSocket`, `BoardCache` |
| `LiveSocket` | the tab's WebSocket service and the server's connection manager | `MCLiveSocket`, `LiveSocketProofs`, `LiveChannelProofs` |
| `BoardCache` | one open board, over an `EventChannel` | `MCBoardCache`, `BoardCacheProofs` |
| `PairingCode` | the life of a pairing code (abstract) | `PairingCodes`, `DevicePairing` |
| `PairingCodes` | the server's side of pairing | `MCPairingCodes`, `PairingCodesProofs` |
| `DevicePairing` | the daemon and the desktop, over `PairingCode` | `MCDevicePairing`, `DevicePairingProofs` |

Two abstract specifications tie the modules together. `LiveSocket` implements
`EventChannel` and `PairingCodes` implements `PairingCode` (refinement mappings
at the end of each module). `BoardCache` and `DevicePairing` then take the
abstract one as the component they run over (`INSTANCE`), so what they show rests
on what was shown of the detailed one.

A definition named "Mutant of X" in a comment is not part of a model: it is a
plausible mistake in X, and TLC refutes a property when X is replaced by it
(`mutants` in `PROJECT.json`). The `map` there gives the lines of every
definition.

### CaptureQueue

An item is an observation; its capture id is a hash of its inbox name, so items
and ids are one set. `inbox`, `place` (queue files in upload order), `settled`,
`recent`, `isolate`, `failures`, `waiting` and `revoked` are on disk and survive
`Crash`; `pc`, `todo`, `cur`, `batch`, `skip`, `reply`, `flush` belong to the
tick loop and do not. `stored` is the server. `published`, `dropped` and
`refused` are history. Every write to the disk is a step of its own: `Enqueue`
and `Remove`, `SaveOutcome` (the one rename that saves the ledger), `Unlink` per
file, `ClearSettled`. A batch is chosen by `NextBatch`, sent, answered by one of
`IngestAnswered` (any part of the batch accepted or rejected, the answer
delivered or not), `IngestUnprocessable` (a 422, for a batch with a poisonous
record), `IngestTooLarge` (a 413, for any batch, which the daemon treats alike),
`IngestFailed`, `IngestRevoked`.

Abstractions: the wall clock is monotone, so queue names are places; the content
of a record is only whether it makes the server answer 422; a queue file that can
no longer be read, which `Next` skips (`queue.go:295`), is left out.

### Scheduler

`card`, `holds`, `execs` are the three tables, `runner[a]` the process of agent
`a`. A poll is two kinds of steps, as in the code: the reads (`PollRefused`,
`PollReissue`, `PollScan`, with the zombie reaper, the strand reaper and the
sweep of expired holds that come with them) and then one decision per candidate
(`OfferParks`, `OfferSkips`, `OfferReserves`, the last guarded by the unique
index on the card). Then `ClaimHero`/`ClaimHelper`/`ClaimRefused`; `Start`, with
the answer lost in `StartUnanswered`, replayed in `StartReplayed` or refused;
`StartWork`; and the ways a tick ends: `Ship`, `NoCommit`, `Suspend`, `Approve`,
`RequestChanges`, `Release`, `TickFails`. `FailTick` is `failWithConfig`: the
execution is closed and the participant removed, and the card stays, is sent to
the stage's target column, or, at the failure threshold, is labelled and sent to
the blocked column (`Bounced`); each request may be lost. `Release` is what the
runner does when the server refuses a stage's call because the stage was edited:
the execution is aborted, which keeps the hold, and then the participant is
removed. `RolesOf` says which stages an agent's runner polls for. `Crash` is
possible anywhere. `Unblock`, `Drag`,
`EnqueueMerge`, `MergeEnds`, `Escalate` are other people and loops. `Tick` is
time: holds count down, executions and cards count up to one past the longest
horizon that reads them, runners count down their deadline.

Abstractions: the discover filters that the scan and the re-issue share are the
column; candidates are tried in any order; parking a card and committing the
poll are one step; a paused agent is one that does not poll; one runner per
agent; `Escalate` happens only to a card no runner is on, as its 48 hours are
far beyond every other horizon; the failure count is in the runner's memory and is
not kept, so any failure may be the one at the threshold; a release that could not
be recorded is not tried again, and a role that is then paused or excluded is an
agent that no longer polls, which the fairness does not cover.

### MergeQueue

`entry` is the committed table. What a tick has written so far is in
`work[w].rows` and replaces the committed rows in `Commit`; `Crash` drops it.
`lock` is the workspace row that enqueue, re-enqueue, tick and the landing poll
lock first; the rows a worker has popped are locked until its tick ends and are
skipped by others (`RowLocked`). `TickReads` reads the branches without a lock;
per branch `PopNothing`, `PopUnauthorized` or `PopNext`; then the executor's
outcomes `CiNotGreen`, `Conflict`, `ExecutorFails`, or `ForgeMerges` and
`MarkMerged`. `forge` changes in the middle of the transaction and is not rolled
back. `MarkMerged` contains the handler of the merged event, which reads
`entry`, the committed row, because it is called before the commit. `line` is
the order by `enqueued_at`, given for each card as the set of cards up to it (an
order, not a sequence, so that the proofs can speak of who is ahead of whom): a new row takes its place when its transaction
begins (`BeginEnqueue`) and appears when it gets the lock (`Enqueue`); a retry
goes to the back. `reviews` is the review column by `updated_at`, of which the
poll reads the first `ScanLimit` cards: those with at most `ScanLimit` cards up to
them. `passed` is history.

Abstractions: one workspace; boards without a completion policy; one pull
request per card; the database's and the backend's clocks agree; a pass of the
poll is one transaction per card it lands; a card that is in line begins no second
enqueue, though in the code one could begin before a cancellation and be inserted
after it; and a retry takes its place at the commit of its tick, so enqueues begun
between the retry and the commit are ahead of it, where the code's clock puts them
behind.

### LiveSocket

A socket has two ends: `sock` is the tab's (`readyState`), `conn` the server's.
Frames travel in `upq` and `downq` in order; a broken transport (`cut`) loses
what is in them and leaves the tab a closure to notice. The tab's actions are the
methods and callbacks of `WebSocketService` (`connect` within `Enter` and
`ReconnectTimer`, `disconnect`, `subscribe`, `unsubscribe`, `onopen`, `onevent`,
`ondenied`, `onclose`); `onstale` is the first line of each callback, which turns
away a socket that is no longer `this.ws`. The server's are `accept`,
`apply_subscribe_frame`, `receive_ends`, `enqueue`, `send_one`, `send_stalls` and
`close_full`. `role` is what an authority read returns at the moment it is made.
The mapping to `EventChannel`: an event is owed while it is in the backlog or on
the wire of the socket in use, and the channel is up while that socket's
connection listens for the pattern, is not broken and is not being closed for a
full backlog.

Abstractions: an event has one type and a pattern is the set of types it
matches; delays are the timer being pending; events for one user only, agents'
frames and the process's shutdown are left out.

### BoardCache

`srv` is the committed table and `txn` the one open transaction: `record`
publishes its events, the activity event and its bridge twin, and only `Commit`
makes the write visible to reads. A card is its column, a revision of its content
(`rev`) and a revision of its `spot`: the position in the column and the labels the
done gate stamps on a card that is moved, both of which a move writes and no moved
event carries. The tab is `board` (the cached `BoardDetail` as a set of such
cards), `fetch` and
`stale` (the query), `timers` (the debounced invalidations of `useDomainSync`),
`gets` (`inFlightCardFetches`) and `muts` (own mutations with their snapshot).
`Deliver` is what the hooks of `useBoard` do with one event: `applyMove`,
`applyDelete`, `patchOneCard` or a debounced refetch. A read is asked, served
from the committed table, and arrives, in three steps, with anything in between.
A move may stay within its column (a reorder). `excuse` is history: the gravest
reason why the board may now differ from the server, reset when a refetch settles
it; so is `displaced`, the cards somebody else has moved since, whose column the
board knows and whose spot it does not.

Abstractions: the query library is modelled from its use (an invalidated mounted
query refetches at once, a refetch in flight is cancelled for it, a first load is
not); a spot is a number that a move makes new, not a position among others; moves
that change nothing, which the server answers without an event (`card.py:912`), do
not happen; on a route by slug, events before the first load are dropped
(`board-event-scope.ts:27`) and not debounced as here; a request whose client gives
up is lost before the server or answered by it, not handled later; the card-detail
cache, presence, columns and board metadata are left out.

### PairingCodes

`row`, `by` and `late` are state, `approved_by` and whether `expires_at` has
passed; `poll` and `req` are requests between their read and their end. A
conditional update with the rest of its transaction is one step, since it holds
the row's lock. What an expiry settled on the way does depends on how the request
ends, and the model follows the router: refusals of `collect`, `lookup` and
`PairingCodeNotFound` are returned and commit it, conflicts are raised and roll
it back. `told` and `final` are history: what people and the device were told.

### DevicePairing

One identity is a code, its poller and the installation it may become. The
daemon: `daemonPairer.Start` in the steps it takes without a lock (`StartChecks`,
which asks whether a grant is being stored, `connectPreflight`, which asks whether
an installation is stored, `probeCredentialStore`, which tries the keyring and after
which the pairing's time is taken, and `StartRegisters` or `StartFails` after the
request), `Cancel`, and `Manager.poll` from the select (`ContextDone`, `Polls`) over
the answer (`PollAnswered`, `PollFails`, `Decides`) to the grant (`Persists`,
`RevokeAbandoned`, `PersistFails`, `persistGrant`, `adoptInstallation`). `Decides`
keeps the order of the switch, in which the end of the context is looked at before
the grant. Every revocation may fail, and after a failed store it may have no time
left (`RevokeAfterFailure`). `before` is the comparison of `pairingStartedAt` with
`ConnectedAt`: by installation, the pairings that had taken their time when it took
its own. The desktop: `startPairing` and its answer `PairStarted`, `cancelPairing`,
`goToStep`, `markConnected`, and `resumePendingPairing`; the attempt counter is
whether a call is still the latest one ("mine") or not ("stale"). `Relaunch` forgets
the desktop's memory, not the requests it has sent. `gone`, `lost` and `unheard` are
history: codes cancelled while they waited, codes a fault hid from the desktop,
installations whose token no poller ever received.

Abstractions: switching servers, disconnecting, and an adoption that fails after
its file is written are left out.

## Runs

Bounds are in the `.cfg` files; the names of bounds that are not constants of
the code begin with `Max` and say "bound of the model" in the module.

| Run | Instance | Shows |
| --- | --- | --- |
| `capture_queue` | two items, one poisonous, inbox, queue and batch of two, memory of one id, two crashes, fair | `NoLoss`, `NoResend`, `IsolationEnds`, `ForgetsOnlyWhenFull`, `Delivered` |
| `scheduler` | two agents with an owner each, one card, bound starts, edited stages, holds that end before setup does, three holds and executions | `HoldsExclusive`, `OneExecutionPerHold`, `WorkAlone`, `WasteBounded` |
| `scheduler_stages` | an implementer and a reviewer, suspends, failures that block, people who drag the card back, edited stages, presence shorter than a tick, fair | `PresentHeroKept`, `ZombieEnds`, `HoldDrains` |
| `scheduler_presence` | the code's horizons in units of five minutes, suspends | fails: `NeverPullsLiveHero` |
| `merge_queue` | two workers, two cards of one branch, two request cycles, one crash | `OneMergePerBranch`, `MergedIsMerged`, `NoneStuckMerging`, `BoundedOvertaking` |
| `merge_queue_live` | two workers, two cards, one of them on GitHub, a poll that reads one, fair | `Settled`, `MergedOnGitHubLands` |
| `merge_queue_landing` | one worker, one card on a forge other than GitHub, fair | fails: `MergedByQueueLands` |
| `live_socket` | one tab, two hooks, two patterns (one for observers only), two sockets, a backlog of one, one fault, four changes by user or administrators | `SubscriptionsAgree`, `NeverStranded`, `ImplementsChannel`, `ComesBack` |
| `board` | two cards, two columns, two writes, at most one by this tab, one fault | `ShownOnce`, `NoGhost`, `ConvergesOrExcused` |
| `pairing_codes` | one code, two polls, three requests of two people | `OneOwnerPerCode`, `FinalIsFinal`, `ImplementsCode` |
| `device_pairing` | two pairings of one device, one fault | `CancelledStaysOut`, `NoHiddenCode`, `ConnectionIsActive`, `YoungerWins` |
| `device_pairing_dropped` | two pairings of one device, no fault | fails: `ActiveIsHeld` |

`capture_queue`, `scheduler`, `merge_queue`, `live_socket`, `board`,
`pairing_codes` and `device_pairing` also check their module's `TypeOK`.

Why the bounds are enough. Two agents and one card are what a conflict over a
card needs; three holds let a card be held, lost to another agent and held
again. Horizons are small numbers in the order the code's have: a hold ends while
its runner is in setup or at work, an execution is reaped after both, and in
`scheduler_stages` presence ends in the middle of a tick, as the code's does, so the
strand reaper acts on runners at work; `scheduler_presence` has the code's own
values. One agent per stage is enough there: what one agent's poll does to another's
card needs two agents, and competition within a stage is in `scheduler`. For
delivery, a memory smaller than the number of items makes its limit bite, and a
poisonous item beside a good one, in either order, makes isolation split a batch;
two crashes are one in the middle of the recovery from another. For the merge queue, one crash at every
step of a tick and two entries of one branch are what serialization and
overtaking need (several branches in one tick are left to the proofs, which
hold for any set of them); with three retries allowed a churning entry comes round often
enough to overtake twice if it could; a poll that reads one of two cards has one
that waits behind another. For the connection, two sockets are a socket
and the one that replaces it (identities are reused once both ends are done with
one), two hooks are what sharing a pattern needs, and a backlog of one overflows
with the second event. For the board, two writes are one event racing another's
read or this tab's own mutation; two cards are one that exists and one that is
created. For pairing, every pair of requests that can race is there: two polls,
two requests of one person, who may retry or contradict themselves, and one of
another; codes are independent on the server, so one is enough, and the proofs
hold for any number. Two pairings of a device are what superseding needs.

Fairness. `CaptureQueue`: the daemon's loop ticks for ever and takes its steps,
the backoff elapses, and a server that is asked again and again answers again
and again (strong fairness on answers, because a revocation or a failed request
can always come in between). `Scheduler`: runners keep polling and going on with
their tick, which `Loop` does until it is stopped, and time passes; nothing is
assumed of people. `MergeQueue`: the loops of `main.py` run for ever and swallow
exceptions, and a transaction that waits for the workspace lock gets it (strong
fairness: Postgres queues lock requests); nothing is assumed of requests, people or
checks, nor of the executor, whose git and gh commands are awaited without a timeout
(`merge_executor.py:746`). A command that hangs keeps the workspace lock and stops
the queue, so the liveness properties are about behaviours in which commands end
(`CommandsEnd`), and say so. `LiveSocket`: a
browser hands over what arrived and fires its timers, and the server's tasks
(receive loop, sender, closer) go on; nothing is assumed of the network, of
publishers or of the user, and a fault is never owed.

## Findings

Three runs are expected to fail: each states what a document or a comment says, and
TLC finds a behaviour of the modelled code that contradicts it. The quotations are
in `PROJECT.json`.

- `merge_queue_landing`. The merged event is handled before the commit and does
  nothing; a card on another forge than GitHub stays in review.
- `scheduler_presence`. A poll removes the hero of a resumed card in the middle of
  its tick, because presence ends after 20 minutes and a tick may take 40
  (`assignment_service.py:561`; the comment at 510 says a busy long tick is never
  pulled). What does hold is `PresentHeroKept`: no hero is pulled while its
  execution counts as present.
- `device_pairing_dropped`. The poller looks at the end of its context before it
  looks at the grant, so a token received as a cancel arrives is dropped and its
  installation stays active (`pairing.go:260`; the comment at 280 says it must not).
  What does hold is that a cancelled pairing never connects (`CancelledStaysOut`)
  and that no revocation hits the connection that is stored (`ConnectionIsActive`).

Other places where code and comments disagree were met while modelling. The models
contain them, and the properties name them as conditions or excuses:

- Replayed start. After a budget suspend the same hold is issued again and its
  bound start replays the execution that is already aborted (`execution.py:391`).
- Landing poll. It reads the same oldest cards every time; a merged card behind
  `SCAN_LIMIT` cards that stay in review is never read (`reconciler.py:193`), while
  the comment at `reconciler.py:48` says that unlanded cards simply wait for the next
  tick. `MergedOnGitHubLands` therefore speaks of cards that come to stay among
  those a pass reads, in a run where one of two is.
- Reorder. A move writes the card's position and may stamp labels
  (`services/kanban/card.py:918`, 1045-1065); the event carries neither
  (`activity.py:96`). Another tab's board shows the new column with the old position
  and labels, and takes a move within a column for one it already reflects
  (`board-event-reconciler.ts:94`, which says that a refetch would add nothing; the
  comment at line 25 speaks of a position read from the event). It stays so until
  something else refetches: the spots of `displaced` cards.
- Second conflict. It finds the finished consolidator card of the first and
  blocks the entry for good (`conflict_consolidator.py:81`).
- Reconnection. `use-boards.ts:28` says that a reconnect triggers its own
  invalidation; nothing does, and events missed while disconnected are only made
  up for by a later refetch. In `BoardCache` this is excuse 1.
- Events before commit. A single-card read made on an event can be served before
  the write it was announced by is committed, and the merge then keeps the old
  card until something else refetches (`activity.py:121`). This is excuse 2, as
  is an answer in flight that overwrites a patch: the comment at
  `use-boards.ts:110` calls the board at least as fresh as the card, not the
  other way round.
- Overtaken preflight. `Start` asks whether a grant is being stored, then whether an
  installation is stored, then probes the keyring and only then takes its time, with
  no lock over any two. A connection made in between is older than this start, so
  its grant, once approved, is taken for the newer one and overwrites that
  connection without revoking it: a second installation stays active on the server
  with a token nobody holds, which the comment in `persistGrant` (`commands.go:296`)
  says must not be left. This too violates `ActiveIsHeld`, as do a revocation that
  fails and an answer that never arrives; `YoungerWins` is what the comparison does
  guarantee.
- Expiry. An expiry settled on a row read earlier is written over whatever the
  row says by then, a collected one included (`companion_pairing.py:284`). It does
  no harm to the properties, which is what `FinalIsFinal` and the refinement show.
- Shutdown. `ConnectionManager.shutdown` closes with the default code 1000, which
  a tab takes for a normal closure and does not retry (`websocket.ts:97`); the
  server usually closes sockets itself first, with 1012, so it is left out.

The scope of the passing runs follows from how the code behaves. `WorkAlone` and
`PresentHeroKept` are checked for agents with an owner each: a runner whose
claim is refused removes the card's participant by its owner's user id, so of
two agents of one owner the loser removes the winner's hero. With a budget that
suspends cards `WorkAlone` also needs presence to outlast the gap between claim
and start: a poll of another agent in that gap sees a suspended card without a
live execution and strips the hero that has just claimed it. And a reviewer's
request for changes clears the hero by design, so `WorkAlone` is about pipelines
whose stages write code and `PresentHeroKept` makes an exception of it. A merged
entry is
not final in `MergeQueue`, because re-enqueue takes an entry from any state; nor
does a hold end when its execution starts, which is why `HoldDrains` speaks of
the close and the sweep. The retry bound of the merge queue counts two per
cycle, one in `mark_merging` and one in `re_enqueue`.

## Proofs

`CaptureQueueProofs` proves, for every finite set of items, every value of the
bounds and any number of crashes: `TypeCorrect`, `NothingLost`, `NothingResent`,
`ForgottenOnlyWhenFull`. Assumptions: `ItemsAssumption` and `BoundsAssumption`
of `CaptureQueue`. `NoLoss` alone is not inductive: it says that a published
item is somewhere, and a step that deletes an item's file must know that the
item is somewhere else. The invariant `IInv` therefore adds what each place
knows: the ledger's ids are decided by the server (`LedgerDecided`), so is what
an unread answer names (`ReplyDecided`), an item being removed from the inbox is
queued or remembered (`RemovalSafe`), a remembered item's file only awaits its
unlink (`RememberedAwaitsUnlink`), what is being sent is not remembered
(`SendingFresh`), and acknowledged ids are also recent (`RecentHoldsSettled`).
Steps that move no record are dealt with by one lemma (`QuietStep`). What a save
does to the bounded list of recent ids is a lemma about sequences.

`MergeQueueProofs` proves, for all sets of workers and branches, every finite set
of cards and all limits: `MergesAreSerial` (`OneMergePerBranch`), `MergedIsTrue`
(`MergedIsMerged`), `CrashLeavesNoneMerging` (`NoneStuckMerging`). Assumption:
`MergeQueueAssumption`. The inductive invariant speaks of what is not committed
yet: a worker that executes, or has no branch left to visit, holds the lock
(`Holds`); a row about to be committed says merged only if the forge has merged
it, and says merging only while the executor has it in hand (`Pending`). All
steps of a worker go through one lemma (`WorkerStepKeeps`), which asks for a
sound new transaction and that no lock is taken from another; the outcomes of
the executor go through `SettleKeeps`.

It also proves `OvertakingIsBounded` (`BoundedOvertaking`) and `TypeCorrect`
(`TypeOK`), with a second invariant on top of the first. The count of those that
have passed a waiting entry is bounded by a sum that never grows: for an entry
that waits, `passed` plus the entries of its branch that may still be popped
before it (`Ahead`) is less than the number of entries of the branch (`Counted`).
A commit moves one entry from `Ahead` to `passed` and keeps the sum, because what
a transaction has popped is one queued entry per branch it has visited, ahead of
every other that waits there (`Taken`), and the lock keeps it so: an enqueue or a
re-enqueue waits for it, and a cancellation does not touch a popped row
(`Popped`). A request may move the line only behind who waits (`RowChanges`). For
the types, a row that waits has room for one more attempt (`RowFits`). What
leaving the line, going to its back and the end of a tick do to an order are
lemmas about `Without`, `AtBack` and `NewLine`.

`PairingCodesProofs` proves, for all sets of codes, people, polls and requests:
`TypeCorrect`, `OneOwner` (`OneOwnerPerCode`), `FinalStays` (`FinalIsFinal`) and
`RowsImplementCodes` (`ImplementsCode`). Assumption: `PairingCodesAssumption`.
Neither invariant is inductive by itself, because requests act on rows they read
earlier. `IInv` adds what a read can still be worth: a row read as approved never
becomes pending again and one read as final stays final (`PollSound`), a request
that saw an approval acts for the approver (`ReqSound`), an installation belongs
to a row that is over and has an approver (`RowSound`), and what people were told
is never undone (`ToldSound`). The three requests of people go through one lemma,
`DecisionKeeps`, about the only things a decision may do to a row; the same
`Decision` gives the refinement its steps (`DecisionRefines`). The refinement
theorem uses the invariant: without it an expiry written over a stale read could
be a step no pairing code may take.

`SchedulerProofs` proves, for all agents, cards, roles and horizons:
`TypeCorrect`, `HoldsAreExclusive` (`HoldsExclusive`), `StartsOnce`
(`OneExecutionPerHold`), `PresentHeroStays` (`PresentHeroKept`), `HeroesWorkAlone`
(`WorkAlone`) and `WasteIsBounded` (`WasteBounded`). `TypeOK` alone is not inductive:
`Typed` adds what a runner knows in each phase (`PhaseOK`), in particular that the
execution it will close exists. `PresentHeroStays` has one hypothesis, that agents
have an owner each (`OwnersDiffer`), which a finding above shows to be needed; it
holds with budgets that suspend cards, the strand reaper and any horizons. Its
argument is a list of all that can take the hero from a runner at work
(`HeroGoes`, `HeroKept`): the end of its own tick, a reviewer's request for changes,
escalation, or the strand reaper on a card without a live execution. A runner that fails,
suspends or is released touches at most the hero of its own owner, and the reaper
spares a card with an execution that counts as present, even when the poll it comes
with reaps executions too (`PresentStep`). `HeroesWorkAlone` also asks that every stage
writes code and no budget suspends cards. Without suspends no card is ever labelled
suspended (`NoneSuspended`), so the strand reaper has nothing to strip; then, past
its claim, a runner is the hero of its card, and a card has one (`OwnHero`).

`WasteIsBounded` is a count. `Budgeted` adds to the attempts that have ended the
agents that may still end one without another check (`Liable`: they run one, are
about to start one, or have a hold that is still good) and bounds the sum by the
cap and the agents. A step that ends an attempt must then free its agent of every
reason to be liable. That needs `Orderly`: the id of a hold speaks of one agent,
card and stage wherever it is recorded (`Identified`), so a runner closes its own
execution (`OfHold`) and releases the hold it was promoted from (`SameStage`); an
agent has one running execution and none before its start (`Solo`, `Clear`); and
a hold is older than its agent's execution (`Aged`), so that an execution is
reaped only when the hold is no good any more. The last step uses the hypothesis
`ReapAge >= HoldTTL` (2700 and 600 seconds in the code). The other hypotheses are
a finite set of agents, no budget that suspends cards and no stage edited while it
is worked on: a suspended or released pass keeps its hold, and a hold that is issued
again is not checked against the cap. (With bound starts such a hold only replays the
execution it was promoted to; the run `scheduler` has edited stages and bound
starts.)

`LiveSocketProofs` proves, for any hooks, patterns, sockets, backlog and number
of faults: `TypeCorrect`, `NeverLeftStranded` (`NeverStranded`) and
`SubscriptionsConverge` (`SubscriptionsAgree`). Assumption:
`LiveSocketAssumption`. The invariant adds what is in the queues of a socket: one
that both ends have let go of is silent and one in its handshake has asked for
nothing (`Quiet`), a closure is the last frame and a normal one comes only to a
tab that is closing itself (`Closing`: it is why a running service is never left
without a retry), the timer runs exactly while the service's socket is free
(`Forward`), and the last subscribe frame under way, or the server's patterns if
there is none, are what the hooks want short of refusals told or under way
(`Asked`). `LiveChannelProofs` adds `EventsInOrder`, the refinement of
`EventChannel` step by step: the numbers of the events rise through the wire and
the backlog, and on the socket in use all are later than the last one handed over
(`InOrder`). A socket that is replaced loses what it carried, which the abstract
channel allows because it is down by then.

`BoardCacheProofs` proves, for any cards, columns, mutations, writes and faults:
`TypeCorrect`, `CardsShownOnce` (`ShownOnce`), `NoGhostStays` (`NoGhost`) and
`BoardConverges` (`ConvergesOrExcused`). Assumption: `BoardCacheAssumption`. Each
property speaks of the board at rest or on the screen, and anything that will
become the board must be right before: every copy, in an answer, a remembered
board or a mutation, shows each card once (`Copies`); a temporary card on the
board belongs to a creation that is running, or a refetch is on its way
(`NoStray`). Convergence is per card and only promised while there is no excuse:
the board shows the card as it will be once the open transaction has committed,
or a single-card read or an event that will see to it is on its way (`Fresh`), or
a whole refetch is or will be (`Coming`, a pending debounce). As it will be means
the column, the content and, unless somebody else moved the card, the spot
(`Matches`). That rests on what is under way being true: an answer says what the server says, with no write
published since (`Reads`), and the events owed do not contradict the card's state
unless a later one among them puts it right (`Tells`).

`DevicePairingProofs` proves, for any number of pairings and faults:
`TypeCorrect`, `CancelHolds` (`CancelledStaysOut`), `CodesAreSeen`
(`NoHiddenCode`), `ConnectionStaysActive` (`ConnectionIsActive`) and
`YoungerConnectionWins` (`YoungerWins`). Assumption: `DevicePairingAssumption`. What
the invariant adds: a pairing has a code, a session and a poller only once it is
started, and the poller's position fits the session (`Begun`); one that is gone is
off the list the poller checks and not past the check (`Out`); one that waits with a
live poller is the current and the pending one (`OnlyCurrent`); a call of the desktop
belongs to the latest attempt or will cancel what it started (`Calls`); and what the
last two theorems need: tokens in the daemon's hand, and the connection, are of
active installations (`HeldIsActive`), and the pairing that is being stored began
after the connection was made, if there is one (`Ordered`).

`CaptureQueueProofs` also proves `IsolationIsBounded` (`IsolationEnds`). It needs
that queued records have places of their own, none beyond their number
(`InLine`), and that a batch in hand is of unsettled records, of one at most
while isolation lasts, and is all that an answer can name (`BatchInHand`).

## What is only model-checked

Liveness (`Delivered`, `ZombieEnds`, `HoldDrains`, `Settled`,
`MergedOnGitHubLands`, `ComesBack`) is out of reach of the prover, which has no
rules for fairness and ENABLED. So is the fairness of `EventChannel`, which hands
every owed event over: `EventsInOrder` is the rest of `ImplementsChannel`.

Every invariant and action property that a passing run checks is proved.

## What is not modelled

In the modelled parts: the companion's rich records and `Rewrite`, purge on a
change of server, counters and health reports, the timing of a flush; the
runner's approval park, its in-memory card breaker and what a language model
reports about its own execution; completion policies, the stale notification
latch, ticks over several workspaces and moves of cards by hand in the merge
queue.

Whole parts: listed in `PROJECT.json` as not modelled. Prompts, text conversion,
subprocess and forge clients appear only as outcomes of steps. Plain
create/read/update/delete within one transaction has no protocol to check.

Most lines of the repository are TypeScript of the web application, and most of
those are not modelled for what they are: documentation pages and their
translations, components that turn query results into markup, forms whose state
lives and dies with a dialog, and hooks that each read one resource and
invalidate it on an event. What runs beside something else there is the
connection, the caches it keeps true and the optimistic changes to them. The
first is `LiveSocket`, and the board, which has the richest cache, stands for the
others: they use `useDomainSync` without a patch, which is `Debounce` and
`DebounceFires` alone.

## Plan

Done, in this order: `CaptureQueue` and its proofs, `Scheduler`, `MergeQueue` and
its proofs, `LiveSocket` with `EventChannel`, `BoardCache`, `PairingCodes` with
`PairingCode` and its proofs, `DevicePairing`. Next, in the order of what they
would add:

1. `CommittedEvents`: savepoints, commit, ordered dispatch with its timeout; what
   a subscriber sees is a sub-sequence of the commits while no dispatch is slow.
2. `BodyUpload`: chunks, finalize, expiry and purge; an available body has all
   its chunks; nothing staged outlives its row.
3. `Approvals` with the runner's park and resume, composed with `Scheduler`'s
   holds.
4. `Completion`: candidates, evidence and landing by exact head, composed with
   `MergeQueue`.
5. An abstract delivery specification (published, then decided once) that
   `CaptureQueue` implements under a mapping.
6. `Dependencies` (cycle rejection against paths), `CostBreaker`.

Theorems worth proving next are those of these modules, and that `CaptureQueue`
implements the abstract delivery specification of point 5.
