# akgentic-infra in TLA+

This directory models the infrastructure layer of akgentic (`src/akgentic/infra`):
the server that creates, stops, revives and deletes teams of agents, carries
their events to WebSocket clients and channels, and the CLI that talks to it.
TLC checks small instances of every module; TLAPS proves the main results for
every value of the constants.

Paths below are relative to `src/akgentic/infra/` of the repository.

## 1. Inventory

| Component | State it keeps | Operations | What is hard | What makes it correct |
|---|---|---|---|---|
| **Event stream** `adapters/community/local_event_stream.py`, protocol in `protocols/event_stream.py` | per team: event list, closed flag, one `threading.Event` per reader, a lock; a dict of teams under another lock | `append`, `subscribe`, `read_next`, `close`, `remove`, `read_from` | readers are lock-free; threads keep a stream object that `remove` has popped; clear-then-recheck; drain-before-close (issue #412) | each reader gets the log from its cursor in order, each event once, and the end only after the last; nobody sleeps on something to read |
| **Placement** `adapters/community/local_placement.py` | `_in_flight`: team id -> (owner, future), under a lock | `create_team`, `resume_team`, `_park` | check and build are apart; creations and resumes share one table; parked duplicates time out | one runtime per team, no user handed another's team, no team overwritten, every call returns |
| **Team service** `server/services/team_service.py` | none of its own; orders the calls to placement, worker handle, cache, stream and file system | create, restore, the deliveries with revival, stop, delete, metadata and description updates, listing | each request is a sequence of calls that interleaves with others; statuses read and used later | record, cached handle and stream agree; messages reach a live runtime; trees outlive the record |
| **Runtime cache and worker handle** `adapters/community/local_runtime_cache.py`, `local_worker_handle.py`, `local_team_handle.py` | team id -> handle | `store`, `get`, `remove`, `warm`; `stop`, `delete`, `stop_all` | handles outlive the actors they point to; boot after a crash | a cached handle is of a live runtime |
| **Orchestrator subscribers** `adapters/shared/*_subscriber.py`, `channel_dispatcher.py` | none | `on_message`, `on_stop` | called from actor threads, on every stop path | the stream ends with the team |
| **WebSocket sessions** `server/routes/ws.py` | `_waiting`, `_restored`, `_active`; the reader pool | connect, stream, idle, `notify_restore`, `disconnect_all` | event loop against threadpool threads; a shared flag; two loops that call each other | an idle client streams again once its team is back |
| **Channels** `adapters/shared/channel_router.py`, `channel_dispatcher.py`, `adapters/community/yaml_channel_registry.py`, `server/routes/webhook.py` | bindings in a YAML file and an in-memory index; the dispatcher's set of teams being restored | route a message, `/new`, `/register`, `/unregister`, `/status`, dispatch a reply, release the bindings of a deleted team | redelivered webhooks; handlers interleave at each `to_thread`; file and index are two writes, read by actor threads; create-bind-send | a message is sent to a team once or its user is told; answers come back to the chat that asked |
| **Description generator** `server/description.py` | one executor with one thread and its queue | `maybe_generate`, `_generate`, `_commit` | minutes between the decision and the write | a user's description is never overwritten |
| **Workspace trees and policies** `server/services/_workspace_paths.py`, `server/routes/_team_access.py`, `server/routes/workspace.py`, the policies in `adapters/shared` | the file system | resolve a tree from cards, gate, read, upload, candidates of a deletion, removal | the path is chosen by a gate and opened later; cards may share, name or contradict | tenants are kept apart; a deletion takes only the team's own trees |
| **Application** `server/modules/core.py`, `server/assembly.py`, `server/app.py`, `wiring.py` | `app.state`, the stack of lifespans, the set of live WebSockets | compose, start, verify, serve, drain | a start-up that fails half-way; clients that come and go during the drain | what serves is wired; clients are closed before teams are stopped, and teams stay resumable |
| **REST routes and access rules** `server/routes/*.py`, `protocols/authz.py` | none | one handler per route, policy filters, listing | gate, service and delivery each read the record; pages over a filtered union | a status says what is the case; a caller lists exactly the teams the policy allows |
| **Worker routes** `worker/routes/teams.py` | the worker's cache of handles | create, resume, stop, delete, the deliveries | routes on several threads and the eviction at `on_stop` write one cache; timer stops, a death | a cached handle is of the living runtime, and the living runtime is cached |
| **CLI connection** `cli/connection.py`, `cli/ws_client.py`, `cli/repl.py`, `cli/tui`, `cli/event_router.py` | socket, connection state, the reader's task | connect, receive, reconnect, switch team, leave | the reader and the user's commands replace one socket | events are those of the team on the screen; no socket is left open |
| **CLI authentication** `cli/auth/*.py`, `cli/http/auto_auth.py` | a credentials file and its temporary | device-code flow, refresh, purge, retry once | several processes, one file, single-use refresh tokens | a usable token or one clear request to log in |
| **CLI rendering, telemetry, settings** | presentation and configuration | - | - | - |

`TeamManager`, the actors, `YamlEventStore` and the catalog belong to other
packages (akgentic-team, akgentic-core, akgentic-catalog). They are modelled
from how this code uses them, as atomic changes of the record and of the set of
live runtimes that may fail where the code catches a failure.

How they interact: a REST, WebSocket or channel request calls the **service**; the
service asks the **placement** to create or resume, stores the handle it gets in
the **cache**, and delivers through it. `TeamManager` spawns actors whose
**subscribers** append to the **stream** and remove it when the team stops.
**WebSocket sessions** read the stream from a thread pool; the restore route
notifies them. The **inactivity timer** stops teams without going through the
service.

## 2. Modules

| Module | Models | Runs | Proofs |
|---|---|---|---|
| `EventLog` | what an event stream promises (abstract) | as a property of `stream` | - |
| `EventStream` | the lock-level event stream | `stream` | `EventStreamProofs` |
| `Placement` | the placement and its table of claims | `placement` | `PlacementProofs` |
| `TeamLifecycle` | the service over the placement: requests, timer, crash, boot | `lifecycle`, `lifecycle_timer`, `lifecycle_revive` | `TeamLifecycleProofs` |
| `WsSession` | session handlers, the waiting lists and `notify_restore`, of one team | `ws`, `ws_live`, `ws_flag` | `WsSessionProofs` |
| `ChannelConversation` | webhook, router, commands, binding registry, dispatcher | `channels`, `channels_mistyped` | `ChannelConversationProofs` |
| `AppAssembly` | composition, start-up, verification, drain, shutdown | `server_edge` | `ServerEdgeProofs` |
| `WorkspaceAccess` | who opens which tree; what a deletion removes | `server_edge` | `ServerEdgeProofs` |
| `TeamApi` | the /teams routes, the listing, the description generator | `server_edge` | `TeamApiProofs` |
| `WorkerTeams` | a worker's team routes, with the eviction subscriber | `server_edge` | `ServerEdgeProofs` |
| `OidcCredentials` | CLI processes that share one token cache | `client` | `ClientProofs` |
| `CliSession` | an interactive session: user, reader, sockets | `client` | `ClientProofs` |

`MC*.tla` give the instances: symmetry sets, messages, compositions, archives of
records. `TeamLifecycle` EXTENDS `Placement` and conjoins the placement's own actions
with what they do to the service's state. `MCServerEdge` puts `AppAssembly`,
`WorkspaceAccess`, `TeamApi` and `WorkerTeams` in one state machine, `MCClient` the two CLI modules:
the parts share no state, so a behaviour is one of one part with the others at rest,
and a property of a part is checked over all behaviours of that part.

### EventStream

One team's entry is modelled. A `_TeamStream` object is an *incarnation*
(`1..MaxStreams`); threads keep the incarnation they looked up (`wstream`,
`xstream`, `rstream`) after `current` moved on, as the Python references do. One
action is one lock section or one lock-free access of shared data:

- `append`: `AppendLookup` (dict lock), `AppendRefused` or `AppendWrite` (the list
  is changed and visible to lock-free readers), `AppendSignal` (signals set, lock
  released, the number returned is kept in `wseq`).
- `remove`: `RemovePop`, `RemoveClose`, `RemoveSignal`. The stream lock is not a
  variable: it is held exactly by a thread at its `signal` step (`LockFree`).
- `subscribe`: `SubscribeLookup`, `SubscribeRefused` or `SubscribeRegister`.
- `read_next`: three `_drain_or_raise` calls (`phase`), each `CheckSelf`,
  `Advance`, `CheckClosed`, `AdvanceFinal`; between them `ClearSignal` and `Wake`
  or `Timeout`.
- `close`: `CloseFlag`, `CloseDiscard`, by another thread than the one reading.

`ImplementsEventLog` is the refinement: `log`, `sealed`, `status`, `source`,
`delivered` of `EventLog` are functions of this state, and every lock-level step
is an abstract step or a stutter.

### Placement

One team id, any number of callers. A claim has a number that also names its
future and the runtime it builds. The lock sections of `create_team` and
`resume_team` are `RefuseExisting`, `Claim`, `Park` and `RefuseForeign`; `Build..`
and `Resume..` are TeamManager's calls, of which a resume takes two steps, for it
marks the record RUNNING last; `Resolve` and `Release` are the `else`/`except` and
`finally` of both methods; `Unpark` and `ParkTimeout` the two ends of a wait.
`StopTeam`, `DeleteTeam` and `Restart` are what the rest of the process does to
the team meanwhile.

### TeamLifecycle

Each request is the sequence of calls the service makes (`step`): e.g. a delivery is
`AskDeliver` (record read) - `LookupHit` or `Revive` (cache read) - the placement's
steps - `Store` - `Reget` - `Send`. A stop is `AskStop` - `Halt` (TeamManager stops
the actors, `on_stop` removes the stream) - `Evict` - `Unstream`; a delete goes on
with `Erase` and `ClearTrees`. `Main` is the boot thread: after `Crash` it runs
`WarmList` - `Halt` - `WarmResume` - placement - `Store`, and no request is served
before it is done, as in `wire_community`. `stop_all()` at shutdown leaves the state
a crash leaves, so `Crash` stands for both.

`stream` is the set of runtimes whose events, replayed or live, the stream holds from
the first one on: a build or a replay adds to whatever is there, a removal empties it,
and a resume or creation that fails takes nothing back (`PlacementGivesUp`). `clean`
and `solo` are history variables: whether an ending (stop, delete, timer) has overlapped
other work, and which request has had the service to itself. What overlapping endings do
to each other's handles and streams is what the code does, and no property denies it:
`HandleMatchesRecord` says what holds without them, `LoneRequestsHeal` that whatever they
left is put right by the next restore, stop or delete that runs alone.

### WsSession

Two kinds of actors share `ConnectionManager` without a lock. Handlers are
coroutines: what one does between two awaits (a *section*) is not interleaved with
other handlers, so the first step of a section requires `LoopFree`. `restore_team`
is a plain `def` route, so `notify_restore` runs on a threadpool thread and its steps
fall between any two steps of a section. One action is one operation on the shared
dict, list or set.

The lists are objects with an identity: `entry` is the object at
`_waiting[team_id]`, `conns` and `held[n]`, `target[n]` are the references a section
and a notifier keep to an object that may no longer be the entry. So an `append` to a
popped list, a `del` of an entry put there by someone else, and an iteration by
position over a list that changes are all in the model.

| Code | Actions |
|---|---|
| `websocket_events` | `Connect` (record read), `Forbid` or `Accept` (the status read before decides the loop) |
| `_run_streaming_loop` | `Lookup`, `Register` (the two lock sections of `subscribe`), `StreamOver`, `ClearRestored` |
| `_run_idle_loop` | `Enlist`, `AppendWaiting`, `Poll`, then `Unwind`, `Prune`, `Drop` (`remove_waiting` of each loop left) |
| the client leaves | `HangUp`, `Notice` |
| restore route, `notify_restore` | `Restore`, `PopWaiting`, `CheckWaiting`, `MarkRestored`, `Visit`, `Readd`, `Reappend` |
| the team | `StopTeam`, `DeleteTeam`, `ReviveTeam` (a delivery revives it, and notifies nobody); `remove()` pops the stream with the first two (`PopStream`, the dict lock) and closes it later (`CloseRemoved`, the stream's lock) |

A handler may look a stream up before the pop and register before or after the close,
look one up for a stopped team, which makes one nobody feeds, or on a flag left from
clients that are gone (`restored` is arbitrary at the start). `NobodyIsLeftBehind` says
where that ends. The two loops call each other, so `depth[c]` counts the idle loops a handler is
inside of. `told`, `wiped` and `raced` are history variables: the idle sessions the
last restore found, whether `clear_restored` ran since, and whether two threads, a
handler and a notifier or two notifiers, have worked on the lists at the same time. Each of
them really miscounts: a second restore that comes while the first still re-adds pops a
list that is half rebuilt, and the first goes on to put the rest into another.

### ChannelConversation

Handlers run on the event loop and interleave where they await a worker thread,
which is where `TeamService` is called. One action is the code between two awaits:

| Code | Actions |
|---|---|
| `webhook()`: a delivery, a redelivery | `Deliver`, `Fail` in each refusing arm (a 500), `Ack` (a 2xx) |
| the commands | `CommandRegister`, `CommandUnregister`, `CommandStatus`, `CommandNew` |
| `initiate_team` | `OnUnbound`, `CreateTeam`, `BindSession`, `SendFirst`, `Finish` |
| `on_bound`, `bound_process`, `_default_recipient`, `send` | `OnBound`, `BoundProcess`, `Reread`, `DefaultRecipient`, `Send` |
| `_commit`, `_sync_index` | `Commit` (the file is written), `Reindex` (the index is replaced) |
| the dispatcher | `Answer`, and during a restore `Restore`, `Replay`, `Restored` |
| the delete route | `DeleteTeam`, `DeregisterTeam` |
| death of the process | `Crash`: handlers are gone; a save in flight leaves a file with some of its records, or one that `safe_load` rejects, and then the server does not boot (`down`) until an operator has repaired the file (`Repair`); otherwise the index is read from it (`Boot`) |

A stopped team counts as live, for the delivery revives it. `disturbed` and `doubted`
are history: messages whose chat's binding somebody else changed, or a crash cut out of
the file, meanwhile, and messages delivered again while the server had them or in hand
when it died. They are the two excuses the properties admit, and neither may be dropped.

### AppAssembly

`Validate` and `Build` are `build_app`: which composition is accepted, the route table
with its overrides, the order of middleware, the slots middleware needs. `Enter` is
one module's lifespan, which may raise; `VerifyStartupState` refuses to serve while a
slot is missing. `Connect` and `Disconnect` are the WebSocket handlers; `Shutdown` and
`Exit` unwind the exit stack, and the core module's share of it is `DrainFlag`,
`DrainSnapshot`, `DrainClose` (one client at a time, a close may fail), `DrainClear`,
`DrainStopAll`. The manifest comparison is the function `ManifestDelta`, over the names of
the middleware's classes, as in `build_manifest`: a second instance of a class reads as
the first.

### WorkspaceAccess

A tree is `<scope>/<kind>/<leaf>`. `Resolved` is the resolver of one card, `Matches`
what a request selects, `Candidates` what a deletion considers: all three go through
the same operator, as in the code. `Request` runs both gates in one step (the wired
policy awaits nothing); `Open` is the route, a step of its own, so agents
(`AgentWrites`), `PATCH metadata` (`UpdateMetadata`) and a deletion (`DeleteTeam`,
`DeleteRecord`, one `RemoveTree` per tree) run in between. A file is its tree, the
team it was written for and whether an agent or an upload wrote it.

### TeamApi

One record per team (`rec`) and one request per slot (`req`): `Gate` reads the record,
`Decide` is the service's check, the action after it (`EndOrRestart`, `Deliver`,
`Describe`, `Document`) the effect; other slots run in between. `Answer` keeps the
status sent. A delivery queues a generation; `Think`, `Commit`, `Notify` are the
generator's one thread, and `Notify` goes out as a delivery, which can start a
stopped team. `Parsed`, `Begun`, `Matched`, `Newest`, `Sorted`, `Clamp` and `Page` are the
listing, checked against a definition that does not mention clauses, slices or blanks
one by one (`ListingIsExact`).

### OidcCredentials and CliSession

`WorkerTeams`: `stored` (the record), `alive` (runtimes whose actors live), `cached`; a
thread takes a request (`Ask...`, `LookUp`), calls TeamManager (`BuildTeam`,
`ReviveBegins` and `Revived`, `HaltFor`, `Erase`) and then changes the cache (`Store`,
`Evict`). `Halt` stops the team and evicts its handle, as `on_stop` of
`RuntimeCacheEvictionSubscriber` does; `TimerStop` and `Death` are the environment.

`OidcCredentials`: processes and one cache file, by inode: `Load` (is it there) and `Read`
(which finds it gone if another process has purged it since, and fails), `Refresh`,
`Purge`, `Authorize` and `Poll` (device flow), `Open`, `Write`, `Replace` (the save through
`<profile>.json.tmp`), `Send` and `Forget` (a logout's deletion, after it has read). The
issuer takes a refresh token once; time (`Age`), a lost reply, a token that is no bearer
token and `Kill` are the environment.

`CliSession`: the user's coroutine (`Enter`, `Switch...`, `Pick`, `Reconnect...`,
`Leave`) and the reader (`Event`, `Noticed`, `Dialled`, `DialRefused`, `Wake`), both
over the managers and the sockets ever accepted; `Lose` drops a connection. `Announced`
is the full-screen front end going on after it has mounted a message, on which it awaits
between connecting and restarting its reader. Both
front ends are in it: the line-based one switches its manager's team, the other one
starts a new manager.

## 3. What the runs check

| Run | Instance | Shows |
|---|---|---|
| `stream` | 2 writers, 2 removers, 1 reader, start cursors 0 and 1, 2 incarnations, 2 events, fairness | no lost wake-up, no orphan stream, the refinement of `EventLog`, and that the reader gets everything from the signals alone |
| `placement` | 3 callers, 2 users, 3 calls, fairness | one runtime, no foreign team, no overwritten record, every call returns |
| `lifecycle` | 2 request threads and the boot thread, 4 requests, 1 crash, timer armed | record, cache and stream agree once quiet, unless endings overlapped; a lone restore, stop or delete puts right what those left; messages are lost only to overlapping endings; a lone delivery arrives; trees outlive the record |
| `lifecycle_timer` (violation) | 1 request thread | a timer stop leaves the dead handle in the cache (against `README.md:388` and `runtime_cache_eviction_subscriber.py:6-7`) |
| `lifecycle_revive` (violation) | 2 request threads, no timer | the second of two concurrent revivals is refused (against `local_placement.py:168-171`) |
| `ws` | 2 sessions, 1 restore thread, 1 stop | the waiting list matches the idle loops unless the two threads met |
| `ws_live` | 2 sessions, 1 restore thread, one restore and a deletion, fairness | no handler stays on a stream the team has left; a client's leaving ends its handler; a session a restore found waiting streams again unless its flag is cleared |
| `ws_flag` (violation) | as `ws` | the late `clear_restored` of a stopped stream wipes the flag of the restore that followed (against `ws.py:369-370`) |
| `channels` | 2 chats, 2 messages, 2 handlers, 4 teams, 1 incident, fairness | the index follows the file; an acknowledged message reached a team or its user was told; nothing twice; answers find their chat; every message is acknowledged while the server is up |
| `channels_mistyped` (violation) | 2 messages, the second naming an agent that is not there | such a message is answered 500 each time (against `webhook.py:87-89`) |
| `server_edge` | every composition of up to 3 of 7 modules and 2 clients; 2 teams with 9 profiles of cards and 1 request; 2 slots, 3 requests and 3 archives of records; a worker with 2 threads, 5 requests, 1 death | what serves is wired; the drain reaches every client before the teams stop; tenants are apart; a deletion removes the own tree and nobody else's; a user's description stands; statuses are true; listings are exact; a worker's cached handle is of the living runtime, and the living runtime is cached |
| `client` | 2 processes, 3 grants, 1 mishap; 2 teams, 4 sockets, 2 losses, 2 orders, fairness | the cache is whole and its token live unless processes collided; commands end; the stream is the team's; no socket is left; a dead stream is noticed |

**Bounds, and why they suffice.** Two incarnations are the fewest in which a thread
holds a removed stream while the team has another; two writers and two removers
are the fewest that contend for each lock; the second event lets a reader be
at one while the next is not yet signalled. Three callers allow a claimant, a parked
duplicate and a third call that arrives after the pop. Four requests allow create,
stop and two concurrent revivals, or a create, a delete, a re-creation under the
same id and a delivery. `MaxCalls` is at least the requests and crashes together, so
it never stops a placement call (`TeamLifecycleAssumption`). Two sessions are the fewest of which one
idles while the other's stream ends; with one stop and the initial state running or
stopped, a team can be started twice, so a handler can be inside two idle loops. One
restore thread is enough to race with a section; that two restores overlap needs a stop
between them, and `raced` tells that case apart (the theorem of section 4 is for any
number of them). List objects cannot run out: a fresh one
is needed only while there is no entry, and then a section and the notifiers refer
to at most `1 + 2 * Cardinality(Notifiers)`. Streams cannot either: a new one needs
a stop or the deletion before it. Deadlock checking is off
because an instance stops when its bounds are spent.

Channels: a conversation needs a message that creates its
team and one that finds it bound, so two messages, of one chat or of two; two
handlers are the fewest that interleave; the one incident (crash, redelivery, failed
creation, restore, deletion) can fall anywhere. `MCInbox` lets the first message
speak or `/register` and the second one speak, name an agent or command; `MaxTeams` is
what these can create. Assembly: three modules are a stock one and two
that collide, one of them with a middleware of a class the stock one has. Workspaces: one request, two teams and one file are
enough, for a file seen by the wrong caller or removed with the wrong team is one
file; the profiles hold a private, a shared, a contradictory, a named, a metadata and
an unreadable set of cards, for an ordinary owner and an administrator. Routes: two slots are
the fewest that race, and a third request can find what the two left. Worker: five requests
allow a creation, a stop and a resumption with a delivery and a deletion around them. Client: two
processes are the fewest that collide; three grants are the cached token and two new
ones, after which the issuer refuses; two retries and two losses let a drop fall before, inside and
after a switch and in the middle of a reconnection; two orders are a switch that crosses
another command. Beyond four sockets every dial is refused, as any dial may be.

**Symmetry** is used only in runs without liveness.

**Fairness.** `EventStream`: the pump calls `read_next` again and again
(`ws.py:298-302`), hence WF of a reader's lock-free steps; a thread holding the
lock goes on, hence WF of `AppendSignal` and `RemoveSignal`; `RemoveClose` needs the
lock, but the bounded number of appends can withhold it only finitely often, so WF
is enough. Nothing is assumed of `Timeout`, of new calls or of the reader's
`close()`. `Placement`: WF of a call's own steps (threads run, TeamManager returns or
raises); nothing is assumed of `ParkTimeout`, which is why `EveryCallReturns` says
something. `WsSession`: the event loop resumes every task that can go on, and the pump
and the task that receives are two tasks, hence one WF each; clients pause for a
second between frames, or `Poll` would not be enabled for good (a chatty client is a
hazard without a property); a notifier's thread runs, and so does the thread inside
`remove()`, between its two locks. Nothing is assumed of clients
leaving, of the team or of new requests. `ChannelConversation`: WF of a handler's
steps, of `Reindex` and of the delivery of each pending message (a channel redelivers
what was not answered 2xx: `webhook.py:87-93`); nothing is assumed of `Repair`, so
`EveryMessageAcknowledged` excepts a server that is down. `OidcCredentials`: WF of each
process's own steps; the issuer may say pending for ever, so that `EveryCommandEnds`
rests on the code's lifetime. `CliSession`: WF of the reader's and of the user's
coroutine, whose awaits end; nothing is assumed of `Event`, `Lose` or commands.
`AppAssembly`, `WorkspaceAccess`, `TeamApi` and `WorkerTeams` state no liveness and no fairness.

**Mutants.** Every property of a passing run has a mutant in the same module: an
operator defined just before the one it replaces, changed as a plausible slip would
change the code (`ClearWithoutRecheck`, `ClaimBlindly`, `EvictNothing`, ..). None is
part of `Next`.

## 4. What is proved

All proofs are for arbitrary constants, from the named assumptions
`EventStreamAssumption`, `PlacementAssumption`, `TeamLifecycleAssumption`,
`WsSessionAssumption`, `ChannelAssumption`, `WorkspaceAssumption`, `ApiAssumption`,
`WorkerAssumption`, `AssemblyAssumption`, `CredentialsAssumption` and `CliAssumption`.
They type the constants; beyond that, a lifespan populates no slot its module does not
declare (the contract of `provides_state`, `assembly.py:293-294`, which the builder
cannot check), the teams of the API and the CLI's processes are finitely many, a
metadata entry starts with itself, and the cached token is one grant. The type
invariants, `StreamInv`, `EndedMeansDrained` (which `ImplementsEventLog` implies as
well), `ReceiptIsPosition`, `PlacementInv`, `ClaimIsHeld` and `SessionInv` are proved,
and not run any more.

- **EventStreamProofs**. `StreamInv` is inductive. `NoLostWakeup` is not by itself: a
  reader about to wait must already be covered (`RecheckCovers`: from the moment
  the second drain finds the list empty, any write is signalled or about to be),
  for which it must be registered (`Registered`); `ReceiptIsPosition` needs the
  lock to be exclusive and the last event to be its holder's (`LockIsExclusive`);
  `EndedMeansDrained` needs that a reader past the flag reads a final list
  (`ClosedIsFinal`); the refinement needs `CursorCounts`. One lemma per action, one
  step per conjunct. `StreamImplementsEventLog` then maps each action to an
  abstract action or a stutter.
- **PlacementProofs**. `PlacementInv` strengthens the four invariants with
  `AdmissionHolds` (what the claimant checked is still true when TeamManager
  writes), `TicketsMatch`, `NoResumeForCreator` (a creation parks on a resume only
  after the team's deletion, when that resume can build nothing) and
  `RuntimesAreOwned`. `NeverRecreated` follows from `AdmissionHolds`. So although the
  comment's argument for sharing one table does not hold (section 5), sharing it is safe.
- **TeamLifecycleProofs**. `ServiceOneRuntime` and `ServiceNeverRecreates` carry the
  placement's theorems over to the service, whose module moves the placement by the
  placement's own actions only (`ServiceDrivesPlacement`, a lemma that says no more than that).
  `HandleMatchesRecord` speaks of quiet states, so `ServiceInv` must say what holds while
  requests run. A stop or delete that met nothing runs alone and has taken the team down
  as far as its step says (`Endings`, `Takedown`); nothing of the dead process is left at
  the boot (`Booted`), beside which nothing runs (`Control`). While neither is at work (`Steady`), record, cache and
  stream agree or a request is about to make them agree (`Agreed`): a RUNNING team without
  a cached handle has a call that is going to store it (`Storing`), a live runtime's events
  are in the stream, and each request's operand is good (`Relies`): a handle
  promised through a future or held for a send is alive, which needs that a
  claim's future is pending until its holder resolves it (`Futures`). Builds disturb
  nobody, because by `AdmissionHolds` there is no runtime then, hence no
  handle anyone could count on. `OnlyEndingsLoseMessages` and `TreesOutliveRecord` follow, and
  `LoneDeliveryArrives` with `Lone`: what its first read found still holds when it claims.
  Of the rest of the stream `Leftovers` says, in every state, that its claims have failed,
  or are resumes under way. `LoneRequestsHeal` may not use `Settled`, for its request
  starts from whatever was left: `Takedown` holds of a lone ending in any state, and
  `Restoring` says what a lone restore has achieved at each of its steps.
- **WsSessionProofs**. `SessionInvariant`: every stream ever made is the team's entry, in
  the hands of a `remove()` that has popped it, or closed (`StreamsAreAccountedFor`), which
  is the safety half of `NobodyIsLeftBehind`; that a section has the list
  it works on needs that sections do not interleave (`OneSection`) and that a
  notifier keeps its references (`OperandsAreThere`). The type invariant needs that
  `list.remove` yields a list of sessions
  (`RemoveFirstType`). `ListMatchesLoops` is about the moments when nobody works on the
  lists; `ListInv` says what holds in between. A section works on the entry, and a
  notifier's popped list is never the entry (`Orderly`; the fresh list it re-adds to is found by
  counting, `FreshIsFresh`); the listed places of a session, with those the iteration has
  still ahead and the one in the notifier's hand (`Share`), are its loops, or fewer once
  its client is gone (`Counted`); a handler leaves its loops only then (`Depths`). It
  rests on what `append`, `remove` and a step of the iteration do to the number of places
  of a session (`OccursAppended`, `OccursRemoved`, `AheadSteps`).
- **ChannelConversationProofs**. `IndexMatchesFile` is inductive once typed and while
  a server that is down is known to do nothing (`Silent`).
  `AckedMessagesAreAccounted` needs that a handler that found a binding finds one again
  unless somebody else changed it (`StillBound`) and that only messages for the bound
  team get that far (`KindsFit`). `AnswersFindTheirChat` needs that the binding a handler
  sends with, and a team answers under, is still the file's (`HeldIsBinding`,
  `DueIsBinding`), and that replays tell nobody (`ReplayIsSilent`). `NothingTwice` counts:
  the answers a chat got and those it waits for are together no more than the messages
  sent (`Counting`, over cardinalities), and a message is sent once because one handler
  has it (`OneHandler`, `NotYetSent`, `SentOnce`).
- **ServerEdgeProofs**, for three parts of `MCServerEdge` and for the whole.
  *Workspaces*: `TenantsAreApart` is not inductive: what a read shows is
  decided by the path the gate stashed and by who wrote files there before. `TenantInv`
  adds that every file lies in a tree of the team it was written for, shared or in the
  scope of that team's owner (`FilesHaveTheirTeam`), which rests on the resolver
  (`DeclaredIsTreeOf`, `MatchIsTreeOf`), and that an open request's path is of the team
  asked about, not shared, and in a scope the policy allows (`OpenIsAllowed`); it stays
  true because an owner never changes, while cards' metadata may.
  `LivingTeamsKeepTheirFiles` follows: the policy approves one leaf only, and files
  under it are that team's. `OwnTreesGo` needs where agents' files are: while the team
  lives in the trees its default cards give it, from the deletion on in trees still to be
  considered, under a policy that lets them go (`Tracked`).
  *Assembly*: `DrainReachesEveryClient` needs that an open client is tracked, about to be
  closed by the drain under way, refused to be closed or came too late
  (`NobodyForgotten`), and that lifespans are entered in order and what has been left was
  entered after what has not (`EnteredInOrder`, `LeftInReverse`). `ServingIsWired` needs
  that each phase rests on the check made before it (`WiredInv`); the rest is about what
  the builder makes of a list of any length. A joined list has each module's part in one
  place (`FlattenPlaces`), so a key claimed once has one producer (`KeysHaveOneProducer`),
  the module that answers a key is that of its first route (`FirstAnswers`), and
  nothing spliced behind a list answers for it (`RoutesStay`). Sorted middleware has the
  specs in the order of their triples (`OrderedIsSorted`), stacking it from the end
  keeps that order (`StackedIsOrdered`), and what is kept of the composed stack is
  the stock one just if no spliced module repeats one of its classes (`OrderStays`), for the
  stock specs have their places in it, in order (`KeptIsOrder`).
  *Worker*: `HandlesAreLive` needs `Alone`: while nothing has crossed, one
  thread at most moves the team; what it read of the record is so still; a team that does
  not run has neither runtime nor handle; and a start finds the cache empty. The timer
  keeps it because a stop evicts in the step in which the actors die.
- **TeamApiProofs**. `UserTextStands`: nothing but `Describe` changes a text the user
  latched, because `Commit` writes under the origin it finds (`Latched`: once written
  by the user, the record exists, has the text and is of origin USER; a record never
  disappears), and a job that is about to notify has a text the store took
  (`NotifiesStood`). `AnswersAreTrue`: a request past the gate is about a team that had a
  record (`PendingHasRecord`), retirement is for good (`Keeps`), and so each reason a
  later read gives is still true when the answer goes out. `ListingIsExact` is about what is computed
  from one state. Pushing a clause's own metadata down to the store loses no team,
  because an entry starts with itself (`MatchedIsReference`). A sorted sequence exists
  because a team's place is the number of teams before it (`SortedIsSorted`). And the pages
  join into the whole (`PagesJoin`), for there is no least page up to which they do not:
  what a recursive definition computes is proved here from one function that
  satisfies it and a least counterexample (`FlattenJoins`).
- **ClientProofs**. `CacheIsUsable` needs that one process at most is between the read
  of its refresh token and the end of its save while none have collided (`OneChanges`), that what
  the cache names was written whole and is not the temporary file being written
  (`Tidy`), and that a rotated token is left only by a process which is to replace it
  (`Fresh`); a free inode for the temporary file is found by counting. `StreamIsTheTeams`
  needs that the manager's team is the session's, or the one the switch under way goes to
  (`OnTeam`), and that its socket is of its team (`Tuned`). `NoStreamIsLeft` needs that the
  live sockets are the manager's and the one a switch is closing, and that the reader
  dials only when what it would replace is dead (`Tended`); there the order in which
  a closed socket wakes the two coroutines enters (`DialMayEnd`).

Model-checked only: the liveness properties, for fairness and ENABLED are out of the
prover's reach. The induction theorems of the library take an operator, which the
installed provers cannot instantiate; so recursion over data (`FlattenSeq`, `Stacked`, `Kept`,
the pages) is a recursive function, reasoned about by a least counterexample
(`SameSteps`), and a sort is the place each element has by counting.

## 5. Where the code and its words part

Four disagreements have a run that shows them: `lifecycle_timer`, `lifecycle_revive`,
`ws_flag` and `channels_mistyped`. Others were met while modelling and are built into
the models, as a step they take or an exception a property makes:

- `close()` of a reader does not end the tick it is in: it discards the signal and
  sets a flag, and a `read_next` that sleeps sleeps on (`local_event_stream.py:142`;
  `ws.py:288-289` says otherwise).
- The comment at `local_placement.py:82-89` has it that a creation and a resume can
  never contend for one team id. A delivery to a team whose record was just written by a
  creation still in flight resumes it, and parks on the creation's claim.
- `assembly.py` says that a start-up failure unwinds the modules entered before it
  cleanly. `_drain_lifespan` has no `try`/`finally` around its `yield`, so the drain is skipped
  whenever an exception unwinds it (`drained = "skipped"`).
- `cli/auth/cache.py` says that readers never observe a truncated file. Two processes that save at
  once share `<profile>.json.tmp`: one opens it anew while the other renames it
  (`collided` in `CacheIsUsable`).
- `ManifestDelta.stock_middleware_reordered` is to be "deliberately independent of both
  additions and removals" (`assembly.py:751-756`). Manifests hold class names, so a client
  module that adds a second middleware of a stock class raises the flag wherever it
  slots in, and `middleware_added` does not list it. `ServingIsWired` states what holds:
  the flag is raised exactly then.
- `_load` and `_index_from_data` of the channel registry are written so that a damaged file
  does not keep the server from booting (`yaml_channel_registry.py:80-84`, `:140-142`). They
  are total for documents that parse; a save cut short can leave one that does not, and
  `safe_load` at `:77` raises out of the constructor (`down`).
- A resume that fails part of the way through its replay leaves what it replayed in the
  stream of a team that stays STOPPED, for `resume_team`'s `except` arm
  (`local_placement.py:215-217`) resolves the future, and nothing else here removes it. The next
  resume appends its replay to it, and clients see those events twice (`stream`, and the
  second conjunct of `Consistent`).
- The delete route answers 404 for a deletion the worker refused, though the team is
  there (`teams.py:323`; the exception in `AnswersAreTrue`).
- A description generated for a team that has been stopped meanwhile revives it, for its
  notification is a delivery (`Notify`).
- An upload that was admitted before a deletion makes the tree anew after it
  (`OwnTreesGo` speaks of agents' files only).
- The eviction subscriber calls a second eviction harmless
  (`runtime_cache_eviction_subscriber.py:32-33`). On a worker nothing keeps a resume from
  running between a stop and the stop route's own eviction, which then removes the new
  handle (`crossed` in `HandlesAreLive`).
- In the CLI, a reconnection that began before a switch can end after it and listen to
  the old team (`crossed`); `/reconnect` connects over a socket that may be live
  (`byHand`); picking a team in the full-screen front end leaves the old socket open
  (`NoStreamIsLeft` speaks of the line-based one).

## 6. Not modelled, and simplifications

- Whole components: the catalog's routes and authentication (one check per request,
  no state between requests; the catalog is another package), wiring and
  settings (single-threaded construction; what is wired sets the constants), telemetry,
  logging and error classes (observation only), and the rendering of the CLI.
- `read_from` (a snapshot), `NullEventStream` (keeps nothing), creations without a
  caller-supplied id (nothing to collapse).
- TeamManager's stop is one step: actors, record and `on_stop` together, in
  `TeamLifecycle` and `WorkerTeams`. Its order inside is another package's.
- More than one team in the stream, the placement and the sessions: the tables'
  entries do not interact.
- In `WsSession`: what a stream carries (that is `EventStream`), the reader pool with
  its queue of reads, which would make the model too large to check, clients that
  send frames, and a thread switch inside `remove_waiting` between `conns.remove` and the test
  that follows it. `disconnect_all` is in `AppAssembly`.
- In `ChannelConversation`: the wire formats of the parsers and adapters, which enter
  as the kind of message they produce; delivery failures of an adapter, which it logs.
- In `AppAssembly`: exception handlers and CORS allowlists (merged without a check),
  the router list of the core module.
- In `WorkspaceAccess`: containment across symbolic links and the recursive removal of a
  directory, which are the file system's; a tree goes as one step or not at all.
- In `TeamApi`: payload validation, which enters as the choice of a 422; timestamps of
  frames, so that the order of a generated text and a user's edit on the page is not
  decided.
- In `WorkerTeams`: the metadata PATCH, which touches no runtime and no handle; what a
  delivery carries; more than one team.
- In `CliSession`: the commands that only format one request; `check_health`, which has
  no caller.
- `StateChangedMessage` filtering, serialization, logging.

## 7. What comes next

The reader pool, as a module of its own over an abstract session.
