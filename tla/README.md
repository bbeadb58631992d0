# Models and proofs of the motorsport telemetry cloud

This directory holds TLA+ models of the parts of the system where order, failure and
interleaving matter, the TLC runs that check them on small instances, and TLAPS proofs of
the results that matter most. Paths below are relative to the repository (`src/`).

- [The system](#the-system)
- [Modules and how they correspond to the code](#modules-and-how-they-correspond-to-the-code)
- [Runs, bounds and what they show](#runs-bounds-and-what-they-show)
- [Where the code departs from its own claims](#where-the-code-departs-from-its-own-claims)
- [Fairness](#fairness)
- [What is proved](#what-is-proved)
- [What is not modelled](#what-is-not-modelled)
- [Plan](#plan)

## The system

```
 car (Pi) --MQTT QoS 0/1--> Mosquitto --> telemetry-ingest --> TimescaleDB <-- API --> browser
                               ^                |                               ^         ^
                               |                +--> Redis pub/sub + LKV -------+--ws-----+
                               +---- dynamic-security commands ---- API
```

Every process is Node: one turn runs at a time, and a turn ends at each `await` that reaches
the database, Redis or the broker. All the interleavings of interest are between such
turns, between processes that share a table or a channel, and between a process and its
own restart.

### Components

| Component | State it keeps | Operations | Meets | What makes it correct |
|---|---|---|---|---|
| Message handlers (`telemetry.service.ts`, `telemetry.controller.ts`) | none of its own | a frame, a backfill batch, a `start`, a `stop` | registry, sessions, writer, publisher | a frame is stored once, under its publisher's car and run, at one time; a run's end is announced once, after its samples |
| Device registry (`device-registry.service.ts`) | a slot per (device, sid): a promise or a context | resolve, forget, sweep, failed lookup | sessions | joined lookups all settle; a context is the session's for good, after a restart too |
| Ingest sessions (`ingest-sessions.service.ts`) | rows of `sessions` | open (find, insert, re-read), close (update, re-read) | the API, which deletes and closes the same rows | the loser of a race for a sid gets the winner's row only if it is its own |
| Telemetry writer (`telemetry-writer.service.ts`) | buffer, timer, chain of batches | enqueue, flush, write, drain | the table, stop handlers, shutdown | whatever is buffered is flushed; `flush()` waits for all that was unwritten |
| Live publisher (`live-publisher.service.ts`) | last-known value in Redis | publish a frame, an event | gateway | the seed agrees with the store |
| Telemetry store (migrations, entities) | tables, unique indexes, cascades | | ingest, the API | what readers may rely on: `RunStore` |
| Live gateway and bus (`live-telemetry/*`) | sockets, claims, rooms, refcounts | subscribe, unsubscribe, disconnect, Redis answers | Redis, cars (authorization), the live page | nobody hears a car he may not read; a watched car is subscribed |
| Teams (`teams/*`) | roster, invites | roles, removals, invites, acceptances | cars and sessions use its authorization | roles come from those entitled to give them; a team keeps an owner |
| Cars and broker administration (`cars/*`) | rows of `cars`, broker accounts, one command in flight | create, rename, delete, issue credentials; command, response, timeout | Mosquitto | a deleted car has no account; a command is settled by its own answer; the queue never stalls |
| Sessions API (`sessions/*`) | rows of `sessions` | create, edit, close, delete | ingest, lap analysis | closing is one-way |
| Lap analysis (`analysis/analysis.service.ts`) | rows of `laps`, a stamp on the session, a memo | derive, recompute, skip, compare | samples, tracks and their maps, a second instance | a stamped session has the laps of its samples |
| Analysis algorithms (`analysis/*.ts`) | the segmenter's running lap; else pure | segmenting, sectors and gates, optimal lap, comparison, braking points, traces | lap analysis | laps are what lies between crossings, splits add up but for rounding, the optimal lap is the best there is |
| Tracks and track maps (`tracks/*`) | rows, a promise per track | resolve, get with deadline, shared fetch, upsert, build | Overpass, a second instance, polling pages | a ready map is not replaced by a failure; the outline is the circuit or nothing |
| Authentication (`auth/*`) | the cookie, revoked ids in Redis | login, sliding refresh, logout | browser tabs | a token that was signed out stays out, and no other is refused |
| Frontend services (`frontend/src/app/core/services`) | signals: live page, chosen laps, map retries | frames and events in, choices, retries | gateway, API | the page shows the newest run, and laps of one derivation |
| Canvas and charts (`core/canvas`, `core/charts`) | a view override, pointers, a zoom | wheel, pinch, drag, resize; window and decimation | | the picture does not jump; no spike is lost and no gap bridged |
| Users; telemetry reads; migrations; simulator and scripts; deployment | rows or none | single queries, or outside the program | | not modelled, or as the environment |

### What is hard in it

Messages of one run arrive on three topics with no order among them, some of them twice, and
backfill hours late; every handler is cut at each query; ingest and the API share rows with no
lock; the process restarts and must rebuild what it had cached from rows; subscriptions and
their counts change while Redis has not answered yet; checks are made in one query and relied
on in another; two instances of the API derive the laps of one session, or fetch one map, at the same
time; a page is answered late, twice or never, while its user goes on; and the analysis works on
fixes that jitter on the line, stand still, or have no position. `PROJECT.json` lists these hazards
one by one, at the line where each bites, with the property that covers it or the reason none does.

## Modules and how they correspond to the code

| Module | Contents |
|---|---|
| `RunStore` | abstract: what readers of the store may rely on |
| `Ingest`, `MCIngest` | the telemetry-ingest process with the tables, Redis value and API calls it meets; its instance for TLC |
| `IngestProofs` | its inductive invariants, what follows from them, and that it implements `RunStore` |
| `LiveFanout`, `MCLiveFanout`, `LiveFanoutProofs` | gateway and bus of one API instance |
| `TeamRoster`, `MCTeamRoster`, `TeamRosterProofs` | one team's roster and invites, under concurrent requests |
| `MqttAdmin`, `MCMqttAdmin`, `MqttAdminProofs` | cars, their broker accounts and the command queue between them |
| `LapDerivation`, `LapDerivationProofs` | the laps of one session: derivations, recomputes, edits, two instances |
| `TrackMapCache`, `TrackMapCacheProofs` | the map of one track: fetch, row, instances, polling pages |
| `SessionToken` | one browser's cookie, its tabs, and the denylist; its proofs are in `PlatformProofs` |
| `LiveView` | the live page: sockets, deliveries, buffers; its proofs are in `PlatformProofs` |
| `LapView` | the analysis page: choices, four reads, the recompute; its proofs are in `PlatformProofs` |
| `GateCrossing`, `LapTrace`, `Sectors`, `OptimalLap`, `Braking` | the pure algorithms of the analysis |
| `Places` | the elements of a sequence at a set of its places: what a `filter` keeps |
| `LapSegmenter`, `MCLapSegmenter` | the segmenter, sample by sample |
| `Analysis` | what the API computes anew for each request about the laps of a session |
| `AnalysisProofs` | what is proved of the segmenter, and of the algorithms for any laps and traces |
| `TrackMapBuilder` | from the ways of a venue to the outline of its circuit |
| `Viewport`, `LineChart` | pan, pinch and zoom of a canvas; window and decimation of a chart |
| `Platform`, `MCPlatform`, `PlatformProofs` | the parts that share no state, side by side; their instances for TLC; what is proved of them together, and of sign-in, both pages and the canvas |

`PROJECT.json` maps each definition to its lines. Definitions commented "Mutated form" are not the
code: each is a plausible mistake in it, which a property must be able to tell from it.

### RunStore

Three sentences about the store, with no cache, buffer or restart in sight: a run, once opened,
keeps its device, car, sid and time line; each stored row is a frame of an open run; and a frame
has one possible row in its run, at `anchor + (mono - mono0)`. `Ingest` is shown to implement
it, with `runs` read off the rows of `sessions` and `stored` the rows of `telemetry_samples`.

### Ingest

One action is one turn of the process, or one query taking effect.

| Code | Model |
|---|---|
| `handleFrame`, `handleBackfill`, `handleSessionEvent` up to the registry | `DeliverFrame`, `DeliverBackfill`, `DeliverStart`, `DeliverStop` |
| `resolve()`: settled slot, joined promise, new lookup | `Resolve` |
| `load()`, `openSession()`: car, row, insert, re-read | `LoadFindCar`, `LoadFindRow`, `LoadInsert`, `LoadReread`; `LoadFail` for a query that fails in any of them |
| the promise settles, and its waiters go on | `Settle`, then `ContinueFrame`, `ContinueBatch`, `ContinueStart` |
| `enqueue`, `enqueueAll`, `scheduleFlush`, `flush` | `Enqueue`, `Flush`, `TimerFires` |
| `write()` | `WriteDone`, `WriteFails` |
| a stop handler: car, close, re-read, flush, announce, forget | `StopFind`, `StopClose`, `StopReread`, `StopFlush`, `StopAnnounce`, `StopForget`, `StopFails` |
| `onApplicationShutdown`, the exit after it, a crash | `Shutdown`, `Exit`, `Crash` |
| cars and sessions services of the API | `RegisterCar`, `DeleteCar`, `DeleteSession`, `CloseCheck`, `CloseUpdate` |

Four points of the translation deserve a word.

*Turns.* Continuations of a promise run back to back, before any other event: `turn` holds those
still to run, and every other action is `Idle`. Without this the model would have interleavings
Node cannot produce (a timer between two frames that waited on one lookup).

*Slots.* The registry stores promises. A slot is therefore either `pending` (with the lookup that
will settle it) or `ready`. `forget` and `sweep` empty a slot while its lookup goes on, so a
second lookup of the same key may be in flight; the first one, when it fails, deletes whatever
is in the slot. The model keeps this.

*Dedup.* The unique index is on session, seq *and time*, because a Timescale index must carry the
partitioning column. That a repeated frame is one row is thus not given by the index: it rests
on every copy getting the same time, in whichever process life it arrives. The properties
`OneRowPerFrame` and the refinement are about this.

*Abstraction.* A payload is its device, sid and seq; its time is a constant function `Mono` of the
frame; validation happens before any state changes and is left out; an hour of cache life is
"any time"; the 250 ms timer is an event that can happen once armed.

### LiveFanout

| Code | Model |
|---|---|
| `handleConnection`, `handleDisconnect` (and the token's expiry) | `Connect`, `Disconnect` |
| `subscribe`: the claim; the authorization; `addViewer` | `Subscribe`; `Authorized` / `Refused`; `AddViewer` |
| `addViewer`'s SUBSCRIBE answered, with success or an error | `Subscribed`, `SubscribeFails` |
| `unsubscribe`, `removeViewer`, `release` | `Unsubscribe`, `RemoveViewer`, `Released` |
| UNSUBSCRIBE answered | `Unsubscribed` |

The bus's entries are objects that handlers compare by identity, so an entry carries an `id`, and
a handler that awaited one entry does not mistake a later one for it. Commands on the subscriber
connection are answered in order. `overlapped` is a history variable: the cars a client has left
while its own subscribe for that car was still running (see below).

### TeamRoster

Each request of `TeamsService` is a record with a `pc`; each of its queries is an action
(`Authorize`, `Resolve`, `CountOwners`, `Write`, `Probe`, `CreateInvite`, `UpdateInvite`,
`FindInvite`, `FindMembership`, `Join`, `DropInvite`, `DeleteTeam`), and `Fails` ends a request at
any of them. Rows have ids, because the code writes by id: a membership that was deleted and
made anew is another row. Unique indexes and cascades are guards and effects of the writes.
Teams share no state, so one team is enough. `overtaken` and `raced` record that a request wrote
after another had changed the roster it had read; `granted` that a role was conferred by someone
who may confer it; `admitted` that an invite has made a membership.

### MqttAdmin

| Code | Model |
|---|---|
| `create`, `update`, `remove`, `issueMqttCredentials` | `Ask`, then `Insert` or `Read` |
| the row written at the end of each | `Stamp`, `DeleteRow`, `Rename`, `MarkUnprovisioned` |
| a query that fails | `QueryFails` |
| `ensureCar`, `issuePassword`, `removeCar` | `EnsureCar`, `IssuePassword`, `RemoveCar`: the commands left, as a sequence |
| `request` and its tolerated errors | `Tolerated`, `Completed` |
| `sendNow`, connected or not; its timer | `SendNow`, `SendRefused`; `Timeout` |
| `onResponse`, `settle` | `OnResponse`, `Settling` |
| a closing connection, and its publish callbacks | `Disconnect`, `Reconnect` |
| Mosquitto's plugin (external) | `Broker`, `Outcome`, `RoleAfter`, `AccountAfter` |

Commands and responses travel in order. A timeout may be *late*: its command still reaches the broker, and the
response still comes back. `overlapped` are the cars and devices of every two requests that met, working on a car or a
device of both at once, which nothing in the code excludes; `halfway` the cars whose removal from the broker failed between its two commands, or was not
followed by the change of their row (a rename leaves its row alone when the *removal* fails, as that call stands
outside its `try`; a delete leaves it for a repeated delete); `misled` that a response has settled a command that
was not its own. A password is abstracted to whether somebody was told it. Edits that do not rename, the move between
teams and authorization are left out: they send nothing to the broker.

### LapDerivation

One request is a `getLaps` or a `recompute` on one of the instances; each query or answer is an action.

| Code | Model |
|---|---|
| `getLaps`, `recompute`, `requireReadableSession` | `Ask`, `ReadSession` |
| `derive`: the track, the count and the memo, the samples | `ResolveTrack`, `Count` (with `Remembers`), `ReadSamples` |
| `applySectorGates`, `deriveSectorGatesFor`, `setDerivedSectorGates` | `Known`, `Usable`, `ReadRing` (with `Proposed`), `Persist` |
| `insertIgnoringDuplicates`, `replaceSession`, `setAnalyzedAt`, the row read back | `WriteLaps` (with `InsertIgnoring`, `Stored`), `Stamp`, `Confirm` |
| `skip`, `respond`, a failed query | `Skip`, `Respond`, `QueryFails` |
| outside: ingest, the sessions API, a map, a redeployment with a corrected gate, a crash | `SamplesArrive`, `CloseSession`, `PatchTrack`, `DeleteSession`, `MapArrives`, `Redeploy`, `Restart` |

What segmenting finds is a constant (`Laps`, and `Clean` for the sector gates a lap crosses); `LapSegmenter` and
`Sectors` are about that. `Expected` is what deriving the session now, undisturbed, would store. `moved` records
that what laps are derived from has changed since they were cut, and a forced recompute that runs alone clears it;
`unseen` that a gate changed under the same `updatedAt`, or the session changed tracks: the memo cannot know.

### TrackMapCache

`get` is `Find`, then `Found`, which answers from the row or joins or begins the instance's fetch; the fetch is
`Fetched`, `Upsert`, `Reread`, or `SaveFails`; a caller who waits gets the fetch's answer, or `pending` at its
`Deadline`. The page is `Open`, `Close`, and `RetryFires` for its timer; `Seen` is the effect that looks at each answer.
`Restart` loses an instance's fetch, `Ages` lets an `unavailable` row go stale. `overlap` records that a fetch began
beside another: on a second instance, or on a row read before the first was saved.

### SessionToken

`Send`, `Verify`, `Check` (or `CheckFails`), `Handle` (or `HandlerThrows`), `Login`, `Logout` (or `LogoutUnrecorded`) and
`Deliver` take one request of a tab from the cookie it is sent with to the `Set-Cookie` headers of its answer, which
arrive in any order. `Tick` is half a second: the clock is finer than `iat`, `exp` and the TTLs, so that rounding shows.
`DenylistLost` is a Redis restart, after which what had been signed out is let in again: the properties excuse it.

### LiveView

`Connect` and `Leave` follow the address; `LinkUp`, `Joined`, `Refused`, `LinkDown`, `LinkRefused` and `Expire` are the
socket and the gateway; `Publish` puts a message of ingest on the sockets in the car's room, and `Deliver` hands one to
`onFrame` or `onEvent`. Each socket opened so far stays in the model, as its queue may still hold messages. The seed
was read on another connection, so it may be any frame of the car.

### LapView

An `httpResource` is a record: what it asks for, its status, value, and the answer on its way. `Follow` recomputes every
request after each change, as signals do; `Reloaded` is `reload()`, which leaves a read in its first load alone. The
commands are `Open`, `Select`, `ToggleCompare`, `SetCompare`, `Recompute`; the API's side is `PostDerives`,
`PostAnswered`, `PostFails`, `Serve`, `Arrive`, `ReadFails`.

### The algorithms

All work on a grid of integers: positions are projected already, roads and gates are parallel to its axes. The projection
itself is thereby left out, and so is rounding, except where a property is about it: where the code divides, so does the
model, by `\div`, and what is proved holds of the quotients as they come out. The view of a canvas is a pair of exact fractions.
In `Sectors` the instant and the distance at which a gate or a fraction of a lap is reached are exact fractions too, and each split
is rounded on its own, by `Math.round`, as in the code.

| Module | Code |
|---|---|
| `GateCrossing` | `segmentIntersection`, the side a fix comes from, which pairs of fixes count |
| `LapSegmenter` | `push` as `PushUnlocated`, `PushWithin`, `PushAcross`; `acceptCrossing`, `closeLap` |
| `LapTrace` | `findLapWindow`, `buildLapTrace`, `anchorToLap`, `compareLaps` |
| `Sectors` | `sectorTimes`, `sectorTimesFromGates`, `deriveSectorGates` with the ring's direction and nearest node |
| `OptimalLap` | `pickBestSectors`, `buildOptimalLap`, `stitchOptimalTrace`, and the service's `compare`, `traceForRef`, `optimalTraceFor` |
| `Braking` | `detectBrakingPoints`, point by point |
| `Analysis` | one request: an optimal lap, a comparison or the braking points of a lap, of any session in `Cases` |
| `TrackMapBuilder` | the choice among ways, components, the walk, closure and length checks, corners |

`Viewport` is `createCanvasViewport` along one axis (`Refit`, `ResetView`, `OnWheel`, `OnPointerDown`, `OnPointerMove`,
`OnPointerUp`); `LineChart` is the zoom window, the buckets and the path of a chart.

### Platform

The last nine modules share no state with one another. `Platform` puts the stateful ones side by side, each with variables
of its own: a step of it is a step of one of them. Each part's property, under the name the runs use, is a property of
`PlatformSpec`; `PlatformProofs` draws it from the proofs of that part. In `MCPlatform` nothing is gained by interleaving
them: `part`, chosen at the start, is the one that moves, and the others stay as they began, where their properties hold
trivially. "analysis" is `Analysis`: it picks a case (three laps with splits and traces, a braking trace; and for the algorithms
outside it a ring and a lap, a set of ways, a chart) and stops; the properties apply the algorithm to it. The parts'
assumptions are evaluated by the `ASSUME` of `Platform`, those on the cases by the `ASSUME` of `Analysis`.

## Runs, bounds and what they show

| Run | Module, cfg | Expect | Distinct states | Shows |
|---|---|---|---|---|
| `ingest` | `MCIngest`, `Ingest.cfg` | pass | 750,629 | safety of the ingest process, and that it implements `RunStore` |
| `ingest_api` | `MCIngest`, `IngestApi.cfg` | pass | 244,405 | `RunStore` while the API deletes and closes; buffers drain, lookups settle, stop handlers finish |
| `ingest_stop_order` | `MCIngest`, `IngestStopOrder.cfg` | violation | | the end of a run announced with a sample still buffered |
| `ingest_close` | `MCIngest`, `IngestClose.cfg` | violation | | `endedAt` moved after completion |
| `live_fanout` | `MCLiveFanout`, `LiveFanout.cfg` | pass | 180,138 | counts, rooms and subscriptions agree; every subscribe is answered |
| `live_fanout_overlap` | `MCLiveFanout`, `LiveFanoutOverlap.cfg` | violation | | a viewer silenced by another who left during his subscribe |
| `team_roster` | `MCTeamRoster`, `TeamRoster.cfg` | pass | 1,044,423 | no role out of nowhere; an owner stays unless requests race; accepted invites go |
| `team_last_owner` | `MCTeamRoster`, `TeamLastOwner.cfg` | violation | | a team with no owner |
| `mqtt_admin` | `MCMqttAdmin`, `MqttAdmin.cfg` | pass | 519,150 | every request ends; accounts and rows agree |
| `mqtt_late_response` | `MCMqttAdmin`, `MqttLateResponse.cfg` | violation | | a late response settles another request's command |
| `platform` | `MCPlatform`, `Platform.cfg` | pass | 1,114,649 | the parts below, one after another |
| `trace_opens_on_line` | `MCLapSegmenter`, `LapTraceOpens.cfg` | violation | | a lap whose trace does not begin on the line |

Deadlock is not checked in any run: devices may stop publishing, users may leave, and the
bounds end every behaviour.

**Ingest.** Two devices, two sids that both may use (cloned SD cards), two cars of which one registers
late, two session ids, two lookups and one stop handler in flight, `MAX_BUFFERED_ROWS` of 2. The
messages are chosen so that each interesting meeting occurs: a frame and its backfilled copy, a
batch that carries another run's frame and fills the buffer at once, an empty batch, a start, a
repeated stop, and another device's frame and stop under the same sid. `ingest` allows three deliveries,
one clock tick and one fault (a crash, a shutdown, a failed query, insert or publish) anywhere. Three deliveries
suffice for the meetings named: two lookups of one key need two messages and a forget, a race for a sid two
messages, a repeated stop a frame and two stops. Session and lookup ids are symmetric. `ingest_api` allows two
deliveries, a fault and one call of the API, with no symmetry (liveness is checked in it) and no clock tick, so that an idle sweep
beside a deletion is not in it: the proof of `IngestInv` covers that, and what larger numbers would add.

- `OneRowPerFrame`, `Attributed`, `LiveIsStored`: what is stored, buffered and shown is right.
- `AtMostOneStop`: a run's end is announced once; the exception it names (the session deleted and
  opened again between the close and its re-read by sid alone) is real.
- `FlushAwaited`: a resolved `flush()` covers what was unwritten when it was called, chained batches
  included.
- `NothingVanishes`: a step takes a sample out of the writer only into the table or into a failed
  batch, unless the process dies.
- `BufferDrains`, `LookupsSettle`, `StopsFinish`: no sample waits for traffic to be flushed, and nobody hangs, whichever query
  fails.

**LiveFanout.** Three sockets, of which one may not read the car, two subscribe handlers at once, five
messages, two failed queries or commands. Three sockets give a viewer who stays, one who leaves and
an outsider; two handlers a SUBSCRIBE with two waiters; five messages a leave and a return while
commands are unanswered. One car, since cars meet only in a disconnect, which releases each of them;
`live_fanout_overlap` has two.

- `EntryIsSubscribed`: no count without a subscription that is made or on its way.
- `RoomIsReadable`: whoever is in a car's room passed its authorization.
- `RefcountExact`, `ViewerIsFed`: the count is the number of viewers and whoever is in the room is fed, except
  for `overlapped` cars.
- `SubscribeAnswered`: every subscribe ends.

**TeamRoster.** Three users, two requests at a time, four in all, one failed query (no platform admin;
the run that ends in a violation has one). Four requests are what it takes to make a second owner and have
both leave, or to make a manager who invites. Users, requests and rows are symmetric.

- `RolesAreGranted`: each role on the roster was conferred on that user by someone entitled to, whichever
  invites were refreshed, revoked or accepted meanwhile.
- `OwnerKept`: an owner remains unless a request wrote after another had changed what it read.
- `InviteIsUnaccepted`: an accepted invite is gone or about to go, unless a query failed.

**MqttAdmin.** Two cars, two device names, one publish topic, two requests at a time, three in all (create, issue, and a
rename, delete or second car), one failed query or lost connection, one late answer, anywhere. One topic is enough for a
role half made. Five tokens are more than are ever under way. Cars get their ids, and requests their places, in a fixed
order, which changes nothing but names; with that the liveness property is checked in the same run.

- `RequestsEnd`: every request ends, so nobody is stranded behind a command that will not settle.
- `NoOrphanAccount`: an account whose password somebody knows belongs to a car, but for the devices of requests that met, and
  once a response has misled one. Leaving out only the devices both requests worked on is not enough, which TLC does not find
  within these bounds, and the proof did: a car is renamed from d1 to d2 while it is being deleted; credentials issued for d2 before
  the delete removes the row are orphaned by it, as the delete has read d1 and never hears of d2.
- `ProvisionedWorks`: a row that claims to be provisioned has an account that can publish, unless its removal stopped `halfway`.

**Platform.** Instances, requests, viewers, tabs and the page's sessions are symmetric.

- *LapDerivation* (201,605 states). Two instances, two requests at a time, three in all; one track with a gate that may be
  corrected, a ring set and a reference-lap set that different numbers of samples cross; up to three samples with a
  ceiling of two; one edit, one failure. Two requests are a race, the third reads or recomputes what it left.
  `DerivedOnce`: an analysed session has exactly what deriving it undisturbed would give, unless an input moved.
  `AnswersHaveLaps`: an answer that gives no reason has laps. `MemoHonest`: the memo of a session without crossings masks none.
- *TrackMapCache* (85,461). Two instances, two pages, two requests, one retry, two openings, one failure and one cooldown. One
  retry is the whole budget and its end; that a larger budget is spent no faster is proved.
  `ReadyStays`, but for overlapping fetches; `PollsEnd`: a page that shows `pending` asks again, and not more often than it may.
- *SessionToken* (238,173). Two tabs, tokens of two seconds refreshed after one, four half seconds, three tokens, one failure. Four half
  seconds take a token from its login to the second it expires in.
  `DenylistIsExact`: what was signed out stays out while it would be valid, and a refresh in one tab refuses nothing of another.
- *LiveView* (149,943). Two cars, three sessions, five messages, buffers of two, two sockets, three published messages, one failure. Three
  messages fill and overflow a buffer, or make a stop, a straggler and a next run. `TraceIsOwnNewest`: the buffers hold the newest samples of the
  run whose data came last, of one origin, and of the car in the address.
- *LapView* (183,127). Two sessions, a derivation of three laps with an optimal one and one of two laps without, of which the first is there at the start, two commands, one recompute, one
  failure. `PageIsOfOneDerivation`: once every read is in, laps, traces and delta are of the choice shown and of the latest derivation.
- *Viewport* (70,060). Three pointers at three places, five events. `PictureStays`: a pinch is measured from the fingers
  that are down, and a wheel leaves the point under the cursor where it is, at the limits of the zoom too.
- *LapSegmenter* (149,797). Every session of six samples, each before, behind or on the line (and slow), or without a position, two hops.
  `LapsAreCrossings`: the laps are those of a definition over the whole session; `LapsAbut`; `TraceRebuildsLap`: the trace made
  anew from stored samples has the points the lap was timed on.
- *Analysis* (36,483 states). `SectorsAreSound`: gates do not depend on how the ring is written down; splits sum to the lap,
  and end where they should, to within half a millisecond for each split summed, and no better: the laps of the run include one whose
  rounded splits do not sum to its time.
  `OptimalIsSound`: no choice of complete laps beats the optimal lap, its braking points are in order, and its stitched line is whole. `ComparisonIsSound`:
  of any two laps, and of a lap and the optimal one, both columns of a comparison hold when each was where. `BrakesAreWhole`: one stop is one marker. `CircuitOrNothing`: a circuit cut
  and drawn in any way is outlined once round, and one with a way missing not at all. `ChartIsSound`: extremes and gaps are kept.

Every property of a passing run is also tried against a mutated form of the code it guards, which TLC must find
violated.

## Where the code departs from its own claims

1. `ingest_stop_order`. A stop handler closes the row, flushes and then announces the end, and forgets the
   context last. A frame handled while it awaits the flush is buffered again, and the announcement goes out
   ahead of it, which the comment at `telemetry.service.ts:142` means to exclude.
2. `ingest_close`. `SessionsService.close` checks the status and updates by id alone; a device's stop in
   between is overwritten, and `endedAt` moves (`sessions.service.ts:177` says it must not).
3. `live_fanout_overlap`. A car is claimed before its authorization is awaited, and a leave releases a claim
   that `addViewer` has not counted: another viewer's count goes, the car is unsubscribed under him, and the
   continuation then counts a viewer who has gone.
4. `team_last_owner`. `assertNotLastOwner` counts in one query and its caller writes in another: two owners who
   leave at once both pass.
5. `mqtt_late_response`. `onResponse` matches by command name and takes the token from the command in flight, so
   the token, introduced (`mqtt-admin.service.ts:57`) against exactly this, does not stop a response that comes after its
   own command timed out from settling the next one of the same name.
6. `trace_opens_on_line`. `findLapWindow` hands back one sample either side of a lap, whatever it holds, and `buildLapTrace`
   drops those without a position. Where the one next to the line has none, the crossing cannot be interpolated and the trace opens at the
   first fix past the line, though `analysis.service.ts:515` promises it opens and closes on it.

Smaller observations made while modelling, not stated by any run:

- Live feed: the last-known value is deleted with the announcement of a run's end, so that it seeds no new viewer, but a frame that is handled after it
  (its lookup was slow, or it was delivered late) sets it again: `publishFrame` does not ask whether the run is over. A client whose token expires is disconnected by the server, which `socket.io` does not undo by itself
  (`live-telemetry.gateway.ts:244`). A late stop of the last session clears the running-session signal of the one begun since.
- Derivation: between `replaceSession` and `setAnalyzedAt` the new rows are read with the old scheme; the comment at
  `laps.repository.ts:33` ("derive the same laps") does not hold where inputs move between two first reads; a session
  moved to another track may be answered by the memo of the first. After a recompute a picker may be bound to a lap that is gone
  (`lap-picker.ts:78`), and a trace still in its first load is not reloaded.
- Maps: a failed fetch that began on a stale read overwrites a map that is READY since; `fetchAndPersist` returns `save()`
  without awaiting it, so that its `catch` does not see a failed save.
- Authentication: the answer to a request sent before a logout may set a fresh cookie after it.
- Algorithms: the splits of a lap are said to sum to its time (`sectors.ts:23`); each is rounded on its own, so they may miss it by
  a millisecond or two, which `sectors.spec.ts:47` allows. A fix exactly on a sector gate counts for two crossings; a wrong-way first crossing latches the wrong direction; the
  winding of a ring whose nodes lie further apart than the 50 m probe is not detected.
- Canvas: a zero pan or a pinch at the fit pins the view although callers mean not to store such a gesture; a pinch zooms about the new middle
  and then pans, so that the point between the fingers drifts; a resize may leave an override outside the limits. A chart's decimation may exceed its
  point budget by one.

## Fairness

`Ingest` assumes weak fairness of the microtask queue, of an armed timer, of the writer's insert (it is
answered, with a result or an error) and of each lookup's and stop handler's next query (the same). These are
what Node and a database driver with connection errors provide. Nothing is assumed of devices, of crashes, of
the API or of the clock. `LiveFanout` assumes that every query and every Redis command is answered or fails, and
nothing of clients. `MqttAdmin` assumes that queued commands are sent, that responses are read and timers expire, that
queries are answered or fail, and that the broker takes what reaches it. No strong fairness is used. The parts of
`MCPlatform` are checked for safety only: their requests have no retry loop other than the page's polling, whose bound is `PollsEnd`.

## What is proved

TLAPS checks the following for every value of the constants: any number of devices, runs, cars, sessions, lookups,
handlers, sockets, users, requests, instances, messages and faults.

| Theorem | Property |
|---|---|
| `IngestInvariant`, `IngestTyped`, `FlushIsScheduled` | `IngestInv`, with `TypeOK` and `TimerArmed` in it |
| `OneRowAlways`, `AttributedAlways`, `LiveIsStoredAlways`, `FlushAwaitedAlways` | `OneRowPerFrame`, `Attributed`, `LiveIsStored`, `FlushAwaited` |
| `NothingVanishesAlways` | `NothingVanishes` |
| `RunStoreImplemented` | `Spec => Store!Spec` |
| `StopInvariant`; `AtMostOneStopAlways` | `StopInv`; `AtMostOneStop` |
| `FanoutInvariant` | `FanoutInv` |
| `EntryIsSubscribedAlways`, `RoomIsReadableAlways`, `RefcountExactAlways`, `ViewerIsFedAlways` | `EntryIsSubscribed`, `RoomIsReadable`, `RefcountExact`, `ViewerIsFed` |
| `RosterInvariant` | `RosterInv` |
| `RolesAreGrantedAlways`, `OwnerKeptAlways`, `InviteIsUnacceptedAlways` | `RolesAreGranted`, `OwnerKept`, `InviteIsUnaccepted` |
| `AdminInvariant`, `NoneStrandedAlways` | `AdminInv`, with `NoneStranded` in it |
| `NoOrphanAccountAlways`, `ProvisionedWorksAlways` | `NoOrphanAccount`, `ProvisionedWorks` |
| `DerivationInvariant` | `DerivationInv` |
| `AnswersHaveLapsAlways`, `DerivedOnceAlways`, `MemoHonestAlways` | `AnswersHaveLaps`, `DerivedOnce`, `MemoHonest` |
| `CacheInvariant`; `PollsEndAlways`, `ReadyStaysAlways` | `CacheInv`; `PollsEnd`, `ReadyStays` |
| `TokenInvariant`; `DenylistIsExactAlways` | `TokenInv`; `DenylistIsExact` |
| `SegmenterInvariant`; `LapsAbutAlways` | `SegmenterInv`; `LapsAbut` |
| `CrossingsInvariant`; `LapsAreCrossingsAlways`, `TraceRebuildsLapAlways` | `CrossingsInv`; `LapsAreCrossings`, `TraceRebuildsLap` |
| `OptimalIsBestAlways`, `StitchedLapIsWholeAlways`; `OptimalIsSoundAlways` | the two parts of `OptimalIsSound`, for any laps; `OptimalIsSound` |
| `DeltasAreInterpolatedAlways`, `OptimalIsComparedAlways`; `ComparisonIsSoundAlways` | the two parts of `ComparisonIsSound`, for any traces; `ComparisonIsSound` |
| `BrakesAreWholeAlways`; `BrakingIsWholeAlways` | one stop is one marker, for any points; `BrakesAreWhole` |
| `OwnInvariant`, `TraceInvariant`; `TraceIsOwnNewestAlways` | `OwnInv`, `TraceInv`; `TraceIsOwnNewest` |
| `PageInvariant`; `PageIsOfOneDerivationAlways` | `PageInv`; `PageIsOfOneDerivation` |
| `CanvasInvariant`; `PictureStaysAlways` | `ViewportInv`; `PictureStays` |

*Assumptions.* Each module names its own (`IngestAssumption`, `NoneAssumption`, `FanoutAssumption`,
`RosterAssumption`, `AdminAssumption`, `SegmenterAssumption`, `GridAssumption`, `DerivationAssumption`,
`CacheAssumption`, `TokenAssumption`, `ViewAssumption`, `PageAssumption`, `ViewportAssumption`, `CaseAssumption`), and
TLC evaluates each on its instance. They give the types of the constants and that `None` is no id and no record.
Beyond that: each frame of a message is its publisher's (the device is that of the topic, which the broker's ACL makes
genuine) and a live frame has its message's sid; sockets, cars and users are finitely many; segmenting no samples
finds no lap. `GridAssumption`, which only `TraceRebuildsLapAlways` needs, puts samples on a grid of times and places
that crossings lie on too, as the code's fractions of a hop are floating-point numbers and those of the model whole
ones; `ViewportAssumption` measures the screen in half pixels and puts pointers on whole
ones, so that the middle of two is a place. `CaseAssumption`
says of the sessions asked about what segmenter and traces provide: laps numbered by their places, with braking points
in order; traces in order on both axes; and that a trace with length ends on the move, its last sector begun before
its end. Without the latter the last slice of a stitched line may be empty, or stand still, while its sector takes
time. The lemmas behind the theorems of `Analysis` are about any laps and traces, with these conditions written out.

**Ingest.** `OneRowPerFrame` is not inductive: it says nothing of a sample still in the buffer, whose insert could
break it, nor of a context in the cache, from which a wrong sample could be built. `IngestInv` therefore says of every
context, wherever it is held (slot, lookup, running turn), that it is its session's row as it was opened and that the
session is its caller's (`ContextOK`), and of every sample, wherever it is (table, buffer, chain, lost, Redis), that
it is the one row its frame has in its session (`SampleOK`). Both are stable because no step changes a session's car,
sid or anchor (`SessKept`). Two samples with equal dedup keys are then equal (`SameKeySameSample`), which gives
`OneRowPerFrame` and that `ON CONFLICT DO NOTHING` never drops a sample that is not already stored (`Inserted`), which
`NothingVanishes` needs. `PromisesOK` says that each promise of `flush()` covers the samples it was given: they are
among the batches ahead of it, stored or lost. `IngestProofs` has one lemma per kind of step, each resting on frame
lemmas that say which parts of the invariant a step that leaves the registry, or the writer, alone cannot disturb. The
refinement maps opening a session to `Open`, a finished insert to `Store`, and all else to stuttering; a deleted
session keeps its run, as its samples (there is no foreign key) keep pointing at it.

`AtMostOneStop` has an invariant of its own, `StopInv`: of a session whose sid was never deleted, at most one handler
has closed it and is yet to announce it (`Announcers`), and none has while it is `LIVE` or once it is announced. A
handler between its close and its re-read knows the sid alone, so it counts for the one session that sid has; that a
deleted sid may be opened again is why the property leaves it out.

**LiveFanout.** `FanoutInv` says that each entry is backed, by the last command sent for its car or by the
subscription there is; that an id belongs to one car and its SUBSCRIBE is answered once; and, of cars nobody left
during their own subscribe, that a running handler's claim is held and is the only one, that waiters wait on the entry
there is, and that everyone counted waits until the answer. The count is the cardinality of the viewers counted, which
is where finiteness is needed.

**TeamRoster.** `RosterInv` says that fresh ids never meet an id in use, that every request past its authorization
carries an offer that was granted, and that an id that was admitted belongs to the invite it came from. For
`OwnerKept` it says of a pending write that nothing has overtaken that it leaves another owner: a write or a join puts
every other pending write into `overtaken`.

**MqttAdmin.** Accounts change at the broker, rows in the database, and what a request knows of either is what its
last answer said. `AdminInv` therefore begins with the wire: the command in flight is the last one sent, so nothing it
was answered about has changed since (`InFlightOK`: no later command is on its way, and what it `Achieved` still
holds), whichever earlier commands were late; a token in use is not given out again. A request that met no other works
on the row it read (`OverlapOK`, `Alone`). Of the devices of such requests, one that no row has, or whose request has
had its account deleted (`Removed`), has no account somebody could use, and no password is on its way to it
(`Unusable`): this is `NoOrphanAccount` through every intermediate state of a delete or a rename. `ProvisionedWorks`
needs that each answered command of an issue leaves what the next ones build on (`Progress`: what is not there yet is
among the commands left) and that nothing that destroys the account is still on its way (`Spared`), as a late
`deleteClient` of an earlier delete would be. From the moment a late response has settled another command (`misled`)
nothing is claimed of accounts. The proof follows each broker command through each of these, by name.

**LapDerivation.** `DerivationInv` says three things of every request. What it has read is how things are (`Current`),
unless something moved since, and but for sector gates stored meanwhile, which are then the ones it will find itself;
so all of them cut the same laps, and `insertIgnoringDuplicates` of those into those changes nothing. Rows come before
the stamp (`LapsComeFirst`), since a derivation that gets as far as writing has laps to write. And what a memo or a
request holds of the session is of its past (`MemosAreOld`): no more samples, no later `updatedAt`, and the same gate
if `updatedAt` is the same. `AloneIsAlone` is what lets a forced recompute clear `moved`.

**TrackMapCache.** `CacheInv` says that unless fetches overlapped there is one at a time and none about to be saved
over a READY row, and that a page's timer stands for its next request: at most one is outstanding, and what it has
asked so far is what its retry count says.

**SessionToken.** `TokenInv` says that a jti determines its token, that whatever is refused was signed out, and that
the entry of a token that was signed out lasts as long as the token: `Exp - Seconds(now)` seconds from now is never
before `Exp`.

**LapSegmenter.** `SegmenterInv` says that the running lap begins where the last one ended and holds the crossing as
its first point. `LapsAreCrossings` compares what `push` keeps, one fix and the running lap, with a definition over
the whole session. `CrossingsInv` ties the two: the last fix is the last located sample (`PrevIsLast`), and the laps
are between the places, in order, of the crossings that count (`Counted`, `Runs`), each with the fixes of its stretch
(`Holds`; `Underway` for the running lap). A sample without position changes no stretch, and a new one makes at most
one new place, the last (`RawAppend`), so that whether an earlier crossing counts never changes (`CountedKept`). For
`TraceRebuildsLap` the stored samples of a lap are its stretch and its neighbours (`TraceLists`, `WindowEnds`);
interpolating between a neighbour and the first fix gives the crossing's own place, as the fraction of the hop at its
time is the fraction of its place (`WholeHop`, `SameFraction`).

**The algorithms.** They fold over data, and what they fold is proved by induction along 0 .. n over a *set* of places
(`Reaches`): its least counterexample (`NatMin`, from the library's theorem on well-founded relations) has a
predecessor that is none. `Recursion` gives from it that a recursive function exists and satisfies its equation, and
`PickedLists` that what a `filter` keeps is a listing of the places kept, in order.
- *Comparison.* The cursor never moves back and never stops short (`AdvanceIs`, `CursorAdvances`), so each column
  reads the hop its distance lies in (`BracketIs`), and the last column is the end of the shorter trace (`AxisIs`).
- *Braking.* The scan is a state per point. By `StepKeepsWhole` each point keeps that every stretch of hard braking so far is in one
  zone, that each zone lasts, and that two zones are further apart than a dip; merging and dropping short zones is
  where a stretch might have been lost.
- *Optimal lap.* A least element of finitely many laps exists for each sector (`BestExists`), and a sum of least terms
  is the least sum (`SumGrows`). A braking point keeps its order since a sector only takes those between its own
  bounds (`BrakesAtIs`), and shifting sector by sector leaves them in order (`IncreasingConcat`).
- *Stitched line.* Looking up a distance by a time, and a time by a distance, is monotone (`ValueIs`, `ValueGrows`),
  so a sector's bounds are in order along its trace (`BoundsAre`). Its slice is a trace from the one to the other
  (`CutIs`), and stretched to its sector's time still one (`ScaledIs`), from seam to seam; so the slices join
  (`SliceJoins`, `TracesJoin`, `JoinedIs`). Thinning keeps the order and both ends (`ThinnedIs`).

**LiveView.** What the buffers hold is said of a history, `log`, of what this visit was sent, by lists of places in
it: the newest of the run's frames, and of its fixes, in order and with none passed over (`Newest`). That is not
inductive: whether the next message begins the buffers anew depends on the session the service holds, and what it
appends on its origin. `TraceInv` says that both are those of the message the latest run starts at, or that there is
no data yet. It rests on `OwnInv`: of all the sockets only the one the service holds is heard, so that what is shown
is what is logged, and each carries messages of its own car, the seed included. One lemma per idea: `RunGoesOn` and
`RunStarts` say where the latest run starts after a message, `FramesGrow` which places are added, and `BufferGrows`
that `Appended`, which gives up the oldest, is a list of the newest again.

**LapView.** `PageInv` says of each of the four reads that it asks for what is shown now and is idle exactly when that
is nothing, that an answer is on its way only to a read under way, and that, unless a derivation was made that the
page is yet to be told of (`Behind`), what it was told, or is about to be, is what the API would answer now. A read's
key names its session, so that moving to another one gives it another key and needs no case of its own.

**Viewport.** `PictureStays` is not about states alone: it says that the wheel, turned in any view there can be, keeps
the point under the cursor. `ViewportInv` says that each gesture leaves a view with a positive scale and denominator,
and that the pinch is that of the two fingers that are down; the rest is arithmetic of fractions (`ReducedIsSame`,
`ClampedIsPositive`, `ZoomHolds`), where the zoom that is used is the clamped one and the pan is computed from it.

*The platform.* No step of a part touches the variables of another, so that `PlatformSpec` implements each part's
`Spec` (the lemmas `DerivationGoesOn`, `MapsGoOn`, `TokensGoOn`, `LiveGoesOn`, `PagesGoOn`, `CanvasGoesOn`), and what
is proved of a part holds of the platform, under the name its run checks.

*Only model-checked.* `SectorsAreSound`, `CircuitOrNothing` and `ChartIsSound`: a ring read from any node in either
direction, a search over the ways of a venue and the buckets of a chart, each a chain of folds and fixed points over
data, of which no part is proved yet. And liveness (`BufferDrains`, `LookupsSettle`, `StopsFinish`,
`SubscribeAnswered`, `RequestsEnd`), which needs `ENABLED`.

## What is not modelled

- Users and the telemetry reads of the sessions API: single queries, with nothing to interleave.
- Payload validation, formats and logging: nothing changes before a message is valid.
- The simulator and the scripts: devices are the environment of `Ingest`, which may publish any message at any time.
- Deployment and certificates; rendering: axes, ticks, colours, the racing line's drawing.
- Rounding and the projection to local metres: the algorithms are modelled on a grid of integers. Splits alone are rounded as in
  the code; a lap's own ends are whole milliseconds, so the rounding of the lap time itself, half a millisecond more, is not seen.
- Physical time, but in `SessionToken`: timers and expiries are events that may happen at any time once armed.
- Two API instances for the gateway and the command queue: the refcounts are per instance, and Redis delivers to each; command
  queues would share a response topic.
- A restart of the API in the middle of a request to the broker: what it leaves behind there is what a failed query does.
- The request to Overpass, the check of a password, and the browser's own handling of cookies are external, with every outcome possible.
- Several sessions, tracks or teams at once: they share no state, except that sector gates derived for one session serve the
  next on its track (`LapDerivation` keeps them on the track).

## Plan

Done: the path of a sample (`Ingest`, with its refinement), the live feed, the roster, the command queue, derivation and its algorithms, maps,
tokens, both pages and the canvas; proofs for all the stateful ones, and of the segmenter, the traces, the comparison, the braking points and the optimal lap.

Next, in order of importance:

1. An account register with atomic operations as an abstract specification of `MqttAdmin`, for requests that do not meet.
2. Two sessions on one track in `LapDerivation`, so that the gates one derives are the ones the other finds.
3. `SectorsAreSound`, by the lemmas on listings and quotients that the stitched line rests on.
4. Cars that move between teams, and the reads of the sessions API, as the authorization of `LiveFanout` sees them.
