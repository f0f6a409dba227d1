# GoTransit: a verification development

TLA+ models of GoTransit's live, concurrent core and of the planner, the
overlay, the street graph and the bike share queries it serves, the TLC runs
that check them on small instances, and TLAPS proofs of what matters most. Line numbers in
this file and in `PROJECT.json` are those of the sources under `src/`.

## 1. The system

GoTransit is a journey planner in one Go process. It builds a street graph from
an OSM extract, compiles GTFS feeds into a RAPTOR timetable anchored to that
graph, overlays GTFS-Realtime data, follows GBFS systems, answers HTTP queries
and tracks riders over WebSockets. Everything a query reads is immutable and
swapped in whole by background goroutines.

| component | state it keeps | operations | what is hard | what makes it correct |
|---|---|---|---|---|
| `updater` (`updater.go`, `fetch.go`) | per-feed `feedData` (path or bytes, validators), `srcPath`/`srcBlob`, `rebuildMu` | poll a feed, sync a local feed, sync OSM diffs, rebuild and swap the timetable, swap the graph | overlapping rebuilds, failed writes, validators ahead of data | nothing goes back to older data, nothing published is missed, no diff is skipped, the timetable is anchored to the served graph |
| source cache, `boot` (`cache.go`, `boot.go`) | a payload and a `.meta.json` per source, on disk | store, adopt, load, remove; boot's order | crash between two writes, change of URL, unreachable source | stale data only with a cause, honest validators, extract or image always there, recovery |
| `engine` (`engine.go`, `plan.go`, `live.go`, `legs.go`, `shared.go`, `risk.go`) | graph bundle, timetable bundle, scratch pools, remembered itineraries | plan, plan by arrival, plan from a vehicle, remember, look up | two pointers loaded in two steps while both are swapped | a query computes with bundles that fit |
| `rt` manager (`manager.go`) | decoded feeds, content hashes, version, notification channel | poll, `PollNow`, `Rebuild`, `OnSwap` | two locked sections with work between, timetable swaps, wakeups | latest feeds on the current timetable, no lost wakeup, no silent change |
| `rt` overlay (`overlay.go`) | none (pure) | match trips and stops, propagate delays | out-of-order updates, skipped stops, duplicates | agrees with a reference projection |
| `track` (`track.go`, `gps.go`, `risk.go`, `shape.go`) | a session: itinerary, leg, on board or not, evidence from fixes, throttles | wait, evaluate, advance, check for a reason to replan, reroute, switch | three sources of evidence that contradict each other, two throttles, rollbacks, trips that vanish | on board means on the right vehicle, optional replans are paced and disturb no boarding, broken plans are replaced, the session ends |
| `gbfs` (`manager.go`, `query.go`, `parse.go`, `geofence.go`) | discovery and documents per system, published snapshot | discover, refresh, commit, publish, query | partial failures, staleness, concurrent systems | one refresh's documents stay together, stale systems vanish |
| `transit` (`raptor.go`, `compile.go`, `transfers.go`) | compiled arrays; a query's labels, pooled | compile, rounds, extract journeys | label overwriting, two service days, unsigned times, an overlay swapped under a scan | what it answers can be ridden and is optimal where the algorithm can be |
| `graph` (`build.go`, `apply.go`, `search.go`, `store.go`, `snap.go`, `turns.go`) | the source of routable ways, nodes and edges; pooled search states | extract, apply a diff, assemble, near and road searches | partial updates, one-ways, stamps that wrap, costs that overflow | a diffed graph is the one a fresh extract gives; searches agree with reference definitions |
| `memrelease` (`release.go`) | busy count, last release | begin/end work, tick | check then act | never releases during heavy work |
| `api`, `stats`, readers (`osm`, `gtfs`, `toml`, `config`, `geo`), `cmd` | connections, histograms, none | decode, frame, parse | bytes and floats | left to tests |

How they interact. `boot.Run` builds the graph, then the timetable, starts the
realtime and GBFS managers, and hands both to `updater.Start`. The updater
writes the engine's two atomic pointers, and its `OnSwap` callback is
`rt.Manager.Rebuild`. That function projects onto the engine's current
timetable, installs the result with `SetRT`, and closes a channel on which
every tracking session waits. Sessions and HTTP handlers call the engine, which
reads the two pointers. The graph the OSM goroutine folds diffs into and the
ZIPs it recompiles live in the source cache, shared with the next boot. A
query takes a RAPTOR state and street search states from pools that belong to
the bundle, reads the overlay through its atomic pointer at every access, and
asks the GBFS manager's published snapshot twice: when it estimates rentals and
when it routes the ones that a journey uses.

## 2. The modules

| module | models | state and actions, in terms of the code |
|---|---|---|
| `ServedData` | what readers of the engine are promised | abstract: the graph's sequence, the timetable's versions and anchor; `Publish`, `ReplaceGraph`, `ReplaceTimetable` |
| `Updater` | the loops of `updater.go` | `pc[l]` is a goroutine's program counter. `PollRemoteFeed`, `StoreFeed`, `StoreFeedInRAM`, `InstallFeedFile`, `InstallFeedZip` are `syncRemoteFeed` in order; `SyncLocalFeed` is `syncLocalFeed`; `PollOSM`, `FoldDiffs`, `SaveGraphSource`(`InRAM`), `SwapGraph` are `syncOSM`; `BeginRebuild`, `LoadFeed`, `RebuildFails`, `SwapTimetable` are `RebuildTimetable` |
| `UpdaterProofs` | theorems about `Updater` | see section 6 |
| `LiveQuery` | a transit query over the updater | `LoadGraphBundle`, `LoadTTBundle`, `ReachStops`, then for an arrive-by query `ReloadGraphBundle`, `ReloadTTBundle`, `PlanForward`; composes with `Updater` by `EXTENDS` |
| `SourceCache` | the cache files, boot and live loops across processes | `payload[n]`/`meta[n]` are a file and its `.meta.json`; each file write is a step; `Crash` keeps the files only; `SwitchURL` edits the configuration of a stopped server |
| `RTManager` | `rt.Manager`, the updater's `OnSwap`, and one session's wait | `StartPoll`, `PollNew`/`PollSame`/`PollFails` are `pollOnce`; `CaptureTimetable`, `BuildOverlay`, `SetRT`, `BumpVersion`, `Broadcast` are the steps of `Rebuild` between its two sections under `mu`; `Wake`, `Evaluate`, `Subscribe`, `FixesClosed` are the loop of `Tracker.Run` |
| `Track` | one tracking session | `pc` is `select` or a stage of `evaluate`: `Begin` is `arriveAtBoardingStop`; the actions of `Advance` are the branches of `advance`, one pass of its loop each; those of `Checks` the reasons to replan in `evaluate`'s order (`sharedUnavailable`, `gpsDeviation`, `gpsStopGuard`, `refreshTimes`, `evaluateRisk`, `scheduleGuard`, `tryBetterArrival`); `Throttled`, `NoAnswer`, `Refused`, `SwitchTo` are the ways `reroute` and `switchTo` end; `Answers` is what `replan` may return |
| `Gbfs` | one system's poller in `gbfs.Manager`, its operator, and the freshness tests of the queries | `Discover`/`BeginRefresh` start `refreshSource`, `FetchDoc(n)`, `FetchEmpty(n)`, `FetchFails(n)` are its answers in any order, `ParseFails` or `Install` its end; `Tick` lets time pass, `Update` and `Move` are the operator's; `Fresh`, `EndpointStale` and `Offered` are what `Pickups` asks before it offers anything |
| `GbfsProofs` | theorems about `Gbfs` | see section 6 |
| `RTManagerProofs`, `SourceCacheProofs`, `TrackProofs` | theorems about `RTManager`, `SourceCache` and `Track` | see section 6 |
| `Timetable` | `compile.go`, `model.go` | pure: `Compile` groups trips into patterns and sorts them; `TripArr`, `TripDep`, `StopSkipped` are what a query reads through an overlay; `AddDay` is the shift by a service day in unsigned seconds |
| `Overlay` | `rt/overlay.go` | pure: `BuildOverlay` folds `AddTrip` (`applyTripUpdate`, with `MatchSTU`'s cursor) and `AddVehicle` over the messages; `DelayAt` and the other operators at its end are an independent reference |
| `Raptor` | one pooled `raptor.State` | `Seed`, `SourceWalks`, `BeginRound`, `Scan` (one pattern), `WalkOn`, `Finish` are `Plan`, cut where it reads the overlay; `Extract` follows parent labels |
| `Journeys` | an exhaustive search over riders | reference only: `Riders` are all that board, alight and walk; `JourneysRealisable`, `ParetoOptimal`, `JourneysConnected` compare |
| `StreetSearch` | `NearSearch`, `RoadSearch`, `transfers.go` | pure, over search states with epochs that wrap: `RunNear`, `RoadRoute`, `TransfersOf`; costs are computed in a word of `Word` values; `ShortestDs` is the reference |
| `Rental` | `gbfs/query.go` | pure: `Pickups`, `Dropoffs`, `Available` (`Check`), geofence rules with zones that are intervals of a line |
| `SharedRides` | `planRoad`, `engine/shared.go` | `SharedPlans` estimates rentals while access sets are built, `SharedLegs` routes and checks them against the snapshot of that later moment |
| `Planner` | `engine/plan.go`, `live.go`, `legs.go` | `AskTransit`, `AskOnboard`, `AskRoad` begin a request; `RunVariant`, `Running`, `Collect` are `runRaptor` per variant; `Bracket`, `Check`, `Bisect` are `planTransitArriveBy`; `Rank`, `RankOnboard` answer; `SwapOverlay`, `SwapRentals`, `SwapBundles` are what other goroutines install meanwhile. Composes all of the above by `EXTENDS` |
| `Selection` | operators on lists | the parts of a list that are in a set, a list of lists in a row, as folds |
| `FoldLaws` | theorems about folds | parameterised by what a fold does with an element (`Step`) and what it keeps (`Good`); instantiated for each fold that a proof is about |
| `PlannerProofs`, `RaptorProofs` | theorems about `Planner` and the modules it extends | see section 6 |
| `StreetSource` | `graph/build.go`, `apply.go`, `snap.go` and the OSM loop | mappers edit (`PutWay`, `DropWay`, `PutNode`, `DropNode`), the server publishes a diff (`Publish`), `SyncOSM` folds it with `ApplyChange` and assembles (`Assemble`) the graph, its components and grid |

The `MC*` modules and `.cfg` files give the constants their values. Operators
whose comment says *Mutant of X* are plausible bugs of `X`; no specification
uses them. Each property has one that breaks it.

**Data.** A ZIP, a diff, a realtime content is its publication number; an OSM
image is its sequence with the set of diffs folded in, so that a skipped diff
is visible; a cached file is the URL and publication it came from; a GBFS
document is the generation of the links it was fetched from, its age, and
whether it has a body. The four
GBFS documents that are fetched every ten minutes are one. Times are ages, which
stop growing when they no longer matter.

In `Track` a trip is in one of seven states, by what timetable and overlay say
of it relative to the leg that uses it; "unknown" is without vehicle and without
progress, so that a train with progress and no vehicle position counts as
unknown. A fix is the place it proves: at a stop, on a ride's shape near or far
from it, with the vehicle, and so on. Persistence (`hold`) is part of the
classification. Whether a leg's time has come, a connection is at risk, a
walker is late, an alternative is worth it, is chosen anew at each look, so
the model does more than the code could with one clock. Each trip is boarded at
a stop of its own. Within an evaluation nothing in the world changes, as
`evaluate` pins timetable and overlay. The engine's answers are read there as of
the same moment; `LiveQuery` is about the fact that they need not be.

In the planner's modules the world is a line: a point has a coordinate and a
snap per mode, `geo.Dist` is a difference and a geofence an interval. Times are
seconds of a day of `DaySec` seconds. The pooled states are kept from request
to request with what they hold, so that a query that trusted a stale entry
would show. Where the code takes the first of equals in the order of a Go map,
the model takes some one of them (`CHOOSE`). The probabilities of `risk.go` are
the constant `Fragility`, one number per trip. A rental is estimated in one
step, from one snapshot.

**Left out of these modules**, because no property can tell: progress logs,
`LastGTFSSync`/`LastOSMSync`, warnings and events other than the reroute, the
rail readiness anchors (a train may be held back at any look), swap counters, per-source statistics, memory
hints. A poll that fails or finds nothing changes nothing and is not a step of
`Updater`; the ones that consume a fault do, where the failure leaves traces.

**Assumptions about the world.** Versions grow: an agency that goes back to an
old timetable publishes new bytes. The replication server never retracts.
`EncodeStore` into memory does not fail. A rename is atomic. Local sources are
outside the cache. A GBFS refresh (20 s per fetch, in parallel) takes less than
a unit of the model's time, an operator that has moved may keep its old URLs
alive, and one that stamps a document stamps it when its data change. Systems
share nothing but the lock of `install`, so one is modelled, also in
the queries. `boot.go`'s branch that discards an image without live
updates cannot be reached from images this program wrote, since it stores
images of live graphs only; the model has no such image.

## 3. The runs

| run | question | result |
|---|---|---|
| `updater` | do overlapping loops and failed I/O keep the served data fresh, anchored, complete, and never older? Is everything published served in the end? | holds: `FreshWhenSettled`, `AnchoredWhenSettled`, `ValidatorsMatchData`, `NoDiffSkipped`, `ImplementsServedData` (refinement), `Converges` |
| `live_query` | does a query "grab a consistent snapshot" (`engine.go` package comment)? | no: it can load the graph before a swap and the timetable after, or the new graph with the timetable anchored to the old |
| `source_cache` | can crashes, failures and reconfiguration make a server lie? | `StaleHasCause`, `ValidatorsHonest`, `ExtractOrImage`, `Recovers` hold |
| `source_switch` | does "switching sources never serve stale data" (`cache.go`)? | no: a crash between payload and metadata of a new source leaves a pair that the old URL accepts again |
| `rt` | do overlapping polls, swaps and failures keep live data on the right timetable, wake everyone, and show each session the newest data in the end? | `OverlayFitsTimetable`, `ReprojectedAfterSwap`, `LostOnlyByClash`, `NoSilentChange`, `WakeupFetches`, `SessionCatchesUp` hold |
| `rt_lost` | is the installed overlay the projection of the latest feeds (`manager.go`)? | no: two `Rebuild`s that build in one order and `SetRT` in the other leave the older overlay until the next change |
| `gbfs` | do failures, empty answers and changing links leave a published feed complete, recent and whole? | `CompleteSnapshots`, `OfferedIsRecent`, `MixedHasCause`, `CatchesUp` hold |
| `gbfs_half` | is "a half-downloaded GBFS update never published" (`manager.go`)? | no: after a failure that follows a discovery, old static documents are published with new dynamic ones |
| `track` | is the rider where the session believes, and left alone when that matters? Does a session end, and is a broken plan replaced? | `BoardedIsRiding`, `SoftPaced`, `BoardingProtected`, `Arrives`, `BrokenIsReplaced` hold |
| `track_deviation` | is a deviation "always followed by a reroute" (`track.go`)? | no: when the reroute is throttled or finds no plan, the deviation's mark keeps it from being tried again |
| `planner` | is what a query answers what the network, the overlay and the bike share allow, when all three are swapped and the search states are used again? | `WalksExact`, `RoadBounded`, `OverlayFaithful`, `JourneysRealisable`, `ParetoOptimal`, `JourneysConnected`, `ItinerariesKeepTime`, `ArriveByLatest`, `RentalsStillOffered`, `CheckMatchesSearch` hold |
| `street` | is the live graph, after edits and diffs, the one that a new extract would give, and can it be entered? | `DiffsLikeExtract`, `EdgesFollowWays`, `SnapsLeadSomewhere`, `EveryStreetSnaps` hold |

**Bounds.** `updater`: one remote and one local feed (each kind of loop), with
a cache, versions up to 2 and diffs up to 3, so a publication after the first
and two diffs in sequence, two faults, so a failure while the effects of
another are there. Three goroutines contend for `rebuildMu`. `rt`: one source with trip updates and vehicle positions, so
that a poll has two URLs, and the updater, so that two `Rebuild`s overlap; two
timetables; one content published after the first, or one failure. The proofs of section 6 are for all bounds.
`source_cache`: two URLs, one with a replication stream, two publications, two
switches (away and back, the shortest way to a torn pair trusted), two crashes,
two failures. `live_query`: one query and one diff suffice.
`gbfs`: three layouts (stations and vehicles, free bikes, nothing static), two
moves, so that a layout goes and comes back, one failure besides those that a
move brings about, and age limits 1, 2 and 3, in the order of the code's five
minutes, ten minutes and one hour.

`track`: a bus and a train, plans that walk, ride on or start with a rental, or
start aboard either; two events, of which one may be a change of a trip's
state: so two fixes, the least that boards by shape, or a fix and a change;
throttles of one tick each, so that an attempt falls within and after them.

`planner`: six networks. The town has bus lines, a loop that visits a stop
twice, an express with a tight connection, a bus of yesterday's service day, a trip that
leaves the map, and a ring of car roads that leads to a destination from either side; the valley has
rail changes, footpaths that are not closed, a path whose cost overflows, and a rider aboard; the
junction has a label that is kept from an earlier round while a later one reaches its boarding stop by a
ride too late to change from; the depot has one loop trip that is heard of in every way of up to two stop time
updates; the harbour has rentals before and after a ferry, five snapshots of
which may replace each other under a query; the park has 39 snapshots of a bike share,
nearly all one change away from the first, and any may follow any. Two requests per network, so that pooled states
are used again, and one swap under or between them. The search states' stamps
wrap after `Epochs` = 4, so within two requests. About 96,000 states.

`street`: a street of four nodes with a side way, a path out of the extract and
a corner of a building; the versions of a way exercise one-way streets against
their order, contraflow, a roundabout that closes on itself and a way that
loses its mode; three edits in two diffs, so that an edit of a diff is edited
again in the next. A segment may be longer than the maximal length (8) and than the
range of an edge's length (10); a link gets the edge against its direction that
`build.go:324-327` stages with its flags and no mode. A place at which a node may be put makes two ways between the
same nodes equal in length or not.

**Deadlock** is checked for `RTManager` and `Gbfs`, where a poll is always
possible, and for `Planner`, where another
network may always be installed. The
other specifications may stop: publications, faults and queries are bounded,
and a poll that finds nothing is a stutter.

**Fairness.** Loops have weak fairness: their tickers fire for ever and the Go
scheduler runs every goroutine. `BeginRebuild` has strong fairness: `rebuildMu`
is a one-slot channel and the runtime serves blocked goroutines in FIFO order,
so none is passed over for ever. `Boot` has weak fairness in `SourceCache`: an
operator restarts a stopped server. In `Gbfs` the poller has weak fairness
(its ticker fires for ever) and `Tick` strong fairness: it is enabled between
refreshes only, and time passes there too. In `Track` evaluations have
weak fairness; `Tick`, enabled while the session waits, strong fairness; what
the clock alone brings about strong fairness, because a time that is waited for
comes though each look may be too early; and a replan that must be made has an
answer in the end, which is the comment's "until an alternative exists".
`BrokenIsReplaced` depends on the latter, `Arrives` does not.
Publications, failures, crashes, switches, moves, `PollNow` and timetable swaps are never obliged to happen.

## 4. What the runs found

1. `plan.go` (`planTransit`, `planTransitArriveBy`) loads the two bundles one
   after the other, and an arrive-by search loads them again while keeping the
   access sets of the first load. The comment in `engine.go` promises a
   consistent snapshot. Stops and street nodes are integers into those bundles,
   so what is mixed is silently misread or out of range.
2. `rt/manager.go`'s `Rebuild` installs outside `mu`; the older of two
   overlapping projections can be the one that stays.
3. `cache.go` writes a payload and then its metadata; its comment that switching
   sources "never serves stale data" does not hold across a crash between the two
   and a return to the first URL. The same comment is contradicted a second way,
   which run `source_switch` leaves out, as no fetch fails there, and
   `StaleHasCause` names: when the extract cannot be revalidated at boot, the graph
   is built from the cached extract of another URL (`boot.go:128-130`), and
   `StoreGenerated` labels its image with the configured URL (`boot.go:172`,
   `cache.go:44`), so that every later boot serves the other source's graph though
   all sources can be reached.
4. `gbfs/manager.go` records new links before it has fetched what they lead
   to. When that refresh fails, the next ones no longer know that the links are
   new and keep the old static documents until they are ten minutes old. The
   comment before it, that links are read again "immediately after a
   missing/failed link", would repair this if the code did so; it reads them
   again after an hour, or when it has none.

5. `track/gps.go` marks a deviation when it is announced; `reroute` may then
   return without a plan, for its ten-second pause or for want of an
   alternative, and the mark keeps the next evaluation from asking again. The
   comment on `evDeviation` promises a reroute always.

Three observations on `Track` without a run. The clock ends the leg of a
vanished road trip without resetting `boarded` (`track.go:512-518`);
until the next street leg ends, `switchTo` refuses every replacement, which is
the exception in `BoardedIsRiding`. A rider aboard a trip that is cancelled is
sent the same replacement every ten seconds, since `advance` does nothing on a
skipped trip, the exception in `BrokenIsReplaced`. And `boardedByShape` outlives
the feed's catching up, so improvements stay off for the rest of the ride.

`PROJECT.json` quotes the lines.

Observations on the code made while modelling the planner and the graph. Each
is an exception that a property or its precondition names, so that the rest
could be checked; where a line disagrees with itself only by a reading, it is
no finding.

* `raptor.go`'s `posInPattern` looks for the alighting stop by its id: on a
  trip that visits a stop twice and skips the first visit, the journey alights
  at the skipped position (`LoopsPlain`).
* A stop's label that a round does not better is copied from the round before and
  keeps the stop it was boarded at. `extract` (`raptor.go:496`) goes on from what
  the previous round has at that stop, which may by then be another ride, arriving
  earlier but with less time to change: the stop is better reached, and the
  departure is caught, but `SlackSec`, the "minimum vehicle-change time"
  (`config.go:145`), was kept for the ride that the journey does not show. A
  journey with two changes may thus show one without its allowance; the first ride
  and the last always have theirs in a network without such anomalies (`Strict`).
  Network `Junction` is the smallest one found; the earlier wording of
  `JourneysRealisable`, that all changes have their allowance, held in the other
  networks and fails there.
* Footpaths are those within a radius and are not closed, so that a walk from a
  source and a walk after it can follow each other (`WalksClosed`). Skipped
  stops, overtaking and the waits of rail changes also cost RAPTOR its
  optimality; `ParetoOptimal` is stated where none occurs (`Plain`).
* A query reads the overlay at every access, so that a swap shows in the middle
  of a scan. Assembly drops a journey that no longer fits; the query may answer
  less than either overlay allows, never a ride that leaves before the access leg,
  the rental or the ride before it, and the walk from there, are over
  (`ItinerariesKeepTime`), but for the change off a vehicle that the rider is
  already on, whose times are put in after assembly.
* `graph/build.go:246` cuts a chain between two nodes only, so a single segment
  beyond 65,535 m keeps its length, and `uint16` (`build.go:219`) makes another of
  it, as Go's conversion of a `float64` does on amd64; `model.go:49` says that an
  edge's length "never clamps", and the comment at `build.go:235` that no edge
  overflows. `EmitEdge` wraps as the build does, and `EdgesFollowWays` asks for
  exact lengths below `EdgeRange` only.
* `graph/model.go`'s edge cost is a product of 32 bits, which a walked edge
  beyond 9.1 km overflows, while edges of up to 65 km are built (`EdgesFit`).
* An arrive-by search counts bike variants that the answer then filters, applies
  the limit on the number of answers before the deadline, and its bracket looks
  at the departure's service day and the one before only (the conditions of
  `ArriveByLatest`).
* A way that a diff changes may take up a node that the diff does not carry and
  that no routable way had: it has no coordinate until somebody edits the node
  (`unseen` in `DiffsLikeExtract`). Two ways that join the same nodes by straight lines
  of equal length are confused by `twin` (`Parallel`).
* `gbfs` `Check` passes some rentals that a search no longer offers: a vehicle
  docked, moved by less than 75 m into a no-start zone, with other terms, or a
  pool whose vehicles are counted one by one (`Overlooked`). A vehicle of a type
  that the feed does not know is offered under the class "any" and rejected by
  `Check` only.
* A rental that turns out slower than estimated, for a speed limit, misses its
  ride; the itinerary is dropped and the next departure is not looked at.

## 5. What each property is about

Each property's comment in its module states it. The ones that say most:
*FreshWhenSettled* relates what a feed's validators claim with what is served,
across the rebuilds of other loops; *ImplementsServedData* says the served data
never go back, whatever the order in which rebuilds started and ended;
*AnchoredWhenSettled* covers a GTFS rebuild that straddles a graph swap;
*LostOnlyByClash* pins down the exact and only cause of finding 2;
*StaleHasCause* says that there are three ways to serve another source's data and
no fourth: a fallback at boot, metadata that an unfinished write left beside newer
data (finding 3), and an image of a graph that was foreign for such a cause, which
is labelled with the configured URL; *ValidatorsHonest* that a 304 means the newest
ZIP but where such a torn file was trusted; *NoSilentChange* is the install-then-close
order a session's sleep depends on; *ExtractOrImage* is the order in which boot
saves and removes; *MixedHasCause* pins down finding 4; *OfferedIsRecent*
relates three clocks, of a document, of the refresh and of the newest document,
with documents carried over from links that are gone; *BoardedIsRiding* holds
across rollbacks (a rider put back on a vehicle), plans that start aboard and
trips that vanish; *SoftPaced* relates two throttles set on four paths;
*BoardingProtected* covers the window in which fixes know of a boarding and the
feed does not; *JourneysRealisable* rides every answered journey on the
timetable and its overlay - each ride runs on its day, serves both ends and is
caught, the first and the last with the slack and the rail allowances - up to the
promised arrival, which parent labels overwritten in a round, a lost day shift or
a stale pooled label would break; *ParetoOptimal* compares with an exhaustive search;
*RentalsStillOffered* relates a rental that was estimated from one snapshot and
checked against another with what a search of the other would offer;
*ItinerariesKeepTime* relates what was searched under one overlay, with an estimated
rental, to what is assembled under another, with the routed one: who leaves by the
access leg, or a ride, and walks to the next ride is there before it goes;
*CheckMatchesSearch* says that `Pickups`, `Dropoffs` and `Check` agree across any
two snapshots; *DiffsLikeExtract* relates a graph after diffs with one built
from scratch; *EveryStreetSnaps* and *SnapsLeadSomewhere* are the two ways in
which the choice of components and twins can be wrong.

## 6. What is proved

`UpdaterProofs`, for any number of feeds, any set of local ones, cache on or
off and all bounds, from `ConstantsAssumption` alone:

* `Invariance` and from it `TypeCorrect`, `Freshness`, `Anchoring`,
  `Validators`, `Completeness`: the safety invariants of run `updater`;
* `Refinement`: `Spec => ImplementsServedData`.

The inductive invariant `IInv` (in `Updater`) is needed because what a rebuild
will install depends on when it read. Its parts: `LockInv`, exactly one loop
is inside `RebuildTimetable`; `DataInv`, downloads are no older than what is
readable, and readable data were published; `JobInv` (`ReadInv`, `BaseInv`),
what the rebuild in progress has captured is no older than what is served and
misses only changes whose loop is still waiting to rebuild; `ImageInv`, the
image to fold into is the served graph's, except in the window between saving
and swapping. Preservation has one step per action; `Refinement` maps each
action to a `ServedData` step or a stutter.

`GbfsProofs`, for any layouts, any choice of the documents that bear a time
stamp, all age limits and bounds, from `Gbfs`'s `ConstantsAssumption`:
`Invariance`, `TypeCorrect`, and `Completeness`, `Recency`, `Mixing`, the safety
invariants of run `gbfs`. Its `IInv` adds to them `FetchInv`, of which
generation and age the answers of the refresh in progress are, which `Install`
makes the feed's; `StaticInv`, that static documents carried over are of the
links' generation unless a refresh due for them failed, without which `Mixing`
is not preserved; `FeedInv`, that availability without a time stamp is as old
as its refresh, which `Recency` needs; and `LinkInv`. `Recency` then follows by
the case whether the document is stamped.

`RTManagerProofs`, for any number of sources, with or without vehicle
positions, any number of timetables and events: `Invariance`, `TypeCorrect`,
`Fitting`, `Reprojection`, `NothingLost`, `NoSleep`, `Wakeups`, the safety
invariants of run `rt`. The parts of its `IInv`: `OwedInv`, a publication that a
`PollNow` promised to fetch has its token in the channel or its poll on the way;
`UpdaterInv`, between swaps the updater's own projection is of the current
timetable; and `ProjectInv`, the heart of it: unless two `Rebuild`s have
clashed, if nobody is `Due` to project what was decoded, then a projection
that is being held is of the latest feeds, and if none is held the installed
one is. `LostOnlyByClash`, which speaks of quiet states only, does not survive
a step without it.

`SourceCacheProofs`, for any URLs, with or without replication streams, and any
number of publications, crashes, switches and failures: `Invariance`,
`TypeCorrect`, `Staleness`, `Honesty`, and `Continuity`, the action property
`ExtractOrImage`. The parts of its `IInv`: `DataInv`, data that exist were
published, and validators are those of the configured source; `FeedInv`,
validators on disk or sent never outrun the bytes beside them, at each point of
the feed's boot; `ExtractInv`, the same for the extract, and that an image that
replaces the extract is there before it goes; `LabelInv`, that a file whose metadata
are of another source than its payload is one whose metadata were left unfinished, or
an image saved from a foreign graph, without which `StaleHasCause` is not preserved
when such a file is read. A crash forgets the process and
keeps the files, so each part speaks of the files at every program counter.

`TrackProofs`, for any trips, plans, fixes, throttles and news: `Invariance`,
`TypeCorrect`, `Boarding`, and `Pacing` and `Protection`, the action properties
`SoftPaced` and `BoardingProtected`. What they add to the type invariant, in
`IInv`: `CheckInv`, checks look at a leg of the plan; `PaceInv`, the cooldown's
stamp is never older than the last replan the client saw, although it is also
set when `switchTo` refuses, and an optional replan under way has waited for
it; `BoardingInv`, a replan that boarding by shape should prevent was
not begun, although the checks before it note reached stops.

`PlannerProofs` is about the planner with everything it extends, for any
networks, requests, messages, bike-share snapshots, pool widths and
configuration that satisfy the named assumptions (below):

* `PublishedInvariance`: what a query reads belongs to one network at a time.
* `CheckAgrees` (`CheckMatchesSearch`): a case analysis of `Offers` and
  `Available`, condition by condition. It needs no induction over steps beyond
  `Published`; its lemmas, one per kind of offer, are also what the next theorem
  rests on.
* `RentalsAreOffered` (`RentalsStillOffered`), from `RentalsInvariance`. A rental
  is estimated when access sets are built, and again checked and routed when an
  itinerary is assembled, long after; the property of the answer is not
  inductive. `Underway` says that each estimate carried by the access sets and
  the variants still to run, and each rental of an itinerary found so far, came
  from an offer of the snapshot that was looked at, and `AnswerKept` that of the
  answer. `SharedLegs` turns the first into the second; ranking, deduplicating,
  merging with the ridden-on trip and bisecting keep it. `LegsListedInvariance`
  (journeys are lists of legs whose walk back ends) and `ScheduledInvariance`
  (no rounds without a request that waits for them) carry it through RAPTOR.
* `ProjectedInvariance`: the overlay is always `BuildOverlay` of messages of the
  network that is served, as `SetRT` and the bundle swap keep the two together.
* `OverlaysAreFaithful` (`OverlayFaithful`), which compares the cursor and the
  carried delay of `applyTripUpdate` with a specification that looks at the whole
  update. It goes fold by fold. Within an update, after `k` parts the cursor is
  past the `k`-th named stop, the running delay is the last one stated, and each
  stop before the cursor has the delay in force there (`OrderGood`, `NextPart`);
  filling up to the last stop closes it. Over the updates of a message, a trip has the delays of
  its first update or none yet, and is skipped if a cancellation was heard
  (`TripsHeard`); over its vehicles, the entry is the newest (`Newest`); over the
  messages, both (`MessagesHeard`). `Projected` then lifts it to every state.
* `ItinerariesAreOnTime` (`ItinerariesKeepTime`), from `TimeKeptInvariance`. The
  property of the answer is not inductive: an itinerary is found in `Collect`, long
  before the answer is ranked, so `TimeKept` says it of all that was found too, and
  that the pooled road search, which routes the rentals, is one of the network's.
  For a single journey, `LegsKeepTime` goes leg by leg (`AddLeg`): what `TooLate`
  lets through leaves no earlier than the leg before it ended, plus the walk. It can
  only be used if the legs are of the trips and stops that the timetable has
  (`LegsKnownInvariance`, from what the labels say) and hang together
  (`JourneysAreConnected`), and if the journey starts at a stop the variant's access
  leg leads to (`AimedInvariance`: the rounds that are run are those of the variant
  at the head of the list). Nothing is assumed of the overlay but that it fits the
  timetable (`ProjectedInvariance`): it may have changed after the rounds.
* `CountedInvariance`: every query starts from real stops in whole non-negative
  seconds, also out of pooled street searches that still hold another request's
  labels, and the bisection's bracket is of whole instants. It is what the rounds
  start from.

`RaptorProofs` holds the lemmas about the overlay and about RAPTOR's rounds and
walk back, which `PlannerProofs` carries through whole requests:

* `LabelledInvariance`. `Labelled` says of every point inside a query: a
  label of a round is a seed, a walk from a stop labelled no later in the same
  round, or a ride of a pattern that does lead there from a stop labelled in the
  round before; a stop that has a label keeps one in later rounds; what a round's
  rides and the walks after them wrote is earlier than the sources' round has it;
  and an arrival kept for a target is its label's time. The part about what is
  earlier makes the rides count: without it a walk back from round `k` could reach
  a source without a ride of that round. A round's row is folded into stop by
  stop, so each part is shown for `ServeStop` and `WalkAround`, with the boarded
  trip the scan holds, before it is shown for `Scan` and `WalkOn`.
* `JourneysAreConnected` (`JourneysConnected`): by `FoldLaws`' theorem on paths,
  what was followed back so far leads on to the target from a labelled stop and
  has as many rides as rounds were left behind. It holds with the overlay
  changing between any two steps, as it speaks of no times that a later overlay
  could contradict.

* `TimedInvariance`. `Timed` says of every point inside a query during which no
  overlay was swapped in what its labels say of when: a source's label has the source's time, a
  walk's the time of the label it was written from plus the footpath, and a ride's
  is the arrival, that day and with its delay, of a trip that runs, serves both its
  ends, and left the boarding stop no earlier than the label *then* there
  allowed (`RideRuns`, `Caught`). The stop from which a label was written may be
  bettered afterwards, in its round or in a later one, so a label is related to what
  the other stop's label is now by inequalities, and exactly only where closed
  footpaths and ascending trips exclude more (`PlainBelow`, `Regular`). The scan
  adds what is known of the trip it holds: that it was caught, and that every stop
  served since had an earlier arrival already (`HoldsTimed`). This is what makes a
  trip alight at the first of two visits to a stop, which is where `posInPattern`
  will look for it.
* `JourneysAreRealisable` (`JourneysRealisable`). From `Timed` by one more induction
  along the walk back (`WayRidden`): whoever stands at the stop reached so far, no
  later than its label says, can follow the legs found so far to the target; each
  step back prepends a leg that some rider there can take (`StepRidden`). At the
  source it is the source's own rider, and `Ridden`, a fold over the legs, gathers
  them (`RiddenHas`). The last leg's exactness comes from the target's label being
  new in its round (`Improves`); this is also why only the first and the last
  change keep their allowances: the attempt to prove it of every change failed at
  labels kept from earlier rounds, and TLC found the journey of section 4.

**Folds.** Induction over data cannot use the library's induction theorems, which
take an operator. `FoldLaws` takes the operator as a constant of the module
instead: from induction over the naturals, a hypothesis that `NatsFrom` discharges, it proves, for any step
and any property, that what a step keeps holds of `FoldLeft`'s result
(`FoldKeeps`), and the same of a recursive function that follows a path of a
bounded length (`PathIs`, `PathKeeps`). Each use is
`M == INSTANCE FoldLaws WITH Step <- ..., Good <- ...`, base and step cited by name.

**Assumptions on the constants**, all evaluated by TLC on run `planner`:
`TimesAssumption` and `WidthsAssumption` (a day is not empty, the infinities are
beyond what is counted); `TimetablesAssumption` with `IsCompiled`, what
`Compile` makes of feeds in which a trip's id and a stop's sequence number occur
once, every trip with at least two stops (`compile.go` drops the others) and in
a pattern of its stops, of rail lines or of others; `AbsentAssumption` and `MessagesAssumption`, that what is decoded is
lists with numbers or absent fields; `MetresAssumption`, `FeedsAssumption` and `PointsAssumption`,
that snapshots refer to types and stations they have and places have positions;
`StreetsAssumption`, edges lead to nodes of the graph and anchors name its nodes;
`RequestsAssumption`, instants are whole seconds and seeds stops of the timetable;
`RentalConfigAssumption`, speeds, limits, the slack and the rail allowances are not negative, margins whole.

**What the proofs changed.** The attempt on `CheckMatchesSearch` showed two gaps in
`Overlooked`: two more ways in which `Check` and `Pickups` differ, which no
instance had met; both are stated there now. A target that cannot be
reached before `Inf` although its stop can made `BestTargets` read an arrival that
is none. `OverlayFaithful` named a trip's updates by concatenating them, and is
said by positions now. And the change off the ride that an onboard rider is
already on turned out not to be covered by what `ItinerariesKeepTime` says:
`assemble` has no leg before such a journey's first ride, and `retainOnboard`
re-times the ridden-on trip afterwards from the seed, so that the seed's slack
alone keeps the two apart; the property leaves that one change out.
`JourneysRealisable` promised allowances at every change, which is not so (section
4), and had missed that a loop's second visit can be earlier than its first; it is
stated with both now, and checked on a network in which the first occurs.

## 7. What is only model-checked

* Liveness (`Converges`, `SessionCatchesUp`, `Recovers`, `CatchesUp`, `Arrives`,
  `BrokenIsReplaced`), out of the provers' reach.
* `ParetoOptimal`, which compares RAPTOR's rounds with all riders there are: that
  no rider arrives earlier needs an argument over every rider's journey;
  `ArriveByLatest`, which rests on it; `WalksExact` and `RoadBounded`, that the
  searches find shortest ways, an argument over all paths with costs that may wrap.
* The properties of run `street`, which compare folds over diffs and ways, and
  components, with a graph built from scratch.

## 8. What is not modelled

* `rt`'s protobuf codec, and the PBF, OSC, CSV, TOML readers and `geo`: pure
  functions of bytes and floating-point numbers, whose control is a loop over a
  format.
* `memrelease`: a heuristic over the runtime's memory statistics that changes
  nothing the program answers from.
* `stats`: floating-point histograms and the probabilities drawn from them.
* `api` and `cmd`: decoding, framing and flags around what is modelled.
* In `engine`: the store of remembered itineraries (a map under a lock with a
  limit), the connection probabilities of `risk.go`, and the geometry, steps and
  texts of legs. In `graph`: the snapping of a coordinate to an edge, turn
  instructions, the file format of `store.go`. In `transit`: how `compile.go`
  joins a feed's rows. In `gbfs`: field-by-field parsing and polygons. In
  `track`: distances and probabilities, which are classified by what the session
  makes of them, and warnings other than a reroute. In `boot`: the wiring of the
  managers.

## 9. What could follow

`Track` with the clock of its rides instead of
chosen moments, so that rail readiness can be told; the remembered itineraries
with their limit; proofs about `StreetSource`, fold by fold as for the overlay.
