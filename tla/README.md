# Verification of chaindash

TLA+ models of chaindash, a terminal dashboard for PlatON/Alaya nodes: what its
concurrent parts promise each other, checked with TLC on small instances, and, for
safety, proved with TLAPS for all instances. Definitions name the code they translate
in `PROJECT.json` ("map"); paths below are relative to `src/src/`.

## 1. The system

One process. A multi-threaded tokio runtime runs the collectors; the main thread
runs the UI loop, a `select!` over crossbeam channels; one more thread owns the
SQLite connection; another reads terminal events.

| Component | State it keeps | Operations | Talks to |
|---|---|---|---|
| Shared data (`collect/data.rs`) | four stores (chain, node state, node details, system), status message with expiry, dirty flags, the UI waker | mutators that set a flag and try to wake the UI; `take_ui_dirty`; expiry | written by every collector, read by every widget, all under one mutex |
| UI loop (`main.rs`, `app.rs`, `update.rs`, `draw.rs`) | the widgets' copies, `DrawState`, the geo retry flag | startup, refresh, periodic redraw, geo read and retry, keys, resize, draw, shutdown | Data, geo store, collector stop flag |
| Peer geography (`collect/peer_geo.rs`) | poll schedule, set of pending IPs, enrichment tasks | poll all nodes, replace the Peer Snapshot, look IPs up, drain on stop | geo store, IPinfo, Data (warnings) |
| Geo store (`geo/store.rs`, `geo/snapshot.rs`) | tables `current_peers` and `location_cache`, command channel, wake channel | replace, update, snapshot, shutdown; a substitute when the database cannot be opened | polling task, enrichment tasks, UI |
| Addresses and IPinfo (`geo/peers.rs`, `geo/ipinfo.rs`) | none | parse, classify, merge | peer geography |
| Notifier (`notify.rs`) | connection states, last rankings, send times, quiet summary, behind a mutex | note a state, decide, post to each chat | node-state tasks, ranking refresh, daily loop, Telegram |
| Node state (`collect/node_state.rs`) | one connection per node | connect, poll each second, retry | Data, notifier |
| Node details (`collect/node_detail.rs`, `collect/types.rs`) | refresh interval, daily deadline | fetch details concurrently, fetch rankings, daily summary | Data, notifier, daily snapshots |
| Daily snapshots (`collect/daily_snapshot.rs`) | a history file of 32 days | read, upsert, prune, replace the file, compute differences | node details |
| Block subscription (`collect/block_subscription.rs`) | current endpoint and stream | connect in order, sample blocks, reconnect | Data |
| System statistics (`collect/system_stats.rs`) | alert states, selected disk | sample, warn on alert edges, clamp the index | Data, Tab keys |
| Collector (`collect/collector.rs`) | stop flag, task set | spawn, stop, join | all collectors |
| Widgets (`widgets/`) | copies and chart buffers | copy from Data, render | Data, geo store |
| Options, errors (`opts.rs`, `error.rs`, `sync.rs`) | none | parse | everything |

Hard behaviours, listed one by one with their lines in `PROJECT.json`
("hazards"): a collector between any two of the UI's locks; a wake-up channel
that holds one token; a status bar read twice per frame; store requests that
fail after their wake-up was consumed; enrichments that outlive the poll that
started them; the order of shutdown; a process killed between transactions;
notifications that await requests outside the lock; timeouts that cancel
notifications; a history file that is removed before it is replaced.

What makes each component correct:

* UI refresh: everything published reaches the screen; messages go away in
  time; the layout remembered is the layout shown.
* Peer geography: snapshots are complete, successes survive failures, no IP is
  looked up twice at once or blocked for good, the panel shows the database, and
  shutdown loses no write and ends.
* Notifier: outages and recoveries are posted to every chat once and in order (a
  post is an attempt: a request that fails is only logged); quiet summaries count
  each event once and are posted.
* Node details: a node without a detail is one the refresh warned of; a ranking
  outlives the detail it came with.
* Daily snapshots: the history holds one entry per date and the latest 32; a
  reported figure is a difference to the right day, and it is missing only when
  nothing was recorded on that day or a fault cost the history.
* Chain samples and block subscription: each sample reaches each chart once and
  in order; maxima, axes and averages are those of the samples; the subscription
  comes back while an endpoint is reachable and ends after a stop.
* System statistics: the selection survives refreshes; the last message about
  disks is true; no byte is counted twice; disks that stay are shown.
* Panels: nothing is painted outside its area, what does not fit is counted, and
  a larger terminal shows no less.

## 2. Modules

| Module | Models | Extends |
|---|---|---|
| `Dashboard` | abstract: a viewer and a publisher, no locks and no channel | |
| `UiRefresh` | Data's flags, status and waker, startup, event loop, copies, draws | |
| `MCUiRefresh` | TLC instances | `UiRefresh` |
| `UiRefreshProofs` | theorems | `UiRefresh`, `TLAPS` |
| `PeerGeoStore` | the SQLite worker and its handle | |
| `PeerGeo` | polling, enrichment, panel, shutdown, kill and restart | `PeerGeoStore` |
| `MCPeerGeo` | TLC instances | `PeerGeo` |
| `PeerGeoProofs` | theorems | `PeerGeo`, `TLAPS` |
| `Notifier` | connection and ranking marks, delivery decisions, posting | |
| `MCNotifier` | TLC instances | `Notifier` |
| `NotifierProofs` | theorems | `Notifier`, `TLAPS` |
| `DailyHistory` | abstract: a bounded history, at risk while it is replaced | |
| `DailySnapshots` | the history file and the figures of a summary | |
| `NodeDetails` | detail store, refresh loop, daily loop, kill and restart | `DailySnapshots`, instance of `DailyHistory` |
| `MCNodeDetails` | TLC instance | `NodeDetails` |
| `NodeDetailsProofs` | theorems, and the refinement of `DailyHistory` | `NodeDetails`, `SequenceLemmas` |
| `Filters` | pure: the elements of a sequence that lie in a set | |
| `SequenceLemmas` | lemmas: induction on naturals, least and greatest element, filters | `Filters`, `TLAPS` |
| `Charts` | pure: bounded points, axis, average | `Filters` |
| `ChainSamples` | block samples, their draining by two widgets | `Charts` |
| `BlockSubscription` | endpoints, stream, fetching, retries, stop | `ChainSamples` |
| `MCBlockSubscription` | TLC instance | `BlockSubscription` |
| `ChainProofs` | theorems | `BlockSubscription`, `SequenceLemmas` |
| `SystemStats` | discovery, sampling, publication, alerts, rates, keys | `Filters` |
| `MCSystemStats` | TLC instance | `SystemStats` |
| `SystemStatsProofs` | theorems | `SystemStats`, `SequenceLemmas` |
| `DashboardLayout` | pure: rows, columns and areas | |
| `CountriesPanel`, `ChartPanel`, `InfoCards` | pure: what each panel paints in an area | `DashboardLayout` |
| `Panels` | the dashboard as it is resized, refreshed and given messages | the three panels |
| `MCPanels` | TLC instance | `Panels` |
| `LayoutProofs` | theorems | `Panels`, `SequenceLemmas` |

Operators commented "Mutant" are wrong variants of a definition, each with a bug
that would be easy to write; no specification uses them. Each property is
known to fail when the definition named in `PROJECT.json` is replaced by one.

### UiRefresh and Dashboard

A store's contents are one value of `Contents`; what a widget copies under its
lock is `store[StoreOf[w]]`, what it last drew is `shown[w]`. `dirty` is
`UiDirtyState`, `token` the channel `bounded(1)`, `barSeen` is
`DrawState.status_bar_visible`. `pc` names the places where the UI thread holds
no lock, so a collector (`Publish`, `Report`) runs between any two of its steps.
Each collector step is the whole locked section: mutate, set the flag, `try_send`.
The arms of `select!` are `RecvRefresh`, `Tick`, `GeoArm`, `Resize`, `SwitchDisk`
and `Quit`; a draw is `BeginDraw` (expire, compare visibility) and `Paint` (read
the status again, draw), or `DrawFails`. The geo panel is left to `PeerGeo`;
here its arm only contributes the warning of a failed read and the redraw.

`Dashboard` knows only stores, copies and the screen: publish, copy, paint,
close. Its fairness says that every widget is copied and painted again and
again. `UiRefresh` implements it with `copied <- seen`,
`open <- (pc # "exited")`.

### PeerGeoStore and PeerGeo

The database is a set of peers and a row per IP: its country and the age of its
last success ("never", "fresh", "stale": the TTL of 24 hours is the only thing
the code compares). A transaction, its wake-up and its reply are one action of
the worker, since only the worker reads the database. `fault` is the disk
refusing transactions; `kind = "null"` is the substitute store. A client sends a
command and blocks: it is in its "write" or "read" location until the reply is
there. `Crash` kills the process at any point and starts it again on the same two
tables. `round` keeps the answers of the poll under way, so that a property can
compare them with what is stored.

### Notifier

A caller is a node-state task, the ranking refresh or the daily loop, each of
which awaits one notification before it begins the next. Its locations are the
points without a lock: after the mark, after the clock was read, and before each
request. `limited` holds the event keys whose last send is younger than the rate
limit. The limit applies to the daily summary too, but its key contains the date, so
only a clock set back by days could meet it again: a daily key is never limited here.
Requests that fail are only logged, so `posted` records the attempt, and no property
speaks of what was read. Names shown in a
quiet summary, templates and texts are left out. `KeyOf` of the instances is
injective; two monitored nodes with the same name and URL would share a key.

### DailyHistory, DailySnapshots and NodeDetails

Dates are numbered, `FirstDays` are the first days of months. A snapshot maps
nodes to their count of blocks; rewards and the other figures are treated alike
by the code. `file` is the history on disk, `step` the next step of a
replacement: write the temporary file, remove the old one, rename. `join!` polls
the refresh loop and the daily loop in one task, so the two interleave only where
one of them awaits (`Polled`); requests for details are concurrent and each
answer is merged under the lock on its own. `Restart` kills the process at any
point and starts it again on the file that is left. The timer counts monotonic
time while dates come from the wall clock, which `ClockSkew` lets lag: the
summary then runs before the date changes, and the same midnight is scheduled
again. `recorded` and `lost` are
history variables: every snapshot that reached the disk, and whether a fault or
a kill has cost the history.

`DailyHistory` knows a map from dates to snapshots that is recorded into, settled
or forgotten. `NodeDetails` implements it with the new contents as history from
the removal of the old file on.

### Charts, ChainSamples and BlockSubscription

`chain` is `ChainStats`; the two widgets copy it and take their own samples under
separate locks (`UpdateTxsWidget`, `UpdateTimeWidget`). `U64Max` stands for the
width of the integers: times and intervals saturate there, and the sum of the recent
samples wraps around. `Float` is what a sample is converted to for the chart, any
function that keeps zero apart from the rest. `samples` is a history variable with
every block recorded. `BlockSubscription` adds the task: `place`
names the await it is at, `up` the endpoints that can be reached, which change at
any time. Subscribing, the stream and the fetching of a block each fail in their
own way and lead to the next endpoint, or to a pause and the first endpoint.

### SystemStats

`place` is the await of the sampling task; a sample is taken off the runtime and
published under one lock, its alert message set under another. The machine
changes while discovery or sampling may look at it: disks are mounted, filled
and unmounted, bytes are received, an interface leaves with its counter. Tab and
Shift-Tab may come between any two steps. `unshown` counts the bytes no rate has
accounted for yet, `warned` the disks whose present alert a warning has counted.
The interval between discoveries is `DiscoveryInterval` units of time; CPU,
memory and load pass through unchanged and are left out.

### DashboardLayout, the panels and Panels

`DashboardLayout` gives each panel's rectangle for every size; its widths are
multiples of four, which ratatui splits exactly (its treatment of `Min(1)` over
`Length(3)` is an assumption about that library). `CountriesPanel`, `ChartPanel`
and `InfoCards` say for an area which cells, bars, metrics, lines and rows the
panel paints. A text is its width. A line of a card is its field and its priority,
and its value may be cut. A row of a list is one line of fields, cut at the right
edge (`LineEnds`); a field counts if it is there as a whole. The lines about the
selected disk wrap: for each the widths are given from which on it takes one row, two
and three. The two strips leave the line under their border empty (`StripRows`).
`Panels` puts contents into the panels and resizes the terminal a step at a time.

## 3. Runs

All runs use the `.cfg` beside the MC module; "states" are distinct ones.

| Run | Shows | Instance | States |
|---|---|---|---|
| `ui_refresh` | `TypeOK`, `NoLostWakeup`, `LayoutRemembered`, `StatusExpires`, `ImplementsDashboard` | two stores published to (one with two widgets), two contents, a warning and a persistent error | 137,893 |
| `ui_layout` | `LayoutShiftRedrawn` fails | one store, one message | small |
| `peer_geo` | `TypeOK`, `PanelCurrent`, `PendingExact`, `WritesLandBeforeShutdown`, `SnapshotsComplete`, `SuccessesKept` | two IPs, one enrichable, two nodes, two task slots, faults and kills | 3.3 million |
| `peer_geo_live` | `EnrichmentsEnd`, `PanelCatchesUp`, `ShutdownCompletes` | one IP, one node, one slot, faults | 179,728 |
| `peer_geo_null` | `WokenByCommitsOnly` fails | as above, either store | small |
| `notifier` | `TypeOK`, `RecipientsInStep`, `RecoveriesFollowOutages`, `SummariesTakenOnce`, `BacklogReported` | two configurations: two monitors and two chats with neither quiet hours nor limit; one monitor and one chat with both; one ranked node, at most one buffered event | 385,964 |
| `notifier_daily` | `SummaryAfterQuietHours` fails | one monitor, quiet hours | small |
| `node_details` | `TypeOK`, `FailuresAreGaps`, `RankingsKept`, `FiguresNeverWrong`, `FiguresComplete`, `ImplementsDailyHistory` | two nodes of one name, one of them listed for a day only; five days, months of two days, a history of three; disk faults, kills, a lagging clock | 3.7 million |
| `chain` | `TypeOK`, `ChartsComplete`, `MaximaExact`, `AxisCovers`, `LastSampleAfterStop`, `Reconnects`, `Ends` | two endpoints, five blocks, charts of three points, times 0, 1, 3 and 5, integers up to 7 | 472,192 |
| `system` | `TypeOK`, `AlertsAnnounced`, `NoByteCountedTwice`, `SelectionKept`, `DisksTracked` | two disks, one named by option, waits of 0 to 2 | 497,910 |
| `disk_alerts` | `EveryAlertAnnounced` fails | as above | small |
| `panels` | `NothingOutside`, `HiddenRowsCounted`, `GrowingHidesNothing` | 23 widths, heights 1 to 46, four contents | 8,464 |

Why these bounds are enough. Contents: two values already tell a stale copy from
a current one, and the flags and the channel carry no contents. Stores: the
widgets of one store share a flag, those of two do not; a store with two widgets
and one with one contain both cases, and all stores are treated alike. Messages:
one that expires and one that does not, so that each can replace the other or
itself. Peers: one IP that is looked up and one that is not; a second slot lets
a wrong second lookup of the same IP happen. Slots must be at least as many as
enrichable IPs, since the code spawns without a limit. `MaxBuffered` bounds the
quiet summary: at the bound a caller waits, and the daily loop, which never
buffers, empties it.

Node details: two nodes of one name make the search by name ambiguous; a node that is
listed for one day only is missing from some snapshots. A count falls once, so that a
difference saturates. Five days hold two changes of month, and a history of three just
reaches back over one of them, as 32 days do over a month of 31.
`HistoryLimitAssumption` asks for no more than that: a limit above one, and months
shorter than it. Blocks: with three samples and a chart of three points the chart is
trimmed and each widget may come before, between and after them; the times repeat,
fall and leap, and two leaps in a row give two saturated intervals, whose sum
overflows. Floats have two significant bits, so that some integers are rounded. Disks:
two can each be named or discovered, shown or not, selected or not; a wait of two is
the discovery interval, a wait of zero leaves no time for a rate. Panels: the widths
lie on both sides of every threshold in the code, and the heights go past the last
one; contents are one entry of each kind, several, many and none. The status of a
detail in the second content ends at column 37 of its row and, once the blocks are
there, at 50: between 44 and 49 it is cut.

Deadlock is not checked: the UI may quit, tasks end and everything may be idle.
`panels` never stops and is checked for it.

### Fairness

* `UiRefresh`: the UI thread runs (`WF` on its steps), time passes (`WF` on
  `TtlElapses`), and an arm that is ready again and again is taken (`SF` on
  `RecvRefresh` and `Tick`), since crossbeam's `select!` chooses at random among
  the ready ones. No fairness on collectors, resizes, keys or failures.
* `PeerGeo`: threads and tasks run; RPC calls and lookups carry timeouts of ten
  seconds; `SF` on the two arms that read, as above. Nothing is assumed of the
  disk: `PanelCatchesUp` says what holds if it works from some point on.
* `Notifier`: midnight comes, and requests end. The second is an assumption
  about the network: the HTTP client sets no timeout.
* `BlockSubscription`: attempts, requests and delays end (`WF` on each of the
  task's steps); nothing is assumed of endpoints, widgets or blocks. A request
  that never ends would hold up `Ends`; the code sets no timeout of its own here.
* `SystemStats`: time passes between ticks (`SF` on `Passes`: a tick of zero time
  may come in between, but not for ever), blocking tasks end, a stop is seen.
  `DisksTracked` assumes itself that samples go on and, for a disk that is not
  named, that discovery succeeds again and again.
* `NodeDetails` and `Panels` have safety properties only.

### What the failing runs show

* `ui_layout`: `draw_app` compares the visibility of the status bar under one
  lock and `draw` reads the message under another; a message set in between
  shifts the layout in a frame that was not invalidated, against the rule of the
  design document. The next draw repairs it (`LayoutRemembered`).
* `peer_geo_null`: `NullPeerGeoStore::new` drops the only sender of its wake
  channel. A disconnected receiver is always ready, so the event loop reads and
  redraws without pause.
* `notifier_daily`: the daily summary takes the quiet summary along in the
  middle of the quiet hours, while README.md says that it follows their end.
* `disk_alerts`: the warning is set when the first disk reaches the threshold.
  A second one that reaches it while the first is still above it, or that takes
  its place, is not announced, while README.md says that the status bar shows an
  alert when any disk reaches the threshold.

### What `GrowingHidesNothing` concedes

A larger terminal shows less in these cases, which `Conceded` names:

* the stacked detail card, chosen from nine inner rows on, has no room for Address
  and Updated at nine and ten rows;
* the node card loses the committed block when it goes to two columns at five
  inner rows;
* a field that appears in the rows of the detail list, the blocks at 44 columns and
  the rate at 62, may push the status behind it over the right edge;
* a table cuts off, without saying so, the row that a list just had room for, and may
  cut the texts of the other rows to its columns;
* a chart narrower than `NarrowWidth` has shorter metrics, which may fit where the
  longer ones of a wider chart do not;
* a chart that is not wide enough for a box of all four metrics may gain, with
  another row, the metric that is too wide for the box and for the grid. The proof
  attempt found this case; it takes figures of fifteen characters or block numbers
  of twelve digits, which the contents of the run do not have.

`GrowingShowsMore` proves that these are all. Observations: the chart row becomes one
line lower when the dashboard reaches 28 lines, which `RowsGrow` and `MetricsGrow`
show to be harmless; a strip of three lines paints only its border, and the system
figures need five, a header and a row below the empty line; and the table of all
disks never appears in the dashboard, whose auxiliary row is six lines high, although
it is there in the widget (`DisksAlone`).

### What `HiddenRowsCounted` does not claim

A table leaves out the rows below its area without counting them, and so does a list
that has one row. The lines about the selected disk are sure of their place only
where none of them wraps: a mount point that wraps takes the rows of the others.

## 4. Proofs

Each theorem holds for all values of the constants that the named assumptions of
its module allow.

| Module | Theorem | States |
|---|---|---|
| `UiRefreshProofs` | `TypeCorrect` | `Spec => []TypeOK` |
| | `WakeupsNeverLost` | `Spec => []NoLostWakeup` |
| | `LayoutAlwaysRemembered` | `Spec => []LayoutRemembered` |
| | `RefinesDashboard` | `Spec => D!Safety`, the safety part of `ImplementsDashboard` |
| `PeerGeoProofs` | `TypeCorrect` | `Spec => []TypeOK` |
| | `NoDoubleEnrichment` | `Spec => []PendingExact` |
| | `PanelShowsDatabase` | `Spec => []PanelCurrent` |
| | `NoWriteLost` | `Spec => []WritesLandBeforeShutdown` |
| | `OnlyCompleteSnapshots` | `Spec => SnapshotsComplete` |
| | `SuccessesSurvive` | `Spec => SuccessesKept` |
| `NotifierProofs` | `TypeCorrect` | `Spec => []TypeOK` |
| | `SummariesOnce` | `Spec => SummariesTakenOnce` |
| | `LatestStatePosted` | `Spec => []RecipientsInStep`, with `DistinctKeys` |
| | `RecoveriesAnswerOutages` | `Spec => RecoveriesFollowOutages`, with `DistinctKeys` |
| `NodeDetailsProofs` | `GapsAreReported` | `Spec => []FailuresAreGaps` |
| | `RankingsOutliveDetails` | `Spec => RankingsKept` |
| | `FiguresAreDifferences` | `Spec => []FiguresNeverWrong` |
| | `FileImplementsHistory` | `Spec => ImplementsDailyHistory` |
| | `NodeDetailsTypeCorrect` | `Spec => []TypeOK` |
| | `FiguresAreComplete` | `Spec => []FiguresComplete` |
| `ChainProofs` | `ChainTypeCorrect` | `Spec => []TypeOK` |
| | `ChainChartsComplete` | `Spec => []ChartsComplete` |
| | `ChainMaximaExact` | `Spec => []MaximaExact` |
| | `ChainAxisCovers` | `Spec => []AxisCovers` |
| | `ChainLastSampleAfterStop` | `Spec => LastSampleAfterStop` |
| `SystemStatsProofs` | `MessagesAgree` | `Spec => []AlertsAnnounced` |
| | `BytesCountedOnce` | `Spec => []NoByteCountedTwice` |
| | `SystemTypeCorrect` | `Spec => []TypeOK` |
| | `SelectionSurvives` | `Spec => SelectionKept` |
| `LayoutProofs` | `GrowingDrawsAll` | a larger terminal draws every panel a smaller one does |
| | `AreasNeverOverlap` | `AreasApart` for every height, status and width that four divides |
| | `NothingIsOutside` | `Spec => []NothingOutside` |
| | `NothingIsUncounted` | `Spec => []HiddenRowsCounted` |
| | `GrowingShowsMore` | `Spec => GrowingHidesNothing` |

`UiRefresh`. `NoLostWakeup` speaks of one moment, the UI blocking without a
token, and is not inductive. The invariant that is has three parts besides the
type: a set flag is announced (by a token, or by the UI being about to take the
flags; before the waker is installed no collector runs and no flag is set); a
widget whose copy is old has its store's flag set or is still to be copied; a
panel that shows less than its widget's copy is about to be painted. Every step
moves the obligation along this chain. `LayoutRemembered` needs one more conjunct:
the status that is painted differs from the remembered one only while the status
flag is set.

`PeerGeo`. Each client has at most one call outstanding, and only while it waits
(`CallsInStep`); what is in the queue was sent by the client that may send it,
and a snapshot on its way is the round just polled, complete (`CommandsOwned`);
who runs when follows the order of startup and shutdown (`LifeCycle`); a panel
that may be stale has a token, a retry or a later read ahead of it
(`PanelFresh`). The properties are consequences: shutdown comes last because by
then every client is gone, and a reply that was overtaken by a commit finds the
token that the commit left.

`Notifier`. Two theorems assume `DistinctKeys`, that no two configured endpoints
have the same name and URL: with a shared connection key one task's recovery would
answer another one's outage. `RecipientsInStep` speaks of a monitor at rest; the
invariant behind it (`InStep`) says what holds while it reports. Each task reports
on its own key only (`OwnEvents`); no clock is read within quiet hours that are not
configured (`NeverQuiet`), so nothing is buffered; the recipients left are the tail
of the list (`LeftInOrder`), so those before it have had their post, and every
recipient of a recovery had a post of the outage before (`AllPosted`).

`NodeDetails`. A node that is not waited for has a detail unless its request
failed (`DetailsInStep`). The file holds recorded snapshots only; a replacement
that is under way is the pruned history with the report, of what the file held or,
after a misread, of nothing; and the file is gone when it is renamed into place
(`HistoryInStep`). A figure found in such a file is found in what was recorded.
The refinement maps the removal to `Record`, the rename to `Settle`, a fault or
kill in between to `Forget`, and every other step to a stutter.

`FiguresComplete` spans days and restarts, and needs to know what the pruned
history still reaches (`ReachInStep`): nothing is recorded for a day after the
schedule, which itself is at most tomorrow; and while no fault has cost the
history, the file, and during a replacement its successor, hold every recorded
day within `HistoryLimit` of the schedule (`InReach`). That a replacement keeps
these days is a matter of counting: dates are distinct, so at most
`HistoryLimit` of them lie between such a day and the last
(`ReplacementReach`). The base days of a figure are in reach because no month is
longer than the history (`MonthStartReach`). `TInv`, behind the type theorem, adds
to the above that the file never holds more days than the limit.

`ChainSamples`, `BlockSubscription`. The type is inductive with one addition: a
chart has at least one point, its points are numbered in order, and its counter
follows the last of them (`Steady`, in `TInv`). `ChartsComplete` and `MaximaExact`
speak of the log of all samples; they are inductive together with the fact that
intervals are measured from the latest time in the log (`SInv`). Each rests on how a
log grows by one sample (`Timed`, `Intervals`, `Counts`) and on the last elements of
a sequence (`LastOfIs`, `LastOfLast`): trimming a chart before or after a widget
appends to it makes no difference, and taking every sample once in two parts neither
loses nor repeats one. `AxisCovers` follows from `TInv`, for any `Float`: the points
are floats (`FloatsAre`), the largest is one of them (`LargestWithin`), and a rounded
division and a total (`SumBounds`) have their bounds. A sum that overflows is the case
the property leaves out. `EndpointsAssumption` keeps the absence of a
header distinct from headers.

`SystemStats`. Between publication and announcement `wasAlert` knows what the last
message says; what is unaccounted for covers what the next rate can count. For the
type (`TInv`), a list of disks is the whole list restricted to a set, so the
index that is clamped to its length lies in it.

`Panels`. The invariant is that the terminal has one of its sizes and the widgets one
of their contents (`PanelsInv`); everything else is about the pure operators of a
panel, for every rectangle. Countries: a larger count has no fewer digits, so the
first column is the widest and the columns, subtracted from the right edge, stay
inside (`ColumnsFit`, `CellsFit`, `CellsApart`). Charts: a bar never fills more than
its plot, and the box, the grid and the labels of the axis have their places
(`FilledBounds`, `MetricsInside`, `LabelsInside`, `BarsInside`). Growing: areas grow,
or keep ten lines where the chart row becomes lower (`AreasGrow`); each kind of panel
then shows no less (`CountriesGrow`, `MetricsGrow`, `EntriesGrow`, `SystemGrows`,
`DisksGrow`, `NodeCardGrows`, `DetailCardGrows`). In the row of a list the fields up
to an unchanged one end where they ended (`LineEndsUpTo`), so what was there stays,
but for the concession (`NodeListGrows`, `DetailListGrows`). Lines that wrap take no
more rows in a wider strip, so none of them moves down (`LastRows`). For a card this
rests on the selection of lines by priority: a field is shown exactly if its priority
is among the rows (`SelectRanked`, by a bijection that counts the lines before it).

In each module one lemma per action, or per part of the invariant, shows that it is
preserved, and each theorem follows with one temporal step. Where a recursive function
must be followed along a sequence (`Filtered`, `Total`, `LineEnds`), the proof takes
the least number for which the claim fails (`Induction` in `SequenceLemmas`, over a
set of numbers, since a lemma cannot take a predicate here).

Only model-checked: all liveness (`StatusExpires` and the fairness of
`ImplementsDashboard`, `EnrichmentsEnd`, `PanelCatchesUp`, `ShutdownCompletes`,
`BacklogReported`, `Reconnects`, `Ends`, `DisksTracked`), since TLAPS does not
reason about `ENABLED` and fairness here. Every safety property of a passing run
has a theorem, the two of the notifier named above for distinct keys only.

## 5. Not modelled, and plan

Not modelled:

* trend arrows, number formats, wording, colours and the widths of table columns
  (those of the node table ask for more than its area may have, and ratatui squeezes
  them);
* the rounding of f64 arithmetic: ties of the smoothed bars may differ by a dot, and
  the headroom of an axis, a product with 1.1 that is rounded up, by a step;
* counts of peers above 9,999, which the countries panel would paint wider;
* the layout on other systems than Unix;
* parsing of options, of peer addresses and of IPinfo's answers: pure functions of
  text with unit tests and no state;
* the stop flag of the two node-detail loops, and panics that end the collector's
  join early;
* the preview names of a quiet summary, message templates and texts;
* error types and the helper that locks or panics, which have no state.

Remarks from reading. The average at widgets/chart.rs:600 sums `u64`: where that
overflows, a debug build panics and a release build shows the average of the wrapped
sum, which `AxisCovers` leaves open. README.md:181 speaks of a card for one configured
node, while the widget switches on the number of details that are present, so a failed
request turns a table into a card. Requests to Telegram have no timeout: one that
hangs stops its node's poll loop; the fairness of `Notifier` assumes it away.

Left for later: the join of all tasks in one module.
