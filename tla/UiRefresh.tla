------------------------------ MODULE UiRefresh ------------------------------
(***************************************************************************)
(* The path from the collectors to the screen.                             *)
(*                                                                         *)
(* Collector tasks lock the shared Data (collect/data.rs), change a store, *)
(* set its dirty flag and try_send a token into a channel of capacity one. *)
(* The UI thread (main.rs, app.rs) receives the token, takes all flags,    *)
(* lets each dirty widget copy its store, and draws.  Every one of these   *)
(* steps takes the lock on its own, so a collector runs between any two.   *)
(***************************************************************************)
EXTENDS Naturals

CONSTANTS
    Active,       \* the stores whose collector this configuration starts
    Contents,     \* contents of a store, abstracted to what a copy tells apart
    Empty,        \* the contents of a store nothing was published to
    ManyDisks,    \* the contents of the system store that list several disks
    Messages,     \* the status messages in use, as [level, text] records
    GeoWarning,   \* the one a failed Geo View Snapshot read sets
    NoMessage,    \* no status message
    Blank         \* the status area before the first draw

Stores == {"chain", "node_state", "node_details", "system"}
Flags == Stores \cup {"status"}
StatusLevel == {"Info", "Warn", "Error"}

Widgets == {"txs", "time", "node", "node_details", "system_summary", "disk_list"}

StoreOf ==
    [w \in Widgets |-> CASE w \in {"txs", "time"} -> "chain"
                         [] w = "node" -> "node_state"
                         [] w = "node_details" -> "node_details"
                         [] w \in {"system_summary", "disk_list"} -> "system"]

\* The order in which refresh_dirty_widgets and update_widgets visit them.
Rank ==
    [w \in Widgets |-> CASE w = "txs" -> 1
                         [] w = "time" -> 2
                         [] w = "node" -> 3
                         [] w = "node_details" -> 4
                         [] w = "system_summary" -> 5
                         [] w = "disk_list" -> 6]

ASSUME ActiveAssumption == Active \subseteq Stores
ASSUME ContentsAssumption == Empty \in Contents /\ ManyDisks \subseteq Contents \ {Empty}
ASSUME MessagesAssumption ==
    /\ \A m \in Messages : m.level \in StatusLevel
    /\ GeoWarning \in Messages /\ GeoWarning.level = "Warn"
    /\ NoMessage \notin Messages /\ Blank \notin Messages /\ Blank # NoMessage

VARIABLES
    \* Data, guarded by its mutex
    store,          \* the contents of each store
    dirty,          \* UiDirtyState: the flags that are set
    status,         \* the status message, or NoMessage
    expired,        \* its expires_at has passed
    waker,          \* ui_waker is installed
    \* the refresh channel, capacity one
    token,
    collecting,     \* the collector task has been spawned
    \* the UI thread
    pc,             \* where it is
    todo,           \* the widgets the current refresh has still to update
    seen,           \* the copy each widget keeps
    barSeen,        \* DrawState.status_bar_visible
    clear,          \* clear_before_draw of the draw under way
    \* the terminal
    shown,          \* what each panel displays
    shownStatus     \* what the status bar displays; Blank before the first draw

dataVars == <<store, dirty, status, expired, waker>>
uiVars == <<todo, seen, barSeen, clear>>
termVars == <<shown, shownStatus>>
vars == <<dataVars, token, collecting, pc, uiVars, termVars>>

Boot == {"install", "load_geo", "spawn"}
Locations == Boot \cup {"idle", "take", "copy", "begin_draw", "paint", "exited"}

TypeOK ==
    /\ store \in [Stores -> Contents]
    /\ dirty \subseteq Flags
    /\ status \in Messages \cup {NoMessage}
    /\ expired \in BOOLEAN
    /\ waker \in BOOLEAN /\ token \in BOOLEAN /\ collecting \in BOOLEAN
    /\ pc \in Locations
    /\ todo \subseteq Widgets
    /\ seen \in [Widgets -> Contents]
    /\ barSeen \in {"unset", "shown", "hidden"}
    /\ clear \in BOOLEAN
    /\ shown \in [Widgets -> Contents]
    /\ shownStatus \in Messages \cup {NoMessage, Blank}

Init ==
    /\ store = [s \in Stores |-> Empty]
    /\ dirty = {}
    /\ status = NoMessage /\ expired = FALSE
    /\ waker = FALSE /\ token = FALSE /\ collecting = FALSE
    /\ pc = "install"
    /\ todo = {}
    /\ seen = [w \in Widgets |-> Empty]
    /\ barSeen = "unset" /\ clear = FALSE
    /\ shown = [w \in Widgets |-> Empty]
    /\ shownStatus = Blank

-----------------------------------------------------------------------------
(* Data: every mutation marks its flag and notifies, under one lock.       *)

Expires(m) == m.level # "Error"

\* Mutant: the flag is set but the UI is not notified.
MarkDirtySilently(f) ==
    /\ dirty' = dirty \cup {f}
    /\ UNCHANGED token

\* mark_X_dirty: set the flag, then try_send; a full channel drops the token.
MarkDirty(f) ==
    /\ dirty' = dirty \cup {f}
    /\ token' = (token \/ waker)

\* set_status_message: repeating a message that is still up changes nothing.
SetStatus(m) ==
    IF status = m /\ ~expired
    THEN UNCHANGED <<status, expired, dirty, token>>
    ELSE /\ status' = m /\ expired' = FALSE
         /\ MarkDirty("status")

\* A collector publishes new contents of a store.
Publish(s, c) ==
    /\ collecting
    /\ store' = [store EXCEPT ![s] = c]
    /\ MarkDirty(s)
    /\ UNCHANGED <<status, expired, waker, collecting, pc, uiVars, termVars>>

\* A collector reports a status message.
Report(m) ==
    /\ collecting
    /\ SetStatus(m)
    /\ UNCHANGED <<store, waker, collecting, pc, uiVars, termVars>>

\* The clock passes expires_at of the message that is up.
TtlElapses ==
    /\ status # NoMessage /\ Expires(status) /\ ~expired
    /\ expired' = TRUE
    /\ UNCHANGED <<store, dirty, status, waker, token, collecting, pc, uiVars, termVars>>

-----------------------------------------------------------------------------
(* The UI thread: startup.                                                 *)

InstallWaker ==
    /\ pc = "install"
    /\ pc' = "load_geo"
    /\ waker' = TRUE
    /\ UNCHANGED <<store, dirty, status, expired, token, collecting, uiVars, termVars>>

\* refresh_geo_snapshot: a failed read puts a warning in the status bar.
GeoSnapshotRead(ok) ==
    /\ IF ok THEN UNCHANGED <<status, expired, dirty, token>> ELSE SetStatus(GeoWarning)
    /\ UNCHANGED <<store, waker, collecting, uiVars, termVars>>

LoadGeo ==
    /\ pc = "load_geo"
    /\ pc' = "spawn"
    /\ \E ok \in BOOLEAN : GeoSnapshotRead(ok)

\* The collector starts; update_widgets then lets every widget copy once.
Spawn ==
    /\ pc = "spawn"
    /\ pc' = "copy"
    /\ collecting' = TRUE
    /\ todo' = Widgets
    /\ UNCHANGED <<dataVars, token, seen, barSeen, clear, termVars>>

-----------------------------------------------------------------------------
(* The UI thread: one arm of the select! of main's event loop, then, where *)
(* the arm asks for it, a draw.                                            *)

RecvRefresh ==
    /\ pc = "idle" /\ token
    /\ pc' = "take"
    /\ token' = FALSE
    /\ UNCHANGED <<dataVars, collecting, uiVars, termVars>>

\* take_ui_dirty: all flags at once; nothing dirty means nothing to redraw.
TakeDirty ==
    /\ pc = "take"
    /\ dirty' = {}
    /\ todo' = {w \in Widgets : StoreOf[w] \in dirty}
    /\ pc' = CASE dirty = {} -> "idle"
               [] dirty = {"status"} -> "begin_draw"
               [] OTHER -> "copy"
    /\ UNCHANGED <<store, status, expired, waker, token, collecting, seen, barSeen, clear, termVars>>

\* Mutant: each widget clears the flag of the store it has just copied.
CopyWidgetAndClear(w) ==
    /\ pc = "copy"
    /\ w \in todo /\ \A v \in todo : Rank[w] <= Rank[v]
    /\ seen' = [seen EXCEPT ![w] = store[StoreOf[w]]]
    /\ dirty' = dirty \ {StoreOf[w]}
    /\ todo' = todo \ {w}
    /\ pc' = IF todo' = {} THEN "begin_draw" ELSE "copy"
    /\ UNCHANGED <<store, status, expired, waker, token, collecting, barSeen, clear, termVars>>

\* The next widget in line copies its store under its own lock.
CopyWidget(w) ==
    /\ pc = "copy"
    /\ w \in todo /\ \A v \in todo : Rank[w] <= Rank[v]
    /\ seen' = [seen EXCEPT ![w] = store[StoreOf[w]]]
    /\ todo' = todo \ {w}
    /\ pc' = IF todo' = {} THEN "begin_draw" ELSE "copy"
    /\ UNCHANGED <<dataVars, token, collecting, barSeen, clear, termVars>>

\* Mutant: the status bar is left out of the periodic redraw.
NeedsPeriodicRedrawDetailsOnly == seen["node_details"] # Empty

\* The 200 ms ticker: node ages and the status bar need periodic redraws.
NeedsPeriodicRedraw == seen["node_details"] # Empty \/ status # NoMessage

Tick ==
    /\ pc = "idle" /\ NeedsPeriodicRedraw
    /\ pc' = "begin_draw"
    /\ UNCHANGED <<dataVars, token, collecting, uiVars, termVars>>

\* A wake-up of the geo store, or its retry ticker: read, then always redraw.
GeoArm ==
    /\ pc = "idle"
    /\ pc' = "begin_draw"
    /\ \E ok \in BOOLEAN : GeoSnapshotRead(ok)

Resize ==
    /\ pc = "idle"
    /\ pc' = "begin_draw"
    /\ UNCHANGED <<dataVars, token, collecting, uiVars, termVars>>

\* Tab and Shift+Tab move the selection, which only the disk list displays.
SwitchDisk ==
    /\ pc = "idle" /\ store["system"] \in ManyDisks
    /\ pc' = "copy"
    /\ todo' = {"disk_list"}
    /\ UNCHANGED <<dataVars, token, collecting, seen, barSeen, clear, termVars>>

Quit ==
    /\ pc = "idle"
    /\ pc' = "exited"
    /\ UNCHANGED <<dataVars, token, collecting, uiVars, termVars>>

-----------------------------------------------------------------------------
(* The UI thread: draw_app reads the status twice, under two locks.        *)

Visibility(m) == IF m \in Messages THEN "shown" ELSE "hidden"

\* Mutant: the visibility is noted before the expired message is dropped.
BeginDrawNotesFirst ==
    /\ pc = "begin_draw"
    /\ pc' = "paint"
    /\ status' = IF expired THEN NoMessage ELSE status
    /\ expired' = FALSE
    /\ barSeen' = Visibility(status)
    /\ clear' = (barSeen \notin {"unset", barSeen'})
    /\ UNCHANGED <<store, dirty, waker, token, collecting, todo, seen, termVars>>

\* Mutant: an expired message is replaced by the marker of a blank terminal.
BeginDrawBlanks ==
    /\ pc = "begin_draw"
    /\ pc' = "paint"
    /\ status' = IF expired THEN Blank ELSE status
    /\ expired' = FALSE
    /\ barSeen' = Visibility(status')
    /\ clear' = (barSeen \notin {"unset", barSeen'})
    /\ UNCHANGED <<store, dirty, waker, token, collecting, todo, seen, termVars>>

\* Drop an expired message; note whether the bar's visibility changed.
BeginDraw ==
    /\ pc = "begin_draw"
    /\ pc' = "paint"
    /\ status' = IF expired THEN NoMessage ELSE status
    /\ expired' = FALSE
    /\ barSeen' = Visibility(status')
    /\ clear' = (barSeen \notin {"unset", barSeen'})
    /\ UNCHANGED <<store, dirty, waker, token, collecting, todo, seen, termVars>>

\* draw: read the status again and paint it with the widgets' copies.
Paint ==
    /\ pc = "paint"
    /\ pc' = "idle"
    /\ shown' = seen
    /\ shownStatus' = status
    /\ UNCHANGED <<dataVars, token, collecting, uiVars>>

\* The terminal refuses the frame: the event loop ends.
DrawFails ==
    /\ pc = "paint"
    /\ pc' = "exited"
    /\ UNCHANGED <<dataVars, token, collecting, uiVars, termVars>>

-----------------------------------------------------------------------------
UiStep ==
    \/ InstallWaker \/ LoadGeo \/ Spawn
    \/ TakeDirty \/ (\E w \in Widgets : CopyWidget(w))
    \/ BeginDraw \/ Paint

Next ==
    \/ \E s \in Active, c \in Contents : Publish(s, c)
    \/ \E m \in Messages : Report(m)
    \/ TtlElapses
    \/ UiStep
    \/ RecvRefresh \/ Tick \/ GeoArm \/ Resize \/ SwitchDisk
    \/ Quit \/ DrawFails

\* The UI thread keeps running, and time passes.  select! picks at random
\* among the arms that are ready, so an arm that is ready again and again is
\* eventually taken: strong fairness for the token and for the ticker.
Fairness ==
    /\ WF_vars(UiStep)
    /\ SF_vars(RecvRefresh)
    /\ SF_vars(Tick)
    /\ WF_vars(TtlElapses)

Spec == Init /\ [][Next]_vars /\ Fairness

-----------------------------------------------------------------------------
(* Correctness.                                                            *)

ScreenCurrent ==
    /\ \A w \in Widgets : shown[w] = store[StoreOf[w]]
    /\ shownStatus = status

\* A UI thread about to block in select! with no token in the channel has on
\* its screen everything the collectors published: the capacity-one channel,
\* the merged flags and the separate locks never lose a wake-up
\* (notify_ui_if_needed, take_ui_dirty, refresh_dirty_widgets).
NoLostWakeup == pc = "idle" /\ ~token => ScreenCurrent

\* The same moment, for the layout: what DrawState remembers of the status bar
\* is what the terminal shows, although draw reads the status a second time
\* after DrawState was updated (draw_app, DrawState).
LayoutRemembered == pc = "idle" /\ ~token => barSeen = Visibility(shownStatus)

\* A message past its time to live is dropped or replaced even when nothing
\* else ever wakes the UI: no timer is armed for it, only the periodic redraw
\* removes it (expire_status_message_if_needed, needs_periodic_redraw).
StatusExpires == expired ~> (~expired \/ pc = "exited")

\* The design document: whenever the status bar appears or disappears, the
\* whole terminal is invalidated before the frame is painted.  A message that
\* arrives between the two locks of draw_app is painted without it.
LayoutShiftRedrawn ==
    [][shownStatus # Blank /\ Visibility(shownStatus') # Visibility(shownStatus)
         => clear]_vars

\* The wake-up protocol implements the viewer's specification.
D == INSTANCE Dashboard WITH copied <- seen, open <- (pc # "exited")
ImplementsDashboard == D!Spec
=============================================================================
