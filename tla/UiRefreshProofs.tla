--------------------------- MODULE UiRefreshProofs ---------------------------
(***************************************************************************)
(* For every choice of collectors, contents and messages: UiRefresh keeps  *)
(* its types, never loses a wake-up, remembers its layout and takes only   *)
(* steps the Dashboard allows.                                             *)
(***************************************************************************)
EXTENDS UiRefresh, TLAPS

\* Where a draw is still ahead of the UI thread, or will never come.
DrawAhead == {"copy", "begin_draw", "paint", "exited"}

\* Collectors run only after the waker is installed, and a token accompanies
\* the flags they set until the UI thread has taken them.
FlagsAnnounced ==
    /\ collecting => pc \notin Boot
    /\ pc = "install" => dirty = {}
    /\ pc # "install" => waker
    /\ dirty # {} => token \/ pc = "take"

\* A stale copy is marked, or its widget is still in line.
CopiesMarked ==
    /\ todo # {} => pc = "copy"
    /\ \A w \in Widgets :
          seen[w] # store[StoreOf[w]] => StoreOf[w] \in dirty \/ w \in todo

\* A stale panel, status bar or layout memory has a draw ahead of it.
PaintsAhead ==
    /\ shown # seen => pc \in DrawAhead
    /\ shownStatus # status => "status" \in dirty \/ pc \in Boot \cup DrawAhead
    /\ barSeen # Visibility(shownStatus) => "status" \in dirty \/ pc \in Boot \cup DrawAhead
    /\ pc = "paint" => barSeen = Visibility(status) \/ "status" \in dirty

\* NoLostWakeup speaks of the idle UI only; this is what every step keeps.
IInv == TypeOK /\ FlagsAnnounced /\ CopiesMarked /\ PaintsAhead

\* A widget displays one of the stores, and no flag but the status is no store.
LEMMA StoreOfType == StoreOf \in [Widgets -> Stores]
  BY DEF StoreOf, Widgets, Stores

\* set_status_message either leaves the data alone or marks the new message.
LEMMA SetStatusEffect ==
    ASSUME TypeOK, NEW m \in Messages, SetStatus(m)
    PROVE  /\ status' \in Messages \cup {NoMessage} /\ expired' \in BOOLEAN
           /\ dirty' \subseteq Flags /\ token' \in BOOLEAN
           /\ \/ UNCHANGED <<status, dirty, token>>
              \/ dirty' = dirty \cup {"status"} /\ token' = (token \/ waker)
  BY DEF SetStatus, MarkDirty, TypeOK, Flags

\* UiRefresh starts with nothing published, nothing drawn, nothing pending.
LEMMA InitIInv == Init => IInv
  <1> SUFFICES ASSUME Init PROVE IInv
    OBVIOUS
  <1>1. TypeOK
    BY ContentsAssumption DEF Init, TypeOK, Locations, Boot
  <1>2. FlagsAnnounced
    BY DEF Init, FlagsAnnounced, Boot
  <1>3. CopiesMarked
    BY StoreOfType DEF Init, CopiesMarked
  <1>4. PaintsAhead
    BY DEF Init, PaintsAhead, Boot
  <1> QED
    BY <1>1, <1>2, <1>3, <1>4 DEF IInv

\* Every step keeps the types.
LEMMA NextTypeOK == TypeOK /\ [Next]_vars => TypeOK'
  <1> SUFFICES ASSUME TypeOK, [Next]_vars PROVE TypeOK'
    OBVIOUS
  <1> USE DEF TypeOK, dataVars, uiVars, termVars
  <1>1. ASSUME NEW s \in Active, NEW c \in Contents, Publish(s, c) PROVE TypeOK'
    BY <1>1, ActiveAssumption DEF Publish, MarkDirty, Flags
  <1>2. ASSUME NEW m \in Messages, Report(m) PROVE TypeOK'
    BY <1>2, SetStatusEffect DEF Report
  <1>3. CASE TtlElapses
    BY <1>3 DEF TtlElapses
  <1>4. CASE InstallWaker
    BY <1>4 DEF InstallWaker, Locations, Boot
  <1>5. CASE LoadGeo \/ GeoArm
    BY <1>5, SetStatusEffect, MessagesAssumption
    DEF LoadGeo, GeoArm, GeoSnapshotRead, Locations, Boot
  <1>6. CASE Spawn
    BY <1>6 DEF Spawn, Locations
  <1>7. CASE TakeDirty
    <2>1. dirty' \subseteq Flags /\ todo' \subseteq Widgets /\ pc' \in Locations
      BY <1>7 DEF TakeDirty, Locations
    <2> QED
      BY <1>7, <2>1 DEF TakeDirty
  <1>8. ASSUME NEW w \in Widgets, CopyWidget(w) PROVE TypeOK'
    BY <1>8, StoreOfType DEF CopyWidget, Locations
  <1>9. CASE BeginDraw
    BY <1>9 DEF BeginDraw, Visibility, Locations
  <1>10. CASE Paint \/ DrawFails
    BY <1>10 DEF Paint, DrawFails, Locations
  <1>11. CASE RecvRefresh \/ Tick \/ Resize \/ Quit
    BY <1>11 DEF RecvRefresh, Tick, Resize, Quit, Locations
  <1>12. CASE SwitchDisk
    BY <1>12 DEF SwitchDisk, Locations, Widgets
  <1>13. CASE UNCHANGED vars
    BY <1>13 DEF vars
  <1> QED
    BY <1>1, <1>2, <1>3, <1>4, <1>5, <1>6, <1>7, <1>8, <1>9, <1>10, <1>11, <1>12, <1>13
    DEF Next, UiStep

\* UiRefresh keeps the types of its variables.
THEOREM TypeCorrect == Spec => []TypeOK
  <1>1. Init => TypeOK
    BY InitIInv DEF IInv
  <1> QED
    BY <1>1, NextTypeOK, PTL DEF Spec

-----------------------------------------------------------------------------
\* Every step keeps the flags announced: a flag is set together with try_send,
\* and only take_ui_dirty, which clears all of them, follows a receive.
LEMMA NextFlagsAnnounced == IInv /\ [Next]_vars => FlagsAnnounced'
  <1> SUFFICES ASSUME IInv, [Next]_vars PROVE FlagsAnnounced'
    OBVIOUS
  <1> USE DEF IInv, FlagsAnnounced, Boot, dataVars, uiVars, termVars
  <1>1. ASSUME NEW s \in Active, NEW c \in Contents, Publish(s, c) PROVE FlagsAnnounced'
    BY <1>1 DEF Publish, MarkDirty
  <1>2. ASSUME NEW m \in Messages, Report(m) PROVE FlagsAnnounced'
    BY <1>2, SetStatusEffect DEF Report
  <1>3. CASE LoadGeo \/ GeoArm
    BY <1>3, SetStatusEffect, MessagesAssumption DEF LoadGeo, GeoArm, GeoSnapshotRead
  <1>4. CASE TtlElapses \/ UNCHANGED vars
    BY <1>4 DEF TtlElapses, vars
  <1>5. CASE InstallWaker \/ Spawn
    BY <1>5 DEF InstallWaker, Spawn
  <1>6. CASE TakeDirty
    BY <1>6 DEF TakeDirty
  <1>7. ASSUME NEW w \in Widgets, CopyWidget(w) PROVE FlagsAnnounced'
    BY <1>7 DEF CopyWidget
  <1>8. CASE BeginDraw \/ Paint \/ DrawFails
    BY <1>8 DEF BeginDraw, Paint, DrawFails
  <1>9. CASE RecvRefresh \/ Tick \/ Resize \/ Quit \/ SwitchDisk
    BY <1>9 DEF RecvRefresh, Tick, Resize, Quit, SwitchDisk
  <1> QED
    BY <1>1, <1>2, <1>3, <1>4, <1>5, <1>6, <1>7, <1>8, <1>9 DEF Next, UiStep

\* Every step keeps a stale copy marked: a publication marks it, take_ui_dirty
\* turns the mark into a place in line, and the copy removes the staleness.
LEMMA NextCopiesMarked == IInv /\ [Next]_vars => CopiesMarked'
  <1> SUFFICES ASSUME IInv, [Next]_vars PROVE CopiesMarked'
    OBVIOUS
  <1> USE DEF IInv, CopiesMarked, dataVars, uiVars, termVars
  <1>1. ASSUME NEW s \in Active, NEW c \in Contents, Publish(s, c) PROVE CopiesMarked'
    BY <1>1, ActiveAssumption, StoreOfType DEF Publish, MarkDirty, TypeOK
  <1>2. ASSUME NEW m \in Messages, Report(m) PROVE CopiesMarked'
    BY <1>2, SetStatusEffect DEF Report
  <1>3. CASE LoadGeo \/ GeoArm
    BY <1>3, SetStatusEffect, MessagesAssumption DEF LoadGeo, GeoArm, GeoSnapshotRead
  <1>4. CASE TtlElapses \/ UNCHANGED vars \/ InstallWaker
    BY <1>4 DEF TtlElapses, vars, InstallWaker
  <1>5. CASE Spawn
    BY <1>5 DEF Spawn
  <1>6. CASE TakeDirty
    <2>1. todo' # {} => pc' = "copy"
      <3>1. dirty = {"status"} => todo' = {}
        BY <1>6, StoreOfType DEF TakeDirty, Stores
      <3> QED
        BY <1>6, <3>1 DEF TakeDirty
    <2>2. todo = {}
      BY <1>6 DEF TakeDirty
    <2> QED
      BY <1>6, <2>1, <2>2 DEF TakeDirty
  <1>7. ASSUME NEW w \in Widgets, CopyWidget(w) PROVE CopiesMarked'
    BY <1>7, StoreOfType DEF CopyWidget, TypeOK
  <1>8. CASE BeginDraw \/ Paint \/ DrawFails
    BY <1>8 DEF BeginDraw, Paint, DrawFails
  <1>9. CASE RecvRefresh \/ Tick \/ Resize \/ Quit \/ SwitchDisk
    BY <1>9 DEF RecvRefresh, Tick, Resize, Quit, SwitchDisk
  <1> QED
    BY <1>1, <1>2, <1>3, <1>4, <1>5, <1>6, <1>7, <1>8, <1>9 DEF Next, UiStep

\* Every step keeps a draw ahead of whatever on the screen is stale.
LEMMA NextPaintsAhead == IInv /\ [Next]_vars => PaintsAhead'
  <1> SUFFICES ASSUME IInv, [Next]_vars PROVE PaintsAhead'
    OBVIOUS
  <1> USE DEF IInv, PaintsAhead, DrawAhead, Boot, Visibility, dataVars, uiVars, termVars
  <1>1. ASSUME NEW s \in Active, NEW c \in Contents, Publish(s, c) PROVE PaintsAhead'
    BY <1>1 DEF Publish, MarkDirty
  <1>2. ASSUME NEW m \in Messages, Report(m) PROVE PaintsAhead'
    BY <1>2, SetStatusEffect DEF Report
  <1>3. CASE LoadGeo \/ GeoArm
    BY <1>3, SetStatusEffect, MessagesAssumption DEF LoadGeo, GeoArm, GeoSnapshotRead
  <1>4. CASE TtlElapses \/ UNCHANGED vars
    BY <1>4 DEF TtlElapses, vars
  <1>5. CASE InstallWaker \/ Spawn
    BY <1>5 DEF InstallWaker, Spawn
  <1>6. CASE TakeDirty
    BY <1>6 DEF TakeDirty
  <1>7. ASSUME NEW w \in Widgets, CopyWidget(w) PROVE PaintsAhead'
    BY <1>7 DEF CopyWidget
  <1>8. CASE BeginDraw
    BY <1>8 DEF BeginDraw
  <1>9. CASE Paint \/ DrawFails
    BY <1>9 DEF Paint, DrawFails
  <1>10. CASE RecvRefresh \/ Tick \/ Resize \/ Quit \/ SwitchDisk
    BY <1>10 DEF RecvRefresh, Tick, Resize, Quit, SwitchDisk
  <1> QED
    BY <1>1, <1>2, <1>3, <1>4, <1>5, <1>6, <1>7, <1>8, <1>9, <1>10 DEF Next, UiStep

\* The inductive invariant holds in every reachable state.
LEMMA Invariance == Spec => []IInv
  <1>1. IInv /\ [Next]_vars => IInv'
    <2>1. IInv => TypeOK
      BY DEF IInv
    <2> QED
      BY <2>1, NextTypeOK, NextFlagsAnnounced, NextCopiesMarked, NextPaintsAhead DEF IInv
  <1> QED
    BY InitIInv, <1>1, PTL DEF Spec

-----------------------------------------------------------------------------
\* No wake-up is lost: the UI thread never blocks on an empty channel while
\* the screen differs from the shared data.
THEOREM WakeupsNeverLost == Spec => []NoLostWakeup
  <1>1. IInv => NoLostWakeup
    <2> SUFFICES ASSUME IInv, pc = "idle", ~token PROVE ScreenCurrent
      BY DEF NoLostWakeup
    <2>1. dirty = {} /\ todo = {}
      BY DEF IInv, FlagsAnnounced, CopiesMarked
    <2>2. seen = shown /\ shownStatus = status
      BY <2>1 DEF IInv, PaintsAhead, DrawAhead, Boot
    <2>3. \A w \in Widgets : seen[w] = store[StoreOf[w]]
      BY <2>1 DEF IInv, CopiesMarked
    <2> QED
      BY <2>2, <2>3 DEF ScreenCurrent
  <1> QED
    BY <1>1, Invariance, PTL

\* Nor is a change of layout forgotten: at that moment DrawState agrees with
\* the terminal.
THEOREM LayoutAlwaysRemembered == Spec => []LayoutRemembered
  <1>1. IInv => LayoutRemembered
    BY DEF IInv, FlagsAnnounced, PaintsAhead, DrawAhead, Boot, LayoutRemembered
  <1> QED
    BY <1>1, Invariance, PTL

-----------------------------------------------------------------------------
\* Every step is one the viewer's specification allows, or invisible to it:
\* a panel never displays what was not published before, and nothing is
\* painted once the dashboard is closed.
THEOREM RefinesDashboard == Spec => D!Safety
  <1>1. Init => D!Init
    BY DEF Init, D!Init
  <1>2. TypeOK /\ [Next]_vars => [D!Next]_(D!vars)
    <2> SUFFICES ASSUME TypeOK, [Next]_vars PROVE D!Next \/ UNCHANGED D!vars
      OBVIOUS
    <2> USE DEF D!vars, dataVars, uiVars, termVars
    <2>1. ASSUME NEW s \in Active, NEW c \in Contents, Publish(s, c) PROVE D!Next
      <3>1. s \in Stores
        BY ActiveAssumption
      <3>2. D!Publish(s)
        BY <2>1 DEF Publish, D!Publish
      <3> QED
        BY <3>1, <3>2 DEF D!Next
    <2>2. ASSUME NEW w \in Widgets, CopyWidget(w) PROVE D!Next
      <3>1. D!Copy(w)
        BY <2>2 DEF CopyWidget, D!Copy
      <3> QED
        BY <3>1 DEF D!Next
    <2>3. CASE Paint
      BY <2>3 DEF Paint, D!Paint, D!Next
    <2>4. CASE Quit \/ DrawFails
      BY <2>4 DEF Quit, DrawFails, D!Close, D!Next
    <2>5. ASSUME NEW m \in Messages, Report(m) PROVE UNCHANGED D!vars
      BY <2>5 DEF Report
    <2>6. CASE TtlElapses \/ InstallWaker \/ LoadGeo \/ Spawn \/ GeoArm
      BY <2>6 DEF TtlElapses, InstallWaker, LoadGeo, Spawn, GeoArm, GeoSnapshotRead
    <2>7. CASE TakeDirty
      <3>1. pc' # "exited"
        BY <2>7 DEF TakeDirty
      <3> QED
        BY <2>7, <3>1 DEF TakeDirty
    <2>8. CASE BeginDraw \/ RecvRefresh \/ Tick \/ Resize \/ SwitchDisk
      BY <2>8 DEF BeginDraw, RecvRefresh, Tick, Resize, SwitchDisk
    <2>9. CASE UNCHANGED vars
      BY <2>9 DEF vars
    <2> QED
      BY <2>1, <2>2, <2>3, <2>4, <2>5, <2>6, <2>7, <2>8, <2>9 DEF Next, UiStep
  <1> QED
    BY <1>1, <1>2, TypeCorrect, PTL DEF Spec, D!Safety
=============================================================================
