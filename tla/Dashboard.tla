------------------------------ MODULE Dashboard ------------------------------
(***************************************************************************)
(* What the dashboard promises a viewer: background tasks publish new      *)
(* contents of the stores, every widget copies the store it displays, and  *)
(* what the widgets hold is painted on the screen.  No wake-up channel, no *)
(* dirty flags: UiRefresh.tla is shown to implement this specification.    *)
(***************************************************************************)
CONSTANTS
    Stores,       \* the independent pieces of shared data
    Widgets,      \* the panels that display them
    StoreOf,      \* which store a widget displays
    Contents,     \* what a store can hold
    Empty         \* what every store holds at start

VARIABLES
    store,        \* current contents
    copied,       \* the copy each widget keeps
    shown,        \* what is on the screen for each widget
    open          \* the dashboard is on the screen

vars == <<store, copied, shown, open>>

Init ==
    /\ store = [s \in Stores |-> Empty]
    /\ copied = [w \in Widgets |-> Empty]
    /\ shown = [w \in Widgets |-> Empty]
    /\ open = TRUE

\* A background task publishes, whether or not the dashboard is still open.
Publish(s) ==
    /\ \E c \in Contents : store' = [store EXCEPT ![s] = c]
    /\ UNCHANGED <<copied, shown, open>>

Copy(w) ==
    /\ open
    /\ copied' = [copied EXCEPT ![w] = store[StoreOf[w]]]
    /\ UNCHANGED <<store, shown, open>>

Paint ==
    /\ open
    /\ shown' = copied
    /\ UNCHANGED <<store, copied, open>>

Close ==
    /\ open
    /\ open' = FALSE
    /\ UNCHANGED <<store, copied, shown>>

Next ==
    \/ \E s \in Stores : Publish(s)
    \/ \E w \in Widgets : Copy(w)
    \/ Paint
    \/ Close

\* While it is open, the dashboard catches up with what was published.
Fairness ==
    /\ \A w \in Widgets : WF_vars(Copy(w))
    /\ WF_vars(Paint)

Safety == Init /\ [][Next]_vars
Spec == Safety /\ Fairness
=============================================================================
