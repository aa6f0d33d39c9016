----------------------------- MODULE MCNotifier -----------------------------
(* Instances of Notifier for TLC: two endpoints that raise everything at    *)
(* once, or one under quiet hours, with a rate limit or without.            *)
EXTENDS Notifier, TLC

CONSTANTS m1, m2, k1, k2, n1, chat1, chat2

MCMonitors == {m1, m2}
MCKeys == {k1, k2}
MCKeyOf == m1 :> k1 @@ m2 :> k2
MCNodes == {n1}
MCRankings == {1, 2}
MCChats == {chat1, chat2}

Plain == [monitors |-> {m1, m2}, chatIds |-> <<chat1, chat2>>,
          enabled |-> NotificationEventKind, quietHours |-> FALSE, rateLimit |-> FALSE]
Quiet == [Plain EXCEPT !.monitors = {m1}, !.chatIds = <<chat1>>, !.quietHours = TRUE]
QuietAndLimited == [Quiet EXCEPT !.rateLimit = TRUE]

MCConfigs == {Plain, QuietAndLimited}
MCQuiet == {Quiet}
=============================================================================
