SPECIFICATION Spec
CONSTANTS
    m1 = m1
    m2 = m2
    k1 = k1
    k2 = k2
    n1 = n1
    chat1 = chat1
    chat2 = chat2
    Ranker = Ranker
    Daily = Daily
    Today = Today
    Monitors <- MCMonitors
    Keys <- MCKeys
    KeyOf <- MCKeyOf
    Nodes <- MCNodes
    Rankings <- MCRankings
    Chats <- MCChats
    Configs <- MCConfigs
    MaxBuffered = 1
INVARIANTS TypeOK RecipientsInStep
PROPERTIES RecoveriesFollowOutages SummariesTakenOnce BacklogReported
CHECK_DEADLOCK FALSE
