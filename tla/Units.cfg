\* Eight components that share no state, one at a time.  CHECK_DEADLOCK FALSE:
\* each of them may come to rest, and Locks is about deadlocks itself.
SPECIFICATION Spec
CONSTANTS
    Users = {u1, u2, u3}
    InitialLimit = 1
    SyncLimit = 3
    Threads = {t1, t2}
    Capacity = 6
    Addresses = {1, 2}
    Requests <- ArenaRequests
    Apns = {a, b, c}
    Serving = {c}
    Unset = Unset
    InitialSlots = 2
    Threshold = 1
    MaxSlots = 8
    MaxTime = 4
    Chain = Chain
    Miners = Miners
    MinersPage = MinersPage
    Frontpage = Frontpage
    Clients = {c1}
    Blocks = {"G", "A1", "A2", "A3", "B1", "B2"}
    Genesis = "G"
    Parent <- TreeParent
    Work <- TreeWork
    Time <- TreeTime
    TxsOf <- TreeTxs
    Spends <- TxSpends
    Pays <- TxPays
    PageSizes = {1, 2}
    MayFail = {"A2"}
    Base = 7
    Received <- SampleTxs
    Cuts = {0, 1, 5}
    SpentValue = 200
    InBlock <- SampleBlock
    MaxTxs = 6
    FewIds = 3
    MaxAny = 5
    Dense = 3
    MostHeaders = 8
    MaxNumber = 12
INVARIANTS
    PoolAccounted
    AllocationsSound
    ListSound
    DeadlockNeedsNestedRead
    IndexExact
    PagesComplete
    CodecFaithful
    BodyAuthentic
    HeadersLink
CHECK_DEADLOCK FALSE
