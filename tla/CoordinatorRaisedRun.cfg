SPECIFICATION FairSpec
CONSTANTS
    None = None
    Callers = {market, periodic, userEvent, operator}
    Market = market
    Periodic = periodic
    EvidenceCallers = {userEvent}
    ForcedCallers = {operator}
    Tasks = {t1, t2}
    MaxConnections = 1
    WorkerRaises = TRUE
    MayStop = FALSE
CHECK_DEADLOCK FALSE
PROPERTIES FollowUpRuns
