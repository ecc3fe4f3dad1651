SPECIFICATION EitherSpec
CONSTANTS
    market = market
    periodic = periodic
    userEvent = userEvent
    operator = operator
    t1 = t1
    t2 = t2
    None = None
    Callers <- AllCallers
    Market = market
    Periodic = periodic
    EvidenceCallers = {userEvent}
    ForcedCallers = {operator}
    Tasks = {t1, t2}
    MaxConnections = 2
    WorkerRaises = TRUE
    MayStop = TRUE
PROPERTIES
  OpenedByOwnRun
  AnsweredByLaterRun
  AskedRunPublishesCurrent
  SteadyRequestsSettled
CHECK_DEADLOCK FALSE
