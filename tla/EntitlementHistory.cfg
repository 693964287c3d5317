\* One feature with its metric, one administrator, two requests at a time.
SPECIFICATION Spec
CONSTANTS
    Actors = {a1}
    Features = {"team"}
    Metrics = {"members"}
    MetricsOf <- EachMetric
    Allowed <- OneValue
    Needs <- Usable
    PlanFeatures = {}
    PlanLimits <- SmallPlan
    Usages = {1}
    Periods <- NowOrLater
    Moves <- Prolonged
    Horizon = 3
    MaxTime = 1
    MaxOverrides = 2
    InFlight = 2
    None = None
INVARIANTS
    OneLifecycle
    NextChangeIsNext
PROPERTIES
    HistoryKept
CHECK_DEADLOCK FALSE
