SPECIFICATION Spec
CONSTANTS
    e1 = e1  e2 = e2  e3 = e3  gclid = gclid  fbclid = fbclid
    Events = {e1, e2, e3}
    ClickKeys = {gclid, fbclid}
    Configs <- AllConfigs
    Inputs <- Journeys
    Halvings = 1
    None = None
SYMMETRY Symmetry
INVARIANTS TypeOK ConversionsCounted JourneyAccounted PositionsFollowJourney AttributionReplayable
PROPERTY CreditWhereDue
CHECK_DEADLOCK FALSE
