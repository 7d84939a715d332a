\* Two batches, two deliveries of two units each, and two staff requests.
CONSTANTS
    d1 = d1
    d2 = d2
    r1 = r1
    r2 = r2
    LastBatch = 2
    Deliveries <- MCDeliveries
    Requests <- MCRequests
    Units <- MCUnits
    Adjustments <- MCAdjustments
    MaxUnits = 2
SPECIFICATION Spec
SYMMETRY Symmetry
INVARIANTS
    TypeOK
    LinesAddUp
PROPERTIES
    DeliveriesNeverOverdraw
    EarliestExpiringFirst
CHECK_DEADLOCK FALSE
