SPECIFICATION Spec
CONSTANTS
    Workers = {w1, w2}
    w1 = w1
    w2 = w2
    RebateEnabled = TRUE
    MaxFaults = 1
SYMMETRY WorkerSymmetry
CHECK_DEADLOCK FALSE
INVARIANTS
    TypeOK
    EffectsAtMostOnce
    NoGrantWithoutPayment
    CompletedIsDelivered
    AttemptsSuffice
PROPERTIES
    PaymentNeverLost
    CompletedIsFinal
    ClosedBeforeCancelled
