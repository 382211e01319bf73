SPECIFICATION Spec
CONSTANTS
    Sub = {"q"}
    Worker = {"w1", "w2"}
    SubOf <- QueueSubOf
    Nobody = Nobody
    RetryCount = 1
    MaxDelivery = 2
    HasSender = TRUE
    DuplicateDetection = FALSE
    MaxFaults = 1
    MaxSends = 5
INVARIANTS NoLoss RetryBound
PROPERTIES EveryCopySettles
\* Every copy is settled: nothing is left to do.
CHECK_DEADLOCK FALSE
