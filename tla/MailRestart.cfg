\* One message, one restart of the collector.
CONSTANTS
    Size = 1
    BatchOf <- TwoBatches
    Recipient <- SharedAddress
    Unsafe <- NoneUnsafe
    BatchLimit = 2
    Faults = {"crash"}
    MaxFaults = 1
SPECIFICATION Spec
PROPERTY
    NoOutcomeLost
CHECK_DEADLOCK FALSE
