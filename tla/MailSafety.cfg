\* Three messages, two of them to one address, one unsafe; any two faults.
CONSTANTS
    Size = 3
    BatchOf <- TwoBatches
    Recipient <- SharedAddress
    Unsafe <- SecondUnsafe
    BatchLimit = 2
    Faults = {"crash", "refused", "unclear", "lostAck", "orphan", "slow",
              "forget", "disk", "delayed", "lostAnswer", "retire"}
    MaxFaults = 2
SPECIFICATION Spec
INVARIANTS
    TypeOK
    NoMailLost
    OutcomeTrue
    BoundedCopies
    CompletedSettled
PROPERTIES
    HandoverSpec
    FreshOutcomeKept
CHECK_DEADLOCK FALSE
