SPECIFICATION FairSpec
CONSTANTS
    NStages = 3
    MaxSlots = 3
    MaxDispatches = 2
    MaxFaults = 1
    Kinds = {"barrier", "mailbox"}
INVARIANTS
    MailboxOrder
PROPERTIES
    BarrierKeepsPromise
    EveryDispatchReturns
