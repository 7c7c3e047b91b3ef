CONSTANTS
    NumSockets = 2
    MaxReceivers = 2
    MaxPackets = 2
    MaxFailures = 1
    Forms <- MCForms
SPECIFICATION FairSpec
INVARIANTS
    ReceiversServed
    NoRepeat
    CallAccounted
PROPERTIES
    DispatchReturns
