\* Two Previews of one Workspace, two CLI processes, one crash and one external
\* write anywhere, plans of two operations.
CONSTANTS
    a1 = a1
    a2 = a2
    p1 = p1
    p2 = p2
    w1 = w1
    w2 = w2
    Proc <- TwoProcs
    Preview <- TwoPreviews
    Workspace <- OneWorkspace
    WorkspaceOf <- Together
    Narrow <- NoPreviews
    Expiring <- NoPreviews
    Ops = 2
    ReceiptLimit = 3
    NoProc = NoProc
    NoPreview = NoPreview
    MaxCrashes = 1
    MaxFaults = 0
    MaxWrites = 1
SYMMETRY Interchangeable
SPECIFICATION Spec
INVARIANTS
    TypeOK
    OneTransaction
PROPERTIES
    WriteAhead
    AtMostOnce
    AppliedStays
    CommitsAreSerial
