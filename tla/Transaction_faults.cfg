\* One Preview, two fair processes, a crash and a failed step anywhere, records
\* that expire and room for one Receipt.
CONSTANTS
    a1 = a1
    a2 = a2
    p1 = p1
    p2 = p2
    w1 = w1
    w2 = w2
    Proc <- TwoProcs
    Preview <- OnePreview
    Workspace <- OneWorkspace
    WorkspaceOf <- Together
    Narrow <- NoPreviews
    Expiring <- OnePreview
    Ops = 2
    ReceiptLimit = 1
    NoProc = NoProc
    NoPreview = NoPreview
    MaxCrashes = 1
    MaxFaults = 1
    MaxWrites = 0
SPECIFICATION FairSpec
INVARIANTS
    ReceiptsTellTruth
PROPERTIES
    PartialNeedsDecision
    CommandsEnd
    OutcomeRecorded
