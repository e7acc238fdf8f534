SPECIFICATION Spec
CONSTANTS
    account = account
    capability = capability
    Subjects = {account, capability}
    SubjectOf <- MCSubjectOf
    Limit = 2
    AppBytes = 4
    MaxObjects = 2
    LiveStages = 1
    AnonymousBytes = 2
    InspectionPage = 1
    MaxDeletions = 1
    x = x
    Slots = {1}
    AnonymousSlots = {}
    Strays = {x}
    Sizes = {1}
    MaxFaults = 1
    MaxProcess = 2
INVARIANTS
    UnknownBlocksUploads
