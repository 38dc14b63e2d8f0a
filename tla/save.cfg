\* Two threads, up to three regions, memory that keeps what was erased.
SPECIFICATION Spec
CONSTANTS
    f1 = f1
    f2 = f2
    b1 = b1
    b2 = b2
    Fn = {f1, f2}
    EntrySize <- MCEntrySize
    Profiles <- MCProfiles
    NumThreads = 2
    MaxRegions = 3
    Garbage = {}
INVARIANTS
    TypeOK
    InstMoved
    BbvDecodes
    LdvDecodes
    BpIdKeys
