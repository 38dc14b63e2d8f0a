\* Up to four regions, up to two clusters; any stage may fail.
SPECIFICATION Spec
CONSTANTS
    Profiles <- MCProfiles
    Distances = {0, 1, 20}
    IdLists <- MCIdLists
    MaxRegions = 4
INVARIANTS
    TypeOK
    Rebuilt
    Fingerprint
    Alternatives
    FilesAgree
