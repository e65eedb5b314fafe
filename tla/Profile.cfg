SPECIFICATION Spec
CONSTANTS
    Action <- MCAction
    Input <- MCInput
    Reserved = {"Enter"}
    Defaults <- MCDefaults
    AddedInVersion2 <- MCVersion2
    AddedInVersion3 <- MCVersion3
    MigrationFallbackKeys <- MCFallbackKeys
    Profiles <- MCProfiles
INVARIANTS
    TypeOK
    CollisionFree
    UserRemapsKept
    OwnProfileLoads
    SavedProfileStays
