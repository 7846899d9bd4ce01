SPECIFICATION Spec
CONSTANTS
    MaxLines = 3
    MaxPieces = 4
    Overridden <- MCOverridden
    Trust <- MCTrust
    Own <- MCOwn
    SettingsRequests <- MCRequests
    Catalogs <- MCCatalogs
    Places <- MCPlaces
    ServerBodies <- MCServerBodies
    Profiles <- MCProfiles
    Ids = {1, 3}
INVARIANTS
    RestsOnNordsWord
    SettingsSurvive
    FollowsSettings
    ProfileIsFiltered
PROPERTIES
    RejectionIsNords
