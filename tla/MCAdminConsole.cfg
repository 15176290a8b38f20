CONSTANTS
    Routes = {"dashboard", "api-keys", "configure", "account"}
    Top = 2
    Meets <- MCMeets
    PageSizes = {1, 2}
    FirstSize = 1
    Nothing = Nothing
    MaxKeys = 2
    KeyPageSizes = {1}
    FirstKeyPage = 1
    Nobody = Nobody
    FieldOrder <- MCFields
    Accepts <- MCAccepts
    Defaults <- MCDefaults
    Refused = {"ftp"}
    Normal <- MCNormal
    Empty = Empty
SPECIFICATION ConsoleSpec
INVARIANTS TypeOK SignedOutStays NoEmptyPage OneBackendButton OwnChangesListed CleanIsSaved
CHECK_DEADLOCK FALSE
