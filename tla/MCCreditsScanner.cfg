CONSTANTS
    Letters = {"c", "u"}
    MetadataKey <- SmallMetadataKey
    CreditsUsedKey <- SmallCreditsUsedKey
    MaxScannedKeyLength = 2
    MaxSafe = 2
    Null = Null
    MaxDepth = 4
    MaxString = 4
    MaxNumber = 3
SPECIFICATION ScannerSpec
INVARIANTS
    ScannerTypeOK
    ScannerExact
CHECK_DEADLOCK FALSE
