SPECIFICATION SyncFairSpec
CONSTANTS
    Products = {1, 2}
    Runs = {sweep}
    PageSize = 1
    MaxRetries = 1
    Shops <- BothShops
    MaxEdits = 2
    MaxFaults = 2
    MaxEvents <- EventsOfEach
INVARIANTS SyncTypeOK WatermarkCovers
PROPERTIES WritesNeverSetBack ListedIsIndexed CachesCatchUp
