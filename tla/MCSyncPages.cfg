SPECIFICATION SyncFairSpec
CONSTANTS
    Products = {1, 2}
    Runs = {sweep}
    PageSize = 1
    MaxRetries = 1
    Shops <- OneShop
    MaxEdits = 1
    MaxFaults = 0
    MaxEvents <- EventsOfEach
PROPERTY PullConverges
