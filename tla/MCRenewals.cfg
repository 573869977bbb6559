SPECIFICATION SubFairSpec
CONSTANTS
    Tenants = {t1}
    Plans = {free, pro}
    TrialPlan = free
    NoPlan = NoPlan
    NoTenant = NoTenant
    Runners = {beat, operator}
    Scheduled = {beat}
    MaxPeriods = 2
    MaxCrashes = 1
INVARIANTS SubTypeOK OneGrantPerPeriod
PROPERTIES DowngradeWasAsked LapsedIsProcessed
