SPECIFICATION OrderFairSpec
CONSTANTS
    t1 = t1
    free = free
    pro = pro
    plan1 = plan1
    topup1 = topup1
    Tenants = {t1}
    Plans = {free, pro}
    TrialPlan = free
    NoPlan = NoPlan
    NoTenant = NoTenant
    Runners = {}
    Scheduled = {}
    MaxPeriods = 0
    MaxCrashes = 0
    Orders = {plan1, topup1}
    OrderTenant <- OneTenant
    OrderKind <- Kinds
    OrderPlan <- ProPlan
    CreditPlans = {free, pro}
    Handlers = {h1, h2}
    NoOrder = NoOrder
    MaxDead = 1
INVARIANTS OrderTypeOK WorkedStaysPaid PaidIsCovered
PROPERTIES PromiseKept PaidIsDelivered
