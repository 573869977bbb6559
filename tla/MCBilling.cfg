SPECIFICATION Spec
CONSTANTS
    t1 = t1
    free = free
    pro = pro
    plan1 = plan1
    topup1 = topup1
    Tenants = {t1}
    Plans = {free, pro}
    TrialPlan = free
    NoPlan = NoPlan
    NoTenant = NoTenant
    Runners = {beat}
    Scheduled = {beat}
    MaxPeriods = 2
    MaxCrashes = 1
    Orders = {plan1}
    OrderTenant <- OneTenant
    OrderKind <- Kinds
    OrderPlan <- ProPlan
    CreditPlans = {free, pro}
    Handlers = {h1, h2}
    NoOrder = NoOrder
    MaxDead = 0
SYMMETRY HandlerSymmetry
INVARIANTS PlanPointersAgree OneGrantPerPeriod
