SPECIFICATION Spec
CONSTANTS
    Item <- McItem
    ScopeOf <- McScope
    PlanOf <- McPlan
    CPU <- McCPU
    Mem <- McMem
    Caps <- McCaps
    Catalog <- McCatalog
    Unlimited = 9
INVARIANTS
    EveryPartWithin
    QuoteIsExact
CHECK_DEADLOCK FALSE
