SPECIFICATION MCSpec
CONSTANTS
    Embedder = {"e1"}
    InstanceBound = 2
    Scenario <- MCScenario
    Path <- MCPath
    Resolve <- MCResolve
    OnDisk <- MCOnDisk
    Suffix <- MCSuffix
    Ext <- MCExt
    Itoa <- MCItoa
    MaxDepth = 2
    Case <- MCCase
    Index = "index.php"
    Root <- MCRoot
    RouteConfigs <- MCRouteConfigs
    Events <- MCEvents
    Glob <- MCGlob
    expandCurlyBraces <- MCExpand
    Accepts <- MCAccepts
    Plain = {"d", "x.php"}
    Dotted = {"x.php", "*.php", "{d,x.php}"}
INVARIANTS
    
    ServersBacked
    RefusalHarmless
    HotAfterRestart
    
    
    BudgetSound
    RouterAgrees
    RoutesComplete
    
    MessageKept
    PersistRoundtrip
PROPERTIES
    
    ChangeRestarts
CHECK_DEADLOCK FALSE
