SPECIFICATION MCSpec
CONSTANTS
    Embedder = {"e1"}
    InstanceBound = 3
    Scenario <- ReloadTwice
    Path <- MCPath
    Resolve <- MCResolve
    OnDisk <- MCOnDisk
    Suffix <- MCSuffix
    Ext <- MCExt
    Itoa <- MCItoa
    MaxDepth = 2
    Case <- MCCase
    Index = "index.php"
    Root <- MCRoot
    RouteConfigs <- MCRouteConfigs
    Events <- MCEvents
    Glob <- MCGlob
    expandCurlyBraces <- MCExpand
    Accepts <- MCAccepts
    Plain = {"d", "x.php"}
    Dotted = {"x.php", "*.php", "{d,x.php}"}
INVARIANT ExtensionKept
CHECK_DEADLOCK FALSE
