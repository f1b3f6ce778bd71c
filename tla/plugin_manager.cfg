SPECIFICATION Spec
CONSTANTS
    h1 = h1
    h2 = h2
    p1 = p1
    p2 = p2
    i1 = i1
    i2 = i2
    v1 = v1
    None = None
    Main = Main
    VmThread = VmThread
    Default = Default
    Null = Null
    Hosts <- TwoHosts
    Packages <- TwoPackages
    Names <- TwoNames
    Iids <- TwoIids
    PathOf <- Paths
    Contents <- AllContents
    Values = {v1}
    MaxCalls = 2
CHECK_DEADLOCK FALSE
INVARIANTS
    PluginTypeOK
    LoadedOnce
    MapAllOrNothing
    CodeStaysLoaded
PROPERTIES
    InitializeReturns
