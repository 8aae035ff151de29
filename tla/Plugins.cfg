SPECIFICATION Spec
CONSTANTS
    p1 = p1
    p2 = p2
    x1 = x1
    r1 = r1
    r2 = r2
    None = None
    PluginIds <- TwoPlugins
    Extensions <- OneExtension
    Requests <- TwoRequests
    MaxBegun = 3
    MaxFaults = 1
INVARIANTS TypeOK SchemaCurrent Agreement RegistryExact InstalledHasTables
SYMMETRY Alike
