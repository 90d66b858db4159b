SPECIFICATION Spec
CONSTANTS
    Strings <- MCStrings
    UserIds = {1, 2}
    Files <- MCFiles
    VendorTable <- MCVendorTable
    ModuleTable <- MCModuleTable
    DepTable <- MCDepTable
    OeTable <- MCOeTable
    LIBAMVP_VENDORS_MAX = 3
    LIBAMVP_MODULES_MAX = 2
    LIBAMVP_DEPENDENCIES_MAX = 3
    LIBAMVP_OES_MAX = 2
    PageSize = 2
    MaxPages = 2
    MaxCalls = 2
    MaxFaults = 1
INVARIANT
    DependencyIsEqual
CHECK_DEADLOCK FALSE
