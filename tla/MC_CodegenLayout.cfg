\* Two names, two versions, four package paths (two inside the external
\* package a, one of them inside the nested external package a.b, and "_"),
\* packages of up to three types: enough for two versions of one type, a
\* message and a service in one module, and every kind of path.
CONSTANTS
    a = a
    b = b
    c = c
    d = d
    u = u
    u0 = u0
    N1 = N1
    N2 = N2
    s1 = s1
    s2 = s2
    v1 = v1
    v2 = v2
    x = x
    y = y
    PkgPaths <- MCPkgPaths
    Names = {N1, N2}
    Versions = {v1, v2}
    Snake <- MCSnake
    Underscore = u
    Underscore0 = u0
    Externals <- MCExternals
    MaxTypes = 3
SPECIFICATION Spec
INVARIANTS
    TreeHoldsItems
    ExternalModuleIsLongestPrefix
    GeneratedExactlyInternal
    NoCollision
\* generate_code returns once the tree is built: the end of the run.
CHECK_DEADLOCK FALSE
