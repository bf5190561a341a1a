\* Two DSDL names whose snake cases merge, FooBar and Foo_Bar: their types
\* share a version module, and with fixed port IDs two SUBJECT constants
\* land in it.
CONSTANTS
    a = a
    b = b
    c = c
    d = d
    u = u
    u0 = u0
    N1 = N1
    N2 = N2
    s1 = s1
    s2 = s2
    v1 = v1
    v2 = v2
    x = x
    y = y
    PkgPaths <- MCPkgPaths
    Names = {N1, N2}
    Versions = {v1, v2}
    Snake <- MCSnakeMerged
    Underscore = u
    Underscore0 = u0
    Externals <- MCExternals
    MaxTypes = 3
SPECIFICATION Spec
INVARIANT NoCollision
\* generate_code returns once the tree is built: the end of the run.
CHECK_DEADLOCK FALSE
