-------------------------- MODULE MC_CodegenLayout --------------------------
EXTENDS CodegenLayout

CONSTANTS a, b, c, d, u, u0, N1, N2, s1, s2, v1, v2, x, y

(* Packages a.b and a.c, d, and "_"; a and a.b are external, to modules x *)
(* and y.                                                                  *)
MCPkgPaths == {<<a, b>>, <<a, c>>, <<d>>, <<u>>}
MCSnake == [n \in {N1, N2} |-> IF n = N1 THEN s1 ELSE s2]
(* Two DSDL names with one snake case, as FooBar and Foo_Bar both give    *)
(* foo_bar.                                                                *)
MCSnakeMerged == [n \in {N1, N2} |-> s1]
MCExternals == [p \in {<<a>>, <<a, b>>} |-> IF p = <<a>> THEN <<x>> ELSE <<y>>]
=============================================================================
