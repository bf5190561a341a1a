---------------------------- MODULE CodegenLayout ----------------------------
(***************************************************************************)
(* Where the Rust code generator (canadensis_codegen_rust/src/lib.rs and   *)
(* module_tree.rs) puts the items it generates.  generate_code() walks the *)
(* compiled package, skips the types of external packages, and turns each *)
(* other type into items (a type per message, a request and a response     *)
(* type per service, and a SUBJECT or SERVICE constant when it has a fixed *)
(* port ID) named by RustTypeName::for_message_type.  The items are then  *)
(* collected into a ModuleTree: add_item() walks the item's module path,   *)
(* creating missing submodules, and pushes the item at its end.            *)
(*                                                                         *)
(* Names are abstracted: a package segment and a type name are model       *)
(* values, to_snake_case (from the heck crate, not among the sources) is   *)
(* the constant function Snake, and the version module                     *)
(* "{snake}_{major}_{minor}" is the pair <<Snake[name], version>>: the     *)
(* last two "_"-separated groups of that string are the version, so the   *)
(* formatting is injective.  A Rust type name is a pair of the DSDL name   *)
(* and the suffix pushed onto it.  The package is a map from type keys    *)
(* (package path, name, version) to the kind of type and whether it has a *)
(* fixed port ID.                                                          *)
(***************************************************************************)
EXTENDS Integers, Sequences, FiniteSets

CONSTANTS
    PkgPaths,     \* the DSDL package paths the types may live in
    Names,        \* DSDL short type names
    Versions,     \* DSDL versions
    Snake,        \* Snake[n]: n.to_snake_case()
    Underscore,   \* the segment "_"
    Underscore0,  \* the identifier "_0" that make_rust_identifier turns it into
    Externals,    \* external_packages: DSDL package path -> Rust module path
    MaxTypes      \* most types in one compiled package

ASSUME LayoutAssumption ==
    /\ DOMAIN Snake = Names
    /\ Underscore /= Underscore0
    /\ MaxTypes \in Nat

TypeKeys == [pkg : PkgPaths, name : Names, ver : Versions]
Dsdl == [kind : {"message", "service"}, fixed : BOOLEAN]

(* A compiled package: at most MaxTypes types.                             *)
Packages == UNION {[K -> Dsdl] : K \in {K \in SUBSET TypeKeys : Cardinality(K) <= MaxTypes}}

None == <<"none">>

VARIABLES
    package,  \* the CompiledPackage generate_code() is given
    todo,     \* the keys its loop has not reached yet
    items,    \* generated_types, in the order they were pushed
    added,    \* how many of them from_iter has added to the tree
    tree      \* the ModuleTree: module path -> the items at that module

vars == <<package, todo, items, added, tree>>

-----------------------------------------------------------------------------

(* make_rust_identifier: "_" becomes "_0", anything else is kept.          *)
MakeRustIdentifier(id) == IF id = Underscore THEN Underscore0 ELSE id

(* Plausible faults that a property must detect: the external packages    *)
(* searched from the shortest prefix.                                      *)
ExternalShortestFirst(package_) ==
    LET hits == {i \in 1 .. Len(package_) : SubSeq(package_, 1, i) \in DOMAIN Externals}
        i    == CHOOSE i \in hits : \A j \in hits : i <= j
    IN  IF hits = {} THEN None
        ELSE Externals[SubSeq(package_, 1, i)] \o SubSeq(package_, i + 1, Len(package_))

(* external_module: for i from the path's length down to 1, the first      *)
(* prefix of i segments that is an external package gives its Rust module *)
(* followed by the remaining segments.                                     *)
ExternalModule(package_) ==
    LET hits == {i \in 1 .. Len(package_) : SubSeq(package_, 1, i) \in DOMAIN Externals}
        i    == CHOOSE i \in hits : \A j \in hits : i >= j
    IN  IF hits = {} THEN None
        ELSE Externals[SubSeq(package_, 1, i)] \o SubSeq(package_, i + 1, Len(package_))

(* A plausible fault that a property must detect: the version module      *)
(* named without the version.                                              *)
VersionModuleUnversioned(k) == <<Snake[k.name], "">>

(* format!("{}_{}_{}", name.to_snake_case(), major, minor).                *)
VersionModule(k) == <<Snake[k.name], k.ver>>

(* RustTypeName::for_message_type: external types live in the external     *)
(* module followed by the version module; internal ones under crate::, in  *)
(* the package path (each segment through make_rust_identifier) followed   *)
(* by the version module.                                                   *)
ForMessageType(k) ==
    LET ext == ExternalModule(k.pkg)
    IN  IF ext /= None
        THEN [internal |-> FALSE, path |-> Append(ext, VersionModule(k)),
              type_name |-> <<MakeRustIdentifier(k.name), "">>]
        ELSE [internal |-> TRUE,
              path |-> Append([i \in 1 .. Len(k.pkg) |-> MakeRustIdentifier(k.pkg[i])],
                              VersionModule(k)),
              type_name |-> <<MakeRustIdentifier(k.name), "">>]

(* A plausible fault that a property must detect: the response named like *)
(* the request.                                                            *)
ServiceNamesBothRequest(k) ==
    LET base == ForMessageType(k)
    IN  <<[base EXCEPT !.type_name = <<@[1], "Request">>],
          [base EXCEPT !.type_name = <<@[1], "Request">>]>>

(* ServiceTypeNames::for_service_type: the message name with "Request" and *)
(* "Response" pushed onto the type name.                                   *)
ServiceTypeNames(k) ==
    LET base == ForMessageType(k)
    IN  <<[base EXCEPT !.type_name = <<@[1], "Request">>],
          [base EXCEPT !.type_name = <<@[1], "Response">>]>>

(* A generated item: a type or a module-level constant, with its name and *)
(* the key it was generated from.                                          *)
Item(what, name, k) == [what |-> what, name |-> name, key |-> k]

(* The constant SUBJECT or SERVICE, internal, in the module of rust_type.  *)
PortConstant(rust_type, cname, k) ==
    Item("constant", [internal |-> TRUE, path |-> rust_type.path,
                      type_name |-> <<cname, "">>], k)

(* A plausible fault that a property must detect: no SERVICE constant for *)
(* a service with a fixed port ID.                                          *)
GenerateWithoutServiceConstant(k) ==
    IF package[k].kind = "message"
    THEN LET rust_type == ForMessageType(k)
         IN  (IF package[k].fixed THEN <<PortConstant(rust_type, "SUBJECT", k)>> ELSE <<>>)
             \o <<Item("type", rust_type, k)>>
    ELSE LET names == ServiceTypeNames(k)
         IN  <<Item("type", names[1], k), Item("type", names[2], k)>>

(* generate_from_dsdl: the items pushed for key k.                          *)
GenerateFromDsdl(k) ==
    IF package[k].kind = "message"
    THEN LET rust_type == ForMessageType(k)
         IN  (IF package[k].fixed THEN <<PortConstant(rust_type, "SUBJECT", k)>> ELSE <<>>)
             \o <<Item("type", rust_type, k)>>
    ELSE LET names == ServiceTypeNames(k)
         IN  (IF package[k].fixed THEN <<PortConstant(names[1], "SERVICE", k)>> ELSE <<>>)
             \o <<Item("type", names[1], k), Item("type", names[2], k)>>

(* A plausible fault that a property must detect: the item replacing the  *)
(* items already at its module (self.items = vec![generated]).             *)
AddItemReplacing(t, path, it) ==
    LET prefixes == {SubSeq(path, 1, n) : n \in 0 .. Len(path)}
    IN  [p \in DOMAIN t \cup prefixes |->
           IF p = path THEN <<it>> ELSE IF p \in DOMAIN t THEN t[p] ELSE <<>>]

(* ModuleTree::add_item: children.entry(submodule).or_default() for each   *)
(* segment of the path, keeping the submodules that exist, then            *)
(* items.push at the module the path ends in.                              *)
AddItemTo(t, path, it) ==
    LET prefixes == {SubSeq(path, 1, n) : n \in 0 .. Len(path)}
        old(p)   == IF p \in DOMAIN t THEN t[p] ELSE <<>>
    IN  [p \in DOMAIN t \cup prefixes |-> IF p = path THEN Append(old(p), it) ELSE old(p)]

-----------------------------------------------------------------------------

(* generate_code is called with some compiled package; ModuleTree::default *)
(* is the root module, empty.                                              *)
Init ==
    /\ package \in Packages
    /\ todo = DOMAIN package
    /\ items = <<>>
    /\ added = 0
    /\ tree = [p \in {<<>>} |-> <<>>]

(* One turn of generate_code's loop over the package: a type outside the  *)
(* external packages is generated.  The package is a BTreeMap, walked in   *)
(* key order; the properties do not depend on the order, so any remaining *)
(* key may come next.                                                      *)
GenerateFrom(k) ==
    /\ k \in todo
    /\ todo' = todo \ {k}
    /\ IF ExternalModule(k.pkg) = None
       THEN items' = items \o GenerateFromDsdl(k)
       ELSE UNCHANGED items
    /\ UNCHANGED <<package, added, tree>>

(* One turn of ModuleTree::from_iter's loop, once generation is done:     *)
(* tree.add_item(&item.name().path, item).                                 *)
AddItem ==
    /\ todo = {}
    /\ added < Len(items)
    /\ added' = added + 1
    /\ tree' = AddItemTo(tree, items[added + 1].name.path, items[added + 1])
    /\ UNCHANGED <<package, todo, items>>

Next ==
    \/ \E k \in TypeKeys : GenerateFrom(k)
    \/ AddItem

Spec == Init /\ [][Next]_vars

-----------------------------------------------------------------------------

(* The path prefixes of the module paths of the first n items.             *)
Modules(n) ==
    UNION {{SubSeq(items[i].name.path, 1, m) : m \in 0 .. Len(items[i].name.path)} : i \in 1 .. n}

(* The module tree holds every item added so far at its own module, in    *)
(* the order they were generated, and nothing else; its modules are the   *)
(* root and the modules on the items' paths, each once, however the       *)
(* paths of successive items share or diverge.                             *)
TreeModules == DOMAIN tree = {<<>>} \cup Modules(added)

(* s is, in order, exactly those of the first n items of w whose module   *)
(* path is p: an increasing map f takes s's positions onto theirs.         *)
ItemsAtModule(s, w, n, p) ==
    \E f \in [1 .. Len(s) -> 1 .. n] :
        /\ \A j1, j2 \in 1 .. Len(s) : j1 < j2 => f[j1] < f[j2]
        /\ \A j \in 1 .. Len(s) : s[j] = w[f[j]] /\ w[f[j]].name.path = p
        /\ \A i \in 1 .. n : w[i].name.path = p => \E j \in 1 .. Len(s) : f[j] = i

TreeHoldsItems ==
    /\ TreeModules
    /\ \A p \in DOMAIN tree : ItemsAtModule(tree[p], items, added, p)

(* The reference for external_module: the longest prefix of the path that *)
(* is an external package, stated apart from the code's loop.              *)
LongestExternal(path) ==
    {i \in 1 .. Len(path) : /\ SubSeq(path, 1, i) \in DOMAIN Externals
                            /\ \A j \in i + 1 .. Len(path) : SubSeq(path, 1, j) \notin DOMAIN Externals}

(* Every type of the package that lies in a subpackage of an external     *)
(* package is referred to in the Rust module of the most specific external *)
(* package that contains it, followed by the remaining segments; a type of *)
(* no external package is generated.                                       *)
ExternalModuleIsLongestPrefix ==
    \A path \in {k.pkg : k \in DOMAIN package} :
        IF LongestExternal(path) = {} THEN ExternalModule(path) = None
        ELSE \E i \in LongestExternal(path) :
               ExternalModule(path) = Externals[SubSeq(path, 1, i)] \o SubSeq(path, i + 1, Len(path))

(* Once the loop has run, exactly the types of the package that are in no *)
(* external package have been generated: one Rust type per message, two   *)
(* per service, and a port-ID constant for each that has a fixed port ID. *)
GeneratedExactlyInternal ==
    todo = {} =>
      \A k \in DOMAIN package :
        LET mine == {i \in 1 .. Len(items) : items[i].key = k}
            external == \E i \in 1 .. Len(k.pkg) : SubSeq(k.pkg, 1, i) \in DOMAIN Externals
        IN  Cardinality(mine) =
              IF external THEN 0
              ELSE (IF package[k].kind = "message" THEN 1 ELSE 2)
                   + (IF package[k].fixed THEN 1 ELSE 0)

(* No two items the generator emits have the same Rust path and name, so  *)
(* the generated crate compiles: different versions of a type get         *)
(* different version modules, and a service's request, response and       *)
(* SERVICE constant, as a message's type and its SUBJECT constant, differ. *)
NoCollision ==
    \A i, j \in 1 .. Len(items) : i /= j => items[i].name /= items[j].name

=============================================================================
