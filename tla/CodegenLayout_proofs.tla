------------------------- MODULE CodegenLayout_proofs -------------------------
(***************************************************************************)
(* Proof that the code generator never emits two items with the same Rust *)
(* path and name, for every package and every set of names, under the     *)
(* naming facts it relies on: to_snake_case tells the type names apart,   *)
(* make_rust_identifier never produces a segment or a name of its own, and *)
(* no DSDL name is SUBJECT or SERVICE.  The first fact does not hold of    *)
(* heck's to_snake_case in general (FooBar and Foo_Bar), and the run       *)
(* codegen_snake_merge shows the collision that follows.                   *)
(*                                                                         *)
(* The argument: an internal type's module path determines the type       *)
(* (package, snake-cased name and version), so items of two types differ  *)
(* in their path; the items of one type differ in their name.  NoCollision *)
(* is inductive together with the facts that every item so far is one of *)
(* the items of a type already taken off todo.                             *)
(***************************************************************************)
EXTENDS CodegenLayout, SequenceTheorems, FiniteSetTheorems, WellFoundedInduction, TLAPS

CONSTANT Segments  \* the segments of DSDL package paths and Rust module paths

(* A package path is a sequence of name segments.                         *)
PathsAssumption == PkgPaths \subseteq Seq(Segments)

(* external_module returns an Option; the model writes its None as the    *)
(* one-segment path <<"none">>.  That stands for no Rust module as long as *)
(* "none" is not a segment and external_packages maps to module paths.    *)
MarkerAssumption ==
    /\ PathsAssumption
    /\ "none" \notin Segments
    /\ \A p \in DOMAIN Externals : Externals[p] \in Seq(Segments)

NamingAssumption ==
    /\ PathsAssumption
    /\ Underscore0 \notin Segments \cup Names
    /\ \A n1, n2 \in Names : Snake[n1] = Snake[n2] => n1 = n2
    /\ {"SUBJECT", "SERVICE"} \cap (Names \cup {Underscore0}) = {}

(* The module path of an internal type: its package segments, each through *)
(* make_rust_identifier, then its version module.                          *)
InternalPath(k) ==
    Append([i \in 1 .. Len(k.pkg) |-> MakeRustIdentifier(k.pkg[i])], VersionModule(k))

(* The names the items of type k can have, and those items.                *)
TypeNamesOf(k) ==
    {<<MakeRustIdentifier(k.name), "">>, <<MakeRustIdentifier(k.name), "Request">>,
     <<MakeRustIdentifier(k.name), "Response">>, <<"SUBJECT", "">>, <<"SERVICE", "">>}
NamesOf(k, tns) == [internal : {TRUE}, path : {InternalPath(k)}, type_name : tns]
ItemsOf(k) == [what : {"type", "constant"}, name : NamesOf(k, TypeNamesOf(k)), key : {k}]
Generated == UNION {ItemsOf(k) : k \in TypeKeys}

USE LayoutAssumption

(* Concatenations of short tuples, as generate_from_dsdl builds them.      *)
LEMMA ConcatTuples ==
  ASSUME NEW a, NEW b, NEW c
  PROVE  /\ <<a>> \o <<b>> = <<a, b>>
         /\ <<a>> \o <<b, c>> = <<a, b, c>>
         /\ <<>> \o <<a>> = <<a>>
         /\ <<>> \o <<a, b>> = <<a, b>>
<1> DEFINE S == {a, b, c}
<1>1. <<a>> \in Seq(S) /\ <<b>> \in Seq(S) /\ <<b, c>> \in Seq(S) /\ <<>> \in Seq(S)
      /\ <<a, b>> \in Seq(S) /\ <<a, b, c>> \in Seq(S)
  OBVIOUS
<1>2. <<a>> \o <<b>> = <<a, b>>
  <2>1. /\ <<a>> \o <<b>> \in Seq(S)
        /\ Len(<<a>> \o <<b>>) = 2
        /\ \A i \in 1 .. 2 : (<<a>> \o <<b>>)[i] = <<a, b>>[i]
    BY <1>1, ConcatProperties
  <2>2. QED
    BY <1>1, <2>1, SeqEqual
<1>3. <<a>> \o <<b, c>> = <<a, b, c>>
  <2>1. /\ <<a>> \o <<b, c>> \in Seq(S)
        /\ Len(<<a>> \o <<b, c>>) = 3
        /\ \A i \in 1 .. 3 : (<<a>> \o <<b, c>>)[i] = <<a, b, c>>[i]
    BY <1>1, ConcatProperties
  <2>2. QED
    BY <1>1, <2>1, SeqEqual
<1>4. <<>> \o <<a>> = <<a>> /\ <<>> \o <<a, b>> = <<a, b>>
  BY <1>1, ConcatEmptySeq
<1> QED BY <1>2, <1>3, <1>4

(* make_rust_identifier is one to one on segments and names, none of which *)
(* is "_0".                                                                *)
LEMMA IdentifierInjective ==
  ASSUME NEW x, NEW y, x /= Underscore0, y /= Underscore0,
         MakeRustIdentifier(x) = MakeRustIdentifier(y)
  PROVE  x = y
BY DEF MakeRustIdentifier

(* Two internal types with one module path are the same type.             *)
LEMMA PathDeterminesType ==
  ASSUME NamingAssumption, NEW k1 \in TypeKeys, NEW k2 \in TypeKeys,
         InternalPath(k1) = InternalPath(k2)
  PROVE  k1 = k2
<1> DEFINE P(k) == [i \in 1 .. Len(k.pkg) |-> MakeRustIdentifier(k.pkg[i])]
           S == Segments \cup {Underscore0}
<1>1. \A k \in TypeKeys : k.pkg \in Seq(Segments) /\ P(k) \in Seq(S)
  <2> SUFFICES ASSUME NEW k \in TypeKeys PROVE k.pkg \in Seq(Segments) /\ P(k) \in Seq(S)
    OBVIOUS
  <2>1. k.pkg \in Seq(Segments)
    BY DEF NamingAssumption, PathsAssumption, TypeKeys
  <2>2. \A i \in 1 .. Len(k.pkg) : MakeRustIdentifier(k.pkg[i]) \in S
    BY <2>1, ElementOfSeq DEF MakeRustIdentifier
  <2>3. QED
    BY <2>1, <2>2
<1>2. P(k1) = P(k2) /\ VersionModule(k1) = VersionModule(k2)
  <2> DEFINE T == S \cup {VersionModule(k1), VersionModule(k2)}
  <2>1. P(k1) \in Seq(T) /\ P(k2) \in Seq(T)
    BY <1>1, SeqMonotonic
  <2>2. VersionModule(k1) \in T /\ VersionModule(k2) \in T
    OBVIOUS
  <2>3. Append(P(k1), VersionModule(k1)) = Append(P(k2), VersionModule(k2))
    BY DEF InternalPath
  <2> HIDE DEF P, T
  <2>4. QED
    BY <2>1, <2>2, <2>3, AppendInjective
<1>3. k1.pkg = k2.pkg
  <2>1. Len(k1.pkg) = Len(k2.pkg)
    BY <1>1, <1>2
  <2>2. ASSUME NEW i \in 1 .. Len(k1.pkg) PROVE k1.pkg[i] = k2.pkg[i]
    <3>1. k1.pkg[i] \in Segments /\ k2.pkg[i] \in Segments
      BY <1>1, <2>1, ElementOfSeq
    <3>2. MakeRustIdentifier(k1.pkg[i]) = MakeRustIdentifier(k2.pkg[i])
      BY <1>2, <2>1
    <3>3. QED
      BY <3>1, <3>2, IdentifierInjective DEF NamingAssumption
  <2>3. QED
    BY <1>1, <2>1, <2>2, SeqEqual
<1>4. k1.name = k2.name /\ k1.ver = k2.ver
  BY <1>2 DEF VersionModule, NamingAssumption, TypeKeys
<1>5. QED
  BY <1>3, <1>4 DEF TypeKeys
(* How many items generate_from_dsdl pushes for type k: the type, or the  *)
(* request and response of a service, and the port-ID constant.           *)
ItemCount(k) ==
    (IF package[k].kind = "message" THEN 1 ELSE 2) + (IF package[k].fixed THEN 1 ELSE 0)

(* The items generate_from_dsdl pushes for an internal type are items of  *)
(* that type, ItemCount of them, and, under the naming facts, no two of   *)
(* them have the same name.                                                *)
LEMMA GeneratedItemsOfType ==
  ASSUME NEW k \in TypeKeys, package[k] \in Dsdl,
         ExternalModule(k.pkg) = None
  PROVE  LET g == GenerateFromDsdl(k)
         IN  /\ g \in Seq(ItemsOf(k))
             /\ Len(g) = ItemCount(k)
             /\ NamingAssumption =>
                  \A i, j \in 1 .. Len(g) : i /= j => g[i].name /= g[j].name
<1> DEFINE id == MakeRustIdentifier(k.name)
           N(sfx) == NamesOf(k, {<<id, sfx>>})
           ft == ForMessageType(k)
           sn == ServiceTypeNames(k)
<1>1. ft \in N("")
  BY DEF ForMessageType, InternalPath, NamesOf
<1>2. sn[1] \in N("Request") /\ sn[2] \in N("Response")
  <2>1. ft = [internal |-> TRUE, path |-> InternalPath(k), type_name |-> <<id, "">>]
    BY DEF ForMessageType, InternalPath
  <2>2. sn = <<[ft EXCEPT !.type_name = <<@[1], "Request">>],
                [ft EXCEPT !.type_name = <<@[1], "Response">>]>>
    BY DEF ServiceTypeNames
  <2>3. ASSUME NEW sfx
        PROVE  [ft EXCEPT !.type_name = <<@[1], sfx>>] \in N(sfx)
    <3> DEFINE lit == [internal |-> TRUE, path |-> InternalPath(k), type_name |-> <<id, "">>]
    <3>0. ft = lit
      BY <2>1
    <3>1. [ft EXCEPT !.type_name = <<@[1], sfx>>] = [lit EXCEPT !.type_name = <<@[1], sfx>>]
      <4> HIDE DEF ft, lit
      <4> QED
        BY <3>0
    <3>2. [lit EXCEPT !.type_name = <<@[1], sfx>>] \in N(sfx)
      BY DEF NamesOf
    <3> HIDE DEF ft, lit
    <3>3. QED
      BY <3>1, <3>2
  <2> HIDE DEF ft, sn, N
  <2>4. QED
    BY <2>2, <2>3
<1>3. NamingAssumption => id \notin {"SUBJECT", "SERVICE"}
  BY DEF NamingAssumption, MakeRustIdentifier, TypeKeys
<1>4. /\ \A sfx \in {"", "Request", "Response"} : N(sfx) \subseteq NamesOf(k, TypeNamesOf(k))
      /\ \A cn \in {"SUBJECT", "SERVICE"} :
           \A r \in NamesOf(k, TypeNamesOf(k)) :
              PortConstant(r, cn, k).name \in NamesOf(k, TypeNamesOf(k))
  BY DEF NamesOf, TypeNamesOf, PortConstant, Item
<1>5. \A w \in {"type", "constant"}, r \in NamesOf(k, TypeNamesOf(k)) :
         Item(w, r, k) \in ItemsOf(k)
  BY DEF ItemsOf, Item
<1>6. \A cn \in {"SUBJECT", "SERVICE"}, r \in NamesOf(k, TypeNamesOf(k)) :
         /\ PortConstant(r, cn, k) \in ItemsOf(k)
         /\ PortConstant(r, cn, k).name.type_name = <<cn, "">>
  BY DEF ItemsOf, NamesOf, TypeNamesOf, PortConstant, Item
<1>7. \A w \in {"type", "constant"}, sfx \in {"", "Request", "Response"} :
         \A r \in N(sfx) : Item(w, r, k).name.type_name = <<id, sfx>>
  BY DEF NamesOf, Item
<1> HIDE DEF N, ft, sn
<1>8. CASE package[k].kind = "message" /\ package[k].fixed
  <2> DEFINE c == PortConstant(ft, "SUBJECT", k)
             t == Item("type", ft, k)
  <2>1. GenerateFromDsdl(k) = <<c, t>>
    BY <1>8, ConcatTuples DEF GenerateFromDsdl, ft
  <2>2. c \in ItemsOf(k) /\ t \in ItemsOf(k)
    BY <1>1, <1>4, <1>5, <1>6
  <2>3. NamingAssumption => c.name /= t.name
    <3> HAVE NamingAssumption
    <3>1. c.name.type_name = <<"SUBJECT", "">>
      BY <1>1, <1>4, <1>6
    <3>2. t.name.type_name = <<id, "">>
      BY <1>1, <1>7
    <3>3. <<"SUBJECT", "">> /= <<id, "">>
      BY <1>3
    <3>4. QED
      BY <3>1, <3>2, <3>3, Zenon
  <2> HIDE DEF c, t
  <2>4. QED
    BY <1>8, <2>1, <2>2, <2>3 DEF ItemCount
<1>9. CASE package[k].kind = "message" /\ ~package[k].fixed
  <2> DEFINE t == Item("type", ft, k)
  <2>1. GenerateFromDsdl(k) = <<t>>
    BY <1>9, ConcatTuples DEF GenerateFromDsdl, ft
  <2>2. t \in ItemsOf(k)
    BY <1>1, <1>4, <1>5
  <2> HIDE DEF t
  <2>3. QED
    BY <1>9, <2>1, <2>2 DEF ItemCount
<1>10. CASE package[k].kind /= "message" /\ package[k].fixed
  <2> DEFINE c == PortConstant(sn[1], "SERVICE", k)
             rq == Item("type", sn[1], k)
             rs == Item("type", sn[2], k)
  <2>1. GenerateFromDsdl(k) = <<c, rq, rs>>
    BY <1>10, ConcatTuples DEF GenerateFromDsdl, sn
  <2>2. c \in ItemsOf(k) /\ rq \in ItemsOf(k) /\ rs \in ItemsOf(k)
    BY <1>2, <1>4, <1>5, <1>6
  <2>3. NamingAssumption => c.name /= rq.name /\ c.name /= rs.name /\ rq.name /= rs.name
    <3> HAVE NamingAssumption
    <3>1. c.name.type_name = <<"SERVICE", "">>
      BY <1>2, <1>4, <1>6
    <3>2. rq.name.type_name = <<id, "Request">> /\ rs.name.type_name = <<id, "Response">>
      BY <1>2, <1>7
    <3>3. /\ <<"SERVICE", "">> /= <<id, "Request">>
          /\ <<"SERVICE", "">> /= <<id, "Response">>
          /\ <<id, "Request">> /= <<id, "Response">>
      BY <1>3
    <3>4. QED
      BY <3>1, <3>2, <3>3, Zenon
  <2> HIDE DEF c, rq, rs
  <2>4. QED
    BY <1>10, <2>1, <2>2, <2>3 DEF ItemCount
<1>11. CASE package[k].kind /= "message" /\ ~package[k].fixed
  <2> DEFINE rq == Item("type", sn[1], k)
             rs == Item("type", sn[2], k)
  <2>1. GenerateFromDsdl(k) = <<rq, rs>>
    BY <1>11, ConcatTuples DEF GenerateFromDsdl, sn
  <2>2. rq \in ItemsOf(k) /\ rs \in ItemsOf(k)
    BY <1>2, <1>4, <1>5
  <2>3. rq.name /= rs.name
    <3>1. rq.name.type_name = <<id, "Request">> /\ rs.name.type_name = <<id, "Response">>
      BY <1>2, <1>7
    <3>2. QED
      BY <3>1
  <2> HIDE DEF rq, rs
  <2>4. QED
    BY <1>11, <2>1, <2>2, <2>3 DEF ItemCount
<1>12. QED
  BY <1>8, <1>9, <1>10, <1>11 DEF Dsdl
(* An item in Generated belongs to the type it records, at its path.       *)
LEMMA GeneratedItem ==
  ASSUME NEW e \in Generated
  PROVE  /\ e.key \in TypeKeys
         /\ e \in ItemsOf(e.key)
         /\ e.name.path = InternalPath(e.key)
<1>1. PICK k \in TypeKeys : e \in ItemsOf(k)
  BY DEF Generated
<1>2. e.key = k /\ e.name.path = InternalPath(k)
  BY <1>1 DEF ItemsOf, NamesOf
<1>3. QED
  BY <1>1, <1>2

(* The inductive invariant: every item so far is an item of an internal  *)
(* type of the package already taken off todo, and no two share a name.   *)
IInv ==
    /\ DOMAIN package \subseteq TypeKeys
    /\ \A k \in DOMAIN package : package[k] \in Dsdl
    /\ todo \subseteq DOMAIN package
    /\ items \in Seq(Generated)
    /\ \A i \in 1 .. Len(items) : items[i].key \in DOMAIN package \ todo
    /\ NoCollision

LEMMA InitIInv == Init => IInv
<1> SUFFICES ASSUME Init PROVE IInv
  OBVIOUS
<1>1. PICK K \in SUBSET TypeKeys : package \in [K -> Dsdl]
  BY DEF Init, Packages
<1>2. QED
  BY <1>1 DEF Init, IInv, NoCollision

LEMMA NextIInv == ASSUME NamingAssumption PROVE IInv /\ [Next]_vars => IInv'
<1> SUFFICES ASSUME IInv, [Next]_vars PROVE IInv'
  OBVIOUS
<1>1. ASSUME NEW k \in TypeKeys, GenerateFrom(k) PROVE IInv'
  <2>1. k \in DOMAIN package /\ UNCHANGED package
    BY <1>1 DEF GenerateFrom, IInv
  <2>2. CASE ExternalModule(k.pkg) /= None
    BY <1>1, <2>1, <2>2 DEF GenerateFrom, IInv, NoCollision
  <2>3. CASE ExternalModule(k.pkg) = None
    <3> DEFINE g == GenerateFromDsdl(k)
               L == Len(items)
    <3>1. g \in Seq(ItemsOf(k)) /\ \A i, j \in 1 .. Len(g) : i /= j => g[i].name /= g[j].name
      BY <2>1, <2>3, GeneratedItemsOfType DEF IInv
    <3>2. g \in Seq(Generated)
      BY <3>1, SeqMonotonic DEF Generated
    <3>3. items' = items \o g
      BY <1>1, <2>3 DEF GenerateFrom
    <3>4. /\ items' \in Seq(Generated)
          /\ Len(items') = L + Len(g)
          /\ \A i \in 1 .. L + Len(g) : items'[i] = IF i <= L THEN items[i] ELSE g[i - L]
      BY <3>2, <3>3, ConcatProperties DEF IInv
    <3>0. L \in Nat /\ Len(g) \in Nat
      BY <3>1 DEF IInv
    <3>5. \A j \in 1 .. Len(g) : g[j].key = k /\ g[j].name.path = InternalPath(k)
      <4> SUFFICES ASSUME NEW j \in 1 .. Len(g) PROVE g[j].key = k /\ g[j].name.path = InternalPath(k)
        OBVIOUS
      <4>1. g[j] \in ItemsOf(k)
        BY <3>1, ElementOfSeq
      <4>2. QED
        BY <4>1 DEF ItemsOf, NamesOf
    <3>6. \A i \in 1 .. L : items[i].key /= k /\ items[i].key \in TypeKeys
          /\ items[i].name.path = InternalPath(items[i].key)
      BY <1>1, GeneratedItem, ElementOfSeq DEF IInv, GenerateFrom
    <3>7. \A i \in 1 .. L, j \in 1 .. Len(g) : items[i].name /= g[j].name
      BY <3>5, <3>6, PathDeterminesType
    <3>8. NoCollision'
      <4> SUFFICES ASSUME NEW i \in 1 .. L + Len(g), NEW j \in 1 .. L + Len(g), i /= j
                   PROVE  items'[i].name /= items'[j].name
        BY <3>4 DEF NoCollision
      <4>1. CASE i <= L /\ j <= L
        BY <4>1, <3>4 DEF IInv, NoCollision
      <4>2. CASE i > L /\ j > L
        <5>1. i - L \in 1 .. Len(g) /\ j - L \in 1 .. Len(g) /\ i - L /= j - L
          BY <4>2, <3>0
        <5>2. items'[i] = g[i - L] /\ items'[j] = g[j - L]
          BY <4>2, <3>0, <3>4
        <5>3. QED
          BY <5>1, <5>2, <3>1
      <4>3. CASE i <= L /\ j > L
        BY <4>3, <3>0, <3>4, <3>7
      <4>4. CASE i > L /\ j <= L
        BY <4>4, <3>0, <3>4, <3>7
      <4>5. QED
        BY <4>1, <4>2, <4>3, <4>4
    <3>9. \A i \in 1 .. Len(items') : items'[i].key \in DOMAIN package' \ todo'
      BY <1>1, <2>1, <3>4, <3>5 DEF IInv, GenerateFrom
    <3>10. QED
      BY <1>1, <2>1, <3>4, <3>8, <3>9 DEF IInv, GenerateFrom
  <2>4. QED
    BY <2>2, <2>3
<1>2. CASE AddItem
  BY <1>2 DEF AddItem, IInv, NoCollision
<1>3. CASE UNCHANGED vars
  BY <1>3 DEF vars, IInv, NoCollision
<1>4. QED
  BY <1>1, <1>2, <1>3 DEF Next


-----------------------------------------------------------------------------

(* A nonempty set of positions in a path has a largest element: the       *)
(* reflection n - x of the set has a least one, < being well-founded on   *)
(* the naturals.                                                           *)
LEMMA MaxExists ==
  ASSUME NEW n \in Nat, NEW T \in SUBSET (1 .. n), T /= {}
  PROVE  \E m \in T : \A j \in T : m >= j
<1> DEFINE U == {n - x : x \in T}
<1>1. U \subseteq Nat /\ U /= {}
  <2>1. \A x \in T : n - x \in Nat
    OBVIOUS
  <2>2. PICK x0 \in T : TRUE
    OBVIOUS
  <2>3. n - x0 \in U
    OBVIOUS
  <2>4. QED
    BY <2>1, <2>3
<1>2. \E y \in U : \A z \in U : ~(<<z, y>> \in OpToRel(<, Nat))
  BY <1>1, NatLessThanWellFounded, WFMin
<1>3. PICK m \in T : \A z \in U : ~(<<z, n - m>> \in OpToRel(<, Nat))
  BY <1>2
<1>4. ASSUME NEW j \in T PROVE ~(n - j < n - m)
  <2>1. n - j \in U
    OBVIOUS
  <2>2. n - j \in Nat /\ n - m \in Nat
    OBVIOUS
  <2>3. ~(<<n - j, n - m>> \in OpToRel(<, Nat))
    BY <1>3, <2>1
  <2>4. QED
    BY <2>2, <2>3 DEF OpToRel
<1>5. QED
  BY <1>4

(* external_module's loop, which tries the prefixes from the longest      *)
(* down and stops at the first external package, finds the longest        *)
(* external prefix of any path, or none when there is none.               *)
LEMMA ExternalModuleLongest ==
  ASSUME NEW S, NEW path \in Seq(S)
  PROVE  IF LongestExternal(path) = {} THEN ExternalModule(path) = None
         ELSE \E i \in LongestExternal(path) :
                ExternalModule(path) = Externals[SubSeq(path, 1, i)] \o SubSeq(path, i + 1, Len(path))
<1> DEFINE hits == {i \in 1 .. Len(path) : SubSeq(path, 1, i) \in DOMAIN Externals}
<1>1. LongestExternal(path) \subseteq hits
  BY DEF LongestExternal
<1>2. CASE hits = {}
  <2>1. LongestExternal(path) = {}
    BY <1>1, <1>2
  <2>2. ExternalModule(path) = None
    BY <1>2 DEF ExternalModule
  <2>3. QED
    BY <2>1, <2>2
<1>3. CASE hits /= {}
  <2>0. Len(path) \in Nat /\ hits \in SUBSET (1 .. Len(path))
    OBVIOUS
  <2>1. \E m \in hits : \A j \in hits : m >= j
    BY <1>3, <2>0, MaxExists
  <2> DEFINE i == CHOOSE i \in hits : \A j \in hits : i >= j
  <2>2. i \in hits /\ \A j \in hits : i >= j
    BY <2>1
  <2>3. i \in LongestExternal(path)
    BY <2>2 DEF LongestExternal
  <2>4. ExternalModule(path) = Externals[SubSeq(path, 1, i)] \o SubSeq(path, i + 1, Len(path))
    BY <1>3 DEF ExternalModule
  <2>5. QED
    BY <2>3, <2>4
<1>4. QED
  BY <1>2, <1>3

(* The package generate_code is given never changes, and holds types of   *)
(* the package paths.                                                      *)
PackageInv == DOMAIN package \subseteq TypeKeys

LEMMA PackageInvariant == Spec => []PackageInv
<1>1. Init => PackageInv
  BY DEF Init, Packages, PackageInv
<1>2. PackageInv /\ [Next]_vars => PackageInv'
  BY DEF Next, GenerateFrom, AddItem, vars, PackageInv
<1>3. QED
  BY <1>1, <1>2, PTL DEF Spec

(* Every type of the package is referred to through the Rust module of   *)
(* the most specific external package containing it, and a type in none  *)
(* is internal: external_module's search from the longest prefix down    *)
(* finds the longest one, for every package and every external_packages. *)
THEOREM ExternalModuleIsLongestPrefixHolds ==
  ASSUME PathsAssumption PROVE Spec => []ExternalModuleIsLongestPrefix
<1>1. PackageInv => ExternalModuleIsLongestPrefix
  <2> SUFFICES ASSUME PackageInv, NEW k \in DOMAIN package
               PROVE  LET path == k.pkg IN
                      IF LongestExternal(path) = {} THEN ExternalModule(path) = None
                      ELSE \E i \in LongestExternal(path) :
                             ExternalModule(path) = Externals[SubSeq(path, 1, i)]
                                                    \o SubSeq(path, i + 1, Len(path))
    BY DEF ExternalModuleIsLongestPrefix
  <2>1. k.pkg \in Seq(Segments)
    BY DEF PackageInv, TypeKeys, PathsAssumption
  <2>2. QED
    BY <2>1, ExternalModuleLongest
<1>2. QED
  BY <1>1, PackageInvariant, PTL

(* Whatever the package, generate_code never emits two items with one     *)
(* Rust path and name, as long as to_snake_case tells the type names of a *)
(* package and version apart (NamingAssumption).                          *)
THEOREM NoCollisionHolds == ASSUME NamingAssumption PROVE Spec => []NoCollision
<1>1. Init => IInv
  BY InitIInv
<1>2. IInv /\ [Next]_vars => IInv'
  BY NextIInv
<1>3. IInv => NoCollision
  BY DEF IInv
<1>4. QED
  BY <1>1, <1>2, <1>3, PTL DEF Spec
-----------------------------------------------------------------------------

(* The indices of the items generated for type k, and whether k lies in an *)
(* external package, as GeneratedExactlyInternal states them.             *)
MineOf(k) == {i \in 1 .. Len(items) : items[i].key = k}
InExternal(k) == \E i \in 1 .. Len(k.pkg) : SubSeq(k.pkg, 1, i) \in DOMAIN Externals

(* external_module answers None exactly for the paths in no external      *)
(* package.                                                                *)
LEMMA NoneIffNotExternal ==
  ASSUME MarkerAssumption, NEW k \in TypeKeys
  PROVE  ExternalModule(k.pkg) = None <=> ~InExternal(k)
<1> DEFINE path == k.pkg
           hits == {i \in 1 .. Len(path) : SubSeq(path, 1, i) \in DOMAIN Externals}
<1>0. path \in Seq(Segments)
  BY DEF MarkerAssumption, PathsAssumption, TypeKeys
<1>1. InExternal(k) <=> hits /= {}
  BY DEF InExternal
<1>2. CASE hits = {}
  BY <1>1, <1>2 DEF ExternalModule
<1>3. CASE hits /= {}
  <2>0. Len(path) \in Nat /\ hits \in SUBSET (1 .. Len(path))
    BY <1>0
  <2>1. \E m \in hits : \A j \in hits : m >= j
    BY <1>3, <2>0, MaxExists
  <2> DEFINE i == CHOOSE i \in hits : \A j \in hits : i >= j
  <2>2. i \in hits
    BY <2>1
  <2>3. ExternalModule(path) = Externals[SubSeq(path, 1, i)] \o SubSeq(path, i + 1, Len(path))
    BY <1>3 DEF ExternalModule
  <2>4. Externals[SubSeq(path, 1, i)] \in Seq(Segments)
    BY <2>2 DEF MarkerAssumption
  <2>5. SubSeq(path, i + 1, Len(path)) \in Seq(Segments)
    <3>1. i + 1 \in Int /\ Len(path) \in Int
      BY <2>0, <2>2
    <3>2. \A x \in i + 1 .. Len(path) : path[x] \in Segments
      BY <1>0, <2>0, <2>2
    <3>3. QED
      BY <3>1, <3>2, SubSeqProperties
  <2>6. ExternalModule(path) \in Seq(Segments)
    BY <2>3, <2>4, <2>5
  <2>7. None \notin Seq(Segments)
    BY DEF None, MarkerAssumption
  <2>8. QED
    BY <1>1, <1>3, <2>6, <2>7
<1>4. QED
  BY <1>2, <1>3

(* The inductive invariant: the types generated so far each have their    *)
(* ItemCount items in one block, and a type still to do or in an external *)
(* package has none.                                                       *)
CountInv ==
    /\ DOMAIN package \subseteq TypeKeys
    /\ \A k \in DOMAIN package : package[k] \in Dsdl
    /\ todo \subseteq DOMAIN package
    /\ items \in Seq(Generated)
    /\ \A k \in DOMAIN package :
         IF k \in todo \/ InExternal(k) THEN MineOf(k) = {}
         ELSE \E base \in Nat : MineOf(k) = base + 1 .. base + ItemCount(k)

LEMMA InitCountInv == Init => CountInv
<1> SUFFICES ASSUME Init PROVE CountInv
  OBVIOUS
<1>1. PICK K \in SUBSET TypeKeys : package \in [K -> Dsdl]
  BY DEF Init, Packages
<1>2. \A k \in DOMAIN package : MineOf(k) = {}
  BY DEF Init, MineOf
<1>3. QED
  BY <1>1, <1>2 DEF Init, CountInv

(* One turn of generate_code's loop on type k0 keeps the invariant.       *)
LEMMA GenerateCountInv ==
  ASSUME MarkerAssumption, CountInv, NEW k0 \in TypeKeys, GenerateFrom(k0)
  PROVE  CountInv'
<1> DEFINE L == Len(items)
<1>1. k0 \in todo /\ k0 \in DOMAIN package /\ UNCHANGED package /\ todo' = todo \ {k0}
  BY DEF GenerateFrom, CountInv
<1>2. MineOf(k0) = {}
  BY <1>1 DEF CountInv
<1>4. CASE ExternalModule(k0.pkg) /= None
  <2>1. items' = items
    BY <1>4 DEF GenerateFrom
  <2>2. InExternal(k0)
    BY <1>4, NoneIffNotExternal
  <2>3. ASSUME NEW k \in DOMAIN package
        PROVE  IF k \in todo' \/ InExternal(k) THEN MineOf(k)' = {}
               ELSE \E base \in Nat : MineOf(k)' = base + 1 .. base + ItemCount(k)'
    <3>1. MineOf(k)' = MineOf(k) /\ ItemCount(k)' = ItemCount(k)
      BY <1>1, <2>1 DEF MineOf, ItemCount
    <3>2. CASE k = k0
      BY <1>2, <2>2, <3>1, <3>2
    <3>3. CASE k /= k0
      <4>1. k \in todo' <=> k \in todo
        BY <1>1, <3>3
      <4>2. QED
        BY <3>1, <4>1 DEF CountInv
    <3>4. QED
      BY <3>2, <3>3
  <2>4. QED
    BY <1>1, <2>1, <2>3 DEF CountInv, InExternal
<1>5. CASE ExternalModule(k0.pkg) = None
  <2> DEFINE g == GenerateFromDsdl(k0)
  <2>1. g \in Seq(ItemsOf(k0)) /\ Len(g) = ItemCount(k0)
    BY <1>1, <1>5, GeneratedItemsOfType DEF CountInv
  <2>2. g \in Seq(Generated)
    BY <2>1, SeqMonotonic DEF Generated
  <2>3. items' = items \o g
    BY <1>5 DEF GenerateFrom
  <2>4. L \in Nat /\ Len(g) \in Nat
    BY <2>1 DEF CountInv
  <2>5. /\ items' \in Seq(Generated)
        /\ Len(items') = L + Len(g)
        /\ \A i \in 1 .. L + Len(g) : items'[i] = IF i <= L THEN items[i] ELSE g[i - L]
    BY <2>2, <2>3, ConcatProperties DEF CountInv
  <2>6. \A j \in 1 .. Len(g) : g[j].key = k0
    <3> SUFFICES ASSUME NEW j \in 1 .. Len(g) PROVE g[j].key = k0
      OBVIOUS
    <3>1. g[j] \in ItemsOf(k0)
      BY <2>1, ElementOfSeq
    <3>2. QED
      BY <3>1 DEF ItemsOf
  <2>7. \A i \in 1 .. L + Len(g) : i > L => items'[i].key = k0
    BY <2>4, <2>5, <2>6
  <2>8. ~InExternal(k0)
    BY <1>5, NoneIffNotExternal
  <2>9. ASSUME NEW k \in DOMAIN package
        PROVE  IF k \in todo' \/ InExternal(k) THEN MineOf(k)' = {}
               ELSE \E base \in Nat : MineOf(k)' = base + 1 .. base + ItemCount(k)'
    <3>0. ItemCount(k)' = ItemCount(k)
      BY <1>1 DEF ItemCount
    <3>1. CASE k = k0
      <4>1. \A i \in 1 .. L : items'[i].key /= k0
        BY <1>2, <2>4, <2>5 DEF MineOf
      <4>2. MineOf(k0)' = L + 1 .. L + ItemCount(k0)
        BY <2>1, <2>4, <2>5, <2>7, <4>1 DEF MineOf
      <4>3. k0 \notin todo'
        BY <1>1
      <4>4. QED
        BY <2>4, <2>8, <3>0, <3>1, <4>2, <4>3
    <3>2. CASE k /= k0
      <4>1. MineOf(k)' = MineOf(k)
        BY <2>4, <2>5, <2>7, <3>2 DEF MineOf
      <4>2. k \in todo' <=> k \in todo
        BY <1>1, <3>2
      <4>3. QED
        BY <3>0, <4>1, <4>2 DEF CountInv
    <3>3. QED
      BY <3>1, <3>2
  <2>10. QED
    BY <1>1, <2>5, <2>9 DEF CountInv, InExternal
<1>6. QED
  BY <1>4, <1>5

LEMMA NextCountInv == ASSUME MarkerAssumption PROVE CountInv /\ [Next]_vars => CountInv'
<1> SUFFICES ASSUME CountInv, [Next]_vars PROVE CountInv'
  OBVIOUS
<1>1. CASE \E k \in TypeKeys : GenerateFrom(k)
  BY <1>1, GenerateCountInv
<1>2. CASE AddItem
  BY <1>2 DEF AddItem, CountInv, MineOf, InExternal, ItemCount
<1>3. CASE UNCHANGED vars
  BY <1>3 DEF vars, CountInv, MineOf, InExternal, ItemCount
<1>4. QED
  BY <1>1, <1>2, <1>3 DEF Next

(* When generate_code's loop is done, a type of the package has exactly   *)
(* as many generated items as generate_from_dsdl pushes for it if it is   *)
(* in no external package, and none otherwise: external types are skipped *)
(* and no internal type is skipped or generated twice.                     *)
THEOREM GeneratedExactlyInternalHolds ==
  ASSUME MarkerAssumption PROVE Spec => []GeneratedExactlyInternal
<1>1. CountInv => GeneratedExactlyInternal
  <2> SUFFICES ASSUME CountInv, todo = {}, NEW k \in DOMAIN package
               PROVE  Cardinality(MineOf(k)) = IF InExternal(k) THEN 0 ELSE ItemCount(k)
    BY DEF GeneratedExactlyInternal, MineOf, InExternal, ItemCount
  <2>1. CASE InExternal(k)
    BY <2>1, FS_EmptySet DEF CountInv
  <2>2. CASE ~InExternal(k)
    <3>1. PICK base \in Nat : MineOf(k) = base + 1 .. base + ItemCount(k)
      BY <2>2 DEF CountInv
    <3>2. ItemCount(k) \in Nat
      BY DEF ItemCount
    <3>3. QED
      BY <2>2, <3>1, <3>2, FS_Interval
  <2>3. QED
    BY <2>1, <2>2
<1>2. QED
  BY <1>1, InitCountInv, NextCountInv, PTL DEF Spec

-----------------------------------------------------------------------------

(* The module tree's modules, with the facts that keep them: from_iter   *)
(* runs only once generation is done, so no item is added while items     *)
(* still grows.                                                            *)
TreeInv ==
    /\ added \in Nat
    /\ todo /= {} => added = 0
    /\ TreeModules

LEMMA InitTreeInv == Init => TreeInv
BY DEF Init, TreeInv, TreeModules, Modules

(* ModuleTree::add_item creates exactly the modules on the item's path   *)
(* that do not exist yet.                                                  *)
LEMMA AddItemModules ==
  ASSUME NEW t, NEW path, NEW it
  PROVE  DOMAIN AddItemTo(t, path, it) = DOMAIN t \cup {SubSeq(path, 1, m) : m \in 0 .. Len(path)}
BY DEF AddItemTo

LEMMA NextTreeInv == TreeInv /\ [Next]_vars => TreeInv'
<1> SUFFICES ASSUME TreeInv, [Next]_vars PROVE TreeInv'
  OBVIOUS
<1>1. ASSUME NEW k \in TypeKeys, GenerateFrom(k) PROVE TreeInv'
  <2>1. added = 0 /\ added' = 0 /\ tree' = tree
    BY <1>1 DEF GenerateFrom, TreeInv
  <2>2. Modules(added) = {} /\ Modules(added)' = {}
    BY <2>1 DEF Modules
  <2>3. QED
    BY <2>1, <2>2 DEF TreeInv, TreeModules
<1>2. CASE AddItem
  <2> DEFINE it == items[added + 1]
             prefixes == {SubSeq(it.name.path, 1, m) : m \in 0 .. Len(it.name.path)}
  <2>1. added' = added + 1 /\ items' = items /\ todo' = todo
        /\ tree' = AddItemTo(tree, it.name.path, it)
    BY <1>2 DEF AddItem
  <2>2. DOMAIN tree' = DOMAIN tree \cup prefixes
    BY <2>1, AddItemModules
  <2>3. Modules(added)' = Modules(added) \cup prefixes
    BY <2>1 DEF TreeInv, Modules
  <2>4. QED
    BY <1>2, <2>1, <2>2, <2>3 DEF AddItem, TreeInv, TreeModules
<1>3. CASE UNCHANGED vars
  BY <1>3 DEF vars, TreeInv, TreeModules, Modules
<1>4. QED
  BY <1>1, <1>2, <1>3 DEF Next

(* ModuleTree::from_iter builds exactly the modules the crate needs: the  *)
(* root and every module on the path of an item added so far, each path   *)
(* prefix once, and no other.                                               *)
THEOREM TreeModulesHold == Spec => []TreeModules
<1>1. Spec => []TreeInv
  BY InitTreeInv, NextTreeInv, PTL DEF Spec
<1>2. QED
  BY <1>1, PTL DEF TreeInv

-----------------------------------------------------------------------------

(* What ModuleTree::add_item does to the items of one module, stated on   *)
(* ItemsAtModule for any sequence w and bound n.  With no item counted,    *)
(* a module holds nothing, whatever the items after.                       *)
LEMMA AtModuleZero ==
  ASSUME NEW S, NEW s \in Seq(S), NEW w, NEW v, NEW p, ItemsAtModule(s, w, 0, p)
  PROVE  ItemsAtModule(s, v, 0, p)
<1>1. PICK f \in [1 .. Len(s) -> 1 .. 0] : TRUE
  BY DEF ItemsAtModule
<1>2. Len(s) = 0
  <2>1. Len(s) \in Nat
    BY LenProperties
  <2>2. ~(1 \in 1 .. Len(s))
    BY <1>1
  <2>3. QED
    BY <2>1, <2>2
<1>3. \E g \in [1 .. Len(s) -> 1 .. 0] :
        /\ \A j1, j2 \in 1 .. Len(s) : j1 < j2 => g[j1] < g[j2]
        /\ \A j \in 1 .. Len(s) : s[j] = v[g[j]] /\ v[g[j]].name.path = p
        /\ \A i \in 1 .. 0 : v[i].name.path = p => \E j \in 1 .. Len(s) : g[j] = i
  <2>1. /\ \A j1, j2 \in 1 .. Len(s) : j1 < j2 => f[j1] < f[j2]
        /\ \A j \in 1 .. Len(s) : s[j] = v[f[j]] /\ v[f[j]].name.path = p
        /\ \A i \in 1 .. 0 : v[i].name.path = p => \E j \in 1 .. Len(s) : f[j] = i
    BY <1>2
  <2>2. QED
    BY <1>1, <2>1, Zenon
<1>4. QED
  BY <1>3 DEF ItemsAtModule

(* A module none of whose first n items lies at it holds nothing.         *)
LEMMA AtModuleEmpty ==
  ASSUME NEW w, NEW n \in Nat, NEW p, \A i \in 1 .. n : w[i].name.path /= p
  PROVE  ItemsAtModule(<<>>, w, n, p)
<1> DEFINE f0 == [j \in 1 .. 0 |-> 1]
<1>1. Len(<<>>) = 0 /\ f0 \in [1 .. Len(<<>>) -> 1 .. n]
  BY EmptySeq
<1>2. \E g \in [1 .. Len(<<>>) -> 1 .. n] :
        /\ \A j1, j2 \in 1 .. Len(<<>>) : j1 < j2 => g[j1] < g[j2]
        /\ \A j \in 1 .. Len(<<>>) : <<>>[j] = w[g[j]] /\ w[g[j]].name.path = p
        /\ \A i \in 1 .. n : w[i].name.path = p => \E j \in 1 .. Len(<<>>) : g[j] = i
  <2>1. /\ \A j1, j2 \in 1 .. Len(<<>>) : j1 < j2 => f0[j1] < f0[j2]
        /\ \A j \in 1 .. Len(<<>>) : <<>>[j] = w[f0[j]] /\ w[f0[j]].name.path = p
        /\ \A i \in 1 .. n : w[i].name.path = p => \E j \in 1 .. Len(<<>>) : f0[j] = i
    BY <1>1
  <2> HIDE DEF f0
  <2>2. QED
    BY <1>1, <2>1, Zenon
<1>3. QED
  BY <1>2 DEF ItemsAtModule

(* An item at another module leaves a module's items as they are.         *)
LEMMA AtModuleSkip ==
  ASSUME NEW S, NEW s \in Seq(S), NEW w, NEW n \in Nat, NEW p,
         ItemsAtModule(s, w, n, p), w[n + 1].name.path /= p
  PROVE  ItemsAtModule(s, w, n + 1, p)
<1>1. PICK f \in [1 .. Len(s) -> 1 .. n] :
        /\ \A j1, j2 \in 1 .. Len(s) : j1 < j2 => f[j1] < f[j2]
        /\ \A j \in 1 .. Len(s) : s[j] = w[f[j]] /\ w[f[j]].name.path = p
        /\ \A i \in 1 .. n : w[i].name.path = p => \E j \in 1 .. Len(s) : f[j] = i
  BY DEF ItemsAtModule
<1>2. f \in [1 .. Len(s) -> 1 .. n + 1]
  BY <1>1
<1>3. \A i \in 1 .. n + 1 : w[i].name.path = p => \E j \in 1 .. Len(s) : f[j] = i
  <2> SUFFICES ASSUME NEW i \in 1 .. n + 1, w[i].name.path = p
               PROVE  \E j \in 1 .. Len(s) : f[j] = i
    OBVIOUS
  <2>1. i \in 1 .. n
    OBVIOUS
  <2>2. QED
    BY <2>1, <1>1
<1>4. \E g \in [1 .. Len(s) -> 1 .. n + 1] :
        /\ \A j1, j2 \in 1 .. Len(s) : j1 < j2 => g[j1] < g[j2]
        /\ \A j \in 1 .. Len(s) : s[j] = w[g[j]] /\ w[g[j]].name.path = p
        /\ \A i \in 1 .. n + 1 : w[i].name.path = p => \E j \in 1 .. Len(s) : g[j] = i
  BY <1>1, <1>2, <1>3, Zenon
<1>5. QED
  BY <1>4 DEF ItemsAtModule

(* An item at the module is appended to its items, after the others.      *)
LEMMA AtModuleExtend ==
  ASSUME NEW S, NEW s \in Seq(S), NEW w, NEW n \in Nat, NEW p,
         ItemsAtModule(s, w, n, p), w[n + 1].name.path = p, w[n + 1] \in S
  PROVE  ItemsAtModule(Append(s, w[n + 1]), w, n + 1, p)
<1> DEFINE e == w[n + 1]
           t == Append(s, e)
           L == Len(s)
<1>1. PICK f \in [1 .. L -> 1 .. n] :
        /\ \A j1, j2 \in 1 .. L : j1 < j2 => f[j1] < f[j2]
        /\ \A j \in 1 .. L : s[j] = w[f[j]] /\ w[f[j]].name.path = p
        /\ \A i \in 1 .. n : w[i].name.path = p => \E j \in 1 .. L : f[j] = i
  BY DEF ItemsAtModule
<1>2. L \in Nat /\ Len(t) = L + 1 /\ (\A j \in 1 .. L : t[j] = s[j]) /\ t[L + 1] = e
  BY AppendProperties
<1> DEFINE g == [j \in 1 .. L + 1 |-> IF j <= L THEN f[j] ELSE n + 1]
<1>3. g \in [1 .. Len(t) -> 1 .. n + 1]
  BY <1>1, <1>2
<1>4. \A j1, j2 \in 1 .. Len(t) : j1 < j2 => g[j1] < g[j2]
  BY <1>1, <1>2
<1>5. \A j \in 1 .. Len(t) : t[j] = w[g[j]] /\ w[g[j]].name.path = p
  BY <1>1, <1>2
<1>6. \A i \in 1 .. n + 1 : w[i].name.path = p => \E j \in 1 .. Len(t) : g[j] = i
  <2> SUFFICES ASSUME NEW i \in 1 .. n + 1, w[i].name.path = p
               PROVE  \E j \in 1 .. Len(t) : g[j] = i
    OBVIOUS
  <2>1. CASE i = n + 1
    BY <2>1, <1>2
  <2>2. CASE i <= n
    <3>1. PICK j \in 1 .. L : f[j] = i
      BY <2>2, <1>1
    <3>2. QED
      BY <3>1, <1>2
  <2>3. QED
    BY <2>1, <2>2
<1>7. \E h \in [1 .. Len(t) -> 1 .. n + 1] :
        /\ \A j1, j2 \in 1 .. Len(t) : j1 < j2 => h[j1] < h[j2]
        /\ \A j \in 1 .. Len(t) : t[j] = w[h[j]] /\ w[h[j]].name.path = p
        /\ \A i \in 1 .. n + 1 : w[i].name.path = p => \E j \in 1 .. Len(t) : h[j] = i
  <2> HIDE DEF g
  <2>1. QED
    BY <1>3, <1>4, <1>5, <1>6, Zenon
<1>8. QED
  BY <1>7 DEF ItemsAtModule

(* The typing TreeHoldsItems rests on, which holds without the naming     *)
(* facts: the package, todo and the items generated so far.                *)
ItemsType ==
    /\ DOMAIN package \subseteq TypeKeys
    /\ \A k \in DOMAIN package : package[k] \in Dsdl
    /\ todo \subseteq DOMAIN package
    /\ items \in Seq(Generated)

LEMMA InitItemsType == Init => ItemsType
<1> SUFFICES ASSUME Init PROVE ItemsType
  OBVIOUS
<1>1. PICK K \in SUBSET TypeKeys : package \in [K -> Dsdl]
  BY DEF Init, Packages
<1>2. QED
  BY <1>1 DEF Init, ItemsType

LEMMA NextItemsType == ItemsType /\ [Next]_vars => ItemsType'
<1> SUFFICES ASSUME ItemsType, [Next]_vars PROVE ItemsType'
  OBVIOUS
<1>1. ASSUME NEW k \in TypeKeys, GenerateFrom(k) PROVE ItemsType'
  <2>1. k \in DOMAIN package /\ UNCHANGED package /\ todo' \subseteq todo
    BY <1>1 DEF GenerateFrom, ItemsType
  <2>2. CASE ExternalModule(k.pkg) /= None
    BY <1>1, <2>1, <2>2 DEF GenerateFrom, ItemsType
  <2>3. CASE ExternalModule(k.pkg) = None
    <3>1. GenerateFromDsdl(k) \in Seq(ItemsOf(k))
      BY <2>1, <2>3, GeneratedItemsOfType DEF ItemsType
    <3>2. GenerateFromDsdl(k) \in Seq(Generated)
      BY <3>1, SeqMonotonic DEF Generated
    <3>3. items' = items \o GenerateFromDsdl(k)
      BY <1>1, <2>3 DEF GenerateFrom
    <3>4. items' \in Seq(Generated)
      BY <3>2, <3>3, ConcatProperties DEF ItemsType
    <3>5. QED
      BY <2>1, <3>4 DEF ItemsType
  <2>4. QED
    BY <2>2, <2>3
<1>2. CASE AddItem
  BY <1>2 DEF AddItem, ItemsType
<1>3. CASE UNCHANGED vars
  BY <1>3 DEF vars, ItemsType
<1>4. QED
  BY <1>1, <1>2, <1>3 DEF Next

(* The module path of a generated item is a sequence, so it is one of its *)
(* own prefixes.                                                           *)
LEMMA PathIsOwnPrefix ==
  ASSUME PathsAssumption, NEW e \in Generated
  PROVE  /\ Len(e.name.path) \in Nat
         /\ SubSeq(e.name.path, 1, Len(e.name.path)) = e.name.path
<1> DEFINE k == e.key
           T == Segments \cup {Underscore0, VersionModule(k)}
           P == [i \in 1 .. Len(k.pkg) |-> MakeRustIdentifier(k.pkg[i])]
<1>1. k \in TypeKeys /\ e.name.path = InternalPath(k)
  BY GeneratedItem
<1>2. k.pkg \in Seq(Segments)
  BY <1>1 DEF PathsAssumption, TypeKeys
<1>3. \A i \in 1 .. Len(k.pkg) : MakeRustIdentifier(k.pkg[i]) \in T
  BY <1>2, ElementOfSeq DEF MakeRustIdentifier
<1>4. P \in Seq(T)
  BY <1>2, <1>3, LenProperties, IsASeq
<1>5. InternalPath(k) \in Seq(T)
  <2>1. VersionModule(k) \in T
    OBVIOUS
  <2> HIDE DEF T, P
  <2>2. QED
    BY <1>4, <2>1, AppendProperties DEF InternalPath, P
<1>6. QED
  BY <1>1, <1>5, SubSeqFull, LenProperties

(* A module that is not in the tree is the path of none of the items     *)
(* added so far: their paths and all their prefixes are modules.          *)
LEMMA NotAModule ==
  ASSUME PathsAssumption, ItemsType, TreeModules, added \in Nat, added <= Len(items),
         NEW p, p \notin DOMAIN tree, NEW i \in 1 .. added
  PROVE  items[i].name.path /= p
<1>1. items[i] \in Generated
  BY ElementOfSeq DEF ItemsType
<1> DEFINE path == items[i].name.path
<1>2. Len(path) \in Nat /\ SubSeq(path, 1, Len(path)) = path
  BY <1>1, PathIsOwnPrefix
<1>3. path \in Modules(added)
  <2>1. Len(path) \in 0 .. Len(path)
    BY <1>2
  <2>2. QED
    BY <1>2, <2>1 DEF Modules
<1>4. QED
  BY <1>3 DEF TreeModules

(* The inductive invariant of TreeHoldsItems: the modules of the tree,    *)
(* the typing, no more items added than generated, and each module's      *)
(* items as ItemsAtModule states them.                                     *)
HoldsInv ==
    /\ TreeInv
    /\ ItemsType
    /\ added <= Len(items)
    /\ \A p \in DOMAIN tree : tree[p] \in Seq(Generated) /\ ItemsAtModule(tree[p], items, added, p)

LEMMA InitHoldsInv == Init => HoldsInv
<1> SUFFICES ASSUME Init PROVE HoldsInv
  OBVIOUS
<1>1. TreeInv /\ ItemsType
  BY InitTreeInv, InitItemsType
<1>2. DOMAIN tree = {<<>>} /\ tree[<<>>] = <<>> /\ added = 0 /\ items = <<>>
  BY DEF Init
<1>3. ItemsAtModule(<<>>, items, 0, <<>>)
  <2>1. 0 \in Nat /\ \A i \in 1 .. 0 : items[i].name.path /= <<>>
    OBVIOUS
  <2>2. QED
    BY <2>1, AtModuleEmpty
<1>4. <<>> \in Seq(Generated)
  BY EmptySeq
<1>5. \A p \in DOMAIN tree : tree[p] \in Seq(Generated) /\ ItemsAtModule(tree[p], items, added, p)
  BY <1>2, <1>3, <1>4
<1>6. added <= Len(items)
  BY <1>2, EmptySeq
<1>7. QED
  BY <1>1, <1>5, <1>6 DEF HoldsInv

(* A turn of generate_code's loop leaves the tree empty of items: from_iter *)
(* has not started.                                                        *)
LEMMA GenerateHoldsInv ==
  ASSUME HoldsInv, NEW k \in TypeKeys, GenerateFrom(k)
  PROVE  HoldsInv'
<1>1. TreeInv' /\ ItemsType'
  BY NextTreeInv, NextItemsType DEF HoldsInv, Next
<1>2. added = 0 /\ added' = 0 /\ tree' = tree
  BY DEF GenerateFrom, HoldsInv, TreeInv
<1>3. added' <= Len(items')
  BY <1>1, <1>2, LenProperties DEF ItemsType
<1>4. ASSUME NEW p \in DOMAIN tree'
      PROVE  tree'[p] \in Seq(Generated) /\ ItemsAtModule(tree'[p], items', added', p)
  <2>1. tree[p] \in Seq(Generated) /\ ItemsAtModule(tree[p], items, 0, p)
    BY <1>2, <1>4 DEF HoldsInv
  <2>2. ItemsAtModule(tree[p], items', 0, p)
    BY <2>1, AtModuleZero
  <2>3. QED
    BY <1>2, <2>1, <2>2
<1>5. QED
  BY <1>1, <1>3, <1>4 DEF HoldsInv

(* A turn of from_iter's loop: add_item appends the item to the module at *)
(* its path, creates the missing prefixes empty, and leaves every other   *)
(* module's items as they are.                                             *)
LEMMA AddItemHoldsInv ==
  ASSUME PathsAssumption, HoldsInv, AddItem
  PROVE  HoldsInv'
<1> DEFINE n == added
           it == items[n + 1]
           path == it.name.path
<1>1. TreeInv' /\ ItemsType'
  BY NextTreeInv, NextItemsType DEF HoldsInv, Next
<1>2. /\ n \in Nat /\ n + 1 \in 1 .. Len(items) /\ it \in Generated
      /\ added' = n + 1 /\ items' = items /\ added' <= Len(items')
      /\ tree' = AddItemTo(tree, path, it)
  BY ElementOfSeq DEF AddItem, HoldsInv, TreeInv, ItemsType
<1>3. /\ DOMAIN tree' = DOMAIN tree \cup {SubSeq(path, 1, m) : m \in 0 .. Len(path)}
      /\ \A p \in DOMAIN tree' :
           tree'[p] = IF p = path THEN Append(IF p \in DOMAIN tree THEN tree[p] ELSE <<>>, it)
                      ELSE IF p \in DOMAIN tree THEN tree[p] ELSE <<>>
  BY <1>2 DEF AddItemTo
<1>4. ASSUME NEW p, p \notin DOMAIN tree
      PROVE  ItemsAtModule(<<>>, items, n, p) /\ <<>> \in Seq(Generated)
  <2>1. \A i \in 1 .. n : items[i].name.path /= p
    BY <1>2, <1>4, NotAModule DEF HoldsInv, TreeInv
  <2>2. QED
    BY <1>2, <2>1, AtModuleEmpty, EmptySeq
<1>5. ASSUME NEW p \in DOMAIN tree'
      PROVE  tree'[p] \in Seq(Generated) /\ ItemsAtModule(tree'[p], items, n + 1, p)
  <2> DEFINE old == IF p \in DOMAIN tree THEN tree[p] ELSE <<>>
  <2>1. old \in Seq(Generated) /\ ItemsAtModule(old, items, n, p)
    <3>1. CASE p \in DOMAIN tree
      BY <3>1 DEF HoldsInv
    <3>2. CASE p \notin DOMAIN tree
      BY <3>2, <1>4
    <3>3. QED
      BY <3>1, <3>2
  <2>2. CASE p = path
    <3>1. tree'[p] = Append(old, it)
      BY <2>2, <1>3, <1>5
    <3>2. ItemsAtModule(Append(old, it), items, n + 1, p)
      BY <2>1, <2>2, <1>2, AtModuleExtend
    <3>3. Append(old, it) \in Seq(Generated)
      BY <2>1, <1>2, AppendProperties
    <3>4. QED
      BY <3>1, <3>2, <3>3
  <2>3. CASE p /= path
    <3>1. tree'[p] = old
      BY <2>3, <1>3, <1>5
    <3>2. ItemsAtModule(old, items, n + 1, p)
      BY <2>1, <2>3, <1>2, AtModuleSkip
    <3>3. QED
      BY <2>1, <3>1, <3>2
  <2>4. QED
    BY <2>2, <2>3
<1>6. QED
  BY <1>1, <1>2, <1>5 DEF HoldsInv

LEMMA NextHoldsInv ==
  ASSUME PathsAssumption
  PROVE  HoldsInv /\ [Next]_vars => HoldsInv'
<1> SUFFICES ASSUME HoldsInv, [Next]_vars PROVE HoldsInv'
  OBVIOUS
<1>1. CASE \E k \in TypeKeys : GenerateFrom(k)
  BY <1>1, GenerateHoldsInv
<1>2. CASE AddItem
  BY <1>2, AddItemHoldsInv
<1>3. CASE UNCHANGED vars
  BY <1>3 DEF vars, HoldsInv, TreeInv, TreeModules, Modules, ItemsType
<1>4. QED
  BY <1>1, <1>2, <1>3 DEF Next

(* ModuleTree::from_iter files each item under the module at its path:    *)
(* every module of the tree holds, in the order they were added, exactly  *)
(* the items added so far whose path is that module's, for every package, *)
(* as long as DSDL package paths are sequences of segments.               *)
THEOREM TreeHoldsItemsHolds ==
  ASSUME PathsAssumption
  PROVE  Spec => []TreeHoldsItems
<1>1. Init => HoldsInv
  BY InitHoldsInv
<1>2. HoldsInv /\ [Next]_vars => HoldsInv'
  BY NextHoldsInv
<1>3. HoldsInv => TreeHoldsItems
  BY DEF HoldsInv, TreeInv, TreeHoldsItems
<1>4. QED
  BY <1>1, <1>2, <1>3, PTL DEF Spec

=====
