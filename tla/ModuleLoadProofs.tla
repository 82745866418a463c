--------------------------- MODULE ModuleLoadProofs ---------------------------
(***************************************************************************)
(* For every disk, every qy.toml on it and every session: the four lookups *)
(* of a from form agree on names with one meaning, a module that ran is    *)
(* one that its package exports, and the loader runs out of stack only for *)
(* files that import each other.                                           *)
(***************************************************************************)
EXTENDS ModuleLoad, FiniteSetTheorems, SequenceTheorems, Induction, TLAPS

-----------------------------------------------------------------------------
(* The types. *)

\* The files of all disks, and those of the modules that no file made.
DiskFiles == UNION {DOMAIN w.forms : w \in Worlds}
Files == DiskFiles \cup {"builtin", ""}
Mods == [file : Files, ix : Nat]
Bindings == UNION {[D -> Mods] : D \in SUBSET NameSet}
Envs == [source : Bindings, macros : SUBSET NameSet, packages : SUBSET Seq(STRING), bound : Bindings]
Frames == [file : Files, ix : Nat, stage : Stages, env : Envs, compiled : Mods, as : NameSet \cup {NoName}]

LEMMA BindingsAre ==
    /\ Empty \in Bindings
    /\ \A f \in Bindings : DOMAIN f \subseteq NameSet /\ \A n \in DOMAIN f : f[n] \in Mods
<1>1. Empty \in [{} -> Mods] /\ {} \in SUBSET NameSet
    BY DEF Empty
<1>2. Empty \in Bindings
    BY <1>1 DEF Bindings
<1>3. \A f \in Bindings : DOMAIN f \subseteq NameSet /\ \A n \in DOMAIN f : f[n] \in Mods
    BY DEF Bindings
<1> QED BY <1>2, <1>3

LEMMA PutIs ==
    \A f \in Bindings, n \in NameSet, m \in Mods : \A b : b = Put(f, n, m) =>
        /\ b \in Bindings /\ DOMAIN b = DOMAIN f \cup {n} /\ b[n] = m
        /\ \A k \in DOMAIN f : k # n => b[k] = f[k]
<1> SUFFICES ASSUME NEW f \in Bindings, NEW n \in NameSet, NEW m \in Mods, NEW b, b = Put(f, n, m)
             PROVE  /\ b \in Bindings /\ DOMAIN b = DOMAIN f \cup {n} /\ b[n] = m
                    /\ \A k \in DOMAIN f : k # n => b[k] = f[k]
    OBVIOUS
<1>1. DOMAIN f \subseteq NameSet /\ \A k \in DOMAIN f : f[k] \in Mods
    BY BindingsAre
<1>2. b \in [DOMAIN f \cup {n} -> Mods] /\ DOMAIN f \cup {n} \in SUBSET NameSet
    BY <1>1 DEF Put
<1>3. b \in Bindings
    BY <1>2 DEF Bindings
<1>4. b[n] = m /\ \A k \in DOMAIN f : k # n => b[k] = f[k]
    BY DEF Put
<1>5. DOMAIN b = DOMAIN f \cup {n}
    BY <1>2
<1> QED BY <1>3, <1>4, <1>5

-----------------------------------------------------------------------------
(* Packages. *)

LEMMA WorldIs == world \in Worlds => IsWorld(world)
BY WorldsAssumption

LEMMA SplitIs ==
    ASSUME NEW n \in NameSet, NEW known \in SUBSET Seq(STRING), NEW s, s = split_package_module(n, known)
    PROVE  /\ Len(s.pkg) \in Nat /\ Len(s.pkg) <= Len(n.parts) /\ SubSeq(n.parts, 1, Len(s.pkg)) = s.pkg
           /\ s.sub = Rest(n, s.pkg) /\ s.pkg \in Seq(STRING)
<1> DEFINE cuts == {i \in 1 .. Len(n.parts) : SubSeq(n.parts, 1, i) \in known}
           i == IF cuts = {} THEN Len(n.parts) ELSE Max(cuts)
<1>1. n.parts \in Seq(STRING) /\ Len(n.parts) \in Nat
    BY LenProperties DEF NameSet
<1>2. cuts # {} => Max(cuts) \in cuts
  <2> SUFFICES ASSUME cuts # {} PROVE Max(cuts) \in cuts
      OBVIOUS
  <2>4. 1 \in Int /\ Len(n.parts) \in Int
      BY <1>1
  <2>5. IsFiniteSet(1 .. Len(n.parts))
      BY <2>4, FS_Interval
  <2>6. cuts \subseteq 1 .. Len(n.parts)
      OBVIOUS
  <2>1. IsFiniteSet(cuts) /\ cuts \in SUBSET Nat
      BY <2>5, <2>6, FS_Subset
  <2>2. \E x \in cuts : \A y \in cuts : y <= x
      BY <2>1, GreatestNat
  <2>3. \E x \in cuts : \A y \in cuts : x >= y
      BY <2>1, <2>2
  <2> HIDE DEF cuts
  <2> QED BY <2>3 DEF Max
<1>3. i \in 0 .. Len(n.parts)
    BY <1>1, <1>2
<1>4. s.pkg = SubSeq(n.parts, 1, i) /\ s.sub = SubSeq(n.parts, i + 1, Len(n.parts))
    BY DEF split_package_module
<1> HIDE DEF i, cuts
<1>5. s.pkg \in Seq(STRING) /\ Len(s.pkg) = i
    BY <1>1, <1>3, <1>4, SubSeqProperties
<1>6. i \in Nat /\ i <= Len(n.parts)
    BY <1>1, <1>3
<1>7. Len(s.pkg) \in Nat /\ Len(s.pkg) <= Len(n.parts)
    BY <1>5, <1>6
<1>8. SubSeq(n.parts, 1, Len(s.pkg)) = s.pkg /\ s.sub = Rest(n, s.pkg)
    BY <1>4, <1>5, Zenon DEF Rest
<1> QED BY <1>5, <1>7, <1>8

LEMMA RaiseIs == \A exc, e : Raise(exc, e).kind = exc /\ Raise(exc, e).env = e
BY DEF Raise

LEMMA LoadFromIs ==
    \A pkg, sub, e, nm, l : l = LoadFrom(pkg, sub, e, nm) =>
        /\ l.kind \in {"load", "KeyError"} /\ l.env = e
        /\ l.kind = "load" => l.file = resolve_submodule(pkg, sub) /\ l.as = nm
<1> SUFFICES ASSUME NEW pkg, NEW sub, NEW e, NEW nm, NEW l, l = LoadFrom(pkg, sub, e, nm)
             PROVE  /\ l.kind \in {"load", "KeyError"} /\ l.env = e
                    /\ l.kind = "load" => l.file = resolve_submodule(pkg, sub) /\ l.as = nm
    OBVIOUS
<1> DEFINE f == resolve_submodule(pkg, sub)
<1>1. CASE f = ""
  <2>1. l = Raise("KeyError", e)
      BY <1>1 DEF LoadFrom
  <2>2. l.kind = "KeyError" /\ l.env = e
      BY <2>1, RaiseIs
  <2> QED BY <2>2
<1>2. CASE f # ""
  <2>1. l = Load(f, e, nm)
      BY <1>2 DEF LoadFrom
  <2>2. l.kind = "load" /\ l.env = e /\ l.file = f /\ l.as = nm
      BY <2>1 DEF Load
  <2> QED BY <1>2, <2>2
<1> QED BY <1>1, <1>2

LEMMA LoadFromFile ==
    \A pkg, sub, e, nm, l : l = LoadFrom(pkg, sub, e, nm) /\ l.kind = "load" => l.file # ""
<1> SUFFICES ASSUME NEW pkg, NEW sub, NEW e, NEW nm, NEW l, l = LoadFrom(pkg, sub, e, nm), l.kind = "load"
             PROVE  l.file # ""
    OBVIOUS
<1>1. resolve_submodule(pkg, sub) # ""
    BY RaiseIs DEF LoadFrom
<1>2. l = Load(resolve_submodule(pkg, sub), e, nm)
    BY <1>1 DEF LoadFrom
<1>3. l.file = resolve_submodule(pkg, sub)
    BY <1>2 DEF Load
<1> QED BY <1>1, <1>3, Zenon

\* A module that a name can mean, and, of a package, one that it exports.
Known(n, m) == m \in Meanings(n) /\ (is_package_path(n) /\ Definitions(n) = {} => Exported(n, m.file))
\* A file that a stage may evaluate for a name.
Licensed(stage, n, f, as) ==
    /\ f \in FilesOf(n) /\ as \in {NoName, n}
    /\ is_package_path(n) =>
         /\ as = n \/ stage \in {"lower", "scope"} => Exported(n, f)
         /\ Owners(n) \cap world.replaces = {} => Exported(n, f)

LEMMA PackageIs ==
    ASSUME world \in Worlds, NEW p, NEW pkg, pkg = _load_package_for_module(p)
    PROVE  /\ pkg.state \in {"absent", "bare", "package"}
           /\ pkg.state # "absent" => p \in Declared /\ world.manifest
           /\ pkg.state = "package" => pkg \in Roots(p)
<1>1. IsWorld(world)
    BY WorldIs
<1>2. Local(p).state \in {"absent", "bare", "package"}
    BY <1>1 DEF IsWorld, Local
<1>3. Cached(p) => p \in DOMAIN world.cache /\ world.cache[p].state = "package" /\ p \in world.deps
    BY <1>1 DEF IsWorld, Cached
<1> QED BY <1>2, <1>3 DEF _load_package_for_module, Declared, Roots

\* Both loaders take the file from the package that is meant, one with a look
\* at its exports.
LEMMA PackageFile ==
    ASSUME world \in Worlds, NEW n \in NameSet, is_package_path(n), NEW p \in Owners(n),
           NEW pkg, pkg = _load_package_for_module(p), pkg.state = "package",
           NEW f, f = resolve_submodule(pkg, Rest(n, p)), f # ""
    PROVE  f \in FilesOf(n) /\ (Rest(n, p) = <<>> \/ is_exported(pkg, Rest(n, p)) => Exported(n, f))
<1>1. pkg \in Roots(p)
    BY PackageIs
<1>2. n.kind # "file"
    BY DEF is_package_path
<1>3. p \in {q \in Owners(n) : is_package_path(n) /\ _load_package_for_module(q).state = "package"}
    OBVIOUS
<1>4. f \in FilesOf(n)
    BY <1>2, <1>3 DEF FilesOf
<1>5. Rest(n, p) = <<>> \/ is_exported(pkg, Rest(n, p)) => Exported(n, f)
    BY <1>1 DEF Exported
<1> QED BY <1>4, <1>5

LEMMA RegistryPackage ==
    ASSUME world \in Worlds, NEW n \in NameSet, is_package_path(n), NEW e, NEW l, l = _load_package_module(n, e)
    PROVE  /\ l.kind \in {"load", "KeyError", "FileNotFoundError"} /\ l.env = e
           /\ l.kind = "load" => l.as = NoName /\ Licensed("run", n, l.file, NoName)
<1> DEFINE s == split_package_module(n, world.deps)
<1>1. IsWorld(world) /\ world.deps \in SUBSET Seq(STRING)
    BY WorldIs DEF IsWorld
<1>2. /\ Len(s.pkg) \in Nat /\ Len(s.pkg) <= Len(n.parts) /\ SubSeq(n.parts, 1, Len(s.pkg)) = s.pkg
      /\ s.sub = Rest(n, s.pkg)
    BY <1>1, SplitIs
<1> DEFINE pkg == IF s.pkg \in world.replaces THEN Local(s.pkg) ELSE world.cache[s.pkg]
<1>3. l = IF ~world.manifest \/ (s.pkg \notin world.replaces /\ ~Cached(s.pkg)) THEN Raise("KeyError", e)
          ELSE IF pkg.state # "package" THEN Raise("FileNotFoundError", e)
          ELSE IF s.pkg \notin world.replaces /\ s.sub # <<>> /\ ~is_exported(pkg, s.sub) THEN Raise("KeyError", e)
          ELSE LoadFrom(pkg, s.sub, e, NoName)
    BY DEF _load_package_module
<1>4. s.pkg \in Declared => s.pkg \in Owners(n)
    BY <1>2 DEF Owners
<1>5. /\ s.pkg \in world.replaces => pkg = Local(s.pkg)
      /\ s.pkg \notin world.replaces => pkg = world.cache[s.pkg]
    OBVIOUS
<1> HIDE DEF s, pkg
<1>6. \/ l = Raise("KeyError", e) \/ l = Raise("FileNotFoundError", e)
      \/ /\ l = LoadFrom(pkg, s.sub, e, NoName) /\ world.manifest /\ pkg.state = "package"
         /\ s.pkg \in world.replaces \/ Cached(s.pkg)
         /\ s.pkg \in world.replaces \/ s.sub = <<>> \/ is_exported(pkg, s.sub)
    BY <1>3
<1>7. CASE l = Raise("KeyError", e) \/ l = Raise("FileNotFoundError", e)
  <2>1. l.kind \in {"KeyError", "FileNotFoundError"} /\ l.env = e
      BY <1>7, RaiseIs
  <2> QED BY <2>1
<1>8. CASE /\ l = LoadFrom(pkg, s.sub, e, NoName) /\ world.manifest /\ pkg.state = "package"
           /\ s.pkg \in world.replaces \/ Cached(s.pkg)
           /\ s.pkg \in world.replaces \/ s.sub = <<>> \/ is_exported(pkg, s.sub)
  <2>1. s.pkg \in Owners(n) /\ _load_package_for_module(s.pkg) = pkg
      BY <1>4, <1>5, <1>8 DEF Declared, Cached, _load_package_for_module
  <2>2. /\ l.kind \in {"load", "KeyError"} /\ l.env = e
        /\ l.kind = "load" => l.file = resolve_submodule(pkg, s.sub) /\ l.as = NoName
      BY <1>8, LoadFromIs
  <2>4. l.kind = "load" => l.file # ""
      BY <1>8, LoadFromFile
  <2>3. ASSUME l.kind = "load" PROVE Licensed("run", n, l.file, NoName)
    <3>1. /\ l.file \in FilesOf(n)
          /\ s.sub = <<>> \/ is_exported(pkg, s.sub) => Exported(n, l.file)
        BY <1>2, <1>8, <2>1, <2>2, <2>3, <2>4, PackageFile
    <3>2. NoName # n
        BY DEF NoName, Name, NameSet
    <3> QED BY <1>8, <2>1, <3>1, <3>2 DEF Licensed
  <2> QED BY <2>2, <2>3
<1> QED BY <1>6, <1>7, <1>8

\* The environment with a package more in its registry, or as it was.
Searched(e, e1) ==
    /\ e1 \in Envs /\ e1.source = e.source /\ e1.bound = e.bound /\ e1.macros = e.macros
    /\ e1.packages = e.packages \/ \E p \in Declared : e1.packages = e.packages \cup {p}

LEMMA LoaderPackage ==
    ASSUME world \in Worlds, NEW n \in NameSet, is_package_path(n), NEW e \in Envs, NEW l,
           l = _resolve_package_module(n, e)
    PROVE  /\ l.kind \in {"load", "KeyError", "FileNotFoundError", "NotInGraph"} /\ Searched(e, l.env)
           /\ l.kind = "load" => l.as = n /\ Licensed("lower", n, l.file, n)
<1> DEFINE known == IF e.packages # {} THEN e.packages ELSE IF world.manifest THEN world.deps ELSE {}
           s == split_package_module(n, known)
           pkg == _load_package_for_module(s.pkg)
           e1 == [e EXCEPT !.packages = @ \cup {s.pkg}]
<1>1. IsWorld(world) /\ world.deps \in SUBSET Seq(STRING) /\ e.packages \in SUBSET Seq(STRING)
    BY WorldIs DEF IsWorld, Envs
<1>2. known \in SUBSET Seq(STRING)
    BY <1>1
<1>3. /\ Len(s.pkg) \in Nat /\ Len(s.pkg) <= Len(n.parts) /\ SubSeq(n.parts, 1, Len(s.pkg)) = s.pkg
      /\ s.sub = Rest(n, s.pkg) /\ s.pkg \in Seq(STRING)
    BY <1>2, SplitIs
<1>4. l = IF pkg.state = "absent" THEN Raise("NotInGraph", e)
          ELSE IF pkg.state = "bare" THEN Raise("FileNotFoundError", e)
          ELSE IF s.sub # <<>> /\ ~is_exported(pkg, s.sub) THEN Raise("KeyError", e1)
          ELSE LoadFrom(pkg, s.sub, e1, n)
    BY DEF _resolve_package_module
<1>5. /\ pkg.state \in {"absent", "bare", "package"}
      /\ pkg.state # "absent" => s.pkg \in Declared /\ world.manifest
    BY PackageIs
<1>6. Searched(e, e) /\ (s.pkg \in Declared => Searched(e, e1))
    BY <1>3 DEF Searched, Envs
<1>7. s.pkg \in Declared => s.pkg \in Owners(n)
    BY <1>3 DEF Owners
<1>9. pkg = _load_package_for_module(s.pkg)
    OBVIOUS
<1> HIDE DEF known, s, pkg, e1
<1>8. \/ l.kind \in {"NotInGraph", "FileNotFoundError"} /\ l.env = e
      \/ pkg.state = "package" /\ l.kind = "KeyError" /\ l.env = e1
      \/ pkg.state = "package" /\ l = LoadFrom(pkg, s.sub, e1, n) /\ (s.sub = <<>> \/ is_exported(pkg, s.sub))
  <2>1. /\ pkg.state = "absent" => l = Raise("NotInGraph", e)
        /\ pkg.state = "bare" => l = Raise("FileNotFoundError", e)
        /\ pkg.state = "package" =>
             \/ l = Raise("KeyError", e1)
             \/ (s.sub = <<>> \/ is_exported(pkg, s.sub)) /\ l = LoadFrom(pkg, s.sub, e1, n)
      BY <1>4, <1>5
  <2> QED BY <1>5, <2>1, RaiseIs
<1>10. CASE ~(pkg.state = "package" /\ l = LoadFrom(pkg, s.sub, e1, n) /\ (s.sub = <<>> \/ is_exported(pkg, s.sub)))
    BY <1>5, <1>6, <1>8, <1>10
<1>11. CASE pkg.state = "package" /\ l = LoadFrom(pkg, s.sub, e1, n) /\ (s.sub = <<>> \/ is_exported(pkg, s.sub))
  <2>1. s.pkg \in Owners(n) /\ Searched(e, e1)
      BY <1>5, <1>6, <1>7, <1>11
  <2>2. /\ l.kind \in {"load", "KeyError"} /\ l.env = e1
        /\ l.kind = "load" => l.file = resolve_submodule(pkg, s.sub) /\ l.as = n
      BY <1>11, LoadFromIs
  <2>4. l.kind = "load" => l.file # ""
      BY <1>11, LoadFromFile
  <2>3. l.kind = "load" => l.file \in FilesOf(n) /\ Exported(n, l.file)
      BY <1>3, <1>9, <1>11, <2>1, <2>2, <2>4, PackageFile
  <2> QED BY <2>1, <2>2, <2>3 DEF Licensed
<1> QED BY <1>10, <1>11

-----------------------------------------------------------------------------
(* The disk does not change. *)

LEMMA WorldStays ==
    ASSUME world' = world
    PROVE  /\ \A f : Forms(f)' = Forms(f) /\ FileModule(f)' = FileModule(f)
           /\ Declared' = Declared
           /\ \A n : Definitions(n)' = Definitions(n) /\ Owners(n)' = Owners(n) /\ FilesOf(n)' = FilesOf(n)
           /\ \A n : Meanings(n)' = Meanings(n)
           /\ \A n, f : Exported(n, f)' <=> Exported(n, f)
           /\ \A p : Roots(p)' = Roots(p)
           /\ \A n, m : Known(n, m)' <=> Known(n, m)
           /\ \A stage, n, f, nm : Licensed(stage, n, f, nm)' <=> Licensed(stage, n, f, nm)
           /\ Names' = Names /\ (Cyclic' <=> Cyclic)
<1>1. \A f : Forms(f)' = Forms(f)
    BY DEF Forms
<1>2. Declared' = Declared
    BY DEF Declared
<1>3. Places' = Places
    BY <1>1 DEF Places
<1>4. \A n : Definitions(n)' = Definitions(n)
    BY <1>1, <1>3 DEF Definitions
<1>5. \A n : Owners(n)' = Owners(n)
    BY <1>2 DEF Owners
<1>6. \A p : _load_package_for_module(p)' = _load_package_for_module(p) /\ Roots(p)' = Roots(p)
    BY DEF _load_package_for_module, Local, Cached, Roots
<1>7. \A n : FilesOf(n)' = FilesOf(n)
    BY <1>5, <1>6 DEF FilesOf
<1>8. \A f : FileModule(f)' = FileModule(f)
    BY <1>1 DEF FileModule
<1>9. \A n : Meanings(n)' = Meanings(n)
    BY <1>4, <1>7, <1>8 DEF Meanings
<1>10. \A n, f : Exported(n, f)' <=> Exported(n, f)
    BY <1>5, <1>6 DEF Exported
<1>11. \A n, m : Known(n, m)' <=> Known(n, m)
    BY <1>4, <1>9, <1>10 DEF Known
<1>12. \A stage, n, f, nm : Licensed(stage, n, f, nm)' <=> Licensed(stage, n, f, nm)
    BY <1>5, <1>7, <1>10 DEF Licensed
<1>13. Names' = Names
    BY <1>1, <1>3 DEF Names
<1>14. \A n : Leads(n)' = Leads(n)
  <2>1. \A n, p : {resolve_submodule(pkg, Rest(n, p)) : pkg \in Roots(p)'}
                  = {resolve_submodule(pkg, Rest(n, p)) : pkg \in Roots(p)}
      BY <1>6
  <2> DEFINE Of(n, p) == {resolve_submodule(pkg, Rest(n, p)) : pkg \in Roots(p)}
  <2>2. \A n, p : Of(n, p)' = Of(n, p)
      BY <2>1
  <2>3. \A n : Leads(n) = IF n.kind = "file" THEN {n.parts[1]} ELSE UNION {Of(n, p) : p \in Owners(n)}
      BY DEF Leads
  <2>4. \A n : Leads(n)' = IF n.kind = "file" THEN {n.parts[1]} ELSE UNION {Of(n, p)' : p \in Owners(n)'}
      BY DEF Leads
  <2> HIDE DEF Of
  <2> QED BY <1>5, <2>2, <2>3, <2>4
<1>15. \A f : Imports(f)' = Imports(f)
    BY <1>1, <1>14 DEF Imports
<1>16. Cyclic' <=> Cyclic
    BY <1>15 DEF Cyclic
<1> QED BY <1>1, <1>2, <1>4, <1>5, <1>6, <1>7, <1>8, <1>9, <1>10, <1>11, <1>12, <1>13, <1>16

-----------------------------------------------------------------------------
(* What the names of the disk mean. *)

LEMMA FormsAre ==
    ASSUME world \in Worlds, NEW f \in DOMAIN world.forms
    PROVE  /\ f \in Files /\ f # "" /\ Len(Forms(f)) \in Nat
           /\ \A i \in 1 .. Len(Forms(f)) :
                /\ Forms(f)[i].op \in {"from", "module"} /\ Forms(f)[i].name \in NameSet
                /\ Forms(f)[i] = [op |-> Forms(f)[i].op, name |-> Forms(f)[i].name]
                /\ <<f, i>> \in Places
<1>1. f # "" /\ Forms(f) \in Seq([op : {"from", "module"}, name : NameSet])
    BY WorldIs DEF IsWorld, Forms
<1>4. f \in Files
    BY DEF Files, DiskFiles
<1>2. Len(Forms(f)) \in Nat /\ \A i \in 1 .. Len(Forms(f)) : Forms(f)[i] \in [op : {"from", "module"}, name : NameSet]
    BY <1>1, LenProperties, ElementOfSeq
<1>3. \A i \in 1 .. Len(Forms(f)) : <<f, i>> \in Places
    BY DEF Places
<1> QED BY <1>1, <1>2, <1>3, <1>4

LEMMA ModuleIs ==
    /\ \A f \in Files, i \in Nat : Module(f, i) \in Mods /\ Module(f, i).file = f
    /\ NoModule.file = "" /\ NoModule \in Mods
    /\ Module("builtin", 0).file = "builtin" /\ Module("builtin", 0) \in Mods /\ Module("builtin", 0) \in Modules
    /\ \A f \in DOMAIN world.forms : Module(f, 0) \in Modules
    /\ \A f, i : <<f, i>> \in Places => Module(f, i) \in Modules
<1>1. \A f \in Files, i \in Nat : Module(f, i) \in Mods /\ Module(f, i).file = f
    BY DEF Module, Mods
<1>2. NoModule = Module("", 0)
    BY DEF NoModule
<1>3. "" \in Files /\ "builtin" \in Files
    BY DEF Files
<1>4. \A f \in DOMAIN world.forms \cup {"builtin", ""} : Module(f, 0) \in Modules
    BY DEF Modules
<1>5. ASSUME NEW f, NEW i, <<f, i>> \in Places PROVE Module(f, i) \in Modules
  <2>1. PICK q \in Places : q[1] = f /\ q[2] = i
      BY <1>5
  <2> QED BY <2>1 DEF Modules
<1> QED BY <1>1, <1>2, <1>3, <1>4, <1>5

\* The module forms that define a name.
LEMMA DefinitionsAre ==
    ASSUME world \in Worlds, NEW n
    PROVE  /\ \A f \in DOMAIN world.forms : \A i \in 1 .. Len(Forms(f)) :
                Forms(f)[i].op = "module" /\ Forms(f)[i].name = n => Module(f, i) \in Definitions(n)
           /\ \A m \in Definitions(n) : m \in Mods /\ m \in Modules /\ m.file \in DOMAIN world.forms
<1>1. ASSUME NEW f \in DOMAIN world.forms, NEW i \in 1 .. Len(Forms(f)),
             Forms(f)[i].op = "module", Forms(f)[i].name = n
      PROVE  Module(f, i) \in Definitions(n)
  <2>1. <<f, i>> \in Places /\ Forms(f)[i] = [op |-> "module", name |-> n]
      BY <1>1, FormsAre
  <2> DEFINE q == <<f, i>>
  <2>2. q \in Places /\ Forms(q[1])[q[2]] = [op |-> "module", name |-> n] /\ Module(f, i) = Module(q[1], q[2])
      BY <2>1
  <2> HIDE DEF q
  <2> QED BY <2>2 DEF Definitions
<1>2. ASSUME NEW m \in Definitions(n) PROVE m \in Mods /\ m \in Modules /\ m.file \in DOMAIN world.forms
  <2>1. PICK q \in Places : m = Module(q[1], q[2])
      BY DEF Definitions
  <2>2. PICK f \in DOMAIN world.forms : \E i \in 1 .. Len(Forms(f)) : q = <<f, i>>
      BY DEF Places
  <2>3. PICK i \in 1 .. Len(Forms(f)) : q = <<f, i>>
      BY <2>2
  <2>7. f \in Files /\ Len(Forms(f)) \in Nat
      BY FormsAre
  <2>4. i \in Nat
      BY <2>7
  <2>5. m = Module(f, i)
      BY <2>1, <2>3
  <2>6. m \in Modules
      BY <2>1 DEF Modules
  <2> QED BY <2>4, <2>5, <2>6, <2>7, ModuleIs
<1> QED BY <1>1, <1>2

LEMMA FileModuleIs ==
    ASSUME world \in Worlds, NEW f \in DOMAIN world.forms
    PROVE  FileModule(f) \in Mods /\ FileModule(f) \in Modules /\ FileModule(f).file = f
<1>1. f \in Files /\ Len(Forms(f)) \in Nat
    BY FormsAre
<1>2. CASE FileModule(f) = Module(f, 0)
    BY <1>1, <1>2, ModuleIs
<1>3. CASE FileModule(f) = Module(f, Len(Forms(f))) /\ Len(Forms(f)) > 0
  <2>1. Len(Forms(f)) \in 1 .. Len(Forms(f))
      BY <1>1, <1>3
  <2>2. <<f, Len(Forms(f))>> \in Places
      BY <2>1, FormsAre
  <2>3. FileModule(f) \in Modules
      BY <1>3, <2>2, ModuleIs
  <2>4. FileModule(f) \in Mods /\ FileModule(f).file = f
      BY <1>1, <1>3, ModuleIs
  <2> QED BY <2>3, <2>4
<1> QED BY <1>2, <1>3 DEF FileModule

LEMMA FilesAre ==
    ASSUME world \in Worlds, NEW n \in NameSet
    PROVE  FilesOf(n) \subseteq DOMAIN world.forms /\ FilesOf(n) \subseteq Leads(n)
<1>1. CASE n.kind = "file"
    BY <1>1 DEF FilesOf, Leads
<1>2. CASE n.kind # "file"
  <2> SUFFICES ASSUME NEW f \in FilesOf(n) PROVE f \in DOMAIN world.forms /\ f \in Leads(n)
      OBVIOUS
  <2>1. PICK p \in Owners(n) : /\ _load_package_for_module(p).state = "package"
                               /\ f = resolve_submodule(_load_package_for_module(p), Rest(n, p)) /\ f # ""
      BY <1>2 DEF FilesOf
  <2>2. _load_package_for_module(p) \in Roots(p)
      BY <2>1, PackageIs
  <2>6. f \in {resolve_submodule(pkg, Rest(n, p)) : pkg \in Roots(p)}
      BY <2>1, <2>2
  <2>7. f \in UNION {{resolve_submodule(pkg, Rest(n, q)) : pkg \in Roots(q)} : q \in Owners(n)}
      BY <2>6
  <2>3. f \in Leads(n)
      BY <1>2, <2>7 DEF Leads
  <2>4. \A pkg \in Roots(p) : \A s \in DOMAIN pkg.src : pkg.src[s] \in DOMAIN world.forms
      BY WorldIs DEF Roots, Local, IsWorld, IsPackage
  <2>5. f \in DOMAIN world.forms
      BY <2>1, <2>2, <2>4 DEF resolve_submodule
  <2> QED BY <2>3, <2>5
<1> QED BY <1>1, <1>2

LEMMA MeaningsAre ==
    ASSUME world \in Worlds, NEW n \in NameSet, NEW m \in Meanings(n)
    PROVE  m \in Mods /\ m \in Modules /\ m # NoModule
<1>1. CASE m \in Definitions(n)
  <2>1. m \in Mods /\ m \in Modules /\ m.file # ""
      BY <1>1, DefinitionsAre, FormsAre
  <2> QED BY <2>1, ModuleIs
<1>2. CASE m = Module("builtin", 0)
    BY <1>2, ModuleIs
<1>3. CASE \E f \in FilesOf(n) : m = FileModule(f)
  <2>1. PICK f \in FilesOf(n) : m = FileModule(f)
      BY <1>3
  <2>2. f \in DOMAIN world.forms
      BY FilesAre
  <2>3. m \in Mods /\ m \in Modules /\ m.file # ""
      BY <2>1, <2>2, FileModuleIs, FormsAre
  <2> QED BY <2>3, ModuleIs
<1> QED BY <1>1, <1>2, <1>3 DEF Meanings

-----------------------------------------------------------------------------
(* Lookup by name. *)

\* The caches of an environment hold what a name means.
EnvOK(e) ==
    /\ e \in Envs /\ e.packages \subseteq Declared
    /\ \A n \in DOMAIN e.source : Known(n, e.source[n])
    /\ \A n \in DOMAIN e.bound : n \in DOMAIN registry /\ e.bound[n] \in Definitions(n)
\* The registry of the process: builtins and module forms that ran.
RegistryOK ==
    /\ registry \in Bindings /\ DOMAIN registry \subseteq Names
    /\ \A n \in DOMAIN registry :
         registry[n] \in Definitions(n) \/ (n \in world.builtins /\ registry[n] = Module("builtin", 0))
\* What a stage may learn of a name.
LookupOK(stage, n, l) ==
    /\ EnvOK(l.env) /\ l.kind \in {"module", "load", "KeyError", "FileNotFoundError", "NotInGraph"}
    /\ l.kind = "module" => l.module \in Mods
    /\ l.kind = "module" /\ stage = "lower" => Known(n, l.module)
    /\ l.kind = "module" /\ stage = "run" =>
         l.module \in Meanings(n) /\ (is_package_path(n) => Definitions(n) # {})
    /\ l.kind = "load" => Licensed(stage, n, l.file, l.as)

LEMMA FoundIs ==
    /\ \A m, e, l : l = Found(m, e) => l.kind = "module" /\ l.module = m /\ l.env = e
    /\ \A f, e, nm, l : l = Load(f, e, nm) => l.kind = "load" /\ l.file = f /\ l.env = e /\ l.as = nm
<1>1. \A m, e, l : l = Found(m, e) => l.kind = "module" /\ l.module = m /\ l.env = e
  <2> SUFFICES ASSUME NEW m, NEW e, NEW l, l = Found(m, e)
               PROVE  l.kind = "module" /\ l.module = m /\ l.env = e
      OBVIOUS
  <2>1. l.kind = "module"
      BY DEF Found
  <2>2. l.module = m
      BY DEF Found
  <2>3. l.env = e
      BY DEF Found
  <2> QED BY <2>1, <2>2, <2>3
<1>2. \A f, e, nm, l : l = Load(f, e, nm) => l.kind = "load" /\ l.file = f /\ l.env = e /\ l.as = nm
    BY DEF Load
<1> QED BY <1>1, <1>2

LEMMA LoadModule ==
    ASSUME world \in Worlds, RegistryOK, NEW n \in NameSet, NEW e, EnvOK(e), NEW stage \in Stages,
           is_package_path(n) => stage \notin {"lower", "scope"}, NEW l, l = load_module(n, e)
    PROVE  LookupOK(stage, n, l)
<1>1. CASE n \in DOMAIN registry
  <2>1. l.kind = "module" /\ l.module = registry[n] /\ l.env = e
      BY <1>1, FoundIs DEF load_module
  <2>2. registry[n] \in Definitions(n) \/ (n \in world.builtins /\ registry[n] = Module("builtin", 0))
      BY <1>1 DEF RegistryOK
  <2>3. registry[n] \in Mods
      BY <1>1, BindingsAre DEF RegistryOK
  <2>4. registry[n] \in Meanings(n)
      BY <2>2 DEF Meanings
  <2>5. is_package_path(n) => Definitions(n) # {}
      BY <2>2, WorldIs DEF IsWorld
  <2>6. stage = "lower" => Known(n, l.module)
      BY <2>1, <2>4 DEF Known
  <2> QED BY <2>1, <2>3, <2>4, <2>5, <2>6 DEF LookupOK
<1>2. CASE n \notin DOMAIN registry /\ is_package_path(n)
  <2>1. l = _load_package_module(n, e)
      BY <1>2 DEF load_module
  <2>2. /\ l.kind \in {"load", "KeyError", "FileNotFoundError"} /\ l.env = e
        /\ l.kind = "load" => l.as = NoName /\ Licensed("run", n, l.file, NoName)
      BY <1>2, <2>1, RegistryPackage
  <2>3. NoName # n
      BY DEF NoName, Name, NameSet
  <2>4. l.kind = "load" => Licensed(stage, n, l.file, l.as)
      BY <1>2, <2>2, <2>3 DEF Licensed
  <2> QED BY <2>2, <2>4 DEF LookupOK
<1>3. CASE n \notin DOMAIN registry /\ ~is_package_path(n) /\ n.kind = "file" /\ n.parts[1] \in DOMAIN world.forms
  <2>1. l.kind = "load" /\ l.file = n.parts[1] /\ l.env = e /\ l.as = NoName
      BY <1>3, FoundIs DEF load_module
  <2>2. l.file \in FilesOf(n)
      BY <1>3, <2>1 DEF FilesOf
  <2>3. Licensed(stage, n, l.file, l.as)
      BY <1>3, <2>1, <2>2 DEF Licensed
  <2> QED BY <2>1, <2>3 DEF LookupOK
<1>4. CASE n \notin DOMAIN registry /\ ~is_package_path(n) /\ ~(n.kind = "file" /\ n.parts[1] \in DOMAIN world.forms)
  <2>1. l = Raise("KeyError", e)
      BY <1>4 DEF load_module
  <2>2. l.kind = "KeyError" /\ l.env = e
      BY <2>1, RaiseIs
  <2> QED BY <2>2 DEF LookupOK
<1> QED BY <1>1, <1>2, <1>3, <1>4

LEMMA ResolveKnown ==
    ASSUME world \in Worlds, RegistryOK, NEW n \in NameSet, NEW e, EnvOK(e), NEW stage \in {"lower", "scope"},
           NEW l, l = resolve_known_module(n, e)
    PROVE  LookupOK(stage, n, l)
<1>1. CASE n \in DOMAIN e.source
  <2>1. l.kind = "module" /\ l.module = e.source[n] /\ l.env = e
      BY <1>1, FoundIs DEF resolve_known_module
  <2>2. Known(n, e.source[n]) /\ e.source \in Bindings
      BY <1>1 DEF EnvOK, Envs
  <2>3. e.source[n] \in Mods
      BY <1>1, <2>2, BindingsAre
  <2> QED BY <2>1, <2>2, <2>3 DEF LookupOK
<1>2. CASE n \notin DOMAIN e.source /\ is_package_path(n)
  <2>1. l = _resolve_package_module(n, e)
      BY <1>2 DEF resolve_known_module
  <2>2. /\ l.kind \in {"load", "KeyError", "FileNotFoundError", "NotInGraph"} /\ Searched(e, l.env)
        /\ l.kind = "load" => l.as = n /\ Licensed("lower", n, l.file, n)
      BY <1>2, <2>1, LoaderPackage DEF EnvOK
  <2>3. l.kind = "load" => Licensed(stage, n, l.file, l.as)
      BY <2>2 DEF Licensed
  <2>4. EnvOK(l.env)
      BY <2>2 DEF EnvOK, Searched
  <2> QED BY <2>2, <2>3, <2>4 DEF LookupOK
<1>3. CASE n \notin DOMAIN e.source /\ ~is_package_path(n)
  <2>1. l = load_module(n, e)
      BY <1>3 DEF resolve_known_module
  <2>2. stage \in Stages
      BY DEF Stages
  <2> QED BY <1>3, <2>1, <2>2, LoadModule
<1> QED BY <1>1, <1>2, <1>3

LEMMA ResolveMacros ==
    ASSUME world \in Worlds, RegistryOK, NEW n \in NameSet, NEW e, EnvOK(e),
           NEW l, l = _resolve_module_macros(n, e)
    PROVE  LookupOK("expand", n, l)
<1>1. CASE n \in e.macros
  <2>1. l.kind = "module" /\ l.module = NoModule /\ l.env = e
      BY <1>1, FoundIs DEF _resolve_module_macros
  <2> QED BY <2>1, ModuleIs DEF LookupOK
<1>2. CASE n \notin e.macros
  <2>1. l = load_module(n, e)
      BY <1>2 DEF _resolve_module_macros
  <2>2. "expand" \in Stages
      BY DEF Stages
  <2> QED BY <2>1, <2>2, LoadModule
<1> QED BY <1>1, <1>2

-----------------------------------------------------------------------------
(* The evaluations. *)

FormOf(fr) == Forms(fr.file)[fr.ix]
AtFrom(fr) == fr.ix <= Len(Forms(fr.file)) /\ FormOf(fr).op = "from"
\* An evaluation: between the lowering and the run of a from form it holds the
\* module that the lowering resolved.
FrameOK(fr) ==
    /\ fr \in Frames /\ fr.file \in DOMAIN world.forms /\ fr.ix \in 1 .. Len(Forms(fr.file)) + 1
    /\ EnvOK(fr.env)
    /\ AtFrom(fr) /\ fr.stage \in {"scope", "run"} => Known(FormOf(fr).name, fr.compiled)
\* An evaluation waits in a from form for a file that the name leads to.
Waits(fr, callee) == AtFrom(fr) /\ Licensed(fr.stage, FormOf(fr).name, callee.file, callee.as)
StackOK(st) ==
    /\ st \in Seq(Frames) /\ \A j \in 1 .. Len(st) : FrameOK(st[j])
    /\ \A j \in 1 .. Len(st) - 1 : Waits(st[j], st[j + 1])

\* What a from form leaves behind when it ran.
EntryOK(d) ==
    /\ d.name \in NameSet /\ d.ran \in Meanings(d.name) /\ d.compiled \in Meanings(d.name)
    /\ d.bound \in Definitions(d.name) \cup {NoModule}
    /\ /\ is_package_path(d.name) /\ Definitions(d.name) = {}
       /\ (\A p, q \in Owners(d.name) : p = q) \/ Owners(d.name) \cap world.replaces = {}
       => Exported(d.name, d.ran.file)

\* None of this is undone by a registry that grows.
LEMMA Keeps ==
    ASSUME world' = world, DOMAIN registry \subseteq DOMAIN registry'
    PROVE  /\ \A e : EnvOK(e) => EnvOK(e)'
           /\ \A fr : (AtFrom(fr)' <=> AtFrom(fr)) /\ FormOf(fr)' = FormOf(fr)
           /\ \A fr : FrameOK(fr) => FrameOK(fr)'
           /\ \A fr, callee : Waits(fr, callee) => Waits(fr, callee)'
           /\ \A st : StackOK(st) => StackOK(st)'
           /\ \A d : EntryOK(d) => EntryOK(d)'
<1>1. \A e : EnvOK(e) => EnvOK(e)'
    BY WorldStays DEF EnvOK
<1>2. \A fr : (AtFrom(fr)' <=> AtFrom(fr)) /\ FormOf(fr)' = FormOf(fr)
    BY WorldStays DEF AtFrom, FormOf
<1>3. \A fr : FrameOK(fr) => FrameOK(fr)'
    BY <1>1, <1>2, WorldStays DEF FrameOK
<1>4. \A fr, callee : Waits(fr, callee) => Waits(fr, callee)'
    BY <1>2, WorldStays DEF Waits
<1>5. \A st : StackOK(st) => StackOK(st)'
    BY <1>3, <1>4 DEF StackOK
<1>6. \A d : EntryOK(d) => EntryOK(d)'
    BY WorldStays DEF EntryOK
<1> QED BY <1>1, <1>2, <1>3, <1>4, <1>5, <1>6

LEMMA EnvIs ==
    \A e : EnvOK(e) => /\ e \in Envs /\ e.source \in Bindings /\ e.bound \in Bindings
                       /\ e.macros \subseteq NameSet /\ e.packages \subseteq Seq(STRING)
BY DEF EnvOK, Envs

\* A file that is reached over one package only.
LEMMA OneFile ==
    ASSUME NEW n, is_package_path(n), \A p, q \in Owners(n) : p = q,
           NEW f \in FilesOf(n), NEW g \in FilesOf(n)
    PROVE  f = g
<1>1. n.kind # "file"
    BY DEF is_package_path
<1>2. \A h \in FilesOf(n) : \E p \in Owners(n) : h = resolve_submodule(_load_package_for_module(p), Rest(n, p))
    BY <1>1 DEF FilesOf
<1>3. PICK p \in Owners(n) : f = resolve_submodule(_load_package_for_module(p), Rest(n, p))
    BY <1>2
<1>4. PICK q \in Owners(n) : g = resolve_submodule(_load_package_for_module(q), Rest(n, q))
    BY <1>2
<1>5. p = q
    OBVIOUS
<1> QED BY <1>3, <1>4, <1>5, Zenon

\* What the VM may have folded.
RanOK(n, m) ==
    /\ m \in Meanings(n)
    /\ is_package_path(n) /\ Definitions(n) = {} =>
         m.file \in FilesOf(n) /\ (Owners(n) \cap world.replaces = {} => Exported(n, m.file))

LEMMA Entry ==
    ASSUME world \in Worlds, NEW fr, FrameOK(fr), AtFrom(fr), fr.stage = "run", NEW n \in NameSet, n = FormOf(fr).name,
           NEW m, RanOK(n, m), NEW d, d.name = n, d.compiled = fr.compiled, d.ran = m,
           d.bound \in Definitions(n) \cup {NoModule}
    PROVE  EntryOK(d)
<1>1. Known(n, fr.compiled)
    BY DEF FrameOK
<1>2. ASSUME is_package_path(n), Definitions(n) = {}, \A p, q \in Owners(n) : p = q
      PROVE  Exported(n, m.file)
  <2>1. fr.compiled \in Meanings(n) /\ Exported(n, fr.compiled.file)
      BY <1>1, <1>2 DEF Known
  <2>2. n \notin world.builtins
      BY <1>2, WorldIs DEF IsWorld
  <2>3. PICK f \in FilesOf(n) : fr.compiled = FileModule(f)
      BY <1>2, <2>1, <2>2 DEF Meanings
  <2>4. fr.compiled.file = f
      BY <2>3, FilesAre, FileModuleIs
  <2>5. m.file = f
      BY <1>2, OneFile DEF RanOK
  <2> QED BY <2>1, <2>4, <2>5
<1>3. fr.compiled \in Meanings(n) /\ m \in Meanings(n)
    BY <1>1 DEF Known, RanOK
<1>4. ASSUME is_package_path(n), Definitions(n) = {}, Owners(n) \cap world.replaces = {}
      PROVE  Exported(n, m.file)
    BY <1>4 DEF RanOK
<1> QED BY <1>2, <1>3, <1>4 DEF EntryOK

-----------------------------------------------------------------------------
(* The stack. *)

LEMMA NextFormIs ==
    ASSUME world \in Worlds, NEW fr, FrameOK(fr), fr.ix <= Len(Forms(fr.file)), NEW g, g = NextForm(fr)
    PROVE  FrameOK(g) /\ g.file = fr.file /\ g.as = fr.as
<1>1. fr \in Frames /\ Len(Forms(fr.file)) \in Nat
    BY FormsAre DEF FrameOK
<1>2. "expand" \in Stages /\ NoModule \in Mods
    BY ModuleIs DEF Stages
<1>3. fr.ix \in Nat
    BY <1>1 DEF Frames
<1>6. PICK k \in Nat : k = fr.ix + 1
    BY <1>3
<1>7. PICK s \in Stages : s = "expand"
    BY <1>2
<1>8. PICK c \in Mods : c = NoModule
    BY <1>2
<1>9. g = [fr EXCEPT !.ix = k, !.stage = s, !.compiled = c]
    BY <1>6, <1>7, <1>8 DEF NextForm
<1>10. /\ g \in Frames /\ g.file = fr.file /\ g.as = fr.as /\ g.env = fr.env
       /\ g.ix = k /\ g.stage = s
    BY <1>1, <1>9 DEF Frames
<1>4. /\ g \in Frames /\ g.file = fr.file /\ g.as = fr.as /\ g.env = fr.env
      /\ g.ix = fr.ix + 1 /\ g.stage = "expand"
    BY <1>6, <1>7, <1>10
<1>5. g.ix \in 1 .. Len(Forms(g.file)) + 1
    BY <1>1, <1>3, <1>4
<1> QED BY <1>4, <1>5 DEF FrameOK

LEMMA DeliverIs ==
    ASSUME world \in Worlds, NEW fr, FrameOK(fr), AtFrom(fr), NEW m \in Mods,
           fr.stage = "lower" => Known(FormOf(fr).name, m), NEW g, g = Deliver(fr, m)
    PROVE  FrameOK(g) /\ g.file = fr.file /\ g.as = fr.as
<1>1. fr \in Frames /\ fr.stage \in Stages
    BY DEF FrameOK, Frames
<1>2. CASE fr.stage = "run"
    BY <1>2, NextFormIs DEF Deliver, AtFrom
<1>3. CASE fr.stage # "run"
  <2>1. /\ fr.stage = "expand" => After[fr.stage] = "lower"
        /\ fr.stage = "lower" => After[fr.stage] = "scope"
        /\ fr.stage = "scope" => After[fr.stage] = "run"
      BY DEF After
  <2>2. PICK c : c = IF fr.stage = "lower" THEN m ELSE fr.compiled
      OBVIOUS
  <2>3. PICK s : s = After[fr.stage]
      OBVIOUS
  <2>4. c \in Mods /\ s \in Stages
      BY <1>1, <1>3, <2>1, <2>2, <2>3 DEF Frames, Stages
  <2>5. g = [fr EXCEPT !.stage = s, !.compiled = c]
      BY <1>3, <2>2, <2>3 DEF Deliver
  <2>6. /\ g \in Frames /\ g.file = fr.file /\ g.as = fr.as /\ g.env = fr.env
        /\ g.ix = fr.ix /\ g.stage = s /\ g.compiled = c
      BY <1>1, <2>4, <2>5 DEF Frames
  <2>7. (AtFrom(g) <=> AtFrom(fr)) /\ FormOf(g) = FormOf(fr)
      BY <2>6 DEF AtFrom, FormOf
  <2>8. ASSUME s \in {"scope", "run"} PROVE Known(FormOf(fr).name, c)
    <3>1. CASE fr.stage = "lower"
        BY <2>2, <3>1
    <3>2. CASE fr.stage = "scope"
      <4>1. Known(FormOf(fr).name, fr.compiled)
          BY <3>2 DEF FrameOK
      <4>2. c = fr.compiled
          BY <2>2, <3>2
      <4> QED BY <4>1, <4>2
    <3>3. fr.stage # "expand"
        BY <2>1, <2>3, <2>8
    <3> QED BY <1>1, <1>3, <3>1, <3>2, <3>3 DEF Stages
  <2>9. /\ g.file \in DOMAIN world.forms /\ g.ix \in 1 .. Len(Forms(g.file)) + 1 /\ EnvOK(g.env)
      BY <2>6 DEF FrameOK
  <2>10. AtFrom(g) /\ g.stage \in {"scope", "run"} => Known(FormOf(g).name, g.compiled)
      BY <2>6, <2>7, <2>8
  <2> QED BY <2>6, <2>9, <2>10 DEF FrameOK
<1> QED BY <1>2, <1>3

LEMMA Prefix ==
    ASSUME NEW st, StackOK(st), NEW n \in 0 .. Len(st), NEW t, t = SubSeq(st, 1, n)
    PROVE  StackOK(t) /\ Len(t) = n /\ \A j \in 1 .. n : t[j] = st[j]
<1>1. st \in Seq(Frames) /\ Len(st) \in Nat
    BY LenProperties DEF StackOK
<1>2. t \in Seq(Frames) /\ Len(t) = n /\ \A j \in 1 .. n : t[j] = st[j]
    BY <1>1, SubSeqProperties
<1>3. \A j \in 1 .. n : FrameOK(t[j])
    BY <1>1, <1>2 DEF StackOK
<1>4. ASSUME NEW j \in 1 .. n - 1 PROVE Waits(t[j], t[j + 1])
  <2>1. j \in 1 .. n /\ j + 1 \in 1 .. n /\ j \in 1 .. Len(st) - 1
      BY <1>1
  <2>2. t[j] = st[j] /\ t[j + 1] = st[j + 1]
      BY <1>2, <2>1
  <2>3. Waits(st[j], st[j + 1])
      BY <2>1 DEF StackOK
  <2> QED BY <2>2, <2>3
<1> QED BY <1>2, <1>3, <1>4 DEF StackOK

LEMMA Pushed ==
    ASSUME NEW st, StackOK(st), NEW fr, FrameOK(fr), st # <<>> => Waits(st[Len(st)], fr),
           NEW t, t = Append(st, fr)
    PROVE  StackOK(t) /\ Len(t) = Len(st) + 1 /\ t[Len(t)] = fr
<1>1. st \in Seq(Frames) /\ Len(st) \in Nat /\ fr \in Frames
    BY LenProperties DEF StackOK, FrameOK
<1>2. /\ t \in Seq(Frames) /\ Len(t) = Len(st) + 1 /\ t[Len(st) + 1] = fr
      /\ \A j \in 1 .. Len(st) : t[j] = st[j]
    BY <1>1, AppendProperties
<1>3. ASSUME NEW j \in 1 .. Len(t) PROVE FrameOK(t[j])
  <2>1. CASE j = Len(t)
      BY <1>2, <2>1
  <2>2. CASE j # Len(t)
    <3>1. j \in 1 .. Len(st)
        BY <1>1, <1>2, <2>2
    <3> QED BY <1>2, <3>1 DEF StackOK
  <2> QED BY <2>1, <2>2
<1>4. ASSUME NEW j \in 1 .. Len(t) - 1 PROVE Waits(t[j], t[j + 1])
  <2>1. j \in 1 .. Len(st) /\ t[j] = st[j]
      BY <1>1, <1>2
  <2>2. CASE j = Len(st)
    <3>1. st # <<>>
        BY <1>1, <2>1, EmptySeq
    <3> QED BY <1>2, <2>1, <2>2, <3>1
  <2>3. CASE j # Len(st)
    <3>1. j + 1 \in 1 .. Len(st) /\ j \in 1 .. Len(st) - 1
        BY <1>1, <2>1, <2>3
    <3> QED BY <1>2, <2>1, <3>1 DEF StackOK
  <2> QED BY <2>2, <2>3
<1> QED BY <1>2, <1>3, <1>4 DEF StackOK

-----------------------------------------------------------------------------
(* The inductive invariant. *)

IInv ==
    /\ world \in Worlds /\ RegistryOK
    /\ StackOK(stack) /\ Len(stack) <= MaxDepth
    /\ \A d \in done : EntryOK(d)
    /\ CyclesOnlyExhaust

\* The frame on top, and the frames below it.
LEMMA TopIs ==
    ASSUME IInv, stack # <<>>
    PROVE  /\ Len(stack) \in Nat \ {0} /\ Top = stack[Len(stack)] /\ FrameOK(Top)
           /\ StackOK(Below) /\ Len(Below) = Len(stack) - 1
           /\ \A g : g.file = Top.file /\ g.as = Top.as /\ Below # <<>> => Waits(Below[Len(Below)], g)
           /\ Form = FormOf(Top)
           /\ Top.ix <= Len(Forms(Top.file)) => Form.name \in NameSet /\ Form.op \in {"from", "module"}
<1>1. StackOK(stack) /\ stack \in Seq(Frames)
    BY DEF IInv, StackOK
<1>2. Len(stack) \in Nat \ {0}
    BY <1>1, LenProperties, EmptySeq
<1>3. Top = stack[Len(stack)] /\ FrameOK(Top)
    BY <1>1, <1>2 DEF StackOK, Top
<1>4. Len(stack) - 1 \in 0 .. Len(stack)
    BY <1>2
<1>5. StackOK(Below) /\ Len(Below) = Len(stack) - 1 /\ \A j \in 1 .. Len(stack) - 1 : Below[j] = stack[j]
    BY <1>1, <1>4, Prefix DEF Below
<1>6. ASSUME NEW g, g.file = Top.file, g.as = Top.as, Below # <<>> PROVE Waits(Below[Len(Below)], g)
  <2>1. Below \in Seq(Frames)
      BY <1>5 DEF StackOK
  <2>2. Len(Below) # 0
      BY <1>6, <2>1, EmptySeq
  <2>3. Len(stack) - 1 \in 1 .. Len(stack) - 1
      BY <1>2, <1>5, <2>2
  <2>4. Waits(stack[Len(stack) - 1], stack[Len(stack) - 1 + 1])
      BY <1>1, <2>3 DEF StackOK
  <2>5. Waits(Below[Len(Below)], Top)
      BY <1>2, <1>3, <1>5, <2>3, <2>4
  <2> QED BY <1>6, <2>5 DEF Waits
<1>7. Form = FormOf(Top)
    BY DEF Form, FormOf
<1>8. ASSUME Top.ix <= Len(Forms(Top.file)) PROVE Form.name \in NameSet /\ Form.op \in {"from", "module"}
  <2>2. Top.file \in DOMAIN world.forms /\ Top.ix \in 1 .. Len(Forms(Top.file)) + 1
      BY <1>3 DEF FrameOK
  <2>3. Len(Forms(Top.file)) \in Nat
      BY <2>2, FormsAre DEF IInv
  <2>1. Top.file \in DOMAIN world.forms /\ Top.ix \in 1 .. Len(Forms(Top.file))
      BY <1>8, <2>2, <2>3
  <2> QED BY <1>7, <2>1, FormsAre DEF FormOf, IInv
<1> QED BY <1>2, <1>3, <1>5, <1>6, <1>7, <1>8

\* The same frame with another environment.
LEMMA WithEnv ==
    ASSUME NEW fr, FrameOK(fr), NEW e, EnvOK(e), NEW g, g = [fr EXCEPT !.env = e]
    PROVE  /\ FrameOK(g) /\ g.file = fr.file /\ g.as = fr.as /\ g.stage = fr.stage /\ g.ix = fr.ix
           /\ g.compiled = fr.compiled /\ g.env = e /\ (AtFrom(g) <=> AtFrom(fr)) /\ FormOf(g) = FormOf(fr)
<1>1. fr \in Frames /\ e \in Envs
    BY DEF FrameOK, EnvOK
<1>2. /\ g \in Frames /\ g.file = fr.file /\ g.as = fr.as /\ g.stage = fr.stage /\ g.ix = fr.ix
      /\ g.compiled = fr.compiled /\ g.env = e
    BY <1>1 DEF Frames
<1>3. (AtFrom(g) <=> AtFrom(fr)) /\ FormOf(g) = FormOf(fr)
    BY <1>2 DEF AtFrom, FormOf
<1>4. FrameOK(g)
    BY <1>2, <1>3 DEF FrameOK
<1> QED BY <1>2, <1>3, <1>4

LEMMA EmptyEnv == EnvOK(standard_environment)
<1>1. Empty \in Bindings /\ DOMAIN Empty = {}
    BY BindingsAre DEF Empty
<1>2. standard_environment \in Envs
    BY <1>1 DEF standard_environment, Envs
<1> QED BY <1>1, <1>2 DEF standard_environment, EnvOK

LEMMA NewFrame ==
    ASSUME world \in Worlds, NEW f \in DOMAIN world.forms, NEW nm \in NameSet \cup {NoName}, NEW g, g = Frame(f, nm)
    PROVE  FrameOK(g) /\ g.file = f /\ g.as = nm
<1>1. PICK e \in Envs : e = standard_environment
    BY EmptyEnv DEF EnvOK
<1>2. f \in Files /\ Len(Forms(f)) \in Nat /\ NoModule \in Mods /\ "expand" \in Stages
    BY FormsAre, ModuleIs DEF Stages
<1>3. PICK c \in Mods : c = NoModule
    BY <1>2
<1>4. g = [file |-> f, ix |-> 1, stage |-> "expand", env |-> e, compiled |-> c, as |-> nm]
    BY <1>1, <1>3 DEF Frame
<1>5. g \in Frames /\ g.file = f /\ g.as = nm /\ g.ix = 1 /\ g.stage = "expand" /\ g.env = e
    BY <1>2, <1>4 DEF Frames
<1>6. g.ix \in 1 .. Len(Forms(g.file)) + 1
    BY <1>2, <1>5
<1>7. EnvOK(g.env)
    BY <1>1, <1>5, EmptyEnv
<1> QED BY <1>5, <1>6, <1>7 DEF FrameOK

-----------------------------------------------------------------------------
(* The stack is exhausted only in a cycle. *)

LEMMA WaitsImports ==
    ASSUME world \in Worlds, NEW fr, FrameOK(fr), NEW g, Waits(fr, g)
    PROVE  g.file \in Imports(fr.file) /\ g.file \in DOMAIN world.forms
<1> DEFINE n == FormOf(fr).name
<1>1. Len(Forms(fr.file)) \in Nat /\ fr.file \in DOMAIN world.forms /\ fr.ix \in 1 .. Len(Forms(fr.file)) + 1
    BY FormsAre DEF FrameOK
<1>2. fr.ix \in 1 .. Len(Forms(fr.file)) /\ Forms(fr.file)[fr.ix].op = "from"
    BY <1>1 DEF Waits, AtFrom, FormOf
<1>3. n \in NameSet /\ n = Forms(fr.file)[fr.ix].name
    BY <1>1, <1>2, FormsAre DEF FormOf
<1>4. g.file \in FilesOf(n)
    BY DEF Waits, Licensed
<1>5. g.file \in Leads(n) /\ g.file \in DOMAIN world.forms
    BY <1>3, <1>4, FilesAre
<1> HIDE DEF n
<1>6. g.file \in Imports(fr.file)
    BY <1>2, <1>3, <1>5 DEF Imports
<1> QED BY <1>5, <1>6

LEMMA FullStack ==
    ASSUME IInv, Len(stack) >= MaxDepth
    PROVE  Cyclic
<1> DEFINE D == DOMAIN world.forms
           S == 1 .. Len(stack)
<1>1. IsFiniteSet(D) /\ Cardinality(D) < MaxDepth /\ Cardinality(D) \in Nat /\ MaxDepth \in Nat
    BY WorldIs, WorldsAssumption, FS_CardinalityType DEF IsWorld, IInv
<1>2. stack \in Seq(Frames) /\ Len(stack) \in Nat
    BY LenProperties DEF IInv, StackOK
<1>3. IsFiniteSet(S) /\ Cardinality(S) = Len(stack)
  <2>1. 1 \in Int /\ Len(stack) \in Int
      BY <1>2
  <2>2. IsFiniteSet(1 .. Len(stack)) /\ Cardinality(1 .. Len(stack)) = IF 1 > Len(stack) THEN 0 ELSE Len(stack) - 1 + 1
      BY <2>1, FS_Interval
  <2> QED BY <1>2, <2>2
<1>4. \A k \in S : FrameOK(stack[k]) /\ stack[k].file \in D
    BY DEF IInv, StackOK, FrameOK
<1> DEFINE files == [k \in S |-> stack[k].file]
<1>5. files \in [S -> D]
    BY <1>4
<1>6. Cardinality(D) < Cardinality(S)
    BY <1>1, <1>2, <1>3
<1> HIDE DEF D, S, files
<1>7. PICK x \in S, y \in S : x # y /\ files[x] = files[y]
    BY <1>1, <1>3, <1>5, <1>6, FS_PigeonHole
<1>8. \E i \in S, j \in S : i < j /\ stack[i].file = stack[j].file
  <2>1. x \in Nat /\ y \in Nat /\ stack[x].file = stack[y].file
      BY <1>7 DEF S, files
  <2> QED BY <1>7, <2>1
<1>9. PICK i \in S, j \in S : i < j /\ stack[i].file = stack[j].file
    BY <1>8
<1> DEFINE C == {stack[k].file : k \in i .. j - 1}
<1>10. i \in Nat /\ j \in Nat /\ i >= 1 /\ j <= Len(stack)
    BY <1>2, <1>9 DEF S
<1>11. C \subseteq D /\ stack[i].file \in C
    BY <1>2, <1>4, <1>9, <1>10 DEF S
<1>12. ASSUME NEW f \in C PROVE Imports(f) \cap C # {}
  <2>1. PICK k \in i .. j - 1 : f = stack[k].file
      OBVIOUS
  <2>2. k \in 1 .. Len(stack) - 1 /\ k \in S
      BY <1>2, <1>10, <2>1 DEF S
  <2>3. Waits(stack[k], stack[k + 1])
      BY <2>2 DEF IInv, StackOK
  <2>4. stack[k + 1].file \in Imports(f)
      BY <1>4, <2>1, <2>2, <2>3, WaitsImports DEF IInv
  <2>5. stack[k + 1].file \in C
    <3>1. CASE k = j - 1
        BY <1>9, <1>10, <1>11, <3>1
    <3>2. CASE k # j - 1
      <4>1. k + 1 \in i .. j - 1
          BY <1>10, <3>2
      <4> QED BY <4>1
    <3> QED BY <3>1, <3>2
  <2> QED BY <2>4, <2>5
<1>13. C \in (SUBSET D) \ {{}}
    BY <1>11
<1> HIDE DEF C
<1>14. \E T \in (SUBSET D) \ {{}} : \A f \in T : Imports(f) \cap T # {}
    BY <1>12, <1>13
<1> QED BY <1>14 DEF Cyclic, D

-----------------------------------------------------------------------------
(* Every step preserves the invariant. *)

LEMMA RegistryKeeps ==
    ASSUME world' = world, registry' = registry, RegistryOK
    PROVE  RegistryOK'
BY WorldStays DEF RegistryOK

LEMMA Single ==
    ASSUME NEW fr, FrameOK(fr)
    PROVE  StackOK(<<fr>>) /\ Len(<<fr>>) = 1
<1>1. fr \in Frames
    BY DEF FrameOK
<1> QED BY <1>1 DEF StackOK

LEMMA RaiseStep ==
    ASSUME IInv, stack # <<>>, Top.ix <= Len(Forms(Top.file)), NEW e, EnvOK(e), NEW exc,
           exc = "exhausted" => Cyclic, RaiseError(exc, e)
    PROVE  IInv'
<1>1. /\ Len(stack) \in Nat \ {0} /\ Top = stack[Len(stack)] /\ FrameOK(Top) /\ world \in Worlds /\ RegistryOK
      /\ Len(stack) <= MaxDepth /\ MaxDepth \in Nat
    BY TopIs, WorldsAssumption DEF IInv
<1>2. PICK s : s = IF Len(stack) = 1 THEN [Top EXCEPT !.env = e] ELSE stack[1]
    OBVIOUS
<1>3. FrameOK(s) /\ s.ix <= Len(Forms(s.file))
  <2>1. CASE Len(stack) = 1
    <3>1. s = [Top EXCEPT !.env = e]
        BY <1>2, <2>1
    <3> QED BY <1>1, <3>1, WithEnv
  <2>2. CASE Len(stack) # 1
    <3>3. 1 \in 1 .. Len(stack) - 1 /\ 1 \in 1 .. Len(stack)
        BY <1>1, <2>2
    <3>4. s = stack[1]
        BY <1>2, <2>2
    <3>1. s = stack[1] /\ 1 \in 1 .. Len(stack) - 1 /\ 1 \in 1 .. Len(stack)
        BY <3>3, <3>4
    <3>2. FrameOK(stack[1]) /\ Waits(stack[1], stack[1 + 1])
        BY <3>1 DEF IInv, StackOK
    <3> QED BY <3>1, <3>2 DEF Waits, AtFrom
  <2> QED BY <2>1, <2>2
<1>4. PICK g : g = NextForm(s)
    OBVIOUS
<1>5. FrameOK(g)
    BY <1>1, <1>3, <1>4, NextFormIs
<1>6. /\ stack' = <<g>> /\ world' = world /\ registry' = registry /\ done' = done
      /\ errors' = errors \cup {[exc |-> exc, name |-> Form.name, depth |-> Len(stack)]}
    BY <1>2, <1>4 DEF RaiseError, NextForm
<1>7. PICK st : st = <<g>>
    OBVIOUS
<1>8. StackOK(st) /\ Len(st) = 1
    BY <1>5, <1>7, Single
<1>9. StackOK(st)' /\ \A d : EntryOK(d) => EntryOK(d)'
    BY <1>6, <1>8, Keeps
<1>10. StackOK(stack)' /\ (Len(stack) <= MaxDepth)'
    BY <1>1, <1>6, <1>7, <1>8, <1>9
<1>11. RegistryOK'
    BY <1>1, <1>6, RegistryKeeps
<1>12. CyclesOnlyExhaust'
  <2>1. Cyclic' <=> Cyclic
      BY <1>6, WorldStays
  <2>2. (\E x \in errors' : x.exc = "exhausted") => (\E x \in errors : x.exc = "exhausted") \/ exc = "exhausted"
      BY <1>6
  <2> QED BY <2>1, <2>2 DEF CyclesOnlyExhaust, IInv
<1>13. \A d \in done' : EntryOK(d)'
    BY <1>6, <1>9 DEF IInv
<1> QED BY <1>1, <1>6, <1>10, <1>11, <1>12, <1>13 DEF IInv

\* A frame in the place of the top one.
LEMMA Replaced ==
    ASSUME IInv, stack # <<>>, NEW g, FrameOK(g), g.file = Top.file, g.as = Top.as, NEW t, t = Append(Below, g)
    PROVE  StackOK(t) /\ Len(t) = Len(stack) /\ t[Len(t)] = g
<1>1. /\ StackOK(Below) /\ Len(Below) = Len(stack) - 1 /\ Len(stack) \in Nat
      /\ Below # <<>> => Waits(Below[Len(Below)], g)
    BY TopIs
<1>2. PICK b : b = Below
    OBVIOUS
<1>3. StackOK(b) /\ (b # <<>> => Waits(b[Len(b)], g)) /\ t = Append(b, g)
    BY <1>1, <1>2, Zenon
<1>4. StackOK(t) /\ Len(t) = Len(b) + 1
    BY <1>3, Pushed
<1>5. t[Len(t)] = g
    BY <1>3, Pushed
<1>6. Len(b) = Len(stack) - 1
    BY <1>1, <1>2
<1>7. Len(t) = Len(stack)
    BY <1>1, <1>4, <1>6
<1> QED BY <1>4, <1>5, <1>7

\* The parts of the invariant that a step without an error has to care for.
LEMMA Advance ==
    ASSUME IInv, world' = world, registry' = registry, errors' = errors,
           NEW t, StackOK(t), Len(t) <= MaxDepth, stack' = t,
           \A d \in done' : d \in done \/ EntryOK(d)
    PROVE  IInv'
<1>1. StackOK(t)' /\ \A d : EntryOK(d) => EntryOK(d)'
    BY Keeps
<1>2. StackOK(stack)' /\ (Len(stack) <= MaxDepth)'
    BY <1>1
<1>3. RegistryOK' /\ (Cyclic' <=> Cyclic)
    BY RegistryKeeps, WorldStays DEF IInv
<1>4. CyclesOnlyExhaust'
    BY <1>3 DEF CyclesOnlyExhaust, IInv
<1>5. \A d \in done' : EntryOK(d)'
    BY <1>1 DEF IInv
<1> QED BY <1>2, <1>3, <1>4, <1>5 DEF IInv

\* The history after the fold of a from form.
LEMMA CompletedIs ==
    ASSUME world \in Worlds, NEW fr, FrameOK(fr), AtFrom(fr), NEW form, form = FormOf(fr), form.name \in NameSet,
           NEW m, fr.stage = "run" => RanOK(form.name, m), Completed(fr, m, form)
    PROVE  \A d \in done' : d \in done \/ EntryOK(d)
<1>1. CASE fr.stage # "run"
    BY <1>1 DEF Completed
<1>2. CASE fr.stage = "run"
  <2> DEFINE n == form.name
  <2>1. PICK b : b = IF n \in DOMAIN fr.env.bound THEN fr.env.bound[n] ELSE NoModule
      OBVIOUS
  <2>2. PICK x : x = [name |-> n, compiled |-> fr.compiled, ran |-> m, file |-> fr.file, bound |-> b]
      OBVIOUS
  <2>3. done' = done \cup {x}
      BY <1>2, <2>1, <2>2 DEF Completed
  <2>4. x.name = n /\ x.compiled = fr.compiled /\ x.ran = m /\ x.bound = b
      BY <2>2
  <2>5. b \in Definitions(n) \cup {NoModule}
    <3>1. n \in DOMAIN fr.env.bound => fr.env.bound[n] \in Definitions(n)
        BY DEF FrameOK, EnvOK
    <3> QED BY <2>1, <3>1
  <2>6. EntryOK(x)
    <3>1. n = FormOf(fr).name /\ n \in NameSet /\ RanOK(n, m)
        BY <1>2
    <3> HIDE DEF n
    <3> QED BY <1>2, <2>4, <2>5, <3>1, Entry
  <2> QED BY <2>3, <2>6
<1> QED BY <1>1, <1>2

LEMMA FromStep ==
    ASSUME IInv, NEW stage \in Stages, NEW l, LookupOK(stage, Form.name, l), NEW goOn,
           "module" \notin goOn, "load" \notin goOn, goOn # {} => stage \in {"expand", "scope"},
           FromStage(stage, l, goOn)
    PROVE  IInv'
<1>1. stack # <<>> /\ Top.ix <= Len(Forms(Top.file)) /\ Form.op = "from" /\ Top.stage = stage
    BY DEF FromStage
<1>2. /\ Len(stack) \in Nat \ {0} /\ FrameOK(Top) /\ Form = FormOf(Top) /\ Form.name \in NameSet
      /\ StackOK(Below) /\ Len(Below) = Len(stack) - 1 /\ AtFrom(Top)
    BY <1>1, TopIs DEF AtFrom
<1>3. world \in Worlds /\ Len(stack) <= MaxDepth /\ MaxDepth \in Nat
    BY WorldsAssumption DEF IInv
<1>4. PICK fr : fr = [Top EXCEPT !.env = l.env]
    OBVIOUS
<1>5. EnvOK(l.env)
    BY DEF LookupOK
<1>6. /\ FrameOK(fr) /\ fr.file = Top.file /\ fr.as = Top.as /\ fr.stage = stage
      /\ AtFrom(fr) /\ FormOf(fr) = Form
    BY <1>1, <1>2, <1>4, <1>5, WithEnv
<1>7. PICK form : form = Form
    OBVIOUS
<1>8. \/ /\ l.kind = "module" /\ stack' = Append(Below, Deliver(fr, l.module)) /\ Completed(fr, l.module, form)
         /\ UNCHANGED <<world, registry, errors>>
      \/ /\ l.kind = "load" /\ Len(stack) < MaxDepth
         /\ stack' = Append(Append(Below, fr), Frame(l.file, l.as)) /\ UNCHANGED <<world, registry, done, errors>>
      \/ /\ l.kind \in goOn /\ stack' = Append(Below, Deliver(fr, NoModule))
         /\ UNCHANGED <<world, registry, done, errors>>
      \/ l.kind = "load" /\ Len(stack) >= MaxDepth /\ RaiseError("exhausted", l.env)
      \/ l.kind \notin goOn \cup {"module", "load"} /\ RaiseError(l.kind, l.env)
    BY <1>4, <1>7 DEF FromStage
<1>9. CASE /\ l.kind = "module" /\ stack' = Append(Below, Deliver(fr, l.module)) /\ Completed(fr, l.module, form)
           /\ UNCHANGED <<world, registry, errors>>
  <2>1. PICK g : g = Deliver(fr, l.module)
      OBVIOUS
  <2>2. l.module \in Mods /\ (stage = "lower" => Known(Form.name, l.module))
      BY <1>9 DEF LookupOK
  <2>3. FrameOK(g) /\ g.file = Top.file /\ g.as = Top.as
      BY <1>3, <1>6, <2>1, <2>2, DeliverIs
  <2>4. PICK t : t = Append(Below, g)
      OBVIOUS
  <2>5. StackOK(t) /\ Len(t) <= MaxDepth
      BY <1>1, <1>3, <2>3, <2>4, Replaced
  <2>6. stage = "run" => RanOK(Form.name, l.module)
      BY <1>9 DEF LookupOK, RanOK
  <2>7. \A d \in done' : d \in done \/ EntryOK(d)
      BY <1>2, <1>3, <1>6, <1>7, <1>9, <2>6, CompletedIs
  <2> QED BY <1>9, <2>1, <2>4, <2>5, <2>7, Advance
<1>10. CASE /\ l.kind = "load" /\ Len(stack) < MaxDepth
            /\ stack' = Append(Append(Below, fr), Frame(l.file, l.as)) /\ UNCHANGED <<world, registry, done, errors>>
  <2>1. PICK g : g = Frame(l.file, l.as)
      OBVIOUS
  <2>2. Licensed(stage, Form.name, l.file, l.as)
      BY <1>10 DEF LookupOK
  <2>3. l.file \in FilesOf(Form.name) /\ l.as \in NameSet \cup {NoName}
      BY <1>2, <2>2 DEF Licensed
  <2>4. l.file \in DOMAIN world.forms
      BY <1>2, <1>3, <2>3, FilesAre
  <2>5. FrameOK(g) /\ g.file = l.file /\ g.as = l.as
      BY <1>3, <2>1, <2>3, <2>4, NewFrame
  <2>6. Waits(fr, g)
      BY <1>6, <2>2, <2>5 DEF Waits
  <2>7. PICK u : u = Append(Below, fr)
      OBVIOUS
  <2>8. StackOK(u) /\ Len(u) = Len(stack) /\ u[Len(u)] = fr
      BY <1>1, <1>6, <2>7, Replaced
  <2>9. PICK t : t = Append(u, g)
      OBVIOUS
  <2>10. StackOK(t) /\ Len(t) = Len(u) + 1
      BY <2>5, <2>6, <2>8, <2>9, Pushed
  <2>11. Len(t) <= MaxDepth /\ stack' = t
      BY <1>2, <1>3, <1>10, <2>1, <2>7, <2>8, <2>9, <2>10
  <2> QED BY <1>10, <2>10, <2>11, Advance
<1>11. CASE /\ l.kind \in goOn /\ stack' = Append(Below, Deliver(fr, NoModule))
            /\ UNCHANGED <<world, registry, done, errors>>
  <2>1. PICK g : g = Deliver(fr, NoModule)
      OBVIOUS
  <2>2. NoModule \in Mods /\ stage # "lower"
      BY <1>11, ModuleIs
  <2>3. FrameOK(g) /\ g.file = Top.file /\ g.as = Top.as
      BY <1>3, <1>6, <2>1, <2>2, DeliverIs
  <2>4. PICK t : t = Append(Below, g)
      OBVIOUS
  <2>5. StackOK(t) /\ Len(t) <= MaxDepth
      BY <1>1, <1>3, <2>3, <2>4, Replaced
  <2> QED BY <1>11, <2>1, <2>4, <2>5, Advance
<1>12. CASE l.kind = "load" /\ Len(stack) >= MaxDepth /\ RaiseError("exhausted", l.env)
    BY <1>1, <1>5, <1>12, FullStack, RaiseStep
<1>13. CASE l.kind \notin goOn \cup {"module", "load"} /\ RaiseError(l.kind, l.env)
  <2>1. l.kind # "exhausted"
      BY DEF LookupOK
  <2> QED BY <1>1, <1>5, <1>13, <2>1, RaiseStep
<1> QED BY <1>8, <1>9, <1>10, <1>11, <1>12, <1>13

LEMMA ExpandStep == ASSUME IInv, ExpandFrom PROVE IInv'
<1>1. FromStage("expand", _resolve_module_macros(Form.name, Top.env), {"KeyError"})
    BY DEF ExpandFrom
<1>2. stack # <<>> /\ Top.ix <= Len(Forms(Top.file))
    BY <1>1 DEF FromStage
<1>3. EnvOK(Top.env) /\ Form.name \in NameSet /\ world \in Worlds /\ RegistryOK
    BY <1>2, TopIs DEF IInv, FrameOK
<1>4. PICK l : l = _resolve_module_macros(Form.name, Top.env)
    OBVIOUS
<1>5. LookupOK("expand", Form.name, l)
    BY <1>3, <1>4, ResolveMacros
<1>6. PICK goOn : goOn = {"KeyError"}
    OBVIOUS
<1>7. FromStage("expand", l, goOn)
    BY <1>1, <1>4, <1>6, Zenon
<1>8. "module" \notin goOn /\ "load" \notin goOn /\ "expand" \in Stages
    BY <1>6 DEF Stages
<1> QED BY <1>5, <1>7, <1>8, FromStep

LEMMA LowerStep == ASSUME IInv, LowerFrom PROVE IInv'
<1>1. FromStage("lower", resolve_known_module(Form.name, Top.env), {})
    BY DEF LowerFrom
<1>2. stack # <<>> /\ Top.ix <= Len(Forms(Top.file))
    BY <1>1 DEF FromStage
<1>3. EnvOK(Top.env) /\ Form.name \in NameSet /\ world \in Worlds /\ RegistryOK
    BY <1>2, TopIs DEF IInv, FrameOK
<1>4. PICK l : l = resolve_known_module(Form.name, Top.env)
    OBVIOUS
<1>5. LookupOK("lower", Form.name, l)
    BY <1>3, <1>4, ResolveKnown
<1>6. FromStage("lower", l, {})
    BY <1>1, <1>4, Zenon
<1>7. "lower" \in Stages
    BY DEF Stages
<1> QED BY <1>5, <1>6, <1>7, FromStep

LEMMA ScopeStep == ASSUME IInv, ScopeFrom PROVE IInv'
<1>1. FromStage("scope", resolve_known_module(Form.name, Top.env), {"KeyError", "NotInGraph"})
    BY DEF ScopeFrom
<1>2. stack # <<>> /\ Top.ix <= Len(Forms(Top.file))
    BY <1>1 DEF FromStage
<1>3. EnvOK(Top.env) /\ Form.name \in NameSet /\ world \in Worlds /\ RegistryOK
    BY <1>2, TopIs DEF IInv, FrameOK
<1>4. PICK l : l = resolve_known_module(Form.name, Top.env)
    OBVIOUS
<1>5. LookupOK("scope", Form.name, l)
    BY <1>3, <1>4, ResolveKnown
<1>6. PICK goOn : goOn = {"KeyError", "NotInGraph"}
    OBVIOUS
<1>7. FromStage("scope", l, goOn)
    BY <1>1, <1>4, <1>6, Zenon
<1>8. "module" \notin goOn /\ "load" \notin goOn /\ "scope" \in Stages
    BY <1>6 DEF Stages
<1> QED BY <1>5, <1>7, <1>8, FromStep

LEMMA RunStep == ASSUME IInv, RunFrom PROVE IInv'
<1>1. FromStage("run", load_module(Form.name, Top.env), {})
    BY DEF RunFrom
<1>2. stack # <<>> /\ Top.ix <= Len(Forms(Top.file))
    BY <1>1 DEF FromStage
<1>3. EnvOK(Top.env) /\ Form.name \in NameSet /\ world \in Worlds /\ RegistryOK
    BY <1>2, TopIs DEF IInv, FrameOK
<1>4. PICK l : l = load_module(Form.name, Top.env)
    OBVIOUS
<1>5. "run" \in Stages
    BY DEF Stages
<1>6. LookupOK("run", Form.name, l)
    BY <1>3, <1>4, <1>5, LoadModule
<1>7. FromStage("run", l, {})
    BY <1>1, <1>4, Zenon
<1> QED BY <1>5, <1>6, <1>7, FromStep

\* The module of a form is one of the meanings of its name.
LEMMA Defined ==
    ASSUME IInv, stack # <<>>, Top.ix <= Len(Forms(Top.file)), Form.op = "module",
           NEW m, m = Module(Top.file, Top.ix), NEW n, n = Form.name
    PROVE  /\ m \in Definitions(n) /\ Known(n, m) /\ m \in Mods /\ n \in NameSet /\ n \in Names
           /\ Top.file \in DOMAIN world.forms
<1>1. FrameOK(Top) /\ Form = FormOf(Top) /\ world \in Worlds /\ n \in NameSet
    BY TopIs DEF IInv
<1>2. Top.file \in DOMAIN world.forms /\ Top.ix \in 1 .. Len(Forms(Top.file)) + 1 /\ Len(Forms(Top.file)) \in Nat
    BY <1>1, FormsAre DEF FrameOK
<1>3. Top.ix \in 1 .. Len(Forms(Top.file))
    BY <1>2
<1>4. m \in Definitions(n)
    BY <1>1, <1>2, <1>3, DefinitionsAre DEF FormOf
<1>5. m \in Mods
    BY <1>1, <1>4, DefinitionsAre
<1>6. Known(n, m)
    BY <1>4 DEF Known, Meanings
<1>7. n \in Names
  <2>1. <<Top.file, Top.ix>> \in Places
      BY <1>1, <1>2, <1>3, FormsAre
  <2>2. PICK q \in Places : q[1] = Top.file /\ q[2] = Top.ix
      BY <2>1
  <2>3. n = Forms(q[1])[q[2]].name
      BY <1>1, <2>2 DEF FormOf
  <2> QED BY <2>3 DEF Names
<1> QED BY <1>1, <1>2, <1>4, <1>5, <1>6, <1>7

LEMMA PutSource ==
    ASSUME NEW e, EnvOK(e), NEW n \in NameSet, NEW m \in Mods, Known(n, m), NEW b, b = Put(e.source, n, m)
    PROVE  b \in Bindings /\ \A k \in DOMAIN b : Known(k, b[k])
<1>1. e.source \in Bindings
    BY EnvIs
<1>2. PICK f \in Bindings : f = e.source
    BY <1>1
<1>3. b = Put(f, n, m)
    BY <1>2
<1>4. b \in Bindings /\ DOMAIN b = DOMAIN f \cup {n} /\ b[n] = m /\ \A k \in DOMAIN f : k # n => b[k] = f[k]
    BY <1>3, PutIs
<1>5. \A k \in DOMAIN f : Known(k, f[k])
    BY <1>2 DEF EnvOK
<1> QED BY <1>4, <1>5

LEMMA CompileStep == ASSUME IInv, CompileModule PROVE IInv'
<1>1. /\ stack # <<>> /\ Top.ix <= Len(Forms(Top.file)) /\ Form.op = "module"
      /\ world' = world /\ done' = done /\ registry' = registry /\ errors' = errors
    BY DEF CompileModule, SetTop
<1>2. PICK e : e = Top.env
    OBVIOUS
<1>3. PICK n : n = Form.name
    OBVIOUS
<1>4. PICK m : m = Module(Top.file, Top.ix)
    OBVIOUS
<1>5. PICK src : src = IF n \in DOMAIN e.source THEN e.source ELSE Put(e.source, n, m)
    OBVIOUS
<1>6. PICK ms : ms = e.macros \cup {n}
    OBVIOUS
<1>7. PICK e2 : e2 = [e EXCEPT !.source = src, !.macros = ms]
    OBVIOUS
<1>8. PICK g : g = [Top EXCEPT !.stage = "run", !.env = e2]
    OBVIOUS
<1>9. stack' = Append(Below, g)
    BY <1>2, <1>3, <1>4, <1>5, <1>6, <1>7, <1>8 DEF CompileModule, SetTop
<1>10. /\ FrameOK(Top) /\ Form = FormOf(Top) /\ Known(n, m) /\ m \in Mods /\ n \in NameSet
       /\ Len(stack) <= MaxDepth /\ EnvOK(e)
    BY <1>1, <1>2, <1>3, <1>4, TopIs, Defined DEF IInv, FrameOK
<1>11. src \in Bindings /\ \A k \in DOMAIN src : Known(k, src[k])
  <2>1. CASE n \in DOMAIN e.source
    <3>1. src = e.source
        BY <1>5, <2>1
    <3> QED BY <1>10, <3>1, EnvIs DEF EnvOK
  <2>2. CASE n \notin DOMAIN e.source
    <3>1. src = Put(e.source, n, m)
        BY <1>5, <2>2
    <3> QED BY <1>10, <3>1, PutSource
  <2> QED BY <2>1, <2>2
<1>12. ms \in SUBSET NameSet /\ e \in Envs
    BY <1>6, <1>10, EnvIs
<1>13. e2 \in Envs /\ e2.source = src /\ e2.bound = e.bound /\ e2.packages = e.packages
    BY <1>7, <1>11, <1>12 DEF Envs
<1>14. EnvOK(e2)
    BY <1>10, <1>11, <1>13 DEF EnvOK
<1>15. PICK s \in Stages : s = "run"
    BY DEF Stages
<1>16. Top \in Frames /\ g = [Top EXCEPT !.stage = s, !.env = e2]
    BY <1>8, <1>10, <1>15 DEF FrameOK
<1>17. g \in Frames /\ g.file = Top.file /\ g.as = Top.as /\ g.ix = Top.ix /\ g.env = e2
    BY <1>13, <1>16 DEF Frames
<1>18. FormOf(g) = Form /\ ~AtFrom(g)
    BY <1>1, <1>10, <1>17 DEF FormOf, AtFrom
<1>19. FrameOK(g)
    BY <1>10, <1>14, <1>17, <1>18 DEF FrameOK
<1>20. PICK t : t = Append(Below, g)
    OBVIOUS
<1>21. StackOK(t) /\ Len(t) = Len(stack)
    BY <1>1, <1>17, <1>19, <1>20, Replaced
<1>22. stack' = t /\ Len(t) <= MaxDepth
    BY <1>9, <1>10, <1>20, <1>21
<1> QED BY <1>1, <1>21, <1>22, Advance

LEMMA ReturnStep == ASSUME IInv, Return PROVE IInv'
<1>1. Len(stack) > 1 /\ world' = world /\ registry' = registry /\ errors' = errors
    BY DEF Return
<1>2. StackOK(stack) /\ stack \in Seq(Frames) /\ Len(stack) \in Nat /\ Len(stack) <= MaxDepth /\ world \in Worlds
    BY LenProperties DEF IInv, StackOK
<1>3. PICK caller : caller = stack[Len(stack) - 1]
    OBVIOUS
<1>4. PICK top : top = Top
    OBVIOUS
<1>5. PICK m : m = FileModule(top.file)
    OBVIOUS
<1>6. PICK form : form = Forms(caller.file)[caller.ix]
    OBVIOUS
<1>7. PICK fr : fr = IF top.as = NoName THEN caller ELSE [caller EXCEPT !.env.source = Put(@, top.as, m)]
    OBVIOUS
<1>8. PICK g : g = Deliver(fr, m)
    OBVIOUS
<1>9. stack' = Append(SubSeq(stack, 1, Len(stack) - 2), g) /\ Completed(fr, m, form)
    BY <1>3, <1>4, <1>5, <1>6, <1>7, <1>8 DEF Return
<1>10. /\ Len(stack) - 1 \in 1 .. Len(stack) - 1 /\ Len(stack) - 1 \in 1 .. Len(stack)
       /\ Len(stack) \in 1 .. Len(stack) /\ Len(stack) - 1 + 1 = Len(stack)
    BY <1>1, <1>2
<1>11. FrameOK(caller) /\ FrameOK(top) /\ top = stack[Len(stack)]
    BY <1>2, <1>3, <1>4, <1>10 DEF StackOK, Top
<1>12. Waits(stack[Len(stack) - 1], stack[Len(stack) - 1 + 1])
    BY <1>2, <1>10 DEF StackOK
<1>13. Waits(caller, top)
    BY <1>3, <1>10, <1>11, <1>12
<1>14. PICK n : n = form.name
    OBVIOUS
<1>15. form = FormOf(caller) /\ AtFrom(caller) /\ Licensed(caller.stage, n, top.file, top.as)
    BY <1>6, <1>13, <1>14 DEF Waits, FormOf
<1>16. n \in NameSet
  <2>1. caller.file \in DOMAIN world.forms /\ caller.ix \in 1 .. Len(Forms(caller.file)) + 1
        /\ Len(Forms(caller.file)) \in Nat
      BY <1>2, <1>11, FormsAre DEF FrameOK
  <2>2. caller.ix \in 1 .. Len(Forms(caller.file))
      BY <1>15, <2>1 DEF AtFrom
  <2> QED BY <1>2, <1>6, <1>14, <2>1, <2>2, FormsAre
<1>17. top.file \in FilesOf(n) /\ m \in Mods /\ m.file = top.file /\ m \in Meanings(n)
  <2>1. top.file \in FilesOf(n) /\ top.file \in DOMAIN world.forms
      BY <1>2, <1>15, <1>16, FilesAre DEF Licensed
  <2>2. m \in Mods /\ m.file = top.file
      BY <1>2, <1>5, <2>1, FileModuleIs
  <2>3. m \in Meanings(n)
      BY <1>5, <2>1 DEF Meanings
  <2> QED BY <2>1, <2>2, <2>3
<1>18. /\ top.as # NoName => Known(n, m) /\ top.as = n
       /\ caller.stage = "lower" => Known(n, m)
       /\ RanOK(n, m)
  <2>1. is_package_path(n) => /\ top.as = n \/ caller.stage = "lower" => Exported(n, top.file)
                              /\ Owners(n) \cap world.replaces = {} => Exported(n, top.file)
      BY <1>15 DEF Licensed
  <2>2. top.as \in {NoName, n}
      BY <1>15 DEF Licensed
  <2> QED BY <1>17, <2>1, <2>2 DEF Known, RanOK
<1>19. /\ FrameOK(fr) /\ fr.file = caller.file /\ fr.as = caller.as /\ fr.stage = caller.stage
       /\ AtFrom(fr) /\ FormOf(fr) = form
  <2>1. CASE top.as = NoName
    <3>1. fr = caller
        BY <1>7, <2>1
    <3> QED BY <1>11, <1>15, <3>1
  <2>2. CASE top.as # NoName
    <3>1. PICK b : b = Put(caller.env.source, top.as, m)
        OBVIOUS
    <3>2. PICK e : e = [caller.env EXCEPT !.source = b]
        OBVIOUS
    <3>3. EnvOK(caller.env)
        BY <1>11 DEF FrameOK
    <3>4. b \in Bindings /\ \A k \in DOMAIN b : Known(k, b[k])
        BY <1>16, <1>17, <1>18, <2>2, <3>1, <3>3, PutSource
    <3>5. caller.env \in Envs
        BY <3>3 DEF EnvOK
    <3>6. /\ e \in Envs /\ e.source = b /\ e.bound = caller.env.bound /\ e.packages = caller.env.packages
        BY <3>2, <3>4, <3>5 DEF Envs
    <3>7. EnvOK(e)
        BY <3>3, <3>4, <3>6 DEF EnvOK
    <3>8. fr = [caller EXCEPT !.env = e]
      <4>1. caller \in Frames
          BY <1>11 DEF FrameOK
      <4>2. fr = [caller EXCEPT !.env.source = Put(@, top.as, m)]
          BY <1>7, <2>2
      <4>3. fr = [caller EXCEPT !.env = [caller.env EXCEPT !.source = Put(caller.env.source, top.as, m)]]
          BY <4>1, <4>2 DEF Frames
      <4> QED BY <3>1, <3>2, <4>3
    <3> QED BY <1>11, <1>15, <3>7, <3>8, WithEnv
  <2> QED BY <2>1, <2>2
<1>20. FrameOK(g) /\ g.file = caller.file /\ g.as = caller.as
    BY <1>2, <1>8, <1>14, <1>17, <1>18, <1>19, DeliverIs
<1>21. PICK u : u = SubSeq(stack, 1, Len(stack) - 2)
    OBVIOUS
<1>22. StackOK(u) /\ Len(u) = Len(stack) - 2 /\ \A j \in 1 .. Len(stack) - 2 : u[j] = stack[j]
  <2>1. Len(stack) - 2 \in 0 .. Len(stack)
      BY <1>1, <1>2
  <2> QED BY <1>2, <1>21, <2>1, Prefix
<1>23. ASSUME u # <<>> PROVE Waits(u[Len(u)], g)
  <2>1. u \in Seq(Frames)
      BY <1>22 DEF StackOK
  <2>2. Len(u) # 0
      BY <1>23, <2>1, EmptySeq
  <2>3. Len(stack) - 2 \in 1 .. Len(stack) - 2 /\ Len(stack) - 2 \in 1 .. Len(stack) - 1
        /\ Len(stack) - 2 + 1 = Len(stack) - 1
      BY <1>1, <1>2, <1>22, <2>2
  <2>4. Waits(stack[Len(stack) - 2], stack[Len(stack) - 2 + 1])
      BY <1>2, <2>3 DEF StackOK
  <2>5. Waits(stack[Len(stack) - 2], caller)
      BY <1>3, <2>3, <2>4
  <2>6. u[Len(u)] = stack[Len(stack) - 2]
      BY <1>22, <2>3
  <2> QED BY <1>20, <2>5, <2>6 DEF Waits
<1>24. PICK t : t = Append(u, g)
    OBVIOUS
<1>25. StackOK(t) /\ Len(t) = Len(u) + 1
    BY <1>20, <1>22, <1>23, <1>24, Pushed
<1>26. stack' = t /\ Len(t) <= MaxDepth
  <2>1. MaxDepth \in Nat
      BY WorldsAssumption
  <2> QED BY <1>2, <1>9, <1>21, <1>22, <1>24, <1>25, <2>1
<1>27. \A d \in done' : d \in done \/ EntryOK(d)
    BY <1>2, <1>9, <1>14, <1>16, <1>18, <1>19, CompletedIs
<1> QED BY <1>1, <1>25, <1>26, <1>27, Advance

LEMMA EndStep == ASSUME IInv, EndSession PROVE IInv'
<1>1. world' = world /\ registry' = registry /\ errors' = errors /\ done' = done /\ stack' = <<>>
    BY DEF EndSession
<1>2. PICK t : t = <<>>
    OBVIOUS
<1>3. StackOK(t) /\ Len(t) <= MaxDepth
    BY <1>2, WorldsAssumption DEF StackOK
<1> QED BY <1>1, <1>2, <1>3, Advance

LEMMA InitInv == ASSUME Init PROVE IInv
<1>1. /\ world \in Worlds /\ IsWorld(world) /\ registry = [n \in world.builtins |-> Module("builtin", 0)]
      /\ stack = <<Frame("main", NoName)>> /\ done = {} /\ errors = {}
    BY WorldIs DEF Init
<1>2. "main" \in DOMAIN world.forms /\ IsFiniteSet(DOMAIN world.forms) /\ Cardinality(DOMAIN world.forms) < MaxDepth
      /\ \A n \in world.builtins : n \in NameSet
    BY <1>1 DEF IsWorld
<1>3. PICK g : g = Frame("main", NoName)
    OBVIOUS
<1>4. FrameOK(g)
    BY <1>1, <1>2, <1>3, NewFrame
<1>5. StackOK(stack) /\ Len(stack) = 1
    BY <1>1, <1>3, <1>4, Single
<1>6. 1 <= MaxDepth
  <2>1. Cardinality(DOMAIN world.forms) \in Nat
      BY <1>2, FS_CardinalityType
  <2>2. MaxDepth \in Nat
      BY WorldsAssumption
  <2> QED BY <1>2, <2>1, <2>2
<1>7. RegistryOK
  <2>1. DOMAIN registry = world.builtins /\ \A n \in DOMAIN registry : registry[n] = Module("builtin", 0)
      BY <1>1
  <2>2. world.builtins \in SUBSET NameSet
      BY <1>2
  <2>3. registry \in [world.builtins -> Mods]
      BY <1>1, ModuleIs
  <2>4. registry \in Bindings
      BY <2>2, <2>3 DEF Bindings
  <2>5. DOMAIN registry \subseteq Names
      BY <2>1 DEF Names
  <2> QED BY <2>1, <2>4, <2>5 DEF RegistryOK
<1> QED BY <1>1, <1>5, <1>6, <1>7 DEF IInv, CyclesOnlyExhaust

\* A frame whose environment has one binding more, under a name just registered.
LEMMA BoundMore ==
    ASSUME world' = world, DOMAIN registry \subseteq DOMAIN registry', NEW h, FrameOK(h), ~AtFrom(h) \/ h.stage = "expand",
           NEW n \in NameSet, n \in DOMAIN registry', NEW m \in Mods, m \in Definitions(n),
           NEW b, b = Put(h.env.bound, n, m), NEW e, e = [h.env EXCEPT !.bound = b], NEW g, g = [h EXCEPT !.env = e]
    PROVE  FrameOK(g)' /\ g.file = h.file /\ g.as = h.as
<1>1. h \in Frames /\ h.env \in Envs /\ EnvOK(h.env) /\ EnvOK(h.env)' /\ FrameOK(h)'
    BY Keeps DEF FrameOK, EnvOK
<1>2. PICK f \in Bindings : f = h.env.bound
    BY <1>1 DEF Envs
<1>3. b = Put(f, n, m)
    BY <1>2
<1>4. b \in Bindings /\ DOMAIN b = DOMAIN f \cup {n} /\ b[n] = m /\ \A k \in DOMAIN f : k # n => b[k] = f[k]
    BY <1>3, PutIs
<1>6. e \in Envs /\ e.source = h.env.source /\ e.bound = b /\ e.packages = h.env.packages
    BY <1>1, <1>4 DEF Envs
<1>7. \A k : Definitions(k)' = Definitions(k)
    BY WorldStays
<1>8. \A k \in DOMAIN f : k \in DOMAIN registry' /\ f[k] \in Definitions(k)
    BY <1>1, <1>2 DEF EnvOK
<1>9. \A k \in DOMAIN b : k \in DOMAIN registry' /\ b[k] \in Definitions(k)
    BY <1>4, <1>8
<1>10. EnvOK(e)'
    BY <1>1, <1>6, <1>7, <1>9 DEF EnvOK
<1>11. /\ g \in Frames /\ g.file = h.file /\ g.as = h.as /\ g.ix = h.ix /\ g.stage = h.stage
       /\ g.compiled = h.compiled /\ g.env = e
    BY <1>1, <1>6 DEF Frames
<1>12. AtFrom(g)' /\ g.stage \in {"scope", "run"} => FALSE
  <2>1. AtFrom(g) <=> AtFrom(h)
      BY <1>11 DEF AtFrom, FormOf
  <2>2. AtFrom(g)' <=> AtFrom(g)
      BY Keeps
  <2> QED BY <1>11, <2>1, <2>2
<1>13. g.file \in DOMAIN world'.forms /\ (g.ix \in 1 .. Len(Forms(g.file)) + 1)'
  <2>1. h.file \in DOMAIN world'.forms /\ (h.ix \in 1 .. Len(Forms(h.file)) + 1)'
      BY <1>1 DEF FrameOK
  <2> QED BY <1>11, <2>1
<1>14. FrameOK(g)'
    BY <1>10, <1>11, <1>12, <1>13 DEF FrameOK
<1> QED BY <1>11, <1>14

\* The top frame replaced by one that the next state allows.
LEMMA ReplacedNext ==
    ASSUME IInv, stack # <<>>, world' = world, DOMAIN registry \subseteq DOMAIN registry',
           NEW g, FrameOK(g)', g.file = Top.file, g.as = Top.as, NEW t, t = Append(Below, g)
    PROVE  StackOK(t)' /\ Len(t) = Len(stack)
<1>1. /\ StackOK(Below) /\ Len(Below) = Len(stack) - 1 /\ Len(stack) \in Nat
      /\ Below # <<>> => Waits(Below[Len(Below)], g)
    BY TopIs
<1>2. PICK b : b = Below
    OBVIOUS
<1>3. StackOK(b) /\ (b # <<>> => Waits(b[Len(b)], g)) /\ t = Append(b, g) /\ Len(b) = Len(stack) - 1
    BY <1>1, <1>2, Zenon
<1>4. StackOK(b)' /\ (b # <<>> => Waits(b[Len(b)], g)')
    BY <1>3, Keeps
<1>5. b \in Seq(Frames) /\ Len(b) \in Nat /\ g \in Frames
    BY <1>3, LenProperties DEF StackOK, FrameOK
<1>6. /\ t \in Seq(Frames) /\ Len(t) = Len(b) + 1 /\ t[Len(b) + 1] = g
      /\ \A j \in 1 .. Len(b) : t[j] = b[j]
    BY <1>3, <1>5, AppendProperties
<1>7. ASSUME NEW j \in 1 .. Len(t) PROVE FrameOK(t[j])'
  <2>1. CASE j = Len(t)
    <3>1. t[j] = g
        BY <1>6, <2>1
    <3> QED BY <3>1
  <2>2. CASE j # Len(t)
    <3>1. j \in 1 .. Len(b)
        BY <1>5, <1>6, <2>2
    <3>2. FrameOK(b[j])' /\ t[j] = b[j]
        BY <1>4, <1>6, <3>1 DEF StackOK
    <3> QED BY <3>2
  <2> QED BY <2>1, <2>2
<1>8. ASSUME NEW j \in 1 .. Len(t) - 1 PROVE Waits(t[j], t[j + 1])'
  <2>1. j \in 1 .. Len(b) /\ t[j] = b[j]
      BY <1>5, <1>6
  <2>2. CASE j = Len(b)
    <3>1. b # <<>>
        BY <1>5, <2>1, EmptySeq
    <3>2. t[j] = b[Len(b)] /\ t[j + 1] = g
        BY <1>6, <2>1, <2>2
    <3>3. Waits(b[Len(b)], g)'
        BY <1>4, <3>1
    <3> QED BY <3>2, <3>3
  <2>3. CASE j # Len(b)
    <3>1. j + 1 \in 1 .. Len(b) /\ j \in 1 .. Len(b) - 1
        BY <1>5, <2>1, <2>3
    <3>2. t[j + 1] = b[j + 1] /\ Waits(b[j], b[j + 1])'
        BY <1>4, <1>6, <3>1 DEF StackOK
    <3> QED BY <2>1, <3>2
  <2> QED BY <2>2, <2>3
<1>9. StackOK(t)'
    BY <1>6, <1>7, <1>8 DEF StackOK
<1> QED BY <1>1, <1>3, <1>6, <1>9

LEMMA ModuleStep == ASSUME IInv, RunModule PROVE IInv'
<1>1. stack # <<>> /\ Top.ix <= Len(Forms(Top.file)) /\ Form.op = "module" /\ world' = world /\ done' = done
    BY DEF RunModule, SetTop
<1>2. PICK n : n = Form.name
    OBVIOUS
<1>3. PICK m : m = Module(Top.file, Top.ix)
    OBVIOUS
<1>4. PICK src : src = Put(Top.env.source, n, m)
    OBVIOUS
<1>5. PICK e : e = [Top.env EXCEPT !.source = src]
    OBVIOUS
<1>6. /\ FrameOK(Top) /\ Form = FormOf(Top) /\ Known(n, m) /\ m \in Definitions(n) /\ m \in Mods /\ n \in NameSet
      /\ n \in Names /\ Len(stack) <= MaxDepth /\ Len(stack) \in Nat \ {0} /\ EnvOK(Top.env) /\ world \in Worlds
      /\ MaxDepth \in Nat
    BY <1>1, <1>2, <1>3, TopIs, Defined, WorldsAssumption DEF IInv, FrameOK
<1>7. src \in Bindings /\ \A k \in DOMAIN src : Known(k, src[k])
    BY <1>4, <1>6, PutSource
<1>8. Top.env \in Envs
    BY <1>6 DEF EnvOK
<1>9. e \in Envs /\ e.source = src /\ e.bound = Top.env.bound /\ e.packages = Top.env.packages
    BY <1>5, <1>7, <1>8 DEF Envs
<1>10. EnvOK(e)
    BY <1>6, <1>7, <1>9 DEF EnvOK
<1>11. /\ registry' = Put(registry, n, m)
       /\ \/ /\ n \in DOMAIN e.bound
             /\ errors' = errors \cup {[exc |-> "define_once", name |-> n, depth |-> Len(stack)]}
             /\ stack' = <<NextForm(IF Len(stack) = 1 THEN [Top EXCEPT !.env = e] ELSE stack[1])>>
          \/ /\ errors' = errors
             /\ stack' = Append(Below, NextForm([Top EXCEPT !.env = [e EXCEPT !.bound = Put(@, n, m)]]))
    BY <1>2, <1>3, <1>4, <1>5 DEF RunModule, SetTop
<1>12. RegistryOK /\ registry \in Bindings
    BY DEF IInv, RegistryOK
<1>13. PICK b : b = registry'
    OBVIOUS
<1>14. PICK f \in Bindings : f = registry
    BY <1>12
<1>15. /\ b \in Bindings /\ DOMAIN b = DOMAIN f \cup {n} /\ b[n] = m
       /\ \A k \in DOMAIN f : k # n => b[k] = f[k]
  <2>1. b = Put(f, n, m)
      BY <1>11, <1>13, <1>14
  <2>2. n \in NameSet /\ m \in Mods
      BY <1>6
  <2> QED BY <2>1, <2>2, PutIs
<1>16. DOMAIN registry \subseteq DOMAIN registry' /\ n \in DOMAIN registry'
    BY <1>13, <1>14, <1>15
<1>17. RegistryOK'
  <2>1. Names' = Names /\ \A k : Definitions(k)' = Definitions(k)
      BY <1>1, WorldStays
  <2>2. \A k \in DOMAIN f : k \in Names /\
          (f[k] \in Definitions(k) \/ (k \in world.builtins /\ f[k] = Module("builtin", 0)))
      BY <1>12, <1>14 DEF RegistryOK
  <2>3. \A k \in DOMAIN b : k \in Names /\
          (b[k] \in Definitions(k) \/ (k \in world.builtins /\ b[k] = Module("builtin", 0)))
    <3>1. n \in Names /\ b[n] \in Definitions(n)
        BY <1>6, <1>15
    <3>2. ASSUME NEW k \in DOMAIN b PROVE k \in Names /\
            (b[k] \in Definitions(k) \/ (k \in world.builtins /\ b[k] = Module("builtin", 0)))
      <4>1. CASE k = n
          BY <3>1, <4>1
      <4>2. CASE k # n
        <5>1. k \in DOMAIN f /\ b[k] = f[k]
            BY <1>15, <4>2
        <5> QED BY <2>2, <5>1
      <4> QED BY <4>1, <4>2
    <3> QED BY <3>2
  <2> QED BY <1>1, <1>13, <1>15, <2>1, <2>3 DEF RegistryOK
<1>18. \A d \in done' : EntryOK(d)'
    BY <1>1, <1>16, Keeps DEF IInv
<1>19. Cyclic' <=> Cyclic
    BY <1>1, WorldStays
<1>20. CASE /\ n \in DOMAIN e.bound
            /\ errors' = errors \cup {[exc |-> "define_once", name |-> n, depth |-> Len(stack)]}
            /\ stack' = <<NextForm(IF Len(stack) = 1 THEN [Top EXCEPT !.env = e] ELSE stack[1])>>
  <2>1. PICK s : s = IF Len(stack) = 1 THEN [Top EXCEPT !.env = e] ELSE stack[1]
      OBVIOUS
  <2>2. FrameOK(s) /\ s.ix <= Len(Forms(s.file))
    <3>1. CASE Len(stack) = 1
      <4>1. s = [Top EXCEPT !.env = e]
          BY <2>1, <3>1
      <4> QED BY <1>1, <1>6, <1>10, <4>1, WithEnv
    <3>2. CASE Len(stack) # 1
      <4>5. PICK k \in Nat \ {0} : k = Len(stack)
          BY <1>6
      <4>6. 1 \in 1 .. k - 1 /\ 1 \in 1 .. k
          BY <3>2, <4>5
      <4>1. 1 \in 1 .. Len(stack) - 1 /\ 1 \in 1 .. Len(stack)
          BY <4>5, <4>6
      <4>2. FrameOK(stack[1]) /\ Waits(stack[1], stack[1 + 1])
          BY <4>1 DEF IInv, StackOK
      <4>3. s = stack[1]
          BY <2>1, <3>2
      <4> QED BY <4>2, <4>3 DEF Waits, AtFrom
    <3> QED BY <3>1, <3>2
  <2>3. PICK g : g = NextForm(s)
      OBVIOUS
  <2>4. FrameOK(g)
      BY <1>6, <2>2, <2>3, NextFormIs
  <2>5. PICK t : t = <<g>>
      OBVIOUS
  <2>6. StackOK(t) /\ Len(t) = 1
      BY <2>4, <2>5, Single
  <2>7. StackOK(t)'
      BY <1>1, <1>16, <2>6, Keeps
  <2>8. stack' = t
      BY <1>20, <2>1, <2>3, <2>5
  <2>11. Len(stack) \in Nat \ {0} /\ Len(stack) <= MaxDepth /\ MaxDepth \in Nat
      BY <1>6
  <2>12. Len(t) <= MaxDepth
      BY <2>6, <2>11
  <2>9. StackOK(stack)' /\ (Len(stack) <= MaxDepth)'
      BY <2>7, <2>8, <2>12
  <2>10. CyclesOnlyExhaust'
      BY <1>19, <1>20 DEF CyclesOnlyExhaust, IInv
  <2> QED BY <1>1, <1>6, <1>17, <1>18, <2>9, <2>10 DEF IInv
<1>21. CASE /\ errors' = errors
            /\ stack' = Append(Below, NextForm([Top EXCEPT !.env = [e EXCEPT !.bound = Put(@, n, m)]]))
  <2>1. PICK h0 : h0 = [Top EXCEPT !.env = e]
      OBVIOUS
  <2>2. FrameOK(h0) /\ h0.file = Top.file /\ h0.as = Top.as /\ h0.ix = Top.ix /\ h0.env = e
      BY <1>6, <1>10, <2>1, WithEnv
  <2>3. PICK h : h = NextForm(h0)
      OBVIOUS
  <2>4. FrameOK(h) /\ h.file = Top.file /\ h.as = Top.as
      BY <1>1, <1>6, <2>2, <2>3, NextFormIs
  <2>17. PICK bs : bs = Put(e.bound, n, m)
      OBVIOUS
  <2>5. PICK e3 : e3 = [e EXCEPT !.bound = bs]
      OBVIOUS
  <2>6. PICK g : g = [h EXCEPT !.env = e3]
      OBVIOUS
  <2>7. Top \in Frames
      BY <1>6 DEF FrameOK
  <2>8. h.env = e /\ h.stage = "expand"
    <3>1. h0 \in Frames
        BY <2>2 DEF FrameOK
    <3> QED BY <2>2, <2>3, <3>1 DEF NextForm, Frames
  <2>9. e3 = [h.env EXCEPT !.bound = bs] /\ bs = Put(h.env.bound, n, m)
      BY <2>5, <2>8, <2>17
  <2>10. FrameOK(g)' /\ g.file = Top.file /\ g.as = Top.as
      BY <1>1, <1>6, <1>16, <2>4, <2>6, <2>8, <2>9, BoundMore
  <2>11. g = NextForm([Top EXCEPT !.env = e3])
      BY <2>1, <2>3, <2>6, <2>7 DEF NextForm, Frames
  <2>12. PICK t : t = Append(Below, g)
      OBVIOUS
  <2>13. StackOK(t)' /\ Len(t) = Len(stack)
      BY <1>1, <1>16, <2>10, <2>12, ReplacedNext
  <2>14. stack' = t
    <3>1. e3 = [e EXCEPT !.bound = Put(@, n, m)]
        BY <1>9, <2>5, <2>17 DEF Envs
    <3> QED BY <1>21, <2>11, <2>12, <3>1
  <2>15. StackOK(stack)' /\ (Len(stack) <= MaxDepth)'
      BY <1>6, <2>13, <2>14
  <2>16. CyclesOnlyExhaust'
      BY <1>19, <1>21 DEF CyclesOnlyExhaust, IInv
  <2> QED BY <1>1, <1>6, <1>17, <1>18, <2>15, <2>16 DEF IInv
<1> QED BY <1>11, <1>20, <1>21

LEMMA NextInv == ASSUME IInv, [Next]_vars PROVE IInv'
<1>1. CASE UNCHANGED vars
  <2>1. PICK t : t = stack
      OBVIOUS
  <2>2. StackOK(t) /\ Len(t) <= MaxDepth
      BY <2>1 DEF IInv
  <2>3. world' = world /\ registry' = registry /\ errors' = errors /\ done' = done /\ stack' = t
      BY <1>1, <2>1 DEF vars
  <2> QED BY <2>2, <2>3, Advance
<1>2. CASE Next
    BY <1>2, ExpandStep, LowerStep, ScopeStep, RunStep, CompileStep, ModuleStep, ReturnStep, EndStep DEF Next
<1> QED BY <1>1, <1>2

-----------------------------------------------------------------------------
(* The theorems. *)

\* The invariant holds in every reachable state of every session on every disk.
THEOREM ModuleInvariant == Spec => []IInv
<1>1. Init => IInv
    BY InitInv
<1>2. IInv /\ [Next]_vars => IInv'
    BY NextInv
<1> QED BY <1>1, <1>2, PTL DEF Spec

\* The macro expander, the two resolutions of the HIR lowering and the VM all
\* see one module for a name with one meaning, although they ask different
\* caches of different loaders, in whatever order the forms of the session, the
\* files they load and the errors in these have filled the caches; and that
\* module is the one bound to the name.
THEOREM ModuleStages == Spec => []StagesAgree
<1>1. IInv => StagesAgree
  <2> SUFFICES ASSUME IInv PROVE StagesAgree
      OBVIOUS
  <2>1. world \in Worlds /\ RegistryOK /\ StackOK(stack) /\ Len(stack) <= MaxDepth
      BY DEF IInv
  <2>2. ASSUME NEW n \in DOMAIN registry PROVE n \in Names /\ registry[n] \in Modules
    <3>1. n \in Names /\ (registry[n] \in Definitions(n) \/ registry[n] = Module("builtin", 0))
        BY <2>1 DEF RegistryOK
    <3> QED BY <2>1, <3>1, DefinitionsAre, ModuleIs
  <2>3. ASSUME NEW i \in 1 .. Len(stack)
        PROVE  /\ stack[i].file \in DOMAIN world.forms /\ stack[i].stage \in Stages
               /\ stack[i].ix \in 1 .. Len(Forms(stack[i].file)) + 1
               /\ stack[i].env.packages \subseteq world.deps \cup world.replaces
               /\ DOMAIN stack[i].env.bound \subseteq DOMAIN registry
    <3>1. FrameOK(stack[i])
        BY <2>1 DEF StackOK
    <3> QED BY <3>1 DEF FrameOK, Frames, EnvOK, Declared
  <2>4. ASSUME NEW d \in done
        PROVE  /\ d.ran \in Modules \ {NoModule}
               /\ (\A m1, m2 \in Meanings(d.name) : m1 = m2) => d.ran = d.compiled /\ d.bound \in {NoModule, d.ran}
    <3>1. EntryOK(d)
        BY DEF IInv
    <3>2. d.name \in NameSet /\ d.ran \in Meanings(d.name) /\ d.compiled \in Meanings(d.name)
        BY <3>1 DEF EntryOK
    <3>3. d.ran \in Modules \ {NoModule}
        BY <2>1, <3>2, MeaningsAre
    <3>4. d.bound \in Definitions(d.name) \cup {NoModule}
        BY <3>1 DEF EntryOK
    <3>5. Definitions(d.name) \subseteq Meanings(d.name)
        BY DEF Meanings
    <3> QED BY <3>2, <3>3, <3>4, <3>5
  <2>5. TypeOK
      BY <2>1, <2>2, <2>3, <2>4 DEF TypeOK
  <2> QED BY <2>4, <2>5 DEF StagesAgree
<1> QED BY <1>1, ModuleInvariant, PTL

\* A from form of a package path runs to its end only with a module that a
\* declared package exports, although the lookup of the expander and of the VM
\* does not ask a replaced package for its exports: the lowering in between
\* does, and both load the one file that the path leads to.
THEOREM ModuleExports == Spec => []ExportsRespected
<1>1. IInv => ExportsRespected
    BY DEF IInv, EntryOK, ExportsRespected
<1> QED BY <1>1, ModuleInvariant, PTL

\* The loader, which detects no cycle, exhausts the stack only for files that
\* import each other: a file below the top of the stack twice is one that leads
\* back to itself, and a full stack holds more evaluations than there are files.
THEOREM ModuleExhausted == Spec => []CyclesOnlyExhaust
<1>1. IInv => CyclesOnlyExhaust
    BY DEF IInv
<1> QED BY <1>1, ModuleInvariant, PTL
=============================================================================
