---------------------------- MODULE ExportProofs ----------------------------
(***************************************************************************)
(* The exports, and what a handle stands for, for every set of lines,      *)
(* paths and datasets and however often the server starts.                 *)
(*                                                                         *)
(* A handle stands for one object under every configuration: what is made  *)
(* of it by a server with another table of exports than the one that gave  *)
(* it out is that object, or nothing.  The theorems about the client rest  *)
(* on HInv: it holds the handle of its object, whatever table is loaded.   *)
(* The one about the configuration rests on RInv: while it loads, the      *)
(* parser is at what was written.                                          *)
(***************************************************************************)
EXTENDS ConfigProofs

-----------------------------------------------------------------------------
(* What a handle stands for *)

FullPaths == [dirs : Seq(Names), file : [stem : Names, ext : Names]]

\* The hash tells the exports' paths apart; mvs_fid_hash sees 44 characters.
HashTellsApart == \A p, q \in Paths : HashedOf[p] = HashedOf[q] => p = q

\* The types of what a table holds.
LEMMA TableTypes ==
  ASSUME NEW tab \in Tables, NEW e \in DOMAIN tab
  PROVE  /\ e \in Nat /\ tab[e].path \in Paths
         /\ tab[e].datasets \in Seq(Dataset)
         /\ \A d \in DOMAIN tab[e].datasets :
              /\ d \in Nat /\ tab[e].datasets[d].dsn \in Dsns
              /\ tab[e].datasets[d].ext \in Names
<1>1. e \in Nat /\ tab[e] \in Export
  BY DEF Tables
<1>2. tab[e].path \in Paths /\ tab[e].datasets \in Seq(Dataset)
  BY Zenon, <1>1 DEF Export
<1>3. \A d \in DOMAIN tab[e].datasets : d \in Nat /\ tab[e].datasets[d] \in Dataset
  BY <1>2
<1>4. QED
  BY Zenon, <1>1, <1>2, <1>3 DEF Dataset

\* export_dataset_find_by_dirname returns a dataset of the name asked for.
LEMMA FindDatasetFinds ==
  ASSUME NEW tab \in Tables, NEW e \in DOMAIN tab, NEW dsn,
         FindDataset(tab, e, dsn) # 0
  PROVE  /\ FindDataset(tab, e, dsn) \in DOMAIN tab[e].datasets
         /\ tab[e].datasets[FindDataset(tab, e, dsn)].dsn = dsn
         /\ dsn \in Dsns
<1> DEFINE ds == tab[e].datasets
           at == {d \in DOMAIN ds : ds[d].dsn = dsn}
<1>1. \A d \in DOMAIN ds : d \in Nat /\ ds[d].dsn \in Dsns
  BY Zenon, TableTypes
<1>2. at \subseteq Nat
  BY Zenon, <1>1
<1>3. at # {} /\ FindDataset(tab, e, dsn) = CHOOSE d \in at : \A k \in at : d <= k
  BY Zenon DEF FindDataset
<1>4. FindDataset(tab, e, dsn) \in at
  BY Zenon, <1>2, <1>3, HasLeast
<1>5. QED
  BY Zenon, <1>1, <1>4

\* fh_find_export returns an export whose path has the handle's hash.
LEMMA FindExportFinds ==
  ASSUME NEW tab \in Tables, NEW fh, FindExport(tab, fh) # 0
  PROVE  /\ FindExport(tab, fh) \in DOMAIN tab
         /\ HashedOf[tab[FindExport(tab, fh)].path] = fh.id
<1> DEFINE at == {e \in DOMAIN tab : FhExportId(tab, e) = fh.id}
<1>1. at \subseteq Nat
  BY Zenon, TableTypes
<1>2. at # {} /\ FindExport(tab, fh) = CHOOSE e \in at : \A k \in at : e <= k
  BY Zenon DEF FindExport
<1>3. FindExport(tab, fh) \in at
  BY Zenon, <1>1, <1>2, HasLeast
<1>4. QED
  BY Zenon, <1>3 DEF FhExportId

\* What mvs_path_type says of a path: the path of a root is its export's, and
\* that of a dataset or member is its export's and the dataset's name.
LEMMA PathTypeTells ==
  ASSUME NEW tab \in Tables, NEW path \in FullPaths,
         PathType(tab, path).type # "none"
  PROVE  LET at == PathType(tab, path)
             parts == PartsOf[tab[at.e].path]
             last == path.dirs[Len(path.dirs)]
         IN /\ at.type \in {"root", "dataset", "member"}
            /\ at.e \in DOMAIN tab /\ tab[at.e].path \in Paths
            /\ \A k \in 1 .. Len(parts) : path.dirs[k] = parts[k]
            /\ at.type = "root" => path.file = NoFile /\ Len(path.dirs) = Len(parts)
            /\ at.type # "root" =>
                 /\ Len(path.dirs) = Len(parts) + 1
                 /\ at.d \in DOMAIN tab[at.e].datasets
                 /\ tab[at.e].datasets[at.d].dsn = last
                 /\ last \in Dsns
                 /\ at.type = "dataset" <=> path.file = NoFile
<1> DEFINE over == {e \in DOMAIN tab : Under(tab, e, path)}
           e == CHOOSE x \in over : \A y \in over : x <= y
           parts == PartsOf[tab[e].path]
           n == Len(path.dirs) - Len(parts)
           last == path.dirs[Len(path.dirs)]
           d == FindDataset(tab, e, last)
           at == PathType(tab, path)
<1>1. over \subseteq Nat
  BY Zenon, TableTypes
<1>2. over # {}
  BY Zenon DEF PathType, NotExported
<1>3. e \in over
  BY Zenon, <1>1, <1>2, HasLeast
<1>4. e \in DOMAIN tab /\ tab[e].path \in Paths /\ Prefix(parts, path.dirs)
  BY Zenon, <1>3, TableTypes DEF Under
<1>5. parts \in Seq(Names) /\ path.dirs \in Seq(Names)
  BY Zenon, <1>4, HandleAssumption DEF FullPaths
<1>6. Len(parts) \in Nat /\ Len(path.dirs) \in Nat
  BY <1>5
<1>7. \/ n = 0 /\ path.file = NoFile /\ at = [type |-> "root", e |-> e, d |-> 0]
      \/ /\ n = 1 /\ d # 0
         /\ at = [type |-> IF path.file = NoFile THEN "dataset" ELSE "member",
                  e |-> e, d |-> d]
  BY <1>2 DEF PathType, NotExported
<1>8. CASE n = 0 /\ path.file = NoFile /\ at = [type |-> "root", e |-> e, d |-> 0]
  BY <1>4, <1>6, <1>8 DEF Prefix
<1>9. CASE /\ n = 1 /\ d # 0
           /\ at = [type |-> IF path.file = NoFile THEN "dataset" ELSE "member",
                    e |-> e, d |-> d]
  <2>1. d \in DOMAIN tab[e].datasets /\ tab[e].datasets[d].dsn = last /\ last \in Dsns
    BY Zenon, <1>4, <1>9, FindDatasetFinds
  <2>2. QED
    BY <1>4, <1>6, <1>9, <2>1 DEF Prefix
<1>10. QED
  BY Zenon, <1>7, <1>8, <1>9

\* An object is told by its export, its dataset and its member.
LEMMA ObjectFields ==
  ASSUME NEW r, NEW p, NEW dsn, NEW member, r = [path |-> p, dsn |-> dsn, member |-> member]
  PROVE  r.path = p /\ r.dsn = dsn /\ r.member = member
BY Zenon

\* fh_from_path: the hash of the export, and the names of the object.
LEMMA HandleNames ==
  ASSUME NEW tab \in Tables, NEW path \in FullPaths,
         FromPath(tab, path) # NoHandle
  PROVE  LET fh == FromPath(tab, path)
             ob == Object(tab, path)
         IN /\ fh = [id |-> HashedOf[ob.path], dsn |-> ob.dsn, member |-> ob.member]
            /\ ob.path \in Paths
            /\ \/ ob.dsn = "" /\ ob.member = ""
               \/ ob.dsn \in Dsns /\ ob.member \in Stems \cup {""}
            /\ ob = [path |-> ob.path, dsn |-> ob.dsn, member |-> ob.member]
<1> DEFINE at == PathType(tab, path)
           dsn == tab[at.e].datasets[at.d].dsn
           mem == MemberOf(tab, path)
<1>1. at.type # "none"
  BY Zenon DEF FromPath
<1>2. /\ at.type \in {"root", "dataset", "member"} /\ tab[at.e].path \in Paths
      /\ at.type # "root" => dsn \in Dsns
  BY Zenon, <1>1, PathTypeTells
<1>3. mem \in Stems \cup {""}
  BY Zenon DEF MemberOf
<1>4. CASE at.type = "root"
  BY Zenon, <1>2, <1>4 DEF FromPath, Object, FhExportId
<1>5. CASE at.type = "dataset"
  BY Zenon, <1>2, <1>5 DEF FromPath, Object, FhExportId
<1>6. CASE at.type = "member"
  <2>1. mem # ""
    BY Zenon, <1>6 DEF FromPath
  <2>2. /\ FromPath(tab, path)
             = [id |-> FhExportId(tab, at.e), dsn |-> dsn, member |-> mem]
        /\ Object(tab, path) = [path |-> tab[at.e].path, dsn |-> dsn, member |-> mem]
    BY Zenon, <1>6, <2>1 DEF FromPath, Object
  <2>3. QED
    <3>1. FhExportId(tab, at.e) = HashedOf[tab[at.e].path]
      BY Zenon DEF FhExportId
    <3> DEFINE ob == Object(tab, path)
    <3>2. ob.path = tab[at.e].path /\ ob.dsn = dsn /\ ob.member = mem
      <4> HIDE DEF at, dsn, mem
      <4> QED BY <2>2, ObjectFields
    <3>3. FromPath(tab, path) = [id |-> HashedOf[ob.path], dsn |-> ob.dsn, member |-> ob.member]
      <4> HIDE DEF at, dsn, mem
      <4> QED BY Zenon, <2>2, <3>1, <3>2
    <3>4. ob = [path |-> ob.path, dsn |-> ob.dsn, member |-> ob.member]
      <4> HIDE DEF at, dsn, mem
      <4> QED BY Zenon, <2>2, <3>2
    <3>5. QED
      <4> HIDE DEF at, dsn, mem
      <4> QED BY <1>2, <1>3, <1>6, <3>2, <3>3, <3>4, Zenon
<1>7. QED
  BY Zenon, <1>2, <1>4, <1>5, <1>6

\* What fh_resolve puts together is a path.
LEMMA MakesPath ==
  ASSUME NEW s \in Seq(Names), NEW name \in Names, NEW stem \in Names, NEW ext \in Names
  PROVE  /\ [dirs |-> s, file |-> [stem |-> stem, ext |-> ext]] \in FullPaths
         /\ [dirs |-> Append(s, name), file |-> [stem |-> stem, ext |-> ext]] \in FullPaths
<1>1. Append(s, name) \in Seq(Names)
  OBVIOUS
<1>2. QED
  BY Zenon, <1>1 DEF FullPaths

\* A path has the parts it is made of.
LEMMA PathFields ==
  ASSUME NEW r, NEW dirs, NEW file, r = Path(dirs, file)
  PROVE  r.dirs = dirs /\ r.file = file
BY Zenon DEF Path

\* fh_resolve: the path of a handle that is not stale is that of the export the
\* hash is of, with the names in the handle.
LEMMA ResolvedPath ==
  ASSUME NEW tab \in Tables, HashTellsApart, NEW p \in Paths,
         NEW fh, fh.id = HashedOf[p], fh.dsn \in Dsns \cup {""},
         fh.member \in Stems \cup {""}, ~Stale(tab, fh)
  PROVE  LET path == Resolve(tab, fh)
         IN /\ path \in FullPaths
            /\ fh.dsn = "" => path = Path(PartsOf[p], NoFile)
            /\ fh.dsn # "" => path.dirs = Append(PartsOf[p], fh.dsn)
            /\ fh.dsn # "" => (path.file = NoFile <=> fh.member = "")
            /\ fh.dsn # "" /\ fh.member # "" => path.file.stem = fh.member
<1> DEFINE e == FindExport(tab, fh)
           d == Named(tab, fh)
           dirs == Append(PartsOf[p], fh.dsn)
<1>1. e \in DOMAIN tab /\ HashedOf[tab[e].path] = HashedOf[p]
  BY Zenon, FindExportFinds DEF Stale
<1>2. tab[e].path = p
  BY Zenon, <1>1, TableTypes DEF HashTellsApart
<1>3. PartsOf[p] \in Seq(Names) /\ fh.dsn \in Names /\ fh.member \in Names /\ "" \in Names
  BY HandleAssumption, Zenon
<1>4. CASE fh.dsn = ""
  <2>1. Resolve(tab, fh) = Path(PartsOf[p], NoFile)
    BY Zenon, <1>2, <1>4 DEF Resolve
  <2>2. QED
    BY <1>3, <1>4, <2>1, MakesPath, Zenon DEF NoFile, Path
<1>5. CASE fh.dsn # "" /\ fh.member = ""
  <2>1. Resolve(tab, fh) = Path(dirs, NoFile)
    BY Zenon, <1>2, <1>5 DEF Resolve
  <2>2. Path(dirs, NoFile) \in FullPaths
    BY <1>3, MakesPath, Zenon DEF NoFile, Path
  <2>3. QED
    <3>1. Resolve(tab, fh).dirs = dirs /\ Resolve(tab, fh).file = NoFile
      <4> HIDE DEF dirs
      <4> QED BY <2>1, PathFields, Zenon
    <3>2. QED
      BY <1>5, <2>1, <2>2, <3>1, Zenon
<1>6. CASE fh.dsn # "" /\ fh.member # ""
  <2> DEFINE ext == tab[e].datasets[d].ext
             file == [stem |-> fh.member, ext |-> ext]
  <2>1. FindDataset(tab, e, fh.dsn) # 0 /\ d = FindDataset(tab, e, fh.dsn)
    BY Zenon, <1>6 DEF Stale, Named
  <2>2. d \in DOMAIN tab[e].datasets
    <3>1. FindDataset(tab, e, fh.dsn) \in DOMAIN tab[e].datasets
      BY Zenon, <1>1, <2>1, FindDatasetFinds
    <3>2. QED
      BY Zenon, <2>1, <3>1
  <2>3. ext \in Names
    BY Zenon, <1>1, <2>2, TableTypes
  <2>4. Resolve(tab, fh) = Path(dirs, file)
    BY Zenon, <1>2, <1>6, PathFields DEF Resolve, Within
  <2>5. Path(dirs, file) \in FullPaths
    BY <1>3, <2>3, MakesPath, Zenon DEF Path
  <2>6. file.stem = fh.member /\ file # NoFile
    BY Zenon, <1>6 DEF NoFile
  <2>7. QED
    <3> HIDE DEF file
    <3>1. Resolve(tab, fh).dirs = dirs /\ Resolve(tab, fh).file = file
      <4> HIDE DEF dirs
      <4> QED BY <2>4, PathFields, Zenon
    <3>2. Resolve(tab, fh).file.stem = fh.member /\ Resolve(tab, fh).file # NoFile
      BY <2>6, <3>1, Zenon
    <3>3. QED
      BY <1>6, <2>4, <2>5, <3>1, <3>2, Zenon
<1>7. QED
  BY Zenon, <1>4, <1>5, <1>6

\* A path of an export's components and a dataset's name is no other export's.
LEMMA SameExport ==
  ASSUME NEW p \in Paths, NEW q \in Paths, Len(PartsOf[p]) = Len(PartsOf[q]),
         \A k \in 1 .. Len(PartsOf[q]) : PartsOf[p][k] = PartsOf[q][k]
  PROVE  p = q
<1>1. PartsOf[p] \in Seq(Names) /\ PartsOf[q] \in Seq(Names)
  BY Zenon, HandleAssumption
<1>2. PartsOf[p] = PartsOf[q]
  BY <1>1
<1>3. QED
  BY Zenon, <1>2, HandleAssumption

\* The path of an export is that of no dataset, and of no other export.
LEMMA RootPath ==
  ASSUME NEW p \in Paths, NEW q \in Paths, NEW dirs, dirs = PartsOf[p],
         \A k \in 1 .. Len(PartsOf[q]) : dirs[k] = PartsOf[q][k]
  PROVE  /\ Len(dirs) = Len(PartsOf[q]) + 1 => dirs[Len(dirs)] \notin Dsns
         /\ Len(dirs) = Len(PartsOf[q]) => q = p
<1>1. /\ dirs \in Seq(Names) /\ Len(PartsOf[q]) \in Nat
      /\ \A k \in DOMAIN dirs : dirs[k] \notin Dsns
  <2>1. PartsOf[q] \in Seq(Names)
    BY HandleAssumption, Zenon
  <2>2. dirs \in Seq(Names) /\ \A k \in DOMAIN dirs : dirs[k] \notin Dsns
    BY Zenon, HandleAssumption
  <2>3. QED
    BY <2>1, <2>2
<1>2. ASSUME Len(dirs) = Len(PartsOf[q]) + 1 PROVE dirs[Len(dirs)] \notin Dsns
  BY <1>1, <1>2
<1>3. ASSUME Len(dirs) = Len(PartsOf[q]) PROVE q = p
  BY Zenon, <1>3, SameExport
<1>4. QED
  BY Zenon, <1>2, <1>3

\* The components of a dataset's directory.
Directory(p, dsn) == Append(PartsOf[p], dsn)

\* The path begins as an export's does.
Agree(dirs, parts) == \A k \in 1 .. Len(parts) : dirs[k] = parts[k]

\* What comes before the dataset's name in it, and the name.
LEMMA DirectoryParts ==
  ASSUME NEW p \in Paths, NEW dsn \in Dsns, NEW dirs, dirs = Directory(p, dsn)
  PROVE  /\ Len(PartsOf[p]) \in Nat /\ Len(dirs) = Len(PartsOf[p]) + 1
         /\ dirs[Len(dirs)] = dsn /\ Agree(dirs, PartsOf[p])
<1>1. PartsOf[p] \in Seq(Names)
  BY Zenon, HandleAssumption
<1>2. QED
  BY <1>1 DEF Directory, Agree

\* The path of a dataset's directory is no export's.
LEMMA NoExportsPath ==
  ASSUME NEW p \in Paths, NEW q \in Paths, NEW dsn \in Dsns, NEW dirs,
         dirs = Directory(p, dsn), Agree(dirs, PartsOf[q])
  PROVE  Len(dirs) # Len(PartsOf[q])
<1>1. SUFFICES ASSUME Len(dirs) = Len(PartsOf[q]) PROVE FALSE
  BY Zenon
<1>2. PartsOf[q] \in Seq(Names)
  BY Zenon, HandleAssumption
<1>3. PartsOf[q][Len(PartsOf[q])] = dsn /\ Len(PartsOf[q]) \in DOMAIN PartsOf[q]
  BY <1>1, <1>2, DirectoryParts DEF Agree
<1>4. QED
  BY Zenon, <1>3, HandleAssumption

\* It is no directory of another export either.
LEMMA NoOthersDirectory ==
  ASSUME NEW p \in Paths, NEW q \in Paths, NEW dsn \in Dsns, NEW dirs,
         dirs = Directory(p, dsn), Agree(dirs, PartsOf[q]),
         Len(dirs) = Len(PartsOf[q]) + 1
  PROVE  q = p
<1>1. Len(PartsOf[q]) \in Nat
  <2>1. PartsOf[q] \in Seq(Names)
    BY Zenon, HandleAssumption
  <2>2. QED
    BY <2>1
<1>2. Len(PartsOf[p]) = Len(PartsOf[q]) /\ Agree(dirs, PartsOf[p])
  BY <1>1, DirectoryParts
<1>3. QED
  BY Zenon, <1>2, SameExport DEF Agree

\* What is at the path of an export is that export, if anything.
LEMMA ObjectAtRoot ==
  ASSUME NEW tab \in Tables, NEW p \in Paths, NEW path \in FullPaths, path.dirs = PartsOf[p]
  PROVE  Object(tab, path) \in {[path |-> p, dsn |-> "", member |-> ""], Nothing}
<1> DEFINE at == PathType(tab, path)
           q == tab[at.e].path
           last == path.dirs[Len(path.dirs)]
<1>1. CASE at.type = "none"
  BY Zenon, <1>1 DEF Object
<1>2. CASE at.type # "none"
  <2>1. /\ q \in Paths /\ \A k \in 1 .. Len(PartsOf[q]) : path.dirs[k] = PartsOf[q][k]
        /\ at.type = "root" => Len(path.dirs) = Len(PartsOf[q])
        /\ at.type # "root" => last \in Dsns /\ Len(path.dirs) = Len(PartsOf[q]) + 1
    BY Zenon, <1>2, PathTypeTells
  <2>2. at.type = "root" /\ q = p
    <3> HIDE DEF q, at
    <3> QED BY <2>1, RootPath, Zenon
  <2>3. QED
    BY Zenon, <2>2 DEF Object
<1>3. QED
  BY Zenon, <1>1, <1>2

\* What is at the path of a dataset of an export, or within it, is of that
\* dataset of that export, if anything.
LEMMA ObjectBelow ==
  ASSUME NEW tab \in Tables, NEW p \in Paths, NEW dsn \in Dsns, NEW path \in FullPaths,
         path.dirs = Directory(p, dsn)
  PROVE  Object(tab, path) \in {[path |-> p, dsn |-> dsn, member |-> path.file.stem], Nothing}
<1> DEFINE at == PathType(tab, path)
           q == tab[at.e].path
           dirs == path.dirs
           last == dirs[Len(dirs)]
<1>1. CASE at.type = "none"
  BY Zenon, <1>1 DEF Object
<1>2. CASE at.type # "none"
  <2>1. /\ q \in Paths /\ \A k \in 1 .. Len(PartsOf[q]) : dirs[k] = PartsOf[q][k]
        /\ at.type = "root" => Len(dirs) = Len(PartsOf[q])
        /\ at.type # "root" => /\ Len(dirs) = Len(PartsOf[q]) + 1
                              /\ tab[at.e].datasets[at.d].dsn = last
        /\ at.type \in {"root", "dataset", "member"}
        /\ at.type # "root" => (at.type = "dataset" <=> path.file = NoFile)
    BY Zenon, <1>2, PathTypeTells
  <2>2. at.type # "root" /\ q = p /\ last = dsn
    <3>1. dirs = Directory(p, dsn)
      OBVIOUS
    <3> HIDE DEF dirs, q, at
    <3>2. Agree(dirs, PartsOf[q])
      BY <2>1, Zenon DEF Agree
    <3>3. dirs[Len(dirs)] = dsn
      BY <3>1, DirectoryParts, Zenon
    <3>4. Len(dirs) # Len(PartsOf[q])
      BY <3>1, <3>2, <2>1, NoExportsPath, Zenon
    <3>5. Len(dirs) = Len(PartsOf[q]) + 1 => q = p
      BY <3>1, <3>2, <2>1, NoOthersDirectory, Zenon
    <3>6. QED
      BY <2>1, <3>3, <3>4, <3>5, Zenon
  <2>3. tab[at.e].datasets[at.d].dsn = dsn
    BY <2>1, <2>2, Zenon
  <2>4. CASE at.type = "dataset"
    <3>1. path.file.stem = ""
      <4>1. path.file = NoFile
        BY Zenon, <2>1, <2>2, <2>4
      <4>2. NoFile.stem = ""
        BY Zenon DEF NoFile
      <4>3. QED
        BY Zenon, <4>1, <4>2
    <3>2. Object(tab, path) = [path |-> q, dsn |-> tab[at.e].datasets[at.d].dsn, member |-> ""]
      BY Zenon, <2>4 DEF Object
    <3>3. QED
      BY Zenon, <2>2, <2>3, <3>1, <3>2
  <2>5. CASE at.type = "member"
    <3>1. MemberOf(tab, path) \in {path.file.stem, ""}
      BY Zenon DEF MemberOf
    <3>2. QED
      BY Zenon, <2>2, <2>3, <2>5, <3>1 DEF Object
  <2>6. QED
    BY Zenon, <2>1, <2>2, <2>4, <2>5
<1>3. QED
  BY Zenon, <1>1, <1>2

\* A request with a handle that names these things is about them or is refused.
LEMMA LeadsToNamed ==
  ASSUME NEW tab \in Tables, HashTellsApart, NEW p \in Paths,
         NEW fh, fh.id = HashedOf[p], fh.dsn \in Dsns \cup {""},
         fh.member \in Stems \cup {""}, fh.dsn = "" => fh.member = ""
  PROVE  Leads(tab, fh) \in {[path |-> p, dsn |-> fh.dsn, member |-> fh.member], Nothing}
<1> DEFINE path == Resolve(tab, fh)
<1>1. CASE Stale(tab, fh)
  BY Zenon, <1>1 DEF Leads
<1>2. CASE ~Stale(tab, fh)
  <2>1. Leads(tab, fh) = Object(tab, path)
    BY Zenon, <1>2 DEF Leads
  <2>2. /\ path \in FullPaths
        /\ fh.dsn = "" => path = Path(PartsOf[p], NoFile)
        /\ fh.dsn # "" => path.dirs = Append(PartsOf[p], fh.dsn)
        /\ fh.dsn # "" => (path.file = NoFile <=> fh.member = "")
        /\ fh.dsn # "" /\ fh.member # "" => path.file.stem = fh.member
    BY Zenon, <1>2, ResolvedPath
  <2> HIDE DEF path
  <2>3. CASE fh.dsn = ""
    <3>1. path.dirs = PartsOf[p]
      <4>1. path = Path(PartsOf[p], NoFile)
        BY <2>2, <2>3, Zenon
      <4>2. QED
        BY <4>1, PathFields, Zenon
    <3>2. QED
      BY Zenon, <2>1, <2>2, <2>3, <3>1, ObjectAtRoot
  <2>4. CASE fh.dsn # ""
    <3>1. path.dirs = Directory(p, fh.dsn) /\ fh.dsn \in Dsns
      BY <2>2, <2>4, Zenon DEF Directory
    <3>2. path.file.stem = fh.member
      <4>1. NoFile.stem = ""
        BY Zenon DEF NoFile
      <4>2. QED
        BY Zenon, <4>1, <2>2, <2>4
    <3>3. QED
      BY Zenon, <2>1, <2>2, <3>1, <3>2, ObjectBelow
  <2>5. QED
    BY Zenon, <2>3, <2>4
<1>3. QED
  BY Zenon, <1>1, <1>2

\* A handle fh_from_path gave out under one table of exports is, under any other,
\* of the same export, dataset and member, or of nothing: lines added, dropped or
\* put in another order between two starts of the server never make a client's
\* handle that of another object, as long as the hash tells the paths apart.
THEOREM HandleForOneObject ==
  ASSUME NEW t1 \in Tables, NEW t2 \in Tables, NEW path \in FullPaths,
         HashTellsApart, FromPath(t1, path) # NoHandle
  PROVE  Leads(t2, FromPath(t1, path)) \in {Object(t1, path), Nothing}
<1> DEFINE fh == FromPath(t1, path)
           ob == Object(t1, path)
<1>1. /\ fh = [id |-> HashedOf[ob.path], dsn |-> ob.dsn, member |-> ob.member]
      /\ ob.path \in Paths
      /\ \/ ob.dsn = "" /\ ob.member = ""
         \/ ob.dsn \in Dsns /\ ob.member \in Stems \cup {""}
      /\ ob = [path |-> ob.path, dsn |-> ob.dsn, member |-> ob.member]
  BY Zenon, HandleNames
<1>2. fh.id = HashedOf[ob.path] /\ fh.dsn = ob.dsn /\ fh.member = ob.member
  <2> HIDE DEF fh, ob
  <2> QED BY Zenon, <1>1
<1>3. Leads(t2, fh) \in {[path |-> ob.path, dsn |-> fh.dsn, member |-> fh.member], Nothing}
  <2>1. /\ fh.dsn \in Dsns \cup {""} /\ fh.member \in Stems \cup {""}
        /\ fh.dsn = "" => fh.member = ""
    BY <1>1, <1>2, HandleAssumption, Zenon
  <2>2. QED
    BY <1>1, <1>2, <2>1, LeadsToNamed, Zenon
<1>4. QED
  BY <1>1, <1>2, <1>3, Zenon

-----------------------------------------------------------------------------
(* The server from start to start *)

Objects == [path : Paths \cup {""}, dsn : Dsns \cup {""}, member : Stems \cup {""}]

TableKept ==
  /\ table \in Tables /\ Len(table) <= MaxExports
  /\ \A e \in 1 .. Len(table) : ~table[e].failed /\ Len(table[e].datasets) <= MaxDatasets

\* The inductive invariant of the types.
IInv ==
  /\ phase \in {"down", "load", "loaded", "up"} /\ Parsed(ld) /\ TableKept
  /\ obj \in Objects /\ (held = NoHandle <=> obj = Nothing)

\* The table is empty before the server has read its configuration.
LEMMA EmptyTable ==
  /\ <<>> \in Tables /\ Len(<<>>) <= MaxExports /\ (\A e \in 1 .. Len(<<>>) : FALSE)
  /\ Parsed(Blank) /\ Nothing \in Objects
<1>1. <<>> \in Tables /\ Len(<<>>) = 0 /\ (\A e \in 1 .. 0 : FALSE) /\ 0 <= MaxExports
  BY ConfigAssumption DEF Tables
<1>2. <<>> \in TableRead
  BY ConfigAssumption DEF TableRead
<1>3. NoOpts \in Opts
  BY Zenon, LinesAssumption DEF NoOpts, Opts
<1>4. Blank \in Parsers /\ Blank.idx = 0 /\ Blank.table = <<>>
  BY <1>2, <1>3 DEF Blank, Parsers
<1>5. Orderly(<<>>)
  BY Zenon, <1>1 DEF Orderly
<1>6. 0 \in 0 .. 0
  OBVIOUS
<1>7. Parsed(Blank)
  BY Zenon, <1>1, <1>4, <1>5, <1>6 DEF Parsed
<1>8. Nothing \in Objects
  BY Zenon DEF Nothing, Objects
<1>9. QED
  BY Zenon, <1>1, <1>7, <1>8

\* It holds before the server has started,
LEMMA StartsTyped ==
  Init => IInv
<1> SUFFICES ASSUME Init PROVE IInv
  OBVIOUS
<1>1. table = <<>> /\ ld = Blank /\ phase = "down" /\ held = NoHandle /\ obj = Nothing
  BY Zenon DEF Init
<1>2. TableKept
  BY Zenon, <1>1, EmptyTable DEF TableKept
<1>3. QED
  BY Zenon, <1>1, <1>2, EmptyTable DEF IInv

\* What is at the path a client mounts is the export of that path.
LEMMA Mounted ==
  ASSUME NEW tab \in Tables, NEW p \in Paths,
         Object(tab, Path(PartsOf[p], NoFile)) # Nothing
  PROVE  /\ Path(PartsOf[p], NoFile) \in FullPaths
         /\ Object(tab, Path(PartsOf[p], NoFile)) = [path |-> p, dsn |-> "", member |-> ""]
<1> DEFINE path == Path(PartsOf[p], NoFile)
<1>1. PartsOf[p] \in Seq(Names) /\ "" \in Names
  BY Zenon, HandleAssumption
<1>2. path \in FullPaths
  BY Zenon, <1>1, MakesPath DEF Path, NoFile
<1>3. path.dirs = PartsOf[p]
  BY Zenon, PathFields
<1> HIDE DEF path
<1>4. Object(tab, path) \in {[path |-> p, dsn |-> "", member |-> ""], Nothing}
  BY Zenon, <1>2, <1>3, ObjectAtRoot
<1>5. QED
  BY Zenon, <1>2, <1>4 DEF path

\* A LOOKUP of a dataset in an export is of an object,
LEMMA WithDataset ==
  ASSUME NEW o \in Objects, NEW dsn \in Dsns
  PROVE  LET q == [o EXCEPT !.dsn = dsn]
         IN /\ q \in Objects /\ q # Nothing /\ q.path = o.path /\ q.dsn = dsn
            /\ q.member = o.member
BY HandleAssumption DEF Objects, Nothing

\* and so is one of a member in a dataset.
LEMMA WithMember ==
  ASSUME NEW o \in Objects, NEW stem \in Stems
  PROVE  LET q == [o EXCEPT !.member = stem]
         IN /\ q \in Objects /\ q # Nothing /\ q.path = o.path /\ q.dsn = o.dsn
            /\ q.member = stem
BY HandleAssumption DEF Objects, Nothing

\* and every step keeps it.
LEMMA StaysTyped ==
  IInv /\ [Next]_vars => IInv'
<1> SUFFICES ASSUME IInv, [Next]_vars PROVE IInv'
  OBVIOUS
<1>1. /\ phase \in {"down", "load", "loaded", "up"} /\ Parsed(ld) /\ TableKept
      /\ obj \in Objects /\ (held = NoHandle <=> obj = Nothing) /\ table \in Tables
  BY Zenon DEF IInv, TableKept
<1>2. CASE UNCHANGED vars
  BY Zenon, <1>1, <1>2 DEF vars, IInv, TableKept
<1>3. CASE Start
  BY Zenon, <1>1, <1>3 DEF Start, IInv, TableKept
<1>4. CASE Serve
  BY Zenon, <1>1, <1>4 DEF Serve, IInv, TableKept
<1>5. CASE End
  <2>1. table' = <<>>
    BY Zenon, <1>5 DEF End
  <2>2. TableKept'
    BY Zenon, <2>1, EmptyTable DEF TableKept
  <2>3. QED
    BY Zenon, <1>1, <1>5, <2>2 DEF End, IInv
<1>6. ASSUME NEW toks \in Lines, Read(toks) PROVE IInv'
  <2>1. ld' = ReadLine(ld, toks)
    BY Zenon, <1>6 DEF Read
  <2>2. Parsed(ld)'
    BY Zenon, <1>1, <2>1, LineKeepsParsed
  <2>3. QED
    BY Zenon, <1>1, <1>6, <2>2 DEF Read, IInv, TableKept
<1>7. ASSUME NEW usable \in {Dsns} \cup {Dsns \ {d} : d \in Dsns}, Finish(usable) PROVE IInv'
  <2>1. usable \subseteq Dsns
    BY Zenon
  <2>2. table' = EndOfFile(ld, usable) /\ ld' = Blank
    BY Zenon, <1>7 DEF Finish
  <2> DEFINE t == EndOfFile(ld, usable)
  <2>3. /\ t \in Seq(ExportRead) /\ Len(t) <= MaxExports
        /\ \A e \in 1 .. Len(t) : Served(ld, t[e], usable)
    BY Zenon, <1>1, EndLeaves
  <2> HIDE DEF t
  <2>4. \A e \in 1 .. Len(t) : t[e] \in Export /\ ~t[e].failed /\ Len(t[e].datasets) <= MaxDatasets
    BY Zenon, <1>1, <2>1, <2>3, ServedTyped
  <2>5. t \in Tables
    <3>1. \A e \in 1 .. Len(t) : t[e] \in Export
      BY Zenon, <2>4
    <3>2. t \in Seq(ExportRead)
      BY Zenon, <2>3
    <3>3. QED
      BY <3>1, <3>2 DEF Tables
  <2>6. TableKept'
    BY Zenon, <2>2, <2>3, <2>4, <2>5 DEF TableKept, t
  <2>7. Parsed(ld)'
    BY Zenon, <2>2, EmptyTable
  <2>8. QED
    BY Zenon, <1>1, <1>7, <2>6, <2>7 DEF Finish, IInv
<1>8. ASSUME NEW p \in Paths, Mount(p) PROVE IInv'
  <2> DEFINE root == Path(PartsOf[p], NoFile)
             o == [path |-> p, dsn |-> "", member |-> ""]
  <2>1. /\ Object(table, root) # Nothing /\ FromPath(table, root) # NoHandle
        /\ held' = FromPath(table, root) /\ obj' = o
    BY Zenon, <1>8 DEF Mount
  <2>2. Object(table, root) = o
    BY Zenon, <1>1, <2>1, Mounted
  <2>3. o \in Objects
    BY Zenon DEF Objects
  <2> HIDE DEF o, root
  <2>4. held' # NoHandle /\ obj' # Nothing /\ obj' \in Objects
    BY Zenon, <2>1, <2>2, <2>3
  <2>5. QED
    BY Zenon, <1>1, <1>8, <2>4 DEF Mount, IInv, TableKept
<1>9. ASSUME NEW dsn \in Dsns, LookUpDataset(dsn) PROVE IInv'
  <2> DEFINE o == [obj EXCEPT !.dsn = dsn]
  <2>1. held' # NoHandle /\ obj' = o
    BY Zenon, <1>9 DEF LookUpDataset, LookUp
  <2>2. o \in Objects /\ o # Nothing
    BY Zenon, <1>1, WithDataset
  <2> HIDE DEF o
  <2>3. held' # NoHandle /\ obj' # Nothing /\ obj' \in Objects
    BY Zenon, <2>1, <2>2
  <2>4. QED
    BY Zenon, <1>1, <1>9, <2>3 DEF LookUpDataset, LookUp, IInv, TableKept
<1>10. ASSUME NEW stem \in Stems, NEW ext \in Exts, LookUpMember([stem |-> stem, ext |-> ext])
       PROVE  IInv'
  <2> DEFINE file == [stem |-> stem, ext |-> ext]
             o == [obj EXCEPT !.member = stem]
  <2>1. held' # NoHandle /\ obj' = [obj EXCEPT !.member = file.stem] /\ file.stem = stem
    BY Zenon, <1>10 DEF LookUpMember, LookUp
  <2>2. o \in Objects /\ o # Nothing
    BY Zenon, <1>1, WithMember
  <2>3. obj' = o
    BY Zenon, <2>1
  <2> HIDE DEF o
  <2>4. held' # NoHandle /\ obj' # Nothing /\ obj' \in Objects
    BY Zenon, <2>1, <2>2, <2>3
  <2>5. QED
    BY Zenon, <1>1, <1>10, <2>4 DEF LookUpMember, LookUp, IInv, TableKept
<1>11. QED
  BY Zenon, <1>2, <1>3, <1>4, <1>5, <1>6, <1>7, <1>8, <1>9, <1>10 DEF Next

\* The types of the server's state: whatever lines are read, and however often it
\* starts, the table is within MAX_EXPORTS and MAX_PDS_PER_EXPORT and holds exports
\* of paths and datasets there are, none of which failed, the parser's block is of
\* an export there is, and the client has a handle exactly if it has an object.
THEOREM ExportsTyped ==
  Spec => []TypeOK
<1>1. IInv => TypeOK
  <2> SUFFICES ASSUME IInv PROVE TypeOK
    OBVIOUS
  <2>1. /\ table \in Tables /\ Len(table) <= MaxExports
        /\ \A e \in 1 .. Len(table) : ~table[e].failed /\ Len(table[e].datasets) <= MaxDatasets
    BY Zenon DEF IInv, TableKept
  <2>2. /\ DOMAIN table = 1 .. Len(table)
        /\ \A e \in DOMAIN table : /\ table[e].path \in Paths
                                   /\ \A d \in DOMAIN table[e].datasets :
                                        table[e].datasets[d].dsn \in Dsns
    <3>1. DOMAIN table = 1 .. Len(table)
      BY <2>1 DEF Tables
    <3>2. QED
      BY Zenon, <2>1, <3>1, TableTypes
  <2>3. ld.idx \in 0 .. Len(ld.table) /\ Len(ld.table) <= MaxExports
    BY Zenon, ParserTypes DEF IInv, Parsed, TableRead
  <2>4. QED
    BY Zenon, <2>1, <2>2, <2>3 DEF IInv, TypeOK
<1>2. QED
  BY <1>1, StartsTyped, StaysTyped, PTL DEF Spec

\* The client's handle is that of its object: the hash of its export's path, and
\* the names of its dataset and its member.
Given(h, o) ==
  /\ o.path \in Paths /\ (o.dsn = "" => o.member = "")
  /\ h.id = HashedOf[o.path] /\ h.dsn = o.dsn /\ h.member = o.member

HInv == IInv /\ (held # NoHandle => Given(held, obj))

\* An object is its path, its dataset and its member.
LEMMA ObjectIs ==
  ASSUME NEW o \in Objects
  PROVE  /\ o = [path |-> o.path, dsn |-> o.dsn, member |-> o.member]
         /\ o.dsn \in Dsns \cup {""} /\ o.member \in Stems \cup {""}
BY DEF Objects

\* The handle given for a path at which there is an object is the object's.
LEMMA GivenThere ==
  ASSUME NEW tab \in Tables, NEW path \in FullPaths, NEW o \in Objects,
         FromPath(tab, path) # NoHandle,
         Object(tab, path) = [path |-> o.path, dsn |-> o.dsn, member |-> o.member],
         o.path \in Paths, o.dsn = "" => o.member = ""
  PROVE  Given(FromPath(tab, path), o)
<1> DEFINE h == FromPath(tab, path)
           q == Object(tab, path)
<1>1. h = [id |-> HashedOf[q.path], dsn |-> q.dsn, member |-> q.member]
  BY Zenon, HandleNames
<1>2. q.path = o.path /\ q.dsn = o.dsn /\ q.member = o.member
  <2> HIDE DEF q
  <2>1. q = [path |-> o.path, dsn |-> o.dsn, member |-> o.member]
    BY Zenon DEF q
  <2> QED
    BY Zenon, <2>1, ObjectFields
<1> HIDE DEF h, q
<1>3. h.id = HashedOf[q.path] /\ h.dsn = q.dsn /\ h.member = q.member
  BY Zenon, <1>1
<1>4. Given(h, o)
  BY Zenon, <1>2, <1>3 DEF Given
<1>5. QED
  BY Zenon, <1>4 DEF h

\* No step leaves the client with a handle that is not that of its object.
LEMMA HandlesStayGiven ==
  ASSUME HashTellsApart, HInv, [Next]_vars
  PROVE  HInv'
<1>1. /\ IInv /\ table \in Tables /\ obj \in Objects /\ (held # NoHandle => Given(held, obj))
      /\ held = NoHandle <=> obj = Nothing
  BY Zenon DEF HInv, IInv, TableKept
<1>2. IInv'
  BY Zenon, <1>1, StaysTyped
<1>3. CASE UNCHANGED <<held, obj>>
  BY Zenon, <1>1, <1>2, <1>3 DEF HInv
<1>4. ASSUME NEW p \in Paths, Mount(p) PROVE HInv'
  <2> DEFINE root == Path(PartsOf[p], NoFile)
             o == [path |-> p, dsn |-> "", member |-> ""]
  <2>1. /\ Object(table, root) # Nothing /\ FromPath(table, root) # NoHandle
        /\ held' = FromPath(table, root) /\ obj' = o
    BY Zenon, <1>4 DEF Mount
  <2>2. root \in FullPaths /\ Object(table, root) = o
    BY Zenon, <1>1, <2>1, Mounted
  <2>3. o \in Objects /\ o.path = p /\ o.dsn = "" /\ o.member = ""
    BY Zenon DEF Objects
  <2> HIDE DEF root
  <2>4. Given(FromPath(table, root), o)
    BY Zenon, <1>1, <2>1, <2>2, <2>3, GivenThere
  <2> HIDE DEF o
  <2>5. QED
    BY Zenon, <1>2, <2>1, <2>4 DEF HInv
<1>5. ASSUME NEW dsn \in Dsns, LookUpDataset(dsn) PROVE HInv'
  <2> DEFINE p == obj.path
             from == Resolve(table, held)
             path == Below(from, dsn)
             o == [obj EXCEPT !.dsn = dsn]
  <2>1. /\ held # NoHandle /\ obj.dsn = "" /\ ~Stale(table, held)
        /\ Object(table, path) # Nothing /\ FromPath(table, path) # NoHandle
        /\ held' = FromPath(table, path) /\ obj' = o
    BY Zenon, <1>5 DEF LookUpDataset, LookUp
  <2>2. /\ p \in Paths /\ held.id = HashedOf[p] /\ held.dsn = "" /\ held.member = ""
        /\ obj.member = ""
    BY Zenon, <1>1, <2>1 DEF Given
  <2>3. from = Path(PartsOf[p], NoFile)
    <3> HIDE DEF p
    <3>1. held.dsn \in Dsns \cup {""} /\ held.member \in Stems \cup {""}
      BY Zenon, <2>2
    <3>2. QED
      BY Zenon, <1>1, <2>1, <2>2, <3>1, ResolvedPath
  <2> HIDE DEF from
  <2>4. from.dirs = PartsOf[p]
    BY Zenon, <2>3, PathFields
  <2>5. path.dirs = Directory(p, dsn) /\ path.file = NoFile /\ path \in FullPaths
    <3>1. path = Path(Append(PartsOf[p], dsn), NoFile)
      BY Zenon, <2>4 DEF Below
    <3>2. PartsOf[p] \in Seq(Names) /\ dsn \in Names /\ "" \in Names
      BY Zenon, <2>2, HandleAssumption
    <3>3. Path(Append(PartsOf[p], dsn), NoFile) \in FullPaths
      <4> HIDE DEF p
      <4> QED
        BY Zenon, <3>2, MakesPath DEF Path, NoFile
    <3> HIDE DEF path, p
    <3>4. QED
      BY Zenon, <3>1, <3>3, PathFields DEF Directory
  <2>6. path.file.stem = ""
    <3>1. NoFile.stem = ""
      BY Zenon DEF NoFile
    <3> HIDE DEF path
    <3>2. QED
      BY Zenon, <2>5, <3>1
  <2>7. o \in Objects /\ o.path = p /\ o.dsn = dsn /\ o.member = ""
    BY Zenon, <1>1, <2>2, WithDataset
  <2> HIDE DEF path, p, o
  <2>8. Object(table, path) = [path |-> p, dsn |-> dsn, member |-> path.file.stem]
    BY Zenon, <1>1, <2>1, <2>2, <2>5, ObjectBelow
  <2>9. Object(table, path) = [path |-> o.path, dsn |-> o.dsn, member |-> o.member]
    BY Zenon, <2>6, <2>7, <2>8
  <2>10. o.dsn = "" => o.member = ""
    BY Zenon, <2>7
  <2>11. o.path \in Paths
    BY Zenon, <2>2, <2>7
  <2>12. Given(FromPath(table, path), o)
    BY Zenon, <1>1, <2>1, <2>5, <2>7, <2>9, <2>10, <2>11, GivenThere
  <2>13. QED
    BY Zenon, <1>2, <2>1, <2>12 DEF HInv
<1>6. ASSUME NEW stem \in Stems, NEW ext \in Exts, LookUpMember([stem |-> stem, ext |-> ext])
      PROVE  HInv'
  <2> DEFINE p == obj.path
             dsn == obj.dsn
             file == [stem |-> stem, ext |-> ext]
             from == Resolve(table, held)
             path == Within(from, file)
             o == [obj EXCEPT !.member = stem]
  <2>1. /\ dsn # "" /\ obj.member = "" /\ ~Stale(table, held)
        /\ Object(table, path) # Nothing /\ FromPath(table, path) # NoHandle
        /\ held' = FromPath(table, path) /\ obj' = [obj EXCEPT !.member = file.stem]
        /\ file.stem = stem
    BY Zenon, <1>6 DEF LookUpMember, LookUp
  <2>2. obj' = o
    BY Zenon, <2>1
  <2>3. held # NoHandle
    <3>1. obj # Nothing
      <4>1. Nothing.dsn = ""
        BY Zenon DEF Nothing
      <4>2. QED
        BY Zenon, <4>1, <2>1
    <3>2. QED
      BY Zenon, <1>1, <3>1
  <2>4. /\ p \in Paths /\ held.id = HashedOf[p] /\ held.dsn = dsn /\ held.member = ""
    BY Zenon, <1>1, <2>1, <2>3 DEF Given
  <2>5. dsn \in Dsns
    BY Zenon, <1>1, <2>1, ObjectIs
  <2>6. from.dirs = Append(PartsOf[p], dsn)
    <3> HIDE DEF p
    <3>1. held.dsn \in Dsns \cup {""} /\ held.member \in Stems \cup {""} /\ held.dsn # ""
      BY Zenon, <2>1, <2>4, <2>5
    <3>2. from.dirs = Append(PartsOf[p], held.dsn)
      BY Zenon, <1>1, <2>1, <2>4, <3>1, ResolvedPath
    <3>3. QED
      BY Zenon, <3>2, <2>4
  <2> HIDE DEF from
  <2>7. path.dirs = Directory(p, dsn) /\ path.file = file /\ path \in FullPaths
    <3>1. path = Path(Append(PartsOf[p], dsn), file)
      BY Zenon, <2>6 DEF Within
    <3>2. PartsOf[p] \in Seq(Names) /\ dsn \in Names /\ stem \in Names /\ ext \in Names
      BY Zenon, <2>4, <2>5, HandleAssumption, LinesAssumption
    <3>3. Path(Append(PartsOf[p], dsn), file) \in FullPaths
      <4> HIDE DEF p, dsn
      <4> QED
        BY Zenon, <3>2, MakesPath DEF Path
    <3> HIDE DEF path, p, dsn, file
    <3>4. QED
      BY Zenon, <3>1, <3>3, PathFields DEF Directory
  <2>8. path.file.stem = stem
    <3> HIDE DEF path, file
    <3> QED
      BY Zenon, <2>1, <2>7
  <2>9. o \in Objects /\ o.path = p /\ o.dsn = dsn /\ o.member = stem
    BY Zenon, <1>1, WithMember
  <2> HIDE DEF path, p, o, dsn, file
  <2>10. Object(table, path) = [path |-> p, dsn |-> dsn, member |-> path.file.stem]
    BY Zenon, <1>1, <2>1, <2>4, <2>5, <2>7, ObjectBelow
  <2>11. Object(table, path) = [path |-> o.path, dsn |-> o.dsn, member |-> o.member]
    BY Zenon, <2>8, <2>9, <2>10
  <2>12. o.dsn # "" /\ o.path \in Paths
    BY Zenon, <2>1, <2>4, <2>9
  <2>13. Given(FromPath(table, path), o)
    BY Zenon, <1>1, <2>1, <2>7, <2>9, <2>11, <2>12, GivenThere
  <2>14. QED
    BY Zenon, <1>2, <2>1, <2>2, <2>13 DEF HInv
<1>7. QED
  BY Zenon, <1>3, <1>4, <1>5, <1>6 DEF Next, Start, Serve, End, Read, Finish, vars

\* So the client never has one.
LEMMA HandlesGiven ==
  ASSUME HashTellsApart
  PROVE  Spec => []HInv
<1>1. Init => HInv
  BY Zenon, StartsTyped DEF Init, HInv
<1>2. HInv /\ [Next]_vars => HInv'
  BY Zenon, HandlesStayGiven
<1>3. QED
  BY <1>1, <1>2, PTL DEF Spec

\* A client's handle stands for the object it was given it for, over any number of
\* restarts and changes of the configuration: fh_resolve finds that object by it,
\* or the handle is stale.  The hash must tell the paths of the exports apart.
THEOREM HandlesExact ==
  ASSUME HashTellsApart
  PROVE  Spec => []HandleExact
<1>1. HInv => HandleExact
  <2> SUFFICES ASSUME HInv, phase = "up", held # NoHandle
               PROVE  Leads(table, held) \in {obj, Nothing}
    BY Zenon DEF HandleExact
  <2>1. table \in Tables /\ obj \in Objects /\ Given(held, obj)
    BY Zenon DEF HInv, IInv, TableKept
  <2>2. /\ obj.path \in Paths /\ (obj.dsn = "" => obj.member = "")
        /\ held.id = HashedOf[obj.path] /\ held.dsn = obj.dsn /\ held.member = obj.member
    BY Zenon, <2>1 DEF Given
  <2>3. /\ obj = [path |-> obj.path, dsn |-> obj.dsn, member |-> obj.member]
        /\ obj.dsn \in Dsns \cup {""} /\ obj.member \in Stems \cup {""}
    BY Zenon, <2>1, ObjectIs
  <2>4. Leads(table, held) \in {[path |-> obj.path, dsn |-> held.dsn, member |-> held.member], Nothing}
    BY Zenon, <2>1, <2>2, <2>3, LeadsToNamed
  <2>5. QED
    BY Zenon, <2>2, <2>3, <2>4
<1>2. QED
  BY <1>1, HandlesGiven, PTL

\* The first of some exports.
LEMMA FirstIs ==
  ASSUME NEW T, T \subseteq Nat, NEW e \in T, \A y \in T : e <= y
  PROVE  (CHOOSE x \in T : \A y \in T : x <= y) = e
<1> DEFINE c == CHOOSE x \in T : \A y \in T : x <= y
<1>1. c \in T /\ \A y \in T : c <= y
  BY Zenon
<1>2. c \in Nat /\ e \in Nat /\ c <= e /\ e <= c
  BY Zenon, <1>1
<1> HIDE DEF c
<1>3. c = e
  BY <1>2
<1>4. QED
  BY Zenon, <1>3 DEF c

\* What lies over a directory of a dataset lies over its export's path.
LEMMA OverDirectory ==
  ASSUME NEW p \in Paths, NEW q \in Paths, NEW dsn \in Dsns,
         Prefix(PartsOf[q], Directory(p, dsn))
  PROVE  Prefix(PartsOf[q], PartsOf[p])
<1> DEFINE dirs == Directory(p, dsn)
           n == Len(PartsOf[q])
           k == Len(PartsOf[p])
<1>1. PartsOf[p] \in Seq(Names) /\ PartsOf[q] \in Seq(Names)
  BY Zenon, HandleAssumption
<1>2. n \in Nat /\ k \in Nat
  BY <1>1
<1>3. k \in Nat /\ Len(dirs) = k + 1 /\ dirs[Len(dirs)] = dsn /\ Agree(dirs, PartsOf[p])
  BY Zenon, DirectoryParts
<1>4. n <= Len(dirs) /\ \A i \in 1 .. n : dirs[i] = PartsOf[q][i]
  BY Zenon DEF Prefix
<1>5. Agree(dirs, PartsOf[q])
  BY Zenon, <1>4 DEF Agree
<1>6. Len(dirs) # n
  BY Zenon, <1>5, NoExportsPath
<1> HIDE DEF dirs, n, k
<1>7. n <= k /\ 1 .. n \subseteq 1 .. k
  BY <1>2, <1>3, <1>4, <1>6
<1>8. \A i \in 1 .. n : PartsOf[p][i] = PartsOf[q][i]
  BY Zenon, <1>3, <1>4, <1>7 DEF Agree, k
<1>9. QED
  BY Zenon, <1>7, <1>8 DEF Prefix, n, k

\* The export a handle leads to is the one whose path it was given for.
LEMMA Exported ==
  ASSUME NEW tab \in Tables, HashTellsApart, NEW e \in DOMAIN tab, NEW fh, NEW p \in Paths,
         tab[e].path = p, fh.id = HashedOf[p],
         \A y \in 1 .. e - 1 : ~Prefix(PartsOf[tab[y].path], PartsOf[p])
  PROVE  /\ FindExport(tab, fh) = e /\ e # 0
         /\ \A y \in DOMAIN tab : Prefix(PartsOf[tab[y].path], PartsOf[p]) => e <= y
<1>1. \A y \in DOMAIN tab : y \in Nat /\ y # 0 /\ tab[y].path \in Paths /\ (y \in 1 .. e - 1 \/ e <= y)
  <2>1. DOMAIN tab = 1 .. Len(tab) /\ Len(tab) \in Nat
    BY DEF Tables
  <2>2. \A y \in DOMAIN tab : y \in Nat /\ y # 0 /\ (y \in 1 .. e - 1 \/ e <= y)
    BY <2>1
  <2>3. QED
    BY Zenon, <2>2, TableTypes
<1>2. Prefix(PartsOf[p], PartsOf[p])
  <2>1. PartsOf[p] \in Seq(Names)
    BY Zenon, HandleAssumption
  <2>2. Len(PartsOf[p]) <= Len(PartsOf[p])
    BY <2>1
  <2>3. QED
    BY Zenon, <2>2 DEF Prefix
<1>3. \A y \in DOMAIN tab : Prefix(PartsOf[tab[y].path], PartsOf[p]) => e <= y
  BY Zenon, <1>1
<1> DEFINE at == {y \in DOMAIN tab : FhExportId(tab, y) = fh.id}
<1>4. e \in at
  BY Zenon DEF FhExportId
<1>5. \A y \in at : tab[y].path = p
  BY Zenon, <1>1 DEF FhExportId, HashTellsApart
<1>6. \A y \in at : e <= y
  BY Zenon, <1>2, <1>3, <1>5
<1>7. at \subseteq Nat /\ at # {}
  BY Zenon, <1>1, <1>4
<1>8. FindExport(tab, fh) = CHOOSE x \in at : \A y \in at : x <= y
  BY Zenon, <1>7 DEF FindExport
<1> HIDE DEF at
<1>9. FindExport(tab, fh) = e
  BY Zenon, <1>4, <1>6, <1>7, <1>8, FirstIs
<1>10. QED
  BY Zenon, <1>1, <1>3, <1>9

\* The first export over a path is the one no other lies before.
LEMMA OverIs ==
  ASSUME NEW tab \in Tables, NEW e \in DOMAIN tab, NEW path,
         Under(tab, e, path), \A y \in DOMAIN tab : Under(tab, y, path) => e <= y
  PROVE  LET over == {y \in DOMAIN tab : Under(tab, y, path)}
         IN over # {} /\ (CHOOSE x \in over : \A y \in over : x <= y) = e
<1> DEFINE over == {y \in DOMAIN tab : Under(tab, y, path)}
<1>1. over \subseteq Nat
  BY Zenon, TableTypes
<1>2. e \in over /\ \A y \in over : e <= y
  BY Zenon
<1> HIDE DEF over
<1>3. over # {} /\ (CHOOSE x \in over : \A y \in over : x <= y) = e
  BY Zenon, <1>1, <1>2, FirstIs
<1>4. QED
  BY Zenon, <1>3 DEF over

\* The path of an export no other lies over is that export.
LEMMA RootThere ==
  ASSUME NEW tab \in Tables, NEW e \in DOMAIN tab, NEW path \in FullPaths,
         path.dirs = PartsOf[tab[e].path], path.file = NoFile,
         \A y \in DOMAIN tab : Under(tab, y, path) => e <= y
  PROVE  Object(tab, path) = [path |-> tab[e].path, dsn |-> "", member |-> ""]
<1> DEFINE over == {y \in DOMAIN tab : Under(tab, y, path)}
           f == CHOOSE x \in over : \A y \in over : x <= y
           n == Len(path.dirs) - Len(PartsOf[tab[f].path])
<1>1. tab[e].path \in Paths
  BY Zenon, TableTypes
<1>2. PartsOf[tab[e].path] \in Seq(Names)
  BY Zenon, <1>1, HandleAssumption
<1>3. Len(PartsOf[tab[e].path]) \in Nat /\ Len(PartsOf[tab[e].path]) <= Len(PartsOf[tab[e].path])
  BY <1>2
<1>4. Under(tab, e, path)
  BY Zenon, <1>3 DEF Under, Prefix
<1>5. over # {} /\ f = e
  BY Zenon, <1>4, OverIs
<1>6. n = 0
  <2>1. Len(path.dirs) = Len(PartsOf[tab[e].path])
    BY Zenon
  <2> HIDE DEF over, f
  <2>2. QED
    BY <1>3, <1>5, <2>1
<1>7. 0 # 1
  OBVIOUS
<1>8. PathType(tab, path) = [type |-> "root", e |-> f, d |-> 0]
  <2>1. n # 1
    BY Zenon, <1>6, <1>7
  <2> HIDE DEF over, n
  <2>2. QED
    BY Zenon, <1>5, <1>6, <2>1 DEF PathType, over, n
<1> DEFINE at == PathType(tab, path)
<1>9. at.type = "root" /\ at.e = e
  <2> HIDE DEF f, at
  <2>1. at = [type |-> "root", e |-> f, d |-> 0]
    BY Zenon, <1>8 DEF at
  <2>2. QED
    BY Zenon, <1>5, <2>1
<1>10. Object(tab, path) = [path |-> tab[at.e].path, dsn |-> "", member |-> ""]
  BY Zenon, <1>9 DEF Object
<1> HIDE DEF at
<1>11. QED
  BY Zenon, <1>9, <1>10

\* The directory of a dataset of such an export, and a member's name within it
\* with the extension the dataset has, are that dataset and that member.
LEMMA DatasetThere ==
  ASSUME NEW tab \in Tables, NEW e \in DOMAIN tab, NEW path \in FullPaths, NEW dsn \in Dsns,
         path.dirs = Directory(tab[e].path, dsn), FindDataset(tab, e, dsn) # 0,
         \A y \in DOMAIN tab : Under(tab, y, path) => e <= y,
         \/ path.file = NoFile
         \/ /\ path.file.stem \in Stems
            /\ path.file.ext = tab[e].datasets[FindDataset(tab, e, dsn)].ext
  PROVE  Object(tab, path) = [path |-> tab[e].path, dsn |-> dsn, member |-> path.file.stem]
<1> DEFINE over == {y \in DOMAIN tab : Under(tab, y, path)}
           f == CHOOSE x \in over : \A y \in over : x <= y
           n == Len(path.dirs) - Len(PartsOf[tab[f].path])
           p == tab[e].path
           d == FindDataset(tab, e, dsn)
           last == path.dirs[Len(path.dirs)]
<1>1. p \in Paths
  BY Zenon, TableTypes
<1>2. /\ Len(PartsOf[p]) \in Nat /\ Len(path.dirs) = Len(PartsOf[p]) + 1
      /\ last = dsn /\ Agree(path.dirs, PartsOf[p])
  <2> DEFINE dirs == path.dirs
  <2>1. dirs = Directory(p, dsn)
    OBVIOUS
  <2> HIDE DEF dirs, p
  <2>2. /\ Len(PartsOf[p]) \in Nat /\ Len(dirs) = Len(PartsOf[p]) + 1
        /\ dirs[Len(dirs)] = dsn /\ Agree(dirs, PartsOf[p])
    BY Zenon, <1>1, <2>1, DirectoryParts
  <2>3. QED
    BY Zenon, <2>2 DEF dirs
<1>3. Len(PartsOf[p]) <= Len(path.dirs)
  <2> HIDE DEF p, over, f
  <2> QED
    BY <1>2
<1>4. Under(tab, e, path)
  BY Zenon, <1>2, <1>3 DEF Under, Prefix, Agree
<1>5. over # {} /\ f = e
  BY Zenon, <1>4, OverIs
<1>6. n = 1 /\ n # 0
  <2> HIDE DEF over, f
  <2>1. QED
    BY <1>2, <1>5
<1>7. PathType(tab, path) = [type |-> IF path.file = NoFile THEN "dataset" ELSE "member",
                             e |-> e, d |-> d]
  <2>1. PathType(tab, path) = [type |-> IF path.file = NoFile THEN "dataset" ELSE "member",
                               e |-> f, d |-> FindDataset(tab, f, last)]
    <3>1. FindDataset(tab, f, last) # 0
      <4> HIDE DEF f, last
      <4> QED
        BY Zenon, <1>2, <1>5
    <3> HIDE DEF over, n
    <3>2. QED
      BY Zenon, <1>5, <1>6, <3>1 DEF PathType, over, n
  <2> HIDE DEF f, last
  <2>2. QED
    BY Zenon, <1>2, <1>5, <2>1
<1>8. tab[e].datasets[d].dsn = dsn
  BY Zenon, FindDatasetFinds
<1> DEFINE at == PathType(tab, path)
<1>9. at.e = e /\ at.d = d /\ at.type = IF path.file = NoFile THEN "dataset" ELSE "member"
  <2> HIDE DEF at, d
  <2>1. at = [type |-> IF path.file = NoFile THEN "dataset" ELSE "member", e |-> e, d |-> d]
    BY Zenon, <1>7 DEF at
  <2>2. QED
    BY Zenon, <2>1
<1>10. CASE path.file = NoFile
  <2>1. path.file.stem = ""
    <3>1. NoFile.stem = ""
      BY Zenon DEF NoFile
    <3>2. QED
      BY Zenon, <1>10, <3>1
  <2>2. at.type = "dataset"
    BY Zenon, <1>9, <1>10
  <2>3. Object(tab, path) = [path |-> tab[at.e].path, dsn |-> tab[at.e].datasets[at.d].dsn, member |-> ""]
    BY Zenon, <2>2 DEF Object
  <2> HIDE DEF at, d
  <2>4. QED
    BY Zenon, <1>8, <1>9, <2>1, <2>3
<1>11. CASE path.file # NoFile
  <2>1. at.type = "member"
    BY Zenon, <1>9, <1>11
  <2>2. MemberOf(tab, path) = path.file.stem
    <3>1. path.file.ext = tab[at.e].datasets[at.d].ext /\ path.file.stem \in Stems
      <4> HIDE DEF at
      <4> QED
        BY Zenon, <1>9, <1>11
    <3>2. QED
      BY Zenon, <3>1 DEF MemberOf
  <2>3. path.file.stem # ""
    BY Zenon, <1>11, HandleAssumption
  <2>4. Object(tab, path) = [path |-> tab[at.e].path, dsn |-> tab[at.e].datasets[at.d].dsn,
                             member |-> path.file.stem]
    BY Zenon, <2>1, <2>2, <2>3 DEF Object
  <2> HIDE DEF at, d
  <2>5. QED
    BY Zenon, <1>8, <1>9, <2>4
<1>12. QED
  BY Zenon, <1>10, <1>11

\* As long as its object is exported a client's handle leads to it, whatever else
\* was added to the configuration, dropped from it, reordered or given another
\* extension between two starts, unless an export listed before lies over its own.
THEOREM HandlesResolvable ==
  ASSUME HashTellsApart
  PROVE  Spec => []AlwaysResolvable
<1>1. HInv => AlwaysResolvable
  <2> SUFFICES ASSUME HInv, phase = "up", held # NoHandle, NEW e \in DOMAIN table,
                      table[e].path = obj.path,
                      obj.dsn = "" \/ FindDataset(table, e, obj.dsn) # 0,
                      \A y \in 1 .. e - 1 : ~Prefix(PartsOf[table[y].path], PartsOf[obj.path])
               PROVE  Leads(table, held) = obj
    BY Zenon DEF AlwaysResolvable
  <2> DEFINE p == obj.path
             path == Resolve(table, held)
             d == FindDataset(table, e, obj.dsn)
  <2>1. table \in Tables /\ obj \in Objects /\ Given(held, obj)
    BY Zenon DEF HInv, IInv, TableKept
  <2>2. /\ p \in Paths /\ (obj.dsn = "" => obj.member = "")
        /\ held.id = HashedOf[p] /\ held.dsn = obj.dsn /\ held.member = obj.member
    BY Zenon, <2>1 DEF Given
  <2>3. /\ obj = [path |-> p, dsn |-> obj.dsn, member |-> obj.member]
        /\ obj.dsn \in Dsns \cup {""} /\ obj.member \in Stems \cup {""}
    BY Zenon, <2>1, ObjectIs
  <2>4. /\ FindExport(table, held) = e /\ e # 0
        /\ \A y \in DOMAIN table : Prefix(PartsOf[table[y].path], PartsOf[p]) => e <= y
    <3> HIDE DEF p
    <3>1. table[e].path = p /\ \A y \in 1 .. e - 1 : ~Prefix(PartsOf[table[y].path], PartsOf[p])
      BY Zenon DEF p
    <3>2. QED
      BY Zenon, <2>1, <2>2, <3>1, Exported
  <2>5. ~Stale(table, held)
    BY Zenon, <2>2, <2>4 DEF Stale, Named
  <2>6. Leads(table, held) = Object(table, path)
    BY Zenon, <2>5 DEF Leads
  <2>7. /\ path \in FullPaths
        /\ held.dsn = "" => path = Path(PartsOf[p], NoFile)
        /\ held.dsn # "" => path.dirs = Append(PartsOf[p], held.dsn)
        /\ held.dsn # "" => (path.file = NoFile <=> held.member = "")
        /\ held.dsn # "" /\ held.member # "" => path.file.stem = held.member
    <3> HIDE DEF p
    <3>1. held.dsn \in Dsns \cup {""} /\ held.member \in Stems \cup {""}
      BY Zenon, <2>2, <2>3
    <3>2. QED
      BY Zenon, <2>1, <2>2, <2>5, <3>1, ResolvedPath
  <2>8. obj.dsn # "" /\ obj.member # "" => path.file.ext = table[e].datasets[d].ext
    <3>1. SUFFICES ASSUME obj.dsn # "", obj.member # "" PROVE path.file.ext = table[e].datasets[d].ext
      OBVIOUS
    <3>2. Named(table, held) = d
      BY Zenon, <2>2, <2>4 DEF Named
    <3> DEFINE dir == Path(Append(PartsOf[table[e].path], held.dsn), NoFile)
               file == [stem |-> held.member, ext |-> table[e].datasets[d].ext]
    <3>3. path = Within(dir, file)
      BY Zenon, <2>2, <2>4, <3>1, <3>2 DEF Resolve
    <3> HIDE DEF path, dir
    <3>4. path.file = file
      BY Zenon, <3>3, PathFields DEF Within
    <3> HIDE DEF file
    <3>5. file.ext = table[e].datasets[d].ext
      BY Zenon DEF file
    <3>6. QED
      BY Zenon, <3>4, <3>5
  <2> HIDE DEF path
  <2>9. CASE obj.dsn = ""
    <3>1. path.dirs = PartsOf[table[e].path] /\ path.file = NoFile
      <4>1. path = Path(PartsOf[p], NoFile)
        BY Zenon, <2>2, <2>7, <2>9
      <4>2. path.dirs = PartsOf[p] /\ path.file = NoFile
        BY Zenon, <4>1, PathFields
      <4>3. QED
        BY Zenon, <4>2
    <3>2. \A y \in DOMAIN table : Under(table, y, path) => e <= y
      BY Zenon, <2>4, <3>1 DEF Under
    <3>3. Object(table, path) = [path |-> table[e].path, dsn |-> "", member |-> ""]
      BY Zenon, <2>1, <2>7, <3>1, <3>2, RootThere
    <3>4. QED
      BY Zenon, <2>2, <2>3, <2>6, <2>9, <3>3
  <2>10. CASE obj.dsn # ""
    <3> DEFINE dsn == obj.dsn
    <3>1. dsn \in Dsns /\ FindDataset(table, e, dsn) # 0
      BY Zenon, <2>3, <2>10
    <3>2. path.dirs = Directory(table[e].path, dsn)
      BY Zenon, <2>2, <2>7, <2>10 DEF Directory
    <3>3. \A y \in DOMAIN table : Under(table, y, path) => e <= y
      <4> TAKE y \in DOMAIN table
      <4>1. SUFFICES ASSUME Under(table, y, path) PROVE e <= y
        OBVIOUS
      <4>2. Prefix(PartsOf[table[y].path], Directory(p, dsn))
        BY Zenon, <3>2, <4>1 DEF Under
      <4>3. table[y].path \in Paths
        BY Zenon, <2>1, TableTypes
      <4>4. Prefix(PartsOf[table[y].path], PartsOf[p])
        <5> HIDE DEF p, dsn
        <5> QED
          BY Zenon, <2>2, <3>1, <4>2, <4>3, OverDirectory
      <4>5. QED
        BY Zenon, <2>4, <4>4
    <3>4. path.file.stem = obj.member
      <4>1. NoFile.stem = ""
        BY Zenon DEF NoFile
      <4>2. QED
        BY Zenon, <2>2, <2>7, <2>10, <4>1
    <3>5. \/ path.file = NoFile
          \/ /\ path.file.stem \in Stems
             /\ path.file.ext = table[e].datasets[FindDataset(table, e, dsn)].ext
      BY Zenon, <2>2, <2>3, <2>7, <2>8, <2>10, <3>4
    <3>6. Object(table, path) = [path |-> table[e].path, dsn |-> dsn, member |-> path.file.stem]
      <4> HIDE DEF dsn
      <4> QED
        BY Zenon, <2>1, <2>7, <3>1, <3>2, <3>3, <3>5, DatasetThere
    <3>7. QED
      BY Zenon, <2>3, <2>6, <3>4, <3>6
  <2>11. QED
    BY Zenon, <2>9, <2>10
<1>2. QED
  BY <1>1, HandlesGiven, PTL

\* ACCESS lets nobody write, root included, where mvs_check_writable refuses a
\* write, and lets root write wherever it does not: check_access and the writing
\* operations read the same of the object whatever the table holds.
THEOREM AccessIsHonest ==
  Spec => []AccessHonest
<1>1. AccessHonest
  <2> SUFFICES ASSUME phase = "up", held # NoHandle, Leads(table, held) # Nothing
               PROVE  LET path == Resolve(table, held)
                      IN /\ \A uid \in {0, 1} :
                              "w" \in CheckAccess(Stat(path), uid) => Writable(path)
                         /\ Writable(path) => "w" \in CheckAccess(Stat(path), 0)
    BY Zenon DEF AccessHonest
  <2> DEFINE path == Resolve(table, held)
             at == PathType(table, path)
             st == Stat(path)
             ro == table[at.e].datasets[at.d].readonly
  <2>1. at.type \in {"root", "dataset", "member"}
    BY Zenon DEF Leads, Object
  <2>2. st.readonly = IF at.type = "root" THEN TRUE ELSE ro
    BY Zenon DEF Stat
  <2>3. Writable(path) <=> at.type # "root" /\ ~ro
    BY Zenon, <2>1 DEF Writable
  <2> HIDE DEF path, at, st, ro
  <2>4. Writable(path) <=> ~st.readonly
    BY Zenon, <2>2, <2>3
  <2>5. \A uid : "w" \in CheckAccess(st, uid) => ~st.readonly
    BY Zenon DEF CheckAccess
  <2>6. ~st.readonly => "w" \in CheckAccess(st, 0)
    BY Zenon DEF CheckAccess
  <2>7. QED
    BY Zenon, <2>4, <2>5, <2>6 DEF st, path
<1>2. QED
  BY <1>1, PTL
-----------------------------------------------------------------------------
(* What is served *)

\* The inductive invariant: while it loads, the parser is at what was written;
\* what it leaves is as written.
RInv ==
  /\ IInv /\ read \in Seq(Lines)
  /\ phase = "load" => ReadsAs(read, ld)
  /\ phase \in {"down", "up"} => read = <<>>
  /\ phase # "load" => ld = Blank
  /\ phase = "loaded" => \A e \in 1 .. Len(table) : AsWritten(read, table[e])

\* Every step keeps it: a line by LineReads, the end of the file by ServedIsWritten.
LEMMA StaysAsWritten ==
  RInv /\ [Next]_vars => RInv'
<1> SUFFICES ASSUME RInv, [Next]_vars PROVE RInv'
  OBVIOUS
<1>1. IInv /\ IInv' /\ Parsed(ld) /\ phase \in {"down", "load", "loaded", "up"}
  BY Zenon, StaysTyped DEF RInv, IInv
<1>2. CASE UNCHANGED <<phase, read, ld, table>>
  BY Zenon, <1>1, <1>2 DEF RInv
<1>3. CASE Start
  <2>1. phase' = "load" /\ read' = <<>> /\ ld' = Blank
    BY Zenon, <1>3 DEF RInv, Start
  <2>2. QED
    BY Zenon, <1>1, <2>1, BlankReads DEF RInv
<1>4. CASE Serve
  BY Zenon, <1>1, <1>4, BlankReads DEF RInv, Serve
<1>5. CASE End
  BY Zenon, <1>1, <1>5 DEF RInv, End
<1>6. ASSUME NEW toks \in Lines, Read(toks) PROVE RInv'
  <2>1. /\ phase' = "load" /\ phase = "load"
        /\ read' = Append(read, toks) /\ ld' = ReadLine(ld, toks)
    BY Zenon, <1>6 DEF Read
  <2>2. read \in Seq(Lines) /\ ReadsAs(read, ld)
    BY Zenon, <2>1 DEF RInv
  <2>3. ReadsAs(read', ld') /\ read' \in Seq(Lines)
    BY Zenon, <1>1, <2>1, <2>2, LineReads, AppendedOne
  <2>4. QED
    BY Zenon, <1>1, <2>1, <2>3 DEF RInv
<1>7. ASSUME NEW usable \in {Dsns} \cup {Dsns \ {d} : d \in Dsns}, Finish(usable) PROVE RInv'
  <2>1. usable \subseteq Dsns
    BY Zenon
  <2>2. /\ phase = "load" /\ phase' = "loaded" /\ table' = EndOfFile(ld, usable)
        /\ ld' = Blank /\ read' = read
    BY Zenon, <1>7 DEF Finish
  <2>3. read \in Seq(Lines) /\ Told(read, ld.table)
    BY Zenon, <2>2 DEF RInv, ReadsAs
  <2>4. \A e \in 1 .. Len(table') : Served(ld, table'[e], usable)
    BY Zenon, <1>1, <2>2, EndLeaves
  <2>5. \A e \in 1 .. Len(table') : AsWritten(read', table'[e])
    BY Zenon, <1>1, <2>1, <2>2, <2>3, <2>4, ServedIsWritten
  <2>6. QED
    BY Zenon, <1>1, <2>2, <2>3, <2>5 DEF RInv
<1>8. ASSUME NEW p \in Paths, Mount(p) PROVE RInv'
  BY Zenon, <1>2, <1>8 DEF Mount
<1>9. ASSUME NEW dsn \in Dsns, LookUpDataset(dsn) PROVE RInv'
  BY Zenon, <1>2, <1>9 DEF LookUpDataset, LookUp
<1>10. ASSUME NEW stem \in Stems, NEW ext \in Exts, LookUpMember([stem |-> stem, ext |-> ext])
       PROVE  RInv'
  BY Zenon, <1>2, <1>10 DEF LookUpMember, LookUp
<1>11. CASE UNCHANGED vars
  BY Zenon, <1>2, <1>11 DEF vars
<1>12. QED
  BY Zenon, <1>3, <1>4, <1>5, <1>6, <1>7, <1>8, <1>9, <1>10, <1>11 DEF Next

\* What exports_load leaves is what the configuration says, however many lines it
\* has and in whatever order they come: each dataset served is there by a line of
\* its own, read-only exactly if its line or its block says ro, and a block whose
\* export is served is served whole.
THEOREM ConfigurationServed ==
  Spec => []ServedAsWritten
<1>1. Init => RInv
  <2> SUFFICES ASSUME Init PROVE RInv
    OBVIOUS
  <2>1. IInv
    BY Zenon, StartsTyped
  <2>2. QED
    BY Zenon, <2>1, BlankReads DEF Init, RInv
<1>2. RInv => ServedAsWritten
  <2> SUFFICES ASSUME RInv, phase = "loaded" PROVE ServedAsWritten
    BY Zenon DEF ServedAsWritten
  <2>1. \A e \in 1 .. Len(table) : AsWritten(read, table[e])
    BY Zenon DEF RInv
  <2>2. DOMAIN table = 1 .. Len(table)
    <3>1. table \in Tables
      BY Zenon DEF RInv, IInv, TableKept
    <3>2. QED
      BY <3>1 DEF Tables
  <2>3. QED
    BY Zenon, <2>1, <2>2, SameLines, BlockOfIsBlocks DEF AsWritten, ServedAsWritten
<1>3. QED
  BY <1>1, <1>2, StaysAsWritten, PTL DEF Spec
=============================================================================
