----------------------------- MODULE FileHandle -----------------------------
(***************************************************************************)
(* fhandle.c, mvsfid.c and the mapping of paths in mvsio.c: which object a *)
(* path is, the handle the server gives for it, and the path it makes of a *)
(* handle a client presents, both under the table of exports at that time. *)
(* A path is the sequence of its components and the file name that ends    *)
(* it, if any; the 32-bit hash is taken to tell apart the texts it is of.  *)
(***************************************************************************)
EXTENDS ExportConfig, TLC

CONSTANTS Paths,       \* paths of exports
          PartsOf,     \* export path -> its components
          HashedOf,    \* export path -> the part of it that is hashed
          Dsns,        \* datasets, each with a directory of its name
          Stems        \* names a member may have

Names == STRING

\* No component of an export's path has the name of a dataset.
ASSUME HandleAssumption ==
  /\ "" \in Names
  /\ \A p \in Paths : PartsOf[p] \in Seq(Names)
  /\ \A p, q \in Paths : PartsOf[p] = PartsOf[q] => p = q
  /\ \A p \in Paths : \A k \in DOMAIN PartsOf[p] : PartsOf[p][k] \notin Dsns
  /\ Dsns \subseteq Names /\ "" \notin Dsns
  /\ Stems \subseteq Names /\ "" \notin Stems

NoFile == [stem |-> "", ext |-> ""]
NoHandle == [id |-> "", dsn |-> "", member |-> ""]
Path(dirs, file) == [dirs |-> dirs, file |-> file]
Below(path, name) == Path(Append(path.dirs, name), NoFile)
Within(path, file) == Path(path.dirs, file)
NotExported == [type |-> "none", e |-> 0, d |-> 0]

\* export_dataset_find_by_dirname; a directory has its dataset's name.
FindDataset(table, e, dsn) ==
  LET ds == table[e].datasets
      at == {d \in DOMAIN ds : ds[d].dsn = dsn}
  IN IF at = {} THEN 0 ELSE CHOOSE d \in at : \A k \in at : d <= k

Prefix(parts, dirs) ==
  Len(parts) <= Len(dirs) /\ \A k \in 1 .. Len(parts) : dirs[k] = parts[k]

\* The path is the export itself, or lies below it.
Under(table, e, path) == Prefix(PartsOf[table[e].path], path.dirs)

\* mvs_path_type: the first export the path is under decides, whether or not
\* it has a dataset of that name and a later one would.
PathType(table, path) ==
  LET over == {e \in DOMAIN table : Under(table, e, path)}
      e == CHOOSE x \in over : \A y \in over : x <= y
      n == Len(path.dirs) - Len(PartsOf[table[e].path])
      d == FindDataset(table, e, path.dirs[Len(path.dirs)])
  IN CASE over = {} -> NotExported
       [] over # {} /\ n = 0 /\ path.file = NoFile ->
            [type |-> "root", e |-> e, d |-> 0]
       [] over # {} /\ n = 1 /\ d # 0 ->
            [type |-> IF path.file = NoFile THEN "dataset" ELSE "member",
             e |-> e, d |-> d]
       [] OTHER -> NotExported

\* mvs_get_pds_dsn_and_member for a member's path: the name, "" if it can name
\* none.  Where the dataset has an extension the name must have the same; where
\* it has none a dot is a character no member's name has.
MemberOf(table, path) ==
  LET at == PathType(table, path)
      ext == table[at.e].datasets[at.d].ext
  IN IF path.file.stem \in Stems /\ path.file.ext = ext THEN path.file.stem ELSE ""

\* Mutant: a handle names its export by its place in the table.
IdByIndex(table, e) == ToString(e)

\* fh_export_id
FhExportId(table, e) == HashedOf[table[e].path]

\* fh_from_path, NoHandle when it fails.
FromPath(table, path) ==
  LET at == PathType(table, path)
      id == FhExportId(table, at.e)
      dsn == table[at.e].datasets[at.d].dsn
  IN CASE at.type = "root" -> [id |-> id, dsn |-> "", member |-> ""]
       [] at.type = "dataset" -> [id |-> id, dsn |-> dsn, member |-> ""]
       [] at.type = "member" ->
            IF MemberOf(table, path) = "" THEN NoHandle
            ELSE [id |-> id, dsn |-> dsn, member |-> MemberOf(table, path)]
       [] OTHER -> NoHandle

\* fh_find_export, the first export the handle's hash is of, 0 if there is none.
FindExport(table, fh) ==
  LET at == {e \in DOMAIN table : FhExportId(table, e) = fh.id}
  IN IF at = {} THEN 0 ELSE CHOOSE e \in at : \A k \in at : e <= k

\* The first dataset of the name the handle bears.
Named(table, fh) ==
  LET e == FindExport(table, fh) IN IF e = 0 THEN 0 ELSE FindDataset(table, e, fh.dsn)

Stale(table, fh) ==
  \/ FindExport(table, fh) = 0
  \/ fh.dsn # "" /\ Named(table, fh) = 0

\* Mutant: the extension is that of the dataset's name.
ResolveWithQualifier(table, fh) ==
  LET exp == table[FindExport(table, fh)]
      dir == Path(Append(PartsOf[exp.path], fh.dsn), NoFile)
  IN CASE fh.dsn = "" -> Path(PartsOf[exp.path], NoFile)
       [] fh.dsn # "" /\ fh.member = "" -> dir
       [] fh.dsn # "" /\ fh.member # "" ->
            Within(dir, [stem |-> fh.member, ext |-> QualifierOf[fh.dsn]])

\* fh_resolve of a handle that is not stale.
Resolve(table, fh) ==
  LET exp == table[FindExport(table, fh)]
      dir == Path(Append(PartsOf[exp.path], fh.dsn), NoFile)
  IN CASE fh.dsn = "" -> Path(PartsOf[exp.path], NoFile)
       [] fh.dsn # "" /\ fh.member = "" -> dir
       [] fh.dsn # "" /\ fh.member # "" ->
            Within(dir, [stem |-> fh.member,
                         ext |-> exp.datasets[Named(table, fh)].ext])

Nothing == [path |-> "", dsn |-> "", member |-> ""]

\* The object vfs_stat tells of at a path.
Object(table, path) ==
  LET at == PathType(table, path)
      exp == table[at.e]
      ds == exp.datasets[at.d]
  IN CASE at.type = "root" -> [path |-> exp.path, dsn |-> "", member |-> ""]
       [] at.type = "dataset" -> [path |-> exp.path, dsn |-> ds.dsn, member |-> ""]
       [] at.type = "member" ->
            IF MemberOf(table, path) = "" THEN Nothing
            ELSE [path |-> exp.path, dsn |-> ds.dsn, member |-> MemberOf(table, path)]
       [] OTHER -> Nothing

\* The object a request with this handle is about.
Leads(table, fh) ==
  IF Stale(table, fh) THEN Nothing ELSE Object(table, Resolve(table, fh))
=============================================================================
