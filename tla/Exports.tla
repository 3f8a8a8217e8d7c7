------------------------------ MODULE Exports -------------------------------
(***************************************************************************)
(* The server from one start to the next: it reads its configuration, line *)
(* by line, serves a client that mounts and looks up, ends, and is started *)
(* again with a configuration that may be another one.  The client keeps   *)
(* its handle all the while, with the object it was given it for.          *)
(***************************************************************************)
EXTENDS FileHandle

CONSTANTS Lines,       \* lines a configuration may have
          MaxLines,
          Exts,
          MaxStarts

\* The first token of a line that opens a block, or that names a dataset, is
\* the path of an export.  No path and no dataset is called like a keyword, and
\* the words the parser puts in are names too.
ASSUME LinesAssumption ==
  /\ (Paths \cup Dsns) \cap (Keywords \cup {"{"}) = {}
  /\ Keywords \cup {Unset, "bad", "e", "", "000", "555", "777"} \subseteq Names
  /\ MaxLines \in Nat /\ MaxStarts \in Nat /\ Exts \subseteq Names
  /\ \A toks \in Lines :
       /\ toks \in Seq(Names) /\ toks # <<>>
       /\ \A k \in DOMAIN toks : QualifierOf[toks[k]] \in Names
       /\ Len(toks) > 1 /\ (toks[Len(toks)] = "{" \/ toks[2] \in Dsns) => toks[1] \in Paths

VARIABLES phase,       \* "down", "load", "loaded", "up"
          read,        \* lines of the configuration read so far
          ld,          \* the parser
          table,       \* g_exports
          held, obj,   \* the client's handle, and what it was given it for
          starts

vars == <<phase, read, ld, table, held, obj, starts>>

Init ==
  /\ phase = "down" /\ read = <<>> /\ ld = Blank /\ table = <<>>
  /\ held = NoHandle /\ obj = Nothing /\ starts = 0

Start ==
  /\ phase = "down" /\ starts < MaxStarts
  /\ phase' = "load" /\ starts' = starts + 1
  /\ UNCHANGED <<read, ld, table, held, obj>>

Read(toks) ==
  /\ phase = "load" /\ Len(read) < MaxLines
  /\ read' = Append(read, toks) /\ ld' = ReadLine(ld, toks)
  /\ UNCHANGED <<phase, table, held, obj, starts>>

\* The VTOC says at each start which datasets can be served.
Finish(usable) ==
  /\ phase = "load"
  /\ phase' = "loaded" /\ table' = EndOfFile(ld, usable) /\ ld' = Blank
  /\ UNCHANGED <<read, held, obj, starts>>

Serve ==
  /\ phase = "loaded" /\ phase' = "up" /\ read' = <<>>
  /\ UNCHANGED <<ld, table, held, obj, starts>>

\* STOP, or an abend: no state but the configuration outlives it.
End ==
  /\ phase = "up"
  /\ phase' = "down" /\ table' = <<>>
  /\ UNCHANGED <<read, ld, held, obj, starts>>

\* MNT: the export of this path, if its path is the path of a directory.
Mount(p) ==
  LET root == Path(PartsOf[p], NoFile)
  IN /\ phase = "up"
     /\ \E e \in DOMAIN table : table[e].path = p
     /\ Object(table, root) # Nothing /\ FromPath(table, root) # NoHandle
     /\ held' = FromPath(table, root)
     /\ obj' = [path |-> p, dsn |-> "", member |-> ""]
     /\ UNCHANGED <<phase, read, ld, table, starts>>

LookUp(path, made) ==
  /\ Object(table, path) # Nothing /\ FromPath(table, path) # NoHandle
  /\ held' = FromPath(table, path) /\ obj' = made
  /\ UNCHANGED <<phase, read, ld, table, starts>>

LookUpDataset(dsn) ==
  /\ phase = "up" /\ held # NoHandle /\ obj.dsn = "" /\ ~Stale(table, held)
  /\ LookUp(Below(Resolve(table, held), dsn), [obj EXCEPT !.dsn = dsn])

LookUpMember(file) ==
  /\ phase = "up" /\ obj.dsn # "" /\ obj.member = "" /\ ~Stale(table, held)
  /\ LookUp(Within(Resolve(table, held), file), [obj EXCEPT !.member = file.stem])

Next ==
  \/ Start \/ Serve \/ End
  \/ \E toks \in Lines : Read(toks)
  \/ \E usable \in {Dsns} \cup {Dsns \ {d} : d \in Dsns} : Finish(usable)
  \/ \E p \in Paths : Mount(p)
  \/ \E dsn \in Dsns : LookUpDataset(dsn)
  \/ \E stem \in Stems, ext \in Exts : LookUpMember([stem |-> stem, ext |-> ext])

Spec == Init /\ [][Next]_vars

-----------------------------------------------------------------------------
Bits(perm) ==
  CASE perm = "000" -> {} [] perm = "555" -> {"r", "x"} [] OTHER -> {"r", "w", "x"}

\* vfs_stat's mode, the bits everybody has, without write where it reports a
\* read-only object, and its fs_readonly.
Stat(path) ==
  LET at == PathType(table, path)
      ds == table[at.e].datasets[at.d]
      ro == IF at.type = "root" THEN TRUE ELSE ds.readonly
      perm == IF at.type = "root" THEN table[at.e].rootperm ELSE ds.perm
  IN [readonly |-> ro,
      mode |-> Bits(perm) \ (IF ro THEN {"w"} ELSE {})]

\* Mutant: root is above a read-only file system too.
RootAbove(st, uid) == IF uid = 0 THEN {"r", "w"} \cup st.mode
                      ELSE st.mode \ (IF st.readonly THEN {"w"} ELSE {})

\* check_access: root has its bits whatever the mode, but none to write with
\* where the object is read-only.
CheckAccess(st, uid) ==
  (IF uid = 0 THEN {"r", "w"} \cup (st.mode \cap {"x"}) ELSE st.mode)
    \ (IF st.readonly THEN {"w"} ELSE {})

\* mvs_check_writable, and the operations' refusal of what is no member and
\* not in a dataset.
Writable(path) ==
  LET at == PathType(table, path)
  IN at.type \in {"dataset", "member"} /\ ~table[at.e].datasets[at.d].readonly

-----------------------------------------------------------------------------
\* The types of the state: the table is within its limits and holds no export
\* that failed, a block is one of an export there is, and the client has a
\* handle exactly if it was given one for something.
TypeOK ==
  /\ phase \in {"down", "load", "loaded", "up"}
  /\ Len(table) <= MaxExports /\ Len(ld.table) <= MaxExports
  /\ \A e \in DOMAIN table :
       /\ table[e].path \in Paths
       /\ ~table[e].failed /\ Len(table[e].datasets) <= MaxDatasets
       /\ \A d \in DOMAIN table[e].datasets : table[e].datasets[d].dsn \in Dsns
  /\ ld.idx \in 0 .. Len(ld.table)
  /\ held = NoHandle <=> obj = Nothing

\* A handle means one object for good: after restarts, and under whatever
\* configuration, the server finds that object by it or none.
HandleExact ==
  phase = "up" /\ held # NoHandle => Leads(table, held) \in {obj, Nothing}

\* As long as its object is exported a handle leads to it, whatever else in
\* the configuration was added, dropped, reordered or given another extension,
\* unless an export listed before lies over its export's path.
AlwaysResolvable ==
  phase = "up" /\ held # NoHandle =>
    \A e \in DOMAIN table :
      /\ table[e].path = obj.path
      /\ obj.dsn = "" \/ FindDataset(table, e, obj.dsn) # 0
      /\ \A y \in 1 .. e - 1 : ~Prefix(PartsOf[table[y].path], PartsOf[obj.path])
      => Leads(table, held) = obj

\* ACCESS lets nobody write, root included, where a write is refused as on a
\* read-only file system, and lets root write wherever it is not.
AccessHonest ==
  phase = "up" /\ held # NoHandle /\ Leads(table, held) # Nothing =>
    LET path == Resolve(table, held)
    IN /\ \A uid \in {0, 1} : "w" \in CheckAccess(Stat(path), uid) => Writable(path)
       /\ Writable(path) => "w" \in CheckAccess(Stat(path), 0)

\* Line k, of these tokens, is in the block that line b opened (0: in none): the
\* block the line after it is in.
NextBlock(b, toks, k) ==
  IF toks = <<"}">> \/ toks[1] \in Headers THEN 0
  ELSE IF b # 0 THEN b
  ELSE IF toks[Len(toks)] = "{" /\ Len(toks) <= MaxToks THEN k ELSE 0

\* The line that opened the block a line of the configuration is in, 0 outside.
BlockOf ==
  LET f[k \in 1 .. Len(read) + 1] ==
        IF k = 1 THEN 0 ELSE NextBlock(f[k - 1], read[k - 1], k - 1)
  IN f

InExports(k) ==
  LET hs == {j \in 1 .. k - 1 : read[j][1] \in Headers}
  IN /\ read[k][1] \notin Headers /\ read[k] # <<"}">> /\ read[k][Len(read[k])] # "{"
     /\ hs = {} \/ read[CHOOSE j \in hs : \A i \in hs : i <= j][1] = "[exports]"

SaysRo(toks) == LastOf(toks, {"ro", "rw"}) = "ro"

\* Line k of the configuration puts dataset ds in an export of this path.
Gives(k, path, ds) ==
  LET b == BlockOf[k]
  IN /\ InExports(k)
     /\ IF b = 0 THEN /\ Len(read[k]) >= 2 /\ read[k][1] = path /\ read[k][2] = ds.dsn
                      /\ ds.readonly = SaysRo(read[k])
        ELSE /\ Len(read[b]) >= 2 /\ read[b][1] = path /\ read[k][1] = ds.dsn
             /\ ds.readonly = (SaysRo(read[b]) \/ SaysRo(read[k]))

\* What is served is what the configuration says: each dataset of an export is
\* there by a line of its own, read-only exactly if its line or its block says
\* so; and a block is served whole or its export is not served.
ServedAsWritten ==
  phase = "loaded" =>
    \A e \in DOMAIN table :
      /\ \A d \in DOMAIN table[e].datasets :
           \E k \in DOMAIN read : Gives(k, table[e].path, table[e].datasets[d])
      /\ \A k \in DOMAIN read :
           InExports(k) /\ BlockOf[k] # 0 /\ read[BlockOf[k]][1] = table[e].path
             => \E d \in DOMAIN table[e].datasets :
                  Gives(k, table[e].path, table[e].datasets[d])

\* What the documents say of ro: it is a ceiling over the whole export.
CeilingHolds ==
  \A e \in DOMAIN table : table[e].readonly =>
    \A d \in DOMAIN table[e].datasets : table[e].datasets[d].readonly
=============================================================================
