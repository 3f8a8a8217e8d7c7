---------------------------- MODULE ExportConfig ----------------------------
(***************************************************************************)
(* cfgopts.c and exports.c: what a line of the configuration does to the   *)
(* table of exports while exports_load reads it.  A line is the sequence   *)
(* of its tokens; the state of the parser is a record.  dirperm= and       *)
(* memperm= are one keyword here, and it can only ask for no bits at all.  *)
(***************************************************************************)
EXTENDS Naturals, Sequences, FiniteSets, Sublists

CONSTANTS MaxExports,     \* MAX_EXPORTS
          MaxDatasets,    \* MAX_PDS_PER_EXPORT
          MaxToks,        \* CFG_MAX_TOKS
          QualifierOf     \* dsname -> its last qualifier, "" if it has one only

ASSUME ConfigAssumption ==
  MaxExports \in Nat \ {0} /\ MaxDatasets \in Nat \ {0} /\ MaxToks \in Nat \ {0}

Unset == "unset"
NoOpts == [ro |-> Unset, ext |-> Unset, perm |-> Unset, rootperm |-> Unset]
Bad == [ro |-> "bad", ext |-> "bad", perm |-> "bad", rootperm |-> "bad"]

Keywords == {"ro", "rw", "perm=0", "rootperm=0", "fileext=e", "nofileext"}

LastOf(toks, S) ==
  LET at == {k \in DOMAIN toks : toks[k] \in S}
  IN IF at = {} THEN Unset ELSE toks[CHOOSE k \in at : \A j \in at : j <= k]

\* Of two keywords for one option the last one counts; one that is unknown, or
\* not of this level, and two that contradict each other spoil the line.
ParseKeywords(toks, level) ==
  LET said == {toks[k] : k \in DOMAIN toks}
  IN IF \/ ~(said \subseteq Keywords)
        \/ level = "dataset" /\ "rootperm=0" \in said
        \/ {"fileext=e", "nofileext"} \subseteq said
     THEN Bad
     ELSE [ro |-> LastOf(toks, {"ro", "rw"}),
           ext |-> CASE "fileext=e" \in said -> "e"
                     [] "nofileext" \in said -> ""
                     [] OTHER -> Unset,
           perm |-> IF "perm=0" \in said THEN "000" ELSE Unset,
           rootperm |-> IF "rootperm=0" \in said THEN "000" ELSE Unset]

First(a, b) == IF a # Unset THEN a ELSE b

\* rw in a dataset's line is no answer to ro in its block's.
Clash(exp, ds) == exp.ro = "ro" /\ ds.ro = "rw"

DatasetInit(dsn) ==
  [dsn |-> dsn, readonly |-> FALSE, ext |-> QualifierOf[dsn], perm |-> "777"]

\* Mutant: the block's ro is not looked at.
ResolveKeepsRw(exp, ds, dsn) ==
  [DatasetInit(dsn) EXCEPT !.readonly = ds.ro = "ro",
                           !.ext = First(ds.ext, First(exp.ext, @)),
                           !.perm = First(ds.perm, First(exp.perm, @))]

\* The dataset's keyword, or else its block's, or else the default.
ResolveOpts(exp, ds, dsn) ==
  [DatasetInit(dsn) EXCEPT !.readonly = exp.ro = "ro" \/ ds.ro = "ro",
                           !.ext = First(ds.ext, First(exp.ext, @)),
                           !.perm = First(ds.perm, First(exp.perm, @))]

\* The parser before the first line: a block is open or not, idx is the export
\* it is for (0: none, its lines are skipped), opts its keywords.
Blank == [section |-> "exports", open |-> FALSE, idx |-> 0, opts |-> NoOpts,
          table |-> <<>>]

Fail(ld, e) == IF e = 0 THEN ld ELSE [ld EXCEPT !.table[e].failed = TRUE]

\* find_or_create_export: <<index, table>>, index 0 when the table is full.
FindOrCreate(table, path) ==
  LET at == {e \in DOMAIN table : table[e].path = path}
  IN IF at # {} THEN <<CHOOSE e \in at : TRUE, table>>
     ELSE IF Len(table) >= MaxExports THEN <<0, table>>
     ELSE <<Len(table) + 1,
            Append(table, [path |-> path, readonly |-> FALSE, failed |-> FALSE,
                           rootperm |-> "555", datasets |-> <<>>])>>

AddDataset(ld, e, dsn, exp, ds) ==
  IF Len(ld.table[e].datasets) >= MaxDatasets \/ Clash(exp, ds) THEN Fail(ld, e)
  ELSE [ld EXCEPT !.table[e].datasets = Append(@, ResolveOpts(exp, ds, dsn))]

\* A block that has no export, for want of a path or of room, is opened all the
\* same: its lines belong to it.
OpenBlock(ld, toks) ==
  LET found == IF toks = <<>> THEN <<0, ld.table>> ELSE FindOrCreate(ld.table, toks[1])
      opts == IF found[1] = 0 THEN NoOpts ELSE ParseKeywords(Tail(toks), "export")
      opened == [ld EXCEPT !.open = TRUE, !.idx = found[1], !.opts = opts,
                           !.table = found[2]]
  IN CASE opts = Bad -> Fail(opened, found[1])
       [] opts # Bad /\ found[1] = 0 -> opened
       [] opts # Bad /\ found[1] # 0 ->
            [opened EXCEPT !.table[found[1]].readonly = @ \/ opts.ro = "ro",
                           !.table[found[1]].rootperm = First(opts.rootperm, @)]

DatasetLine(ld, toks) ==
  LET ds == ParseKeywords(Tail(toks), "dataset")
  IN CASE ld.idx = 0 -> ld
       [] ld.idx # 0 /\ ld.table[ld.idx].failed -> ld
       [] ld.idx # 0 /\ ~ld.table[ld.idx].failed ->
            IF ds = Bad THEN Fail(ld, ld.idx)
            ELSE AddDataset(ld, ld.idx, toks[1], ld.opts, ds)

FlatLine(ld, toks) ==
  LET found == FindOrCreate(ld.table, toks[1])
      made == [ld EXCEPT !.table = found[2]]
      ds == ParseKeywords(SubSeq(toks, 3, Len(toks)), "dataset")
  IN CASE Len(toks) < 2 -> ld
       [] Len(toks) >= 2 /\ found[1] = 0 -> ld
       [] Len(toks) >= 2 /\ found[1] # 0 ->
            IF ds = Bad THEN Fail(made, found[1])
            ELSE AddDataset(made, found[1], toks[2], NoOpts, ds)

ExportLine(ld, toks) ==
  LET last == toks[Len(toks)]
  IN CASE toks = <<"}">> -> [ld EXCEPT !.open = FALSE]
       [] Len(toks) > MaxToks -> IF ld.open THEN Fail(ld, ld.idx) ELSE ld
       [] toks # <<"}">> /\ Len(toks) <= MaxToks ->
            CASE ld.open /\ last = "{" -> Fail(ld, ld.idx)
              [] ld.open /\ last # "{" -> DatasetLine(ld, toks)
              [] ~ld.open /\ last = "{" -> OpenBlock(ld, SubSeq(toks, 1, Len(toks) - 1))
              [] ~ld.open /\ last # "{" -> FlatLine(ld, toks)

Headers == {"[init]", "[exports]", "[other]"}
SectionOf(header) ==
  CASE header = "[init]" -> "init" [] header = "[exports]" -> "exports"
    [] OTHER -> "unknown"

\* A header inside a block fails the block's export and closes the block; a
\* line of [Init] is an operator command, and one of an unknown section nothing.
EnterSection(ld, header) ==
  LET closed == IF ld.open THEN [Fail(ld, ld.idx) EXCEPT !.open = FALSE] ELSE ld
  IN [closed EXCEPT !.section = SectionOf(header)]

ReadLine(ld, toks) ==
  CASE toks[1] \in Headers -> EnterSection(ld, toks[1])
    [] toks[1] \notin Headers /\ ld.section = "exports" -> ExportLine(ld, toks)
    [] toks[1] \notin Headers /\ ld.section # "exports" -> ld

\* The end of the file inside a block, and a dataset the VTOC has no usable
\* DSCB for, fail the export; then what failed is dropped.
LoadDscbInfo(table, usable) ==
  [e \in DOMAIN table |->
     [table[e] EXCEPT !.failed =
        @ \/ \E k \in DOMAIN table[e].datasets : table[e].datasets[k].dsn \notin usable]]

\* Mutant: what failed is kept.
KeepFailed(table) == table

DropFailed(table) == Sublist(table, {e \in DOMAIN table : ~table[e].failed})

EndOfFile(ld, usable) ==
  LET closed == IF ld.open THEN Fail(ld, ld.idx) ELSE ld
  IN DropFailed(LoadDscbInfo(closed.table, usable))
=============================================================================
