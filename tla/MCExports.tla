----------------------------- MODULE MCExports ------------------------------
EXTENDS Exports

MCLines ==
  {<<"/x", "D1">>, <<"/x", "D2", "ro">>, <<"/x/y", "D1", "nofileext">>,
   <<"/x", "ro", "{">>, <<"/x/y", "rootperm=0", "{">>, <<"D1", "perm=0">>, <<"D2", "rw">>,
   <<"}">>, <<"/z", "D1">>, <<"D2", "rootperm=0">>,
   <<"/x/y", "D2", "ro", "rw", "ro">>, <<"{">>, <<"[other]">>, <<"[exports]">>}

MCToks == UNION {{t[k] : k \in DOMAIN t} : t \in MCLines}
MCPaths == {"/x", "/x/y", "/z"}
MCQualifierOf == [t \in MCToks |-> IF t = "D1" THEN "q" ELSE ""]
MCPartsOf ==
  [t \in MCToks |-> CASE t = "/x" -> <<"x">> [] t = "/x/y" -> <<"x", "y">>
                      [] OTHER -> <<t>>]
MCHashedOf == [t \in MCToks |-> t]

\* Two paths that differ after their first 44 characters.
MCLongHashedOf == [t \in MCToks |-> IF t \in {"/x", "/z"} THEN "/long" ELSE t]
=============================================================================
