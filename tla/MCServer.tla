------------------------------ MODULE MCServer ------------------------------
EXTENDS Server

CONSTANTS c1, c2, c3

MCClients == {c1, c2, c3}
MCProtos == {1, 2}
MCProtoOf == [c \in MCClients |-> IF c = c1 THEN 1 ELSE 2]
=============================================================================
