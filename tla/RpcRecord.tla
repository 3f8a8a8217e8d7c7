------------------------------ MODULE RpcRecord ------------------------------
(***************************************************************************)
(* One RPC message as rpc.c receives it: its length, the check for a       *)
(* buffer the socket layer has garbled, and the CALL header.               *)
(*                                                                         *)
(* A message is a sequence of words.  The fields of a CALL and of a WRITE  *)
(* stand for one word each, in the order they have on the wire.  Every     *)
(* word that is not a count is too large to be taken for one.              *)
(***************************************************************************)
EXTENDS Naturals, Sequences

CONSTANTS MaxLen,      \* BUF_SIZE, in words
          MaxData      \* the most words of data a client writes at once

ASSUME RpcAssumption == MaxLen \in 1 .. 99 /\ MaxData \in 0 .. 99

CallWord == 100       \* xid, mtype CALL and rpcvers 2
ProgWord == 101       \* the NFS program
WriteWord == 102
RenameWord == 103
Magic == 104          \* the magic of a handle, four bytes that spell NFS3
Text == 105

ProgOff == 2
ProcOff == 3
HandleOff == 5
CountOff == 7

\* The machine's name is in the credential, and names a client chose are in the
\* handle after its magic: any of them may spell the magic.
Names == {Text, Magic}

Call(proc, cred, rest) == <<CallWord, ProgWord, proc, cred>> \o rest

Write(cred, name, data) == Call(WriteWord, cred, <<Magic, name, Len(data)>> \o data)

\* A RENAME carries two handles.
Rename(cred) == Call(RenameWord, cred, <<Magic, Text, Magic, Text>>)

\* A file may hold any words, those of another message too.
DataOf(len) == [1 .. len -> {Text, Magic, CallWord, ProgWord}]

\* external: what a client sends.
WritesOf(cred, name) ==
  {Write(cred, name, data) : data \in UNION {DataOf(len) : len \in 1 .. MaxData}}

Writes == UNION {UNION {WritesOf(cred, name) : name \in Names} : cred \in Names}

Messages ==
  Writes \cup {Write(Text, Text, data) : data \in [1 .. MaxLen -> {Text}]}
    \cup {Rename(cred) : cred \in Names}

\* external: what recv() delivers.  After at words the socket layer may start
\* over from the first word of the message; at = 0 stands for no such fault.
Delivered(msg, at) ==
  IF at = 0 THEN msg
  ELSE [w \in DOMAIN msg |-> IF w <= at THEN msg[w] ELSE msg[w - at]]

IsWrite(buf) ==
  Len(buf) >= ProcOff /\ buf[ProgOff] = ProgWord /\ buf[ProcOff] = WriteWord

\* rpc_write_expected_len against the length received; a count larger than
\* the message allows no conclusion.
BadLength(buf) ==
  /\ Len(buf) >= CountOff
  /\ buf[CountOff] <= Len(buf)
  /\ CountOff + buf[CountOff] # Len(buf)

Hits(buf) == {w \in DOMAIN buf : buf[w] = Magic}

\* A CALL header where the message of the second handle would begin.
Confirmed(buf) ==
  \E off1, off2 \in Hits(buf) :
    LET base == off2 - off1
    IN /\ off1 < off2
       /\ \A w \in Hits(buf) : w \in {off1, off2} \/ w > off2
       /\ base + ProcOff <= Len(buf)
       /\ buf[base + 1] = CallWord /\ buf[base + ProgOff] = ProgWord

\* Mutant: only short messages are scanned, as they once were.
ShortOnly(buf) ==
  IsWrite(buf) /\ (BadLength(buf) \/ (Len(buf) < MaxLen - 1 /\ Confirmed(buf)))

\* Mutant: two handles are enough.
TwoHandles(buf) ==
  IsWrite(buf) /\ (BadLength(buf) \/ \E v, w \in Hits(buf) : v # w)

\* rpc_recv_selfcheck refuses the message.
Corrupt(buf) == IsWrite(buf) /\ (BadLength(buf) \/ Confirmed(buf))

\* rpc_recv, then rpc_parse_call.
Received(buf) == Len(buf) <= MaxLen /\ ~Corrupt(buf)
Parsed(buf) == Len(buf) >= ProcOff /\ buf[1] = CallWord

\* The data proc_write stores; none if the message is not a WRITE it can read.
Payload(buf) ==
  IF /\ IsWrite(buf) /\ Len(buf) >= CountOff
     /\ buf[HandleOff] = Magic /\ CountOff + buf[CountOff] <= Len(buf)
  THEN SubSeq(buf, CountOff + 1, CountOff + buf[CountOff]) ELSE <<>>
=============================================================================
