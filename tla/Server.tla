------------------------------- MODULE Server -------------------------------
(***************************************************************************)
(* The event loop of nfsd.c: one thread that selects, accepts, and walks   *)
(* its table of connections, receiving, handling and answering one message *)
(* of each that is readable, and blocking on it until it has it.  The      *)
(* clients and the socket layer run beside it.                             *)
(***************************************************************************)
EXTENDS RpcRecord, FiniteSets

CONSTANTS Clients,     \* one connection each at a time
          Protos,      \* the listeners, numbered in the order they are looked at
          ProtoOf,     \* the listener each client connects to
          Fds,         \* descriptors accept() may return
          MaxConns,    \* MAX_CONNECTIONS
          Nobody

ASSUME ServerAssumption ==
  /\ MaxConns \in Nat \ {0}
  /\ Protos \subseteq Nat
  /\ Nobody \notin Clients
  /\ ProtoOf \in [Clients -> Protos]

VARIABLES conns,       \* g_conns, the g_nconns entries in use
          nconns,      \* g_nconns
          sock,        \* kernel: whose connection a descriptor is
          queue,       \* kernel: connections waiting in each listener
          client,      \* each client's end of its connection
          pc,          \* where the loop is
          rfds,        \* descriptors select() marked
          accepts,     \* listeners it marked, not yet looked at
          i,           \* the walk's index
          ending       \* STOP was given or the write path is fatal

vars == <<conns, nconns, sock, queue, client, pc, rfds, accepts, i, ending>>
loop == <<pc, rfds, accepts, i, ending>>

Conn == [fd : Fds, proto : Protos]

Away == [st |-> "away", wire |-> "none", gone |-> FALSE]

\* What a message comes to: sent as msg and started over by the socket layer
\* after at words, if at all.
Outcome(msg, at) ==
  LET buf == Delivered(msg, at)
  IN [handled |-> Received(buf) /\ Parsed(buf),
      replayed |-> at # 0,
      repeats |-> at > 0 /\ Len(msg) - at >= HandleOff,
      decoy |-> \E w \in 1 .. at : w # HandleOff /\ msg[w] = Magic,
      image |-> \E w \in CountOff + 1 .. Len(msg) - 1 :
                  msg[w] = CallWord /\ msg[w + 1] = ProgWord,
      stores |-> IF Payload(buf) = <<>> THEN "nothing"
                 ELSE IF Payload(buf) = Payload(msg) THEN "data" ELSE "damage",
      toolong |-> Len(msg) > MaxLen]

Outcomes == UNION {{Outcome(msg, at) : at \in 0 .. Len(msg) - 1} : msg \in Messages}

\* What of an outcome the loop goes by.
Kinds == {[handled |-> o.handled, replayed |-> o.replayed] : o \in Outcomes}

Init ==
  /\ conns = <<>> /\ nconns = 0
  /\ sock = [f \in Fds |-> Nobody]
  /\ queue = [p \in Protos |-> <<>>]
  /\ client = [c \in Clients |-> Away]
  /\ pc = "top" /\ rfds = {} /\ accepts = {} /\ i = 1
  /\ ending = FALSE

-----------------------------------------------------------------------------
(* external: the clients *)

Connect(c) ==
  /\ client[c].st = "away" /\ pc # "ended"
  /\ client' = [client EXCEPT ![c].st = "queued"]
  /\ queue' = [queue EXCEPT ![ProtoOf[c]] = Append(@, c)]
  /\ UNCHANGED <<conns, nconns, sock, loop>>

\* A message goes out whole or in part, and a part may be completed.
Send(c) ==
  /\ client[c].st # "away" /\ ~client[c].gone
  /\ \/ client[c].wire = "none" /\ \E w \in {"part", "whole"} :
          client' = [client EXCEPT ![c].wire = w]
     \/ /\ client[c].wire \in {"part", "taken"}
        /\ client' = [client EXCEPT ![c].wire = "whole"]
  /\ UNCHANGED <<conns, nconns, sock, queue, loop>>

\* More of a message the server has begun to read, and still not all of it: a
\* fragment that is not the last may be empty, so there is no end to them.
Continue(c) ==
  /\ client[c].wire = "taken"
  /\ client' = [client EXCEPT ![c].wire = "part"]
  /\ UNCHANGED <<conns, nconns, sock, queue, loop>>

\* What it had sent of a message is of no more use.
HungUp(end) ==
  [end EXCEPT !.gone = TRUE, !.wire = IF end.wire = "whole" THEN "whole" ELSE "none"]

HangUp(c) ==
  /\ client[c].st # "away" /\ ~client[c].gone
  /\ client' = [client EXCEPT ![c] = HungUp(client[c])]
  /\ UNCHANGED <<conns, nconns, sock, queue, loop>>

\* The operator's STOP, which getcib reports at the top of the loop.
Stop ==
  /\ ~ending
  /\ ending' = TRUE
  /\ UNCHANGED <<conns, nconns, sock, queue, client, pc, rfds, accepts, i>>

-----------------------------------------------------------------------------
(* The loop *)

Readable(f) ==
  sock[f] # Nobody /\ (client[sock[f]].wire # "none" \/ client[sock[f]].gone)

\* build_read_set and select; with nothing ready the timeout brings the loop
\* back here.
Select ==
  /\ pc = "top" /\ ~ending
  /\ rfds' = {f \in {conns[k].fd : k \in 1 .. nconns} : Readable(f)}
  /\ accepts' = {p \in Protos : queue[p] # <<>>}
  /\ rfds' # {} \/ accepts' # {}
  /\ i' = 1 /\ pc' = "serve"
  /\ UNCHANGED <<conns, nconns, sock, queue, client, ending>>

\* The loop is left: for STOP, for a fatal write path, or because select
\* failed.
Leave ==
  /\ pc = "top"
  /\ pc' = "down"
  /\ UNCHANGED <<conns, nconns, sock, queue, client, rfds, accepts, i, ending>>

\* Mutant: no check for a full table.
AcceptUnchecked(c, f) ==
  /\ sock' = [sock EXCEPT ![f] = c]
  /\ conns' = [k \in 1 .. nconns + 1 |-> IF k <= nconns THEN conns[k]
                                         ELSE [fd |-> f, proto |-> ProtoOf[c]]]
  /\ nconns' = nconns + 1
  /\ client' = [client EXCEPT ![c].st = "open"]

\* Mutant: a connection there is no room for is forgotten, not closed.
AcceptForgets(c, f) ==
  /\ sock' = [sock EXCEPT ![f] = c]
  /\ IF nconns >= MaxConns THEN UNCHANGED <<conns, nconns>>
     ELSE /\ conns' = [k \in 1 .. nconns + 1 |-> IF k <= nconns THEN conns[k]
                                                 ELSE [fd |-> f, proto |-> ProtoOf[c]]]
          /\ nconns' = nconns + 1
  /\ client' = [client EXCEPT ![c].st = "open"]

\* accept_conn for the connection of c, on descriptor f.
Accepted(c, f) ==
  IF nconns >= MaxConns
  THEN client' = [client EXCEPT ![c] = Away] /\ UNCHANGED <<conns, nconns, sock>>
  ELSE /\ sock' = [sock EXCEPT ![f] = c]
       /\ conns' = [k \in 1 .. nconns + 1 |-> IF k <= nconns THEN conns[k]
                                              ELSE [fd |-> f, proto |-> ProtoOf[c]]]
       /\ nconns' = nconns + 1
       /\ client' = [client EXCEPT ![c].st = "open"]

\* accept() fails on a connection that was given up in the queue, if at all.
Accept(p) ==
  /\ pc = "serve" /\ p \in accepts /\ \A q \in accepts : p <= q
  /\ accepts' = accepts \ {p}
  /\ queue' = [queue EXCEPT ![p] = Tail(@)]
  /\ LET c == Head(queue[p])
     IN \/ \E f \in Fds : sock[f] = Nobody /\ Accepted(c, f)
        \/ /\ client[c].gone
           /\ client' = [client EXCEPT ![c] = Away]
           /\ UNCHANGED <<conns, nconns, sock>>
  /\ UNCHANGED <<pc, rfds, i, ending>>

\* Mutant: a round reads every connection, ready or not.
WalkIntoAny ==
  /\ pc = "serve" /\ accepts = {} /\ i <= nconns
  /\ pc' = "recv"
  /\ UNCHANGED <<conns, nconns, sock, queue, client, rfds, accepts, i, ending>>

\* service_ready comes to a connection select() marked.
WalkInto ==
  /\ pc = "serve" /\ accepts = {} /\ i <= nconns
  /\ conns[i].fd \in rfds
  /\ pc' = "recv"
  /\ UNCHANGED <<conns, nconns, sock, queue, client, rfds, accepts, i, ending>>

WalkPast ==
  /\ pc = "serve" /\ accepts = {} /\ i <= nconns
  /\ conns[i].fd \notin rfds
  /\ i' = i + 1
  /\ UNCHANGED <<conns, nconns, sock, queue, client, pc, rfds, accepts, ending>>

RoundOver ==
  /\ pc = "serve" /\ accepts = {} /\ i > nconns
  /\ pc' = "top" /\ rfds' = {} /\ i' = 1
  /\ UNCHANGED <<conns, nconns, sock, queue, client, accepts, ending>>

-----------------------------------------------------------------------------
(* One connection's turn *)

Peer == client[sock[conns[i].fd]]

\* Mutant: the walk moves on after a removal, past the entry moved in.
RemoveAndAdvance ==
  /\ conns' = [k \in 1 .. nconns - 1 |-> IF k = i THEN conns[nconns] ELSE conns[k]]
  /\ nconns' = nconns - 1
  /\ i' = i + 1

\* The last entry takes the place of the one removed, which is where the walk
\* looks next.
Remove ==
  /\ conns' = [k \in 1 .. nconns - 1 |-> IF k = i THEN conns[nconns] ELSE conns[k]]
  /\ nconns' = nconns - 1
  /\ i' = i

\* handle_connection returned -1: close and forget the connection.
Drop ==
  /\ client' = [client EXCEPT ![sock[conns[i].fd]] = Away]
  /\ sock' = [sock EXCEPT ![conns[i].fd] = Nobody]
  /\ Remove
  /\ pc' = "serve"
  /\ UNCHANGED <<queue, rfds, accepts, ending>>

Answered(end, replayed) == [end EXCEPT !.wire = "none", !.gone = end.gone \/ replayed]

\* A whole message is there.  What the handler does is the other modules'; it
\* may find the write path fatal.  What follows a replayed message is no
\* record mark, and as good as the end of the stream.
Handle ==
  /\ pc = "recv" /\ Peer.wire = "whole"
  /\ \E o \in Kinds :
       \/ ~o.handled /\ Drop
       \/ /\ o.handled
          /\ client' = [client EXCEPT ![sock[conns[i].fd]] = Answered(Peer, o.replayed)]
          /\ ending' \in {ending, TRUE}
          /\ i' = i + 1 /\ pc' = "serve"
          /\ UNCHANGED <<conns, nconns, sock, queue, rfds, accepts>>

\* The client hung up, before or after its message, or does not take the
\* reply.
TurnFails ==
  /\ pc = "recv"
  /\ Peer.gone \/ Peer.wire = "whole"
  /\ Drop

\* recv_all and the fragment loop of rpc_recv: what there is of the message is
\* read, and the rest waited for anew.
TakePart ==
  /\ pc = "recv" /\ Peer.wire = "part"
  /\ client' = [client EXCEPT ![sock[conns[i].fd]].wire = "taken"]
  /\ UNCHANGED <<conns, nconns, sock, queue, loop>>

\* Mutant: no timeout.
WaitForever == FALSE /\ UNCHANGED vars

\* RPC_IO_TIMEOUT_SECONDS without a byte from a client that has not sent all
\* of its message.
TimeOut ==
  /\ pc = "recv" /\ ~Peer.gone /\ Peer.wire \in {"none", "taken"}
  /\ Drop

\* server_shutdown; the kernel refuses who is still in a queue.
Shutdown ==
  /\ pc = "down"
  /\ conns' = <<>> /\ nconns' = 0
  /\ sock' = [f \in Fds |-> Nobody]
  /\ queue' = [p \in Protos |-> <<>>]
  /\ client' = [c \in Clients |-> Away]
  /\ pc' = "ended" /\ rfds' = {} /\ accepts' = {} /\ i' = 1
  /\ UNCHANGED ending

Loop ==
  \/ Select
  \/ pc = "top" /\ ending /\ Leave
  \/ \E p \in Protos : Accept(p)
  \/ WalkInto \/ WalkPast \/ RoundOver
  \/ Handle \/ TakePart \/ TurnFails \/ TimeOut
  \/ Shutdown

Next ==
  \/ Loop
  \/ Leave
  \/ Stop
  \/ \E c \in Clients : Connect(c) \/ Send(c) \/ Continue(c) \/ HangUp(c)

\* The loop is one thread that nothing but the system's end can stop, and a
\* client it waits for is not waited for longer than the timeout.
Spec == Init /\ [][Next]_vars /\ WF_vars(Loop)

-----------------------------------------------------------------------------
(* What is checked *)

\* The loop's state has its shape: never more than MAX_CONNECTIONS entries.
TypeOK ==
  /\ nconns \in 0 .. MaxConns
  /\ conns \in [1 .. nconns -> Conn]
  /\ sock \in [Fds -> Clients \cup {Nobody}]
  /\ queue \in [Protos -> Seq(Clients)]
  /\ client \in [Clients -> [st : {"away", "queued", "open"},
                              wire : {"none", "part", "taken", "whole"},
                              gone : BOOLEAN]]
  /\ pc \in {"top", "serve", "recv", "down", "ended"}
  /\ rfds \subseteq Fds /\ accepts \subseteq Protos
  /\ i \in 1 .. nconns + 1
  /\ ending \in BOOLEAN

\* Every descriptor the server holds is in its table exactly once, with the
\* protocol of the listener its client came by, and it holds no other: none
\* leaks when the table is full, when a turn fails, or in the exchange with
\* the last entry.
TableExact ==
  /\ \A f \in Fds : sock[f] # Nobody <=> \E k \in 1 .. nconns : conns[k].fd = f
  /\ \A j, k \in 1 .. nconns : conns[j].fd = conns[k].fd => j = k
  /\ \A k \in 1 .. nconns : conns[k].proto = ProtoOf[sock[conns[k].fd]]

\* The loop never starts to receive on a connection that has nothing for it: a
\* descriptor marked by select() still names the connection it was marked for
\* when the walk comes to it, though others were accepted and closed between.
NeverWaitsOnIdle == pc = "recv" => Readable(conns[i].fd)

Live == {conns[k] : k \in 1 .. nconns}

Due == IF pc \in {"serve", "recv"}
       THEN {conns[k] : k \in {j \in i .. nconns : conns[j].fd \in rfds}} ELSE {}

Turns == INSTANCE ServiceRounds WITH live <- Live, due <- Due

\* Between two selects each connection that was readable gets one turn, and
\* the others none, whatever entries are exchanged under the walk.
TurnsInRounds == Turns!Spec

\* Whenever the loop receives a message, rpc_recv_selfcheck lets a garbled
\* WRITE through only if the replay ended before it came to the handle again,
\* or if the magic was elsewhere in what came before it, in the credential, a
\* name or the data: no more than the first two are looked at.
ReplayCaught ==
  pc = "recv" /\ Peer.wire = "whole" =>
    \A o \in Outcomes : o.handled /\ o.stores = "damage" /\ o.repeats => o.decoy

\* A message received as it was sent is refused only if it is too long for the
\* buffer or the file it writes holds the image of a CALL header, whatever else
\* the file or the names in the message hold.
GoodMessageKept ==
  pc = "recv" /\ Peer.wire = "whole" =>
    \A o \in Outcomes : o.handled \/ o.replayed \/ o.toolong \/ o.image

\* What the comment on rpc_recv_selfcheck says of it: corrupt data never gets
\* to a member.
CorruptNeverStored ==
  pc = "recv" /\ Peer.wire = "whole" =>
    \A o \in Outcomes : o.handled => o.stores # "damage"

\* What the same comment says of a CALL header found in a message: it cannot
\* occur in valid data.
ValidDataKept ==
  pc = "recv" /\ Peer.wire = "whole" =>
    \A o \in Outcomes : o.handled \/ o.replayed \/ o.toolong

\* A client never ceases to send pieces of a message it does not finish.
Drips == []<><<\E c \in Clients : Continue(c)>>_vars

\* A client that waits in a listener's queue, or for the answer to its message,
\* comes to the end of its waiting: it is accepted and answered, or loses its
\* connection, whoever else stalls, hangs up or keeps the loop busy, so long as
\* no client sends pieces of a message forever.
Attended ==
  \A c \in Clients :
    LET waits == client[c].st = "queued" \/ client[c].wire = "whole"
    IN (waits ~> ~waits) \/ Drips

\* STOP and a fatal write path end the server, whatever the clients do, unless
\* one of them sends pieces of a message forever.
StopHeeded == (ending ~> pc = "ended") \/ Drips

\* The same without a condition on the clients.
StopAlwaysHeeded == ending ~> pc = "ended"
=============================================================================
