---------------------------- MODULE ServerProofs ----------------------------
(***************************************************************************)
(* The connection table, the rounds of the event loop, and that the loop   *)
(* receives only where there is something to receive, for any number of    *)
(* clients, descriptors, listeners and table entries.                      *)
(***************************************************************************)
EXTENDS Server, TLAPS

Shape ==
  /\ nconns \in 0 .. MaxConns
  /\ conns \in [1 .. nconns -> Conn]
  /\ sock \in [Fds -> Clients \cup {Nobody}]
  /\ queue \in [Protos -> Seq(Clients)]
  /\ rfds \subseteq Fds /\ accepts \subseteq Protos
  /\ i \in 1 .. nconns + 1
  /\ pc \in {"top", "serve", "recv", "down", "ended"}

\* A listener that was marked still has somebody waiting, and while one is
\* left every marked descriptor is one the table holds.
Marked ==
  /\ \A p \in accepts : queue[p] # <<>>
  /\ accepts # {} => pc = "serve"
  /\ accepts # {} => \A f \in rfds : sock[f] # Nobody

\* A turn is that of a marked connection in the table.
InTurn == pc = "recv" => i <= nconns /\ conns[i].fd \in rfds

Inv == Shape /\ TableExact /\ Marked /\ InTurn

\* The table is empty when the server starts.
LEMMA InitInv == Init => Inv
<1> SUFFICES ASSUME Init PROVE Inv
  BY Zenon
<1>1. Shape
  BY ServerAssumption DEF Init, Shape
<1>2. TableExact /\ Marked /\ InTurn
  BY DEF Init, TableExact, Marked, InTurn
<1> QED
  BY Zenon, <1>1, <1>2 DEF Inv

\* What c had sent of a message is read, and the rest waited for.
Taken(c) ==
  /\ client[c].wire = "part"
  /\ client' = [client EXCEPT ![c].wire = "taken"]
  /\ UNCHANGED <<conns, nconns, sock, queue, loop>>

\* It is a client's of whom the loop reads part of a message.
LEMMA TakePartCases ==
  ASSUME Inv, TakePart
  PROVE  \E c \in Clients : Taken(c)
<1>1. i \in 1 .. nconns
  BY DEF TakePart, Inv, Shape, InTurn
<1>4. conns[i].fd \in Fds
  BY Zenon DEF TakePart, Inv, Shape, InTurn
<1>2. conns[i].fd \in Fds /\ sock[conns[i].fd] # Nobody
  BY Zenon, <1>1, <1>4 DEF Inv, TableExact
<1>3. sock[conns[i].fd] \in Clients
  BY Zenon, <1>2 DEF Inv, Shape
<1> QED
  BY Zenon, <1>3 DEF TakePart, Taken, Peer

\* What the clients and the operator do leaves the table alone.
LEMMA OutsideInv ==
  ASSUME Inv, NEW c \in Clients,
         Connect(c) \/ Send(c) \/ Continue(c) \/ Taken(c) \/ HangUp(c) \/ Stop
  PROVE  Inv'
<1>1. UNCHANGED <<conns, nconns, sock, pc, rfds, accepts, i>>
  BY Zenon DEF Connect, Send, Continue, Taken, HangUp, Stop, loop
<1>2. queue' \in [Protos -> Seq(Clients)] /\ \A p \in accepts : queue'[p] # <<>>
  <2>1. CASE Connect(c)
    <3>1. ProtoOf[c] \in Protos /\ queue[ProtoOf[c]] \in Seq(Clients)
      BY Zenon, ServerAssumption DEF Inv, Shape
    <3>2. Append(queue[ProtoOf[c]], c) \in Seq(Clients)
          /\ Append(queue[ProtoOf[c]], c) # <<>>
      BY <3>1
    <3> QED
      BY Zenon, <2>1, <3>1, <3>2 DEF Connect, Inv, Shape, Marked
  <2>2. CASE Send(c) \/ Continue(c) \/ Taken(c) \/ HangUp(c) \/ Stop
    BY Zenon, <2>2 DEF Send, Continue, Taken, HangUp, Stop, Inv, Shape, Marked
  <2> QED
    BY Zenon, <2>1, <2>2
<1>3. Shape'
  BY Zenon, <1>1, <1>2 DEF Inv, Shape
<1>4. TableExact'
  BY Zenon, <1>1 DEF Inv, TableExact
<1>5. Marked' /\ InTurn'
  BY Zenon, <1>1, <1>2 DEF Inv, Marked, InTurn
<1> QED
  BY Zenon, <1>3, <1>4, <1>5 DEF Inv

\* The steps of the loop that only move it.
LEMMA MovingInv ==
  ASSUME Inv, Select \/ Leave \/ WalkInto \/ WalkPast \/ RoundOver
  PROVE  Inv'
<1>1. UNCHANGED <<conns, nconns, sock, queue>>
  BY Zenon DEF Select, Leave, WalkInto, WalkPast, RoundOver
<1>2. TableExact'
  BY Zenon, <1>1 DEF Inv, TableExact
<1>3. CASE Select
  <2>1. \A f \in rfds' : f \in Fds /\ sock[f] # Nobody
    BY <1>3 DEF Select, Readable, Inv, Shape, Conn
  <2> QED
    BY <1>1, <1>2, <1>3, <2>1 DEF Select, Inv, Shape, Marked, InTurn
<1>4. CASE Leave \/ WalkInto \/ RoundOver
  BY <1>1, <1>2, <1>4 DEF Leave, WalkInto, RoundOver, Inv, Shape, Marked, InTurn
<1>5. CASE WalkPast
  BY <1>1, <1>2, <1>5 DEF WalkPast, Inv, Shape, Marked, InTurn
<1> QED
  BY Zenon, <1>3, <1>4, <1>5

\* accept_conn adds one entry for a descriptor that was free, or none.
LEMMA AcceptInv ==
  ASSUME Inv, NEW p \in Protos, Accept(p)
  PROVE  Inv'
<1> DEFINE c == Head(queue[p])
<1>1. /\ pc = "serve" /\ p \in accepts /\ accepts' = accepts \ {p}
      /\ queue' = [queue EXCEPT ![p] = Tail(@)]
      /\ UNCHANGED <<pc, rfds, i>>
  BY Zenon DEF Accept
<1>2. queue[p] \in Seq(Clients) /\ queue[p] # <<>>
  BY Zenon, <1>1 DEF Inv, Shape, Marked
<1>3. c \in Clients /\ Tail(queue[p]) \in Seq(Clients)
  BY <1>2
<1>4. /\ queue' \in [Protos -> Seq(Clients)] /\ accepts' \subseteq Protos
      /\ \A q \in accepts' : queue'[q] # <<>>
  BY Zenon, <1>1, <1>3 DEF Inv, Shape, Marked
<1>5. CASE UNCHANGED <<conns, nconns, sock>>
  <2>1. Shape'
    BY Zenon, <1>1, <1>4, <1>5 DEF Inv, Shape
  <2>2. TableExact'
    BY Zenon, <1>5 DEF Inv, TableExact
  <2>3. Marked' /\ InTurn'
    BY Zenon, <1>1, <1>4, <1>5 DEF Inv, Marked, InTurn
  <2> QED
    BY Zenon, <2>1, <2>2, <2>3 DEF Inv
<1>6. ASSUME NEW f \in Fds, sock[f] = Nobody, nconns < MaxConns,
             sock' = [sock EXCEPT ![f] = c], nconns' = nconns + 1,
             conns' = [k \in 1 .. nconns + 1 |->
                        IF k <= nconns THEN conns[k]
                        ELSE [fd |-> f, proto |-> ProtoOf[c]]]
      PROVE  Inv'
  <2>1. nconns \in Nat /\ conns \in [1 .. nconns -> Conn]
    BY DEF Inv, Shape
  <2>2. ProtoOf[c] \in Protos /\ c # Nobody
    BY Zenon, <1>3, ServerAssumption
  <2>3. [fd |-> f, proto |-> ProtoOf[c]] \in Conn
    BY Zenon, <2>2 DEF Conn
  <2>4. Shape'
    <3>1. conns' \in [1 .. nconns' -> Conn]
      BY <1>6, <2>1, <2>3
    <3>2. nconns' \in 0 .. MaxConns /\ i' \in 1 .. nconns' + 1
      BY <1>1, <1>6, <2>1, ServerAssumption DEF Inv, Shape
    <3>3. sock' \in [Fds -> Clients \cup {Nobody}]
      BY Zenon, <1>3, <1>6 DEF Inv, Shape
    <3> QED
      BY Zenon, <3>1, <3>2, <3>3, <1>1, <1>4 DEF Inv, Shape
  <2>5. \A k \in 1 .. nconns : conns'[k] = conns[k] /\ conns[k].fd # f
                               /\ conns[k].fd \in Fds
    BY <1>6, <2>1 DEF Inv, TableExact, Conn
  <2>6. conns'[nconns + 1] = [fd |-> f, proto |-> ProtoOf[c]]
    BY <1>6, <2>1
  <2>7. \A k \in 1 .. nconns' : k \in 1 .. nconns \/ k = nconns + 1
    BY <1>6, <2>1
  <2>8. sock \in [Fds -> Clients \cup {Nobody}]
    BY Zenon DEF Inv, Shape
  <2>9. TableExact'
    <3>1. \A g \in Fds : sock'[g] # Nobody <=> \E k \in 1 .. nconns' : conns'[k].fd = g
      <4>1. TAKE g \in Fds
      <4>2. CASE g = f
        <5>1. sock'[g] # Nobody
          BY Zenon, <4>2, <1>6, <2>2, <2>8
        <5>2. nconns + 1 \in 1 .. nconns' /\ conns'[nconns + 1].fd = g
          BY <4>2, <1>6, <2>1, <2>6
        <5> QED
          BY Zenon, <5>1, <5>2
      <4>3. CASE g # f
        <5>1. sock'[g] = sock[g]
          BY Zenon, <4>3, <1>6, <2>8
        <5>2. sock[g] # Nobody <=> \E k \in 1 .. nconns : conns[k].fd = g
          BY Zenon DEF Inv, TableExact
        <5>3. ASSUME NEW k \in 1 .. nconns', conns'[k].fd = g
              PROVE  \E j \in 1 .. nconns : conns[j].fd = g
          BY <5>3, <4>3, <2>5, <2>6, <2>7
        <5>4. ASSUME NEW k \in 1 .. nconns, conns[k].fd = g
              PROVE  \E j \in 1 .. nconns' : conns'[j].fd = g
          BY <5>4, <2>5, <1>6, <2>1
        <5> QED
          BY Zenon, <5>1, <5>2, <5>3, <5>4
      <4> QED
        BY Zenon, <4>2, <4>3
    <3>2. \A j, k \in 1 .. nconns' : conns'[j].fd = conns'[k].fd => j = k
      BY <2>5, <2>6, <2>7 DEF Inv, TableExact
    <3>3. \A k \in 1 .. nconns' : conns'[k].proto = ProtoOf[sock'[conns'[k].fd]]
      <4>1. TAKE k \in 1 .. nconns'
      <4>2. CASE k \in 1 .. nconns
        BY Zenon, <4>2, <2>5, <2>8, <1>6 DEF Inv, TableExact
      <4>3. CASE k = nconns + 1
        BY <4>3, <2>6, <2>8, <1>6
      <4> QED
        BY Zenon, <4>2, <4>3, <2>7
    <3> QED
      BY Zenon, <3>1, <3>2, <3>3 DEF TableExact
  <2>10. Marked' /\ InTurn'
    BY Zenon, <1>1, <1>3, <1>4, <1>6, <2>2, <2>8 DEF Inv, Marked, InTurn, Shape
  <2> QED
    BY Zenon, <2>4, <2>9, <2>10 DEF Inv
<1>7. nconns \in Nat /\ MaxConns \in Nat
  BY ServerAssumption DEF Inv, Shape
<1> QED
  BY <1>5, <1>6, <1>7 DEF Accept, Accepted

\* The exchange with the last entry removes the connection of the turn and
\* keeps all others.
LEMMA DropInv ==
  ASSUME Inv, pc = "recv", Drop
  PROVE  Inv'
<1> DEFINE f == conns[i].fd
<1>1. /\ nconns \in Nat \ {0} /\ i \in 1 .. nconns /\ conns \in [1 .. nconns -> Conn]
      /\ sock \in [Fds -> Clients \cup {Nobody}] /\ accepts = {}
  BY DEF Inv, Shape, InTurn, Marked
<1>2. /\ conns' = [k \in 1 .. nconns - 1 |-> IF k = i THEN conns[nconns] ELSE conns[k]]
      /\ nconns' = nconns - 1 /\ i' = i /\ sock' = [sock EXCEPT ![f] = Nobody]
      /\ pc' = "serve" /\ UNCHANGED <<queue, rfds, accepts>>
  BY Zenon DEF Drop, Remove
<1>3. f \in Fds
  BY Zenon, <1>1 DEF Conn
<1>4. Shape'
  <2>1. conns' \in [1 .. nconns' -> Conn]
    BY <1>1, <1>2
  <2>2. nconns' \in 0 .. MaxConns /\ i' \in 1 .. nconns' + 1
    BY <1>1, <1>2, ServerAssumption DEF Inv, Shape
  <2> QED
    BY Zenon, <2>1, <2>2, <1>1, <1>2 DEF Inv, Shape
<1>5. \A k \in 1 .. nconns' : \E j \in 1 .. nconns : j # i /\ conns'[k] = conns[j]
  BY <1>1, <1>2
<1>6. \A j \in 1 .. nconns : j # i => \E k \in 1 .. nconns' : conns'[k] = conns[j]
  <2>1. TAKE j \in 1 .. nconns
  <2>2. CASE j = nconns
    BY <2>2, <1>1, <1>2
  <2>3. CASE j # nconns
    BY <2>3, <1>1, <1>2
  <2> QED
    BY Zenon, <2>2, <2>3
<1>7. \A j \in 1 .. nconns : j # i => conns[j].fd # f
  BY Zenon, <1>1 DEF Inv, TableExact
<1>8. TableExact'
  <2>1. \A g \in Fds : sock'[g] # Nobody <=> \E k \in 1 .. nconns' : conns'[k].fd = g
    <3>1. TAKE g \in Fds
    <3>2. CASE g = f
      BY <3>2, <1>1, <1>2, <1>3, <1>5, <1>7
    <3>3. CASE g # f
      <4>1. sock'[g] = sock[g]
        BY Zenon, <3>3, <1>1, <1>2
      <4>2. sock[g] # Nobody <=> \E k \in 1 .. nconns : conns[k].fd = g
        BY Zenon DEF Inv, TableExact
      <4>3. (\E k \in 1 .. nconns : conns[k].fd = g)
              <=> \E k \in 1 .. nconns' : conns'[k].fd = g
        BY <3>3, <1>5, <1>6
      <4> QED
        BY Zenon, <4>1, <4>2, <4>3
    <3> QED
      BY Zenon, <3>2, <3>3
  <2>2. \A j, k \in 1 .. nconns' : conns'[j].fd = conns'[k].fd => j = k
    <3>1. \A j, k \in 1 .. nconns : conns[j].fd = conns[k].fd => j = k
      BY Zenon DEF Inv, TableExact
    <3> QED
      BY <3>1, <1>1, <1>2
  <2>3. \A k \in 1 .. nconns' : conns'[k].proto = ProtoOf[sock'[conns'[k].fd]]
    <3>1. TAKE k \in 1 .. nconns'
    <3>2. PICK j \in 1 .. nconns : j # i /\ conns'[k] = conns[j]
      BY Zenon, <1>5
    <3>3. conns[j].fd \in Fds /\ sock'[conns[j].fd] = sock[conns[j].fd]
      BY Zenon, <3>2, <1>1, <1>2, <1>7 DEF Conn
    <3> QED
      BY <3>2, <3>3 DEF Inv, TableExact
  <2> QED
    BY Zenon, <2>1, <2>2, <2>3 DEF TableExact
<1>9. Marked' /\ InTurn'
  BY Zenon, <1>1, <1>2 DEF Marked, InTurn
<1> QED
  BY Zenon, <1>4, <1>8, <1>9 DEF Inv

\* A turn that ends well.
Kept ==
  /\ pc = "recv" /\ pc' = "serve" /\ i' = i + 1
  /\ UNCHANGED <<conns, nconns, sock, queue, rfds, accepts>>

\* A message is handled, or the connection dropped.
LEMMA HandleCases == Handle => Kept \/ (pc = "recv" /\ Drop)
BY Zenon DEF Handle, Kept

\* A turn that ends well moves the walk on.
LEMMA KeptInv ==
  ASSUME Inv, Kept
  PROVE  Inv'
<1>1. TableExact'
  BY Zenon DEF Kept, Inv, TableExact
<1>2. Shape'
  BY DEF Kept, Inv, Shape, InTurn
<1>3. Marked' /\ InTurn'
  BY Zenon DEF Kept, Inv, Marked, InTurn
<1> QED
  BY Zenon, <1>1, <1>2, <1>3 DEF Inv

\* server_shutdown leaves no entry and no descriptor.
LEMMA ShutdownInv ==
  ASSUME Inv, Shutdown
  PROVE  Inv'
<1>1. Shape'
  BY ServerAssumption DEF Shutdown, Shape
<1>2. TableExact' /\ Marked' /\ InTurn'
  BY DEF Shutdown, TableExact, Marked, InTurn
<1> QED
  BY Zenon, <1>1, <1>2 DEF Inv

\* Every step keeps the invariant.
LEMMA StepInv == Inv /\ [Next]_vars => Inv'
<1> SUFFICES ASSUME Inv, [Next]_vars PROVE Inv'
  BY Zenon
<1>1. CASE \/ TakePart
           \/ \E c \in Clients : Connect(c) \/ Send(c) \/ Continue(c) \/ HangUp(c)
  BY Zenon, <1>1, TakePartCases, OutsideInv
<1>2. CASE Stop
  <2>1. UNCHANGED <<conns, nconns, sock, queue, pc, rfds, accepts, i>>
    BY Zenon, <1>2 DEF Stop
  <2> QED
    BY Zenon, <2>1 DEF Inv, Shape, TableExact, Marked, InTurn
<1>3. CASE Select \/ Leave \/ WalkInto \/ WalkPast \/ RoundOver
  BY Zenon, <1>3, MovingInv
<1>4. CASE \E p \in Protos : Accept(p)
  BY Zenon, <1>4, AcceptInv
<1>5. CASE Handle \/ TurnFails \/ TimeOut
  <2>1. Kept \/ (pc = "recv" /\ Drop)
    BY Zenon, <1>5, HandleCases DEF TurnFails, TimeOut
  <2> QED
    BY Zenon, <2>1, KeptInv, DropInv
<1>6. CASE Shutdown
  BY Zenon, <1>6, ShutdownInv
<1>7. CASE UNCHANGED vars
  BY Zenon, <1>7 DEF vars, Inv, Shape, TableExact, Marked, InTurn
<1> QED
  BY Zenon, <1>1, <1>2, <1>3, <1>4, <1>5, <1>6, <1>7 DEF Next, Loop

\* The connection table holds every open descriptor once and no other,
\* however connections are accepted, refused, served and dropped
\* (accept_conn, service_ready, server_shutdown in nfsd.c).
THEOREM TableCorrect == Spec => []TableExact
<1>1. Inv => TableExact
  BY Zenon DEF Inv
<1> QED
  BY <1>1, InitInv, StepInv, PTL DEF Spec

-----------------------------------------------------------------------------
(* The loop implements ServiceRounds *)

\* Nobody is served, and nobody owed a turn, when the server starts.
LEMMA InitTurns == Init => Turns!Init
BY DEF Init, Turns!Init, Live, Due

\* Accepting a connection adds it, and it is owed nothing in this round.
LEMMA AcceptTurns ==
  ASSUME Inv, NEW p \in Protos, Accept(p)
  PROVE  Turns!Join \/ UNCHANGED <<Live, Due>>
<1> DEFINE c == Head(queue[p])
<1>1. pc = "serve" /\ accepts # {} /\ UNCHANGED <<pc, rfds, i>>
  BY Zenon DEF Accept
<1>2. nconns \in Nat /\ MaxConns \in Nat /\ i \in Nat \ {0}
  BY ServerAssumption DEF Inv, Shape
<1>3. CASE UNCHANGED <<conns, nconns>>
  BY Zenon, <1>1, <1>3 DEF Live, Due
<1>4. ASSUME NEW f \in Fds, sock[f] = Nobody, nconns < MaxConns,
             nconns' = nconns + 1,
             conns' = [k \in 1 .. nconns + 1 |->
                        IF k <= nconns THEN conns[k]
                        ELSE [fd |-> f, proto |-> ProtoOf[c]]]
      PROVE  Turns!Join
  <2> DEFINE new == [fd |-> f, proto |-> ProtoOf[c]]
  <2>1. c \in Clients
    BY DEF Inv, Shape, Marked, Accept
  <2>2. new \in Conn
    BY Zenon, <2>1, ServerAssumption DEF Conn
  <2>3. \A k \in 1 .. nconns : conns'[k] = conns[k] /\ conns[k].fd # f
    BY <1>2, <1>4 DEF Inv, TableExact
  <2>4. conns'[nconns + 1] = new
    BY <1>2, <1>4
  <2>5. f \notin rfds
    BY Zenon, <1>1, <1>4 DEF Inv, Marked
  <2>6. new \notin Live
    BY <2>3 DEF Live
  <2>7. Live' = Live \cup {new}
    BY <1>2, <1>4, <2>3, <2>4 DEF Live
  <2>8. {k \in i .. nconns + 1 : conns'[k].fd \in rfds} = {k \in i .. nconns : conns[k].fd \in rfds}
    BY <1>2, <2>3, <2>4, <2>5
  <2>9. Due' = Due
    <3>1. Due = {conns[k] : k \in {j \in i .. nconns : conns[j].fd \in rfds}}
      BY Zenon, <1>1 DEF Due
    <3>2. Due' = {conns'[k] : k \in {j \in i .. nconns + 1 : conns'[j].fd \in rfds}}
      BY <1>1, <1>4 DEF Due
    <3>3. \A k \in {j \in i .. nconns : conns[j].fd \in rfds} : conns'[k] = conns[k]
      BY <1>2, <2>3
    <3> QED
      BY Zenon, <3>1, <3>2, <3>3, <2>8
  <2> QED
    BY Zenon, <2>2, <2>6, <2>7, <2>9 DEF Turns!Join
<1> QED
  BY <1>2, <1>3, <1>4 DEF Accept, Accepted

\* A turn that ends well is a turn of the connection at the index.
LEMMA KeptTurns ==
  ASSUME Inv, Kept
  PROVE  Turns!Turn
<1>1. /\ nconns \in Nat /\ i \in 1 .. nconns /\ conns[i].fd \in rfds
      /\ conns \in [1 .. nconns -> Conn]
  BY DEF Inv, Shape, InTurn, Kept
<1>2. Live' = Live
  BY Zenon DEF Kept, Live
<1>3. conns[i] \in Due
  BY <1>1 DEF Due, Kept
<1>4. Due = {conns[k] : k \in {j \in i .. nconns : conns[j].fd \in rfds}}
  BY Zenon DEF Kept, Due
<1>5. Due' = {conns[k] : k \in {j \in i + 1 .. nconns : conns[j].fd \in rfds}}
  BY Zenon DEF Kept, Due
<1>6. \A j \in 1 .. nconns : conns[j] = conns[i] => j = i
  BY Zenon, <1>1 DEF Inv, TableExact
<1>7. Due' = Due \ {conns[i]}
  <2>1. {j \in i + 1 .. nconns : conns[j].fd \in rfds}
          = {j \in i .. nconns : conns[j].fd \in rfds} \ {i}
    BY <1>1
  <2> QED
    BY <2>1, <1>1, <1>4, <1>5, <1>6
<1> QED
  BY Zenon, <1>2, <1>3, <1>7 DEF Turns!Turn

\* So is a turn that ends the connection, though the last entry moves.
LEMMA DropTurns ==
  ASSUME Inv, pc = "recv", Drop
  PROVE  Turns!Turn
<1> DEFINE x == conns[i]
<1>1. /\ nconns \in Nat \ {0} /\ i \in 1 .. nconns /\ x.fd \in rfds
      /\ conns \in [1 .. nconns -> Conn]
  BY DEF Inv, Shape, InTurn
<1>2. /\ conns' = [k \in 1 .. nconns - 1 |-> IF k = i THEN conns[nconns] ELSE conns[k]]
      /\ nconns' = nconns - 1 /\ i' = i /\ pc' = "serve" /\ rfds' = rfds
  BY Zenon DEF Drop, Remove
<1>3. \A j \in 1 .. nconns : conns[j] = x => j = i
  BY Zenon, <1>1 DEF Inv, TableExact
<1>4. x \in Due
  BY <1>1 DEF Due
<1>5. Live' = Live \ {x}
  <2>1. \A k \in 1 .. nconns' : \E j \in 1 .. nconns : j # i /\ conns'[k] = conns[j]
    BY <1>1, <1>2
  <2>2. \A j \in 1 .. nconns : j # i => \E k \in 1 .. nconns' : conns'[k] = conns[j]
    <3>1. TAKE j \in 1 .. nconns
    <3>2. CASE j = nconns
      BY <3>2, <1>1, <1>2
    <3>3. CASE j # nconns
      BY <3>3, <1>1, <1>2
    <3> QED
      BY <3>2, <3>3
  <2> QED
    BY <2>1, <2>2, <1>3 DEF Live
<1>6. Due' = Due \ {x}
  <2>1. Due = {conns[k] : k \in {j \in i .. nconns : conns[j].fd \in rfds}}
    BY Zenon DEF Due
  <2>2. Due' = {conns'[k] : k \in {j \in i .. nconns - 1 : conns'[j].fd \in rfds}}
    BY Zenon, <1>2 DEF Due
  <2>3. \A k \in i .. nconns - 1 : \E j \in i .. nconns : j # i /\ conns'[k] = conns[j]
    BY <1>1, <1>2
  <2>4. \A j \in i .. nconns : j # i => \E k \in i .. nconns - 1 : conns'[k] = conns[j]
    <3>1. TAKE j \in i .. nconns
    <3>2. CASE j = nconns
      BY <3>2, <1>1, <1>2
    <3>3. CASE j # nconns
      BY <3>3, <1>1, <1>2
    <3> QED
      BY Zenon, <3>2, <3>3
  <2>5. \A k \in i .. nconns : k \in 1 .. nconns
    BY <1>1
  <2>6. ASSUME NEW y \in Due' PROVE y \in Due \ {x}
    <3>1. PICK k \in i .. nconns - 1 : y = conns'[k] /\ y.fd \in rfds
      BY Zenon, <2>2
    <3>2. PICK j \in i .. nconns : j # i /\ y = conns[j]
      BY Zenon, <2>3, <3>1
    <3>3. y # x
      BY Zenon, <1>3, <2>5, <3>2
    <3> QED
      BY Zenon, <2>1, <3>1, <3>2, <3>3
  <2>7. ASSUME NEW y \in Due, y # x PROVE y \in Due'
    <3>1. PICK j \in i .. nconns : y = conns[j] /\ y.fd \in rfds
      BY Zenon, <2>1
    <3>2. j # i
      BY Zenon, <2>7, <3>1
    <3>3. PICK k \in i .. nconns - 1 : y = conns'[k]
      BY Zenon, <2>4, <3>1, <3>2
    <3> QED
      BY Zenon, <2>2, <3>1, <3>3
  <2> QED
    BY Zenon, <2>6, <2>7
<1> QED
  BY Zenon, <1>4, <1>5, <1>6 DEF Turns!Turn

\* Every step of the server is a step of ServiceRounds or none.
LEMMA StepTurns == Inv /\ [Next]_vars => [Turns!Next]_<<Live, Due>>
<1> SUFFICES ASSUME Inv, [Next]_vars PROVE Turns!Next \/ UNCHANGED <<Live, Due>>
  BY Zenon
<1>1. CASE \/ TakePart
           \/ \E c \in Clients : Connect(c) \/ Send(c) \/ Continue(c) \/ HangUp(c)
  <2>1. UNCHANGED <<conns, nconns, pc, rfds, i>>
    BY Zenon, <1>1 DEF Connect, Send, Continue, TakePart, HangUp, loop
  <2> QED
    BY Zenon, <2>1 DEF Live, Due
<1>2. CASE Stop \/ WalkInto \/ Leave
  BY Zenon, <1>2 DEF Stop, WalkInto, Leave, Live, Due
<1>3. CASE WalkPast
  <2>1. nconns \in Nat /\ i \in 1 .. nconns
    BY <1>3 DEF WalkPast, Inv, Shape
  <2>2. {j \in i + 1 .. nconns : conns[j].fd \in rfds}
          = {j \in i .. nconns : conns[j].fd \in rfds}
    BY <1>3, <2>1 DEF WalkPast
  <2> QED
    BY Zenon, <1>3, <2>2 DEF WalkPast, Live, Due
<1>4. CASE RoundOver
  <2>1. {j \in i .. nconns : conns[j].fd \in rfds} = {}
    BY <1>4 DEF RoundOver, Inv, Shape
  <2> QED
    BY Zenon, <1>4, <2>1 DEF RoundOver, Live, Due
<1>5. CASE Select
  <2>1. Live' = Live /\ Due = {}
    BY Zenon, <1>5 DEF Select, Live, Due
  <2>2. Due' \subseteq Live
    BY Zenon, <1>5 DEF Select, Live, Due
  <2> QED
    BY Zenon, <2>1, <2>2 DEF Turns!Next, Turns!Begin
<1>6. CASE \E p \in Protos : Accept(p)
  BY Zenon, <1>6, AcceptTurns DEF Turns!Next
<1>7. CASE Handle \/ TurnFails \/ TimeOut
  <2>1. Kept \/ (pc = "recv" /\ Drop)
    BY <1>7, HandleCases DEF TurnFails, TimeOut
  <2> QED
    BY Zenon, <2>1, KeptTurns, DropTurns DEF Turns!Next
<1>8. CASE Shutdown
  BY <1>8 DEF Shutdown, Live, Due, Turns!Next, Turns!End
<1>9. CASE UNCHANGED vars
  BY Zenon, <1>9 DEF vars, Live, Due
<1> QED
  BY Zenon, <1>1, <1>2, <1>3, <1>4, <1>5, <1>6, <1>7, <1>8, <1>9 DEF Next, Loop

\* The event loop implements ServiceRounds: between two selects every
\* connection that was readable gets one turn and no other gets any, whatever
\* the walk over the table removes and moves (service_ready in nfsd.c).
THEOREM LoopServesInRounds == Spec => TurnsInRounds
<1> QED
  BY InitInv, StepInv, InitTurns, StepTurns, PTL DEF Spec, TurnsInRounds, Turns!Spec

-----------------------------------------------------------------------------
(* Receiving only where there is something to receive *)

ClientType ==
  client \in [Clients -> [st : {"away", "queued", "open"},
                          wire : {"none", "part", "taken", "whole"}, gone : BOOLEAN]]

\* A client is in one place: away, once in one queue, or behind one descriptor.
Queued ==
  /\ \A p \in Protos : \A k \in 1 .. Len(queue[p]) : client[queue[p][k]].st = "queued"
  /\ \A p, q \in Protos : \A j \in 1 .. Len(queue[p]), k \in 1 .. Len(queue[q]) :
       queue[p][j] = queue[q][k] => p = q /\ j = k

Seated ==
  /\ \A f \in Fds : sock[f] # Nobody => client[sock[f]].st = "open"
  /\ \A f, g \in Fds : sock[f] = sock[g] /\ sock[f] # Nobody => f = g

\* What select() marked stays readable until its turn.
StillReadable ==
  pc \in {"serve", "recv"} =>
    \A k \in i .. nconns : conns[k].fd \in rfds => Readable(conns[k].fd)

\* The client's end of no connection.
LEMMA AwayType ==
  Away \in [st : {"away", "queued", "open"}, wire : {"none", "part", "taken", "whole"},
            gone : BOOLEAN]
BY Zenon DEF Away

IInv == ClientType /\ Queued /\ Seated /\ StillReadable

\* Nobody is connected when the server starts.
LEMMA InitIInv == Init => IInv
<1> SUFFICES ASSUME Init PROVE IInv
  BY Zenon
<1>1. ClientType
  BY Zenon DEF Init, ClientType, Away
<1>2. Queued /\ Seated /\ StillReadable
  BY DEF Init, Queued, Seated, StillReadable
<1> QED
  BY Zenon, <1>1, <1>2 DEF IInv

\* A client that connects is in no queue and behind no descriptor.
LEMMA ConnectIInv ==
  ASSUME Inv, IInv, NEW c \in Clients, Connect(c)
  PROVE  IInv'
<1> DEFINE p0 == ProtoOf[c]
<1>1. /\ client[c].st = "away" /\ client' = [client EXCEPT ![c].st = "queued"]
      /\ queue' = [queue EXCEPT ![p0] = Append(@, c)]
      /\ UNCHANGED <<conns, nconns, sock, pc, rfds, i>>
  BY Zenon DEF Connect, loop
<1>2. /\ p0 \in Protos /\ queue \in [Protos -> Seq(Clients)]
      /\ sock \in [Fds -> Clients \cup {Nobody}]
  BY Zenon, ServerAssumption DEF Inv, Shape
<1>3. ClientType'
  BY Zenon, <1>1 DEF IInv, ClientType
<1>4. \A d \in Clients : d # c => client'[d] = client[d]
  BY Zenon, <1>1 DEF IInv, ClientType
<1>5. client'[c].st = "queued" /\ client'[c].wire = client[c].wire
      /\ client'[c].gone = client[c].gone
  BY Zenon, <1>1 DEF IInv, ClientType
<1>6. \A p \in Protos : \A k \in 1 .. Len(queue[p]) :
        queue[p][k] \in Clients /\ queue[p][k] # c
  BY <1>1, <1>2 DEF IInv, Queued
<1>7. \A p \in Protos : p # p0 => queue'[p] = queue[p]
  BY Zenon, <1>1, <1>2
<1>8. /\ queue'[p0] \in Seq(Clients) /\ Len(queue'[p0]) = Len(queue[p0]) + 1
      /\ queue'[p0][Len(queue[p0]) + 1] = c /\ Len(queue[p0]) \in Nat
      /\ \A k \in 1 .. Len(queue[p0]) : queue'[p0][k] = queue[p0][k]
  <2>1. queue'[p0] = Append(queue[p0], c) /\ queue[p0] \in Seq(Clients)
    BY Zenon, <1>1, <1>2
  <2> QED
    BY <2>1
<1>9. \A p \in Protos : \A k \in 1 .. Len(queue'[p]) :
        \/ k \in 1 .. Len(queue[p]) /\ queue'[p][k] = queue[p][k]
        \/ p = p0 /\ k = Len(queue[p0]) + 1 /\ queue'[p][k] = c
  <2>1. TAKE p \in Protos
  <2>2. CASE p = p0
    BY <2>2, <1>8
  <2>3. CASE p # p0
    BY Zenon, <2>3, <1>7
  <2> QED
    BY Zenon, <2>2, <2>3
<1>10. Queued'
  <2>1. ASSUME NEW p \in Protos, NEW k \in 1 .. Len(queue'[p])
        PROVE  client'[queue'[p][k]].st = "queued"
    <3>1. CASE k \in 1 .. Len(queue[p]) /\ queue'[p][k] = queue[p][k]
      <4>1. queue[p][k] \in Clients /\ queue[p][k] # c
        BY Zenon, <3>1, <1>6
      <4>2. client[queue[p][k]].st = "queued"
        BY Zenon, <3>1 DEF IInv, Queued
      <4> QED
        BY Zenon, <4>1, <4>2, <3>1, <1>4
    <3>2. CASE queue'[p][k] = c
      BY Zenon, <3>2, <1>5
    <3> QED
      BY Zenon, <3>1, <3>2, <1>9
  <2>2. ASSUME NEW p \in Protos, NEW q \in Protos, NEW j \in 1 .. Len(queue'[p]),
               NEW k \in 1 .. Len(queue'[q]), queue'[p][j] = queue'[q][k]
        PROVE  p = q /\ j = k
    <3>1. CASE j \in 1 .. Len(queue[p]) /\ queue'[p][j] = queue[p][j]
      <4>1. queue'[q][k] # c
        BY Zenon, <3>1, <2>2, <1>6
      <4>2. k \in 1 .. Len(queue[q]) /\ queue'[q][k] = queue[q][k]
        BY Zenon, <4>1, <1>9
      <4>3. queue[p][j] = queue[q][k]
        BY Zenon, <3>1, <4>2, <2>2
      <4> QED
        BY <3>1, <4>2, <4>3 DEF IInv, Queued
    <3>2. CASE p = p0 /\ j = Len(queue[p0]) + 1 /\ queue'[p][j] = c
      <4>1. queue'[q][k] = c
        BY Zenon, <3>2, <2>2
      <4>2. ~(k \in 1 .. Len(queue[q]) /\ queue'[q][k] = queue[q][k])
        BY Zenon, <4>1, <1>6
      <4>3. q = p0 /\ k = Len(queue[p0]) + 1
        BY Zenon, <4>2, <1>9
      <4> QED
        BY Zenon, <3>2, <4>3
    <3> QED
      BY Zenon, <3>1, <3>2, <1>9
  <2> QED
    BY Zenon, <2>1, <2>2 DEF Queued
<1>11. Seated'
  BY <1>1, <1>2, <1>4 DEF IInv, Seated
<1>12. \A f \in Fds : Readable(f) => Readable(f)'
  BY Zenon, <1>1, <1>2, <1>4, <1>5 DEF Readable
<1>13. StillReadable'
  <2>1. \A k \in i .. nconns : conns[k].fd \in rfds => conns[k].fd \in Fds
    BY Zenon DEF Inv, Shape
  <2> QED
    BY Zenon, <1>1, <1>12, <2>1 DEF IInv, StillReadable, Readable
<1> QED
  BY Zenon, <1>3, <1>10, <1>11, <1>13 DEF IInv

\* What a client sends, and its hanging up, makes its descriptor readable or
\* leaves it so.
LEMMA SendIInv ==
  ASSUME Inv, IInv, NEW c \in Clients, Send(c) \/ Continue(c) \/ Taken(c) \/ HangUp(c)
  PROVE  IInv'
<1>1. UNCHANGED <<conns, nconns, sock, queue, pc, rfds, i>>
  BY Zenon DEF Send, Continue, Taken, HangUp, loop
<1>2. ClientType'
  <2>1. Send(c) \/ Continue(c) \/ Taken(c) => ClientType'
    BY DEF Send, Continue, Taken, IInv, ClientType
  <2>2. HangUp(c) => ClientType'
    <3> DEFINE r == HungUp(client[c])
    <3>1. r \in [st : {"away", "queued", "open"}, wire : {"none", "part", "taken", "whole"},
                 gone : BOOLEAN]
      BY Zenon DEF IInv, ClientType, HungUp
    <3>2. HangUp(c) => client' = [client EXCEPT ![c] = r]
      BY Zenon DEF HangUp, IInv, ClientType
    <3> HIDE DEF r
    <3> QED
      BY Zenon, <3>1, <3>2 DEF IInv, ClientType
  <2> QED
    BY Zenon, <2>1, <2>2
<1>3. /\ \A d \in Clients : client'[d].st = client[d].st
      /\ \A d \in Clients : client[d].wire # "none" \/ client[d].gone
                             => client'[d].wire # "none" \/ client'[d].gone
  <2>1. client[c].wire # "none" \/ client[c].gone
           => client'[c].wire # "none" \/ client'[c].gone
    <3>1. CASE Send(c) \/ Continue(c) \/ Taken(c)
      BY Zenon, <3>1 DEF Send, Continue, Taken, IInv, ClientType
    <3>2. CASE HangUp(c)
      BY Zenon, <3>2 DEF HangUp, HungUp, IInv, ClientType
    <3>3. QED
      BY Zenon, <3>1, <3>2
  <2>2. client'[c].st = client[c].st
    <3>1. CASE Send(c) \/ Continue(c) \/ Taken(c)
      BY <3>1 DEF Send, Continue, Taken, IInv, ClientType
    <3>2. CASE HangUp(c)
      BY <3>2 DEF HangUp, HungUp, IInv, ClientType
    <3>3. QED
      BY Zenon, <3>1, <3>2
  <2>3. \A d \in Clients : d # c => client'[d] = client[d]
    BY Zenon DEF Send, Continue, Taken, HangUp, IInv, ClientType
  <2> QED
    BY Zenon, <2>1, <2>2, <2>3
<1>4. sock \in [Fds -> Clients \cup {Nobody}] /\ queue \in [Protos -> Seq(Clients)]
  BY Zenon DEF Inv, Shape
<1>5. Queued'
  <2>1. \A p \in Protos : \A k \in 1 .. Len(queue[p]) : queue[p][k] \in Clients
    BY <1>4
  <2>2. queue' = queue /\ Queued /\ \A d \in Clients : client'[d].st = client[d].st
    BY Zenon, <1>1, <1>3 DEF IInv
  <2>3. \A p \in Protos : \A k \in 1 .. Len(queue[p]) : client'[queue[p][k]].st = "queued"
    BY Zenon, <2>1, <2>2 DEF Queued
  <2> QED
    BY <2>2, <2>3 DEF Queued
<1>6. Seated'
  BY Zenon, <1>1, <1>3, <1>4 DEF IInv, Seated
<1>7. StillReadable'
  <2>1. \A f \in Fds : Readable(f) => Readable(f)'
    BY Zenon, <1>1, <1>3, <1>4 DEF Readable
  <2>2. \A k \in i .. nconns : conns[k].fd \in rfds => conns[k].fd \in Fds
    BY Zenon DEF Inv, Shape
  <2> QED
    BY Zenon, <1>1, <2>1, <2>2 DEF IInv, StillReadable, Readable
<1> QED
  BY Zenon, <1>2, <1>5, <1>6, <1>7 DEF IInv

\* The steps that only move the loop.
LEMMA MoveIInv ==
  ASSUME Inv, IInv, Stop \/ Select \/ Leave \/ WalkInto \/ WalkPast \/ RoundOver
  PROVE  IInv'
<1>1. UNCHANGED <<conns, nconns, sock, queue, client>>
  BY Zenon DEF Stop, Select, Leave, WalkInto, WalkPast, RoundOver
<1>2. ClientType' /\ Queued' /\ Seated'
  BY <1>1 DEF IInv, ClientType, Queued, Seated
<1>3. Select => StillReadable'
  BY Zenon, <1>1 DEF Select, StillReadable, Readable
<1>4. Stop \/ Leave \/ WalkInto \/ RoundOver => StillReadable'
  BY Zenon, <1>1 DEF Stop, Leave, WalkInto, RoundOver, IInv, StillReadable, Readable
<1>5. WalkPast => StillReadable'
  <2>1. \A k \in i + 1 .. nconns : k \in i .. nconns
    BY DEF Inv, Shape
  <2> QED
    BY Zenon, <1>1, <2>1 DEF WalkPast, IInv, StillReadable, Readable
<1>6. StillReadable'
  BY Zenon, <1>3, <1>4, <1>5
<1> QED
  BY Zenon, <1>2, <1>6 DEF IInv

\* The head leaves its queue, and is in none then.
LEMMA HeadLeaves ==
  ASSUME Inv, IInv, NEW p \in Protos, queue[p] # <<>>,
         queue' = [queue EXCEPT ![p] = Tail(@)],
         ClientType', \A d \in Clients : d # Head(queue[p]) => client'[d] = client[d]
  PROVE  Queued'
<1> DEFINE c == Head(queue[p])
<1>1. /\ queue \in [Protos -> Seq(Clients)] /\ queue[p] \in Seq(Clients)
      /\ Len(queue[p]) \in Nat \ {0} /\ c = queue[p][1]
  BY DEF Inv, Shape
<1>2. \A q \in Protos : q # p => queue'[q] = queue[q]
  BY Zenon, <1>1
<1>3. queue'[p] = Tail(queue[p])
  BY Zenon, <1>1
<1>4. /\ Len(queue'[p]) = Len(queue[p]) - 1
      /\ \A k \in 1 .. Len(queue'[p]) :
           k + 1 \in 1 .. Len(queue[p]) /\ queue'[p][k] = queue[p][k + 1]
  BY <1>1, <1>3
<1>5. \A q \in Protos : \A k \in 1 .. Len(queue[q]) :
        /\ queue[q][k] \in Clients /\ client[queue[q][k]].st = "queued"
        /\ queue[q][k] = c => q = p /\ k = 1
  <2>1. TAKE q \in Protos
  <2>2. TAKE k \in 1 .. Len(queue[q])
  <2>3. queue[q] \in Seq(Clients) /\ 1 \in 1 .. Len(queue[p])
    BY <1>1
  <2>4. queue[q][k] \in Clients
    BY <2>3
  <2> QED
    BY <2>3, <2>4, <1>1 DEF IInv, Queued
<1>6. ASSUME NEW q \in Protos, NEW k \in 1 .. Len(queue'[q])
      PROVE  /\ queue'[q][k] \in Clients /\ queue'[q][k] # c
             /\ client[queue'[q][k]].st = "queued"
  <2>1. CASE q = p
    <3>1. k + 1 \in 1 .. Len(queue[p]) /\ queue'[p][k] = queue[p][k + 1] /\ k + 1 # 1
      BY <2>1, <1>4
    <3> QED
      BY <2>1, <3>1, <1>5
  <2>2. CASE q # p
    BY <2>2, <1>2, <1>5
  <2> QED
    BY Zenon, <2>1, <2>2
<1>7. ASSUME NEW q \in Protos, NEW k \in 1 .. Len(queue'[q])
      PROVE  client'[queue'[q][k]].st = "queued"
  BY <1>6
<1>8. ASSUME NEW q \in Protos, NEW r \in Protos, NEW j \in 1 .. Len(queue'[q]),
             NEW k \in 1 .. Len(queue'[r]), queue'[q][j] = queue'[r][k]
      PROVE  q = r /\ j = k
  <2>0. \A a, b \in Protos : \A m \in 1 .. Len(queue[a]), n \in 1 .. Len(queue[b]) :
          queue[a][m] = queue[b][n] => a = b /\ m = n
    BY Zenon DEF IInv, Queued
  <2>1. CASE q = p /\ r = p
    <3>1. /\ j + 1 \in 1 .. Len(queue[p]) /\ k + 1 \in 1 .. Len(queue[p])
          /\ queue[p][j + 1] = queue[p][k + 1]
      BY Zenon, <2>1, <1>4, <1>8
    <3>2. j + 1 = k + 1
      BY <3>1, <2>0
    <3> QED
      BY <2>1, <3>2
  <2>2. CASE q = p /\ r # p
    <3>1. /\ j + 1 \in 1 .. Len(queue[p]) /\ k \in 1 .. Len(queue[r])
          /\ queue[p][j + 1] = queue[r][k]
      BY Zenon, <2>2, <1>2, <1>4, <1>8
    <3> QED
      BY Zenon, <2>2, <3>1, <2>0
  <2>3. CASE q # p /\ r = p
    <3>1. /\ j \in 1 .. Len(queue[q]) /\ k + 1 \in 1 .. Len(queue[p])
          /\ queue[q][j] = queue[p][k + 1]
      BY Zenon, <2>3, <1>2, <1>4, <1>8
    <3> QED
      BY Zenon, <2>3, <3>1, <2>0
  <2>4. CASE q # p /\ r # p
    BY <2>4, <1>2, <1>8, <2>0
  <2> QED
    BY Zenon, <2>1, <2>2, <2>3, <2>4
<1> QED
  BY Zenon, <1>7, <1>8 DEF Queued

\* accept_conn takes the head of a queue to a free descriptor, or closes it.
LEMMA AcceptIInv ==
  ASSUME Inv, IInv, NEW p \in Protos, Accept(p)
  PROVE  IInv'
<1> DEFINE c == Head(queue[p])
<1>1. /\ pc = "serve" /\ p \in accepts /\ queue' = [queue EXCEPT ![p] = Tail(@)]
      /\ UNCHANGED <<pc, rfds, i>>
  BY Zenon DEF Accept
<1>2. queue[p] \in Seq(Clients) /\ queue[p] # <<>> /\ sock \in [Fds -> Clients \cup {Nobody}]
  BY Zenon, <1>1 DEF Inv, Shape, Marked
<1>3. c \in Clients /\ c = queue[p][1] /\ 1 \in 1 .. Len(queue[p]) /\ c # Nobody
  BY <1>2, ServerAssumption
<1>4. client[c].st = "queued"
  BY <1>3 DEF IInv, Queued
<1>5. \A f \in Fds : sock[f] # c
  BY Zenon, <1>3, <1>4 DEF IInv, Seated
<1>6. \/ /\ client' = [client EXCEPT ![c] = Away]
         /\ UNCHANGED <<conns, nconns, sock>>
      \/ \E f \in Fds :
           /\ sock[f] = Nobody /\ sock' = [sock EXCEPT ![f] = c]
           /\ conns' = [k \in 1 .. nconns + 1 |-> IF k <= nconns THEN conns[k]
                         ELSE [fd |-> f, proto |-> ProtoOf[c]]]
           /\ nconns' = nconns + 1
           /\ client' = [client EXCEPT ![c].st = "open"]
  BY Zenon DEF Accept, Accepted
<1>7. ClientType'
  <2>1. client' = [client EXCEPT ![c] = Away] => ClientType'
    BY Zenon, <1>3, AwayType DEF IInv, ClientType
  <2>2. client' = [client EXCEPT ![c].st = "open"] => ClientType'
    BY <1>3 DEF IInv, ClientType
  <2> QED
    BY Zenon, <1>6, <2>1, <2>2
<1>8. \A d \in Clients : d # c => client'[d] = client[d]
  BY Zenon, <1>3, <1>6 DEF IInv, ClientType
<1>9. Queued'
  BY Zenon, <1>1, <1>2, <1>7, <1>8, HeadLeaves
<1>10. \A f \in rfds : f \in Fds /\ sock[f] # Nobody
  BY Zenon, <1>1 DEF Inv, Shape, Marked
<1>11. \A f \in Fds : sock[f] # Nobody => sock'[f] = sock[f] /\ client'[sock[f]] = client[sock[f]]
  BY Zenon, <1>2, <1>5, <1>6, <1>8
<1>12. \A f \in rfds : Readable(f) => Readable(f)'
  BY Zenon, <1>10, <1>11 DEF Readable
<1>13. CASE UNCHANGED <<conns, nconns, sock>>
  <2>1. Seated'
    BY Zenon, <1>11, <1>13 DEF IInv, Seated
  <2>2. StillReadable'
    BY Zenon, <1>1, <1>12, <1>13 DEF IInv, StillReadable
  <2> QED
    BY <1>7, <1>9, <2>1, <2>2 DEF IInv
<1>14. ASSUME NEW f \in Fds, sock[f] = Nobody, sock' = [sock EXCEPT ![f] = c],
              conns' = [k \in 1 .. nconns + 1 |-> IF k <= nconns THEN conns[k]
                         ELSE [fd |-> f, proto |-> ProtoOf[c]]],
              nconns' = nconns + 1, client' = [client EXCEPT ![c].st = "open"]
       PROVE  IInv'
  <2>1. Seated'
    <3>1. client'[c].st = "open" /\ sock'[f] = c
      BY Zenon, <1>2, <1>3, <1>14 DEF IInv, ClientType
    <3>2. \A g \in Fds : g # f => sock'[g] = sock[g]
      BY Zenon, <1>2, <1>14
    <3> QED
      BY <3>1, <3>2, <1>5, <1>11 DEF IInv, Seated
  <2>2. StillReadable'
    <3>1. nconns \in Nat /\ i \in Nat \ {0}
      BY DEF Inv, Shape
    <3>2. f \notin rfds
      BY Zenon, <1>10, <1>14
    <3>3. ASSUME NEW k \in i .. nconns + 1, conns'[k].fd \in rfds
          PROVE  k \in i .. nconns /\ conns'[k] = conns[k]
      BY <3>1, <3>2, <3>3, <1>14
    <3>4. ASSUME NEW k \in i .. nconns + 1, conns'[k].fd \in rfds
          PROVE  Readable(conns[k].fd) /\ conns[k].fd \in rfds /\ conns'[k] = conns[k]
      BY Zenon, <3>3, <3>4, <1>1 DEF IInv, StillReadable
    <3>5. ASSUME NEW k \in i .. nconns + 1, conns'[k].fd \in rfds
          PROVE  /\ sock'[conns'[k].fd] # Nobody
                 /\ \/ client'[sock'[conns'[k].fd]].wire # "none"
                    \/ client'[sock'[conns'[k].fd]].gone
      BY <3>4, <3>5, <1>10, <1>11 DEF Readable
    <3> QED
      BY Zenon, <3>5, <1>1, <1>14 DEF StillReadable, Readable
  <2> QED
    BY Zenon, <1>7, <1>9, <2>1, <2>2 DEF IInv
<1> QED
  BY Zenon, <1>6, <1>13, <1>14

\* A turn changes the end of its own client only: what the other marked
\* descriptors have to read is still there, wherever their entries are.
LEMMA TurnIInv ==
  ASSUME Inv, IInv, pc = "recv", ClientType', NEW c \in Clients,
         sock[conns[i].fd] = c, UNCHANGED <<queue, rfds>>,
         \A d \in Clients : d # c => client'[d] = client[d],
         \A f \in Fds : f # conns[i].fd => sock'[f] = sock[f],
         \/ sock' = sock /\ client'[c].st = client[c].st
         \/ sock'[conns[i].fd] = Nobody,
         pc' = "serve",
         \A k \in i' .. nconns' :
           \E j \in i .. nconns : j # i /\ conns'[k] = conns[j]
  PROVE  IInv'
<1> DEFINE f0 == conns[i].fd
<1>1. /\ nconns \in Nat /\ i \in 1 .. nconns /\ conns \in [1 .. nconns -> Conn]
      /\ sock \in [Fds -> Clients \cup {Nobody}] /\ c # Nobody
  BY ServerAssumption DEF Inv, Shape, InTurn
<1>2. f0 \in Fds /\ \A f \in Fds : f # f0 => sock[f] # c
  BY Zenon, <1>1 DEF Conn, IInv, Seated
<1>3. client[c].st = "open"
  BY Zenon, <1>1, <1>2 DEF IInv, Seated
<1>4. Queued'
  <2>1. \A p \in Protos : \A k \in 1 .. Len(queue[p]) :
          queue[p][k] \in Clients /\ queue[p][k] # c /\ client[queue[p][k]].st = "queued"
    <3>1. queue \in [Protos -> Seq(Clients)]
      BY Zenon DEF Inv, Shape
    <3> QED
      BY <3>1, <1>3 DEF IInv, Queued
  <2> QED
    BY <2>1 DEF IInv, Queued
<1>5. Seated'
  <2>1. \A f \in Fds : f # f0 /\ sock[f] # Nobody => client'[sock[f]].st = "open"
    BY Zenon, <1>1, <1>2 DEF IInv, Seated
  <2> QED
    BY <2>1, <1>1, <1>2, <1>3 DEF IInv, Seated
<1>6. StillReadable'
  <2>1. ASSUME NEW k \in i' .. nconns', conns'[k].fd \in rfds
        PROVE  /\ sock'[conns'[k].fd] # Nobody
               /\ \/ client'[sock'[conns'[k].fd]].wire # "none"
                  \/ client'[sock'[conns'[k].fd]].gone
    <3>1. PICK j \in i .. nconns : j # i /\ conns'[k] = conns[j]
      BY Zenon
    <3>2. j \in 1 .. nconns /\ conns[j].fd \in Fds /\ conns[j].fd # f0
      BY <3>1, <1>1 DEF Conn, Inv, TableExact
    <3>3. Readable(conns[j].fd)
      BY Zenon, <2>1, <3>1 DEF IInv, StillReadable
    <3>4. sock[conns[j].fd] \in Clients /\ sock[conns[j].fd] # c
      BY Zenon, <3>2, <3>3, <1>1, <1>2 DEF Readable
    <3>5. sock'[conns[j].fd] = sock[conns[j].fd]
          /\ client'[sock[conns[j].fd]] = client[sock[conns[j].fd]]
      BY Zenon, <3>2, <3>4
    <3> QED
      BY <3>1, <3>3, <3>5 DEF Readable
  <2> QED
    BY Zenon, <2>1 DEF StillReadable, Readable
<1> QED
  BY Zenon, <1>4, <1>5, <1>6 DEF IInv

\* The turns of the loop.
LEMMA TurnsIInv ==
  ASSUME Inv, IInv, Handle \/ TurnFails \/ TimeOut
  PROVE  IInv'
<1> DEFINE c == sock[conns[i].fd]
<1>1. /\ pc = "recv" /\ nconns \in Nat /\ i \in 1 .. nconns
      /\ conns \in [1 .. nconns -> Conn] /\ conns[i].fd \in Fds
      /\ sock \in [Fds -> Clients \cup {Nobody}]
  <2>1. pc = "recv"
    BY Zenon DEF Handle, TurnFails, TimeOut
  <2>2. i \in 1 .. nconns
    BY <2>1, ServerAssumption DEF Inv, Shape, InTurn
  <2> QED
    BY <2>1, <2>2, ServerAssumption DEF Inv, Shape, Conn
<1>2. c \in Clients
  BY <1>1 DEF Inv, TableExact
<1>3. CASE Drop
  <2>1. /\ client' = [client EXCEPT ![c] = Away]
        /\ sock' = [sock EXCEPT ![conns[i].fd] = Nobody]
        /\ conns' = [k \in 1 .. nconns - 1 |-> IF k = i THEN conns[nconns] ELSE conns[k]]
        /\ nconns' = nconns - 1 /\ i' = i /\ pc' = "serve" /\ UNCHANGED <<queue, rfds>>
    BY Zenon, <1>3 DEF Drop, Remove
  <2>2. ClientType'
    BY Zenon, <1>2, <2>1, AwayType DEF IInv, ClientType
  <2>3. \A d \in Clients : d # c => client'[d] = client[d]
    BY Zenon, <1>2, <2>1 DEF IInv, ClientType
  <2>4. /\ \A f \in Fds : f # conns[i].fd => sock'[f] = sock[f]
        /\ sock'[conns[i].fd] = Nobody
    BY Zenon, <1>1, <2>1
  <2>5. \A k \in i' .. nconns' : \E j \in i .. nconns : j # i /\ conns'[k] = conns[j]
    BY <1>1, <2>1
  <2> QED
    BY Zenon, <1>1, <1>2, <2>1, <2>2, <2>3, <2>4, <2>5, TurnIInv
<1>4. ASSUME NEW replayed \in BOOLEAN,
             client' = [client EXCEPT ![c] = Answered(Peer, replayed)],
             i' = i + 1, pc' = "serve",
             UNCHANGED <<conns, nconns, sock, queue, rfds>>
      PROVE  IInv'
  <2>1. Answered(client[c], replayed) \in
          [st : {"away", "queued", "open"}, wire : {"none", "part", "taken", "whole"}, gone : BOOLEAN]
    BY Zenon, <1>2 DEF Answered, IInv, ClientType
  <2>2. ClientType'
    BY Zenon, <1>2, <1>4, <2>1 DEF Peer, IInv, ClientType
  <2>3. \A d \in Clients : d # c => client'[d] = client[d]
    BY Zenon, <1>2, <1>4 DEF IInv, ClientType
  <2>4. client'[c].st = client[c].st
    BY <1>2, <1>4 DEF Peer, Answered, IInv, ClientType
  <2>5. \A k \in i' .. nconns' : \E j \in i .. nconns : j # i /\ conns'[k] = conns[j]
    BY <1>1, <1>4
  <2>6. \A f \in Fds : sock'[f] = sock[f]
    BY Zenon, <1>4
  <2> QED
    BY Zenon, <1>1, <1>2, <1>4, <2>2, <2>3, <2>4, <2>5, <2>6, TurnIInv
<1>5. \A o \in Kinds : o.replayed \in BOOLEAN
  <2>1. ASSUME NEW msg, NEW at PROVE Outcome(msg, at).replayed \in BOOLEAN
    <3>1. Outcome(msg, at).replayed = (at # 0)
      BY Zenon DEF Outcome
    <3> QED
      BY <3>1, Zenon
  <2>2. \A o \in Outcomes : o.replayed \in BOOLEAN
    BY <2>1, Zenon DEF Outcomes
  <2>3. ASSUME NEW o \in Kinds PROVE o.replayed \in BOOLEAN
    <3>1. PICK q \in Outcomes : o = [handled |-> q.handled, replayed |-> q.replayed]
      BY Zenon DEF Kinds
    <3> QED
      BY <3>1, <2>2, Zenon
  <2> QED
    BY <2>3, Zenon
<1>6. CASE Handle
  <2>1. PICK o \in Kinds :
          \/ Drop
          \/ /\ client' = [client EXCEPT ![c] = Answered(Peer, o.replayed)]
             /\ i' = i + 1 /\ pc' = "serve"
             /\ UNCHANGED <<conns, nconns, sock, queue, rfds>>
    BY <1>6, Zenon DEF Handle
  <2> QED
    BY <2>1, <1>3, <1>4, <1>5, Zenon
<1> QED
  BY <1>3, <1>6, Zenon DEF TurnFails, TimeOut

\* Shutdown sends every client away.
LEMMA ShutdownIInv == Shutdown => IInv'
<1> SUFFICES ASSUME Shutdown PROVE IInv'
  BY Zenon
<1>1. ClientType'
  BY Zenon, AwayType DEF Shutdown, ClientType
<1>2. Queued' /\ Seated' /\ StillReadable'
  BY DEF Shutdown, Queued, Seated, StillReadable
<1> QED
  BY Zenon, <1>1, <1>2 DEF IInv

\* Every step keeps the invariant.
LEMMA StepIInv == Inv /\ IInv /\ [Next]_vars => IInv'
<1> SUFFICES ASSUME Inv, IInv, [Next]_vars PROVE IInv'
  BY Zenon
<1>1. CASE \/ TakePart
           \/ \E c \in Clients : Connect(c) \/ Send(c) \/ Continue(c) \/ HangUp(c)
  BY Zenon, <1>1, TakePartCases, ConnectIInv, SendIInv
<1>2. CASE Stop \/ Select \/ Leave \/ WalkInto \/ WalkPast \/ RoundOver
  BY Zenon, <1>2, MoveIInv
<1>3. CASE \E p \in Protos : Accept(p)
  BY Zenon, <1>3, AcceptIInv
<1>4. CASE Handle \/ TurnFails \/ TimeOut
  BY Zenon, <1>4, TurnsIInv
<1>5. CASE Shutdown
  BY Zenon, <1>5, ShutdownIInv
<1>6. CASE UNCHANGED vars
  BY <1>6 DEF vars, IInv, ClientType, Queued, Seated, StillReadable, Readable
<1> QED
  BY Zenon, <1>1, <1>2, <1>3, <1>4, <1>5, <1>6 DEF Next, Loop

\* The loop starts to receive only on a connection that has something for it:
\* a mark of select() is still true of the connection the walk finds behind
\* it, after accepts, drops and exchanges (service_ready, rpc_recv).
THEOREM NoIdleWait == Spec => []NeverWaitsOnIdle
<1>1. Inv /\ IInv => NeverWaitsOnIdle
  <2> SUFFICES ASSUME Inv, IInv, pc = "recv" PROVE Readable(conns[i].fd)
    BY Zenon DEF NeverWaitsOnIdle
  <2>1. i \in i .. nconns /\ conns[i].fd \in rfds
    BY DEF Inv, InTurn, Shape
  <2> QED
    BY Zenon, <2>1 DEF IInv, StillReadable
<1> QED
  BY <1>1, InitInv, StepInv, InitIInv, StepIInv, PTL DEF Spec

-----------------------------------------------------------------------------
(* The messages the loop receives *)

\* The loop's state has its shape (the table of nfsd.c never has more than
\* MAX_CONNECTIONS entries and the walk's index stays within it).
THEOREM LoopTyped == Spec => []TypeOK
<1> DEFINE Bool == ending \in BOOLEAN
<1>1. Inv /\ IInv /\ Bool => TypeOK
  BY Zenon DEF Inv, Shape, IInv, ClientType, TypeOK
<1>2. Init => Bool
  BY Zenon DEF Init
<1>3. Bool /\ [Next]_vars => Bool'
  <2> SUFFICES ASSUME Bool, [Next]_vars PROVE ending' \in BOOLEAN
    BY Zenon
  <2>1. CASE \/ TakePart
             \/ \E c \in Clients : Connect(c) \/ Send(c) \/ Continue(c) \/ HangUp(c)
    BY Zenon, <2>1 DEF Connect, Send, Continue, TakePart, HangUp, loop
  <2>2. CASE Stop \/ Select \/ Leave \/ WalkInto \/ WalkPast \/ RoundOver
    BY Zenon, <2>2 DEF Stop, Select, Leave, WalkInto, WalkPast, RoundOver
  <2>3. CASE \E p \in Protos : Accept(p)
    BY Zenon, <2>3 DEF Accept
  <2>4. CASE Handle \/ TurnFails \/ TimeOut
    BY Zenon, <2>4 DEF Handle, TurnFails, TimeOut, Drop
  <2>5. CASE Shutdown
    BY Zenon, <2>5 DEF Shutdown
  <2>6. CASE UNCHANGED vars
    BY Zenon, <2>6 DEF vars
  <2> QED
    BY Zenon, <2>1, <2>2, <2>3, <2>4, <2>5, <2>6 DEF Next, Loop
<1> QED
  BY <1>1, <1>2, <1>3, InitInv, StepInv, InitIInv, StepIInv, PTL DEF Spec

\* A buffer that holds a WRITE of so many words of data, as it is sent.
AsSent(buf, len) ==
  /\ Len(buf) = len + 7 /\ DOMAIN buf = 1 .. len + 7
  /\ buf[1] = 100 /\ buf[2] = 101 /\ buf[3] = 102 /\ buf[4] \in {104, 105}
  /\ buf[5] = 104 /\ buf[6] \in {104, 105} /\ buf[7] = len
  /\ \A w \in 8 .. len + 7 : buf[w] \in {100, 101, 104, 105}

\* The words of two sequences joined.
LEMMA Joined ==
  \A s, t \in Seq(Nat) :
    /\ s \o t \in Seq(Nat) /\ Len(s \o t) = Len(s) + Len(t)
    /\ \A w \in 1 .. Len(s) : (s \o t)[w] = s[w]
    /\ \A w \in Len(s) + 1 .. Len(s) + Len(t) : (s \o t)[w] = t[w - Len(s)]
OBVIOUS

\* The words of a WRITE as it is sent.
LEMMA WriteWords ==
  ASSUME NEW len \in Nat, NEW data \in DataOf(len), NEW cred \in Names, NEW name \in Names
  PROVE  AsSent(Write(cred, name, data), len)
<1>0. cred \in {104, 105} /\ name \in {104, 105} /\ cred \in Nat /\ name \in Nat
  BY DEF Names, Magic, Text
<1>1. /\ data \in Seq(Nat) /\ Len(data) = len
      /\ \A w \in 1 .. len : data[w] \in {100, 101, 104, 105}
  BY DEF DataOf, Magic, Text, CallWord, ProgWord
<1> DEFINE mid == <<104, name, len>>
           head == <<100, 101, 102, cred>>
           rest == mid \o data
           msg == head \o rest
<1>2. /\ mid \in Seq(Nat) /\ Len(mid) = 3 /\ mid[1] = 104 /\ mid[2] = name /\ mid[3] = len
      /\ head \in Seq(Nat) /\ Len(head) = 4 /\ head[1] = 100 /\ head[2] = 101
      /\ head[3] = 102 /\ head[4] = cred
  BY <1>0
<1>3. Write(cred, name, data) = msg
  BY Zenon, <1>1 DEF Write, Call, CallWord, ProgWord, WriteWord, Magic
<1> HIDE DEF mid, head
<1>4. /\ rest \in Seq(Nat) /\ Len(rest) = 3 + len
      /\ \A w \in 1 .. 3 : rest[w] = mid[w]
      /\ \A w \in 3 + 1 .. 3 + len : rest[w] = data[w - 3]
  <2>1. /\ rest \in Seq(Nat) /\ Len(rest) = Len(mid) + Len(data)
        /\ \A w \in 1 .. Len(mid) : rest[w] = mid[w]
        /\ \A w \in Len(mid) + 1 .. Len(mid) + Len(data) : rest[w] = data[w - Len(mid)]
    <3>1. mid \in Seq(Nat) /\ data \in Seq(Nat)
      BY Zenon, <1>1, <1>2
    <3> QED
      BY <3>1, Joined
  <2> HIDE DEF rest
  <2>2. Len(mid) = 3 /\ Len(data) = len
    BY Zenon, <1>1, <1>2
  <2> QED
    BY Zenon, <2>1, <2>2
<1> HIDE DEF rest
<1>5. /\ msg \in Seq(Nat) /\ Len(msg) = 4 + (3 + len)
      /\ \A w \in 1 .. 4 : msg[w] = head[w]
      /\ \A w \in 4 + 1 .. 4 + (3 + len) : msg[w] = rest[w - 4]
  <2>1. /\ msg \in Seq(Nat) /\ Len(msg) = Len(head) + Len(rest)
        /\ \A w \in 1 .. Len(head) : msg[w] = head[w]
        /\ \A w \in Len(head) + 1 .. Len(head) + Len(rest) : msg[w] = rest[w - Len(head)]
    <3>1. head \in Seq(Nat) /\ rest \in Seq(Nat)
      BY Zenon, <1>2, <1>4
    <3> QED
      BY <3>1, Joined
  <2> HIDE DEF msg
  <2>2. Len(head) = 4 /\ Len(rest) = 3 + len
    BY Zenon, <1>2, <1>4
  <2> QED
    BY Zenon, <2>1, <2>2
<1> HIDE DEF msg
<1>6. /\ Len(msg) = len + 7 /\ DOMAIN msg = 1 .. len + 7
      /\ msg[1] = 100 /\ msg[2] = 101 /\ msg[3] = 102 /\ msg[4] = cred
  BY <1>5, <1>2
<1>7. msg[5] = 104 /\ msg[6] = name /\ msg[7] = len
  <2>1. msg[5] = rest[1] /\ msg[6] = rest[2] /\ msg[7] = rest[3]
    BY <1>5
  <2> QED
    BY <2>1, <1>4, <1>2
<1>8. ASSUME NEW w \in 8 .. len + 7 PROVE msg[w] \in {100, 101, 104, 105}
  <2>1. w \in 4 + 1 .. 4 + (3 + len) /\ w - 4 \in 3 + 1 .. 3 + len
        /\ (w - 4) - 3 \in 1 .. len
    OBVIOUS
  <2>2. msg[w] = data[(w - 4) - 3]
    <3>1. msg[w] = rest[w - 4]
      BY Zenon, <2>1, <1>5
    <3> QED
      BY Zenon, <3>1, <2>1, <1>4
  <2> QED
    BY Zenon, <2>1, <2>2, <1>1
<1>9. AsSent(msg, len)
  BY Zenon, <1>0, <1>6, <1>7, <1>8 DEF AsSent
<1> QED
  BY Zenon, <1>3, <1>9

\* The first words of a RENAME as it is sent.
LEMMA RenameWords ==
  ASSUME NEW cred \in Names, NEW msg, msg = Rename(cred)
  PROVE  /\ Len(msg) = 8 /\ DOMAIN msg = 1 .. 8
         /\ msg[1] = 100 /\ msg[2] = 101 /\ msg[3] = 103
<1>1. cred \in Nat
  BY DEF Names, Magic, Text
<1> DEFINE head == <<100, 101, 103, cred>>
           rest == <<104, 105, 104, 105>>
<1>2. msg = head \o rest
  BY Zenon DEF Rename, Call, CallWord, ProgWord, RenameWord, Magic, Text
<1>3. /\ head \in Seq(Nat) /\ Len(head) = 4 /\ head[1] = 100 /\ head[2] = 101
      /\ head[3] = 103 /\ rest \in Seq(Nat) /\ Len(rest) = 4 /\ 4 \in Nat
  BY <1>1
<1> HIDE DEF head, rest
<1>4. /\ msg \in Seq(Nat) /\ Len(msg) = Len(head) + Len(rest)
      /\ \A w \in 1 .. Len(head) : msg[w] = head[w]
  <2>1. head \in Seq(Nat) /\ rest \in Seq(Nat)
    BY Zenon, <1>3
  <2> QED
    BY <1>2, <2>1, Joined
<1> QED
  BY <1>3, <1>4

\* What a client sends is a RENAME or a WRITE with a count that is no other
\* word.
LEMMA MessageForms ==
  ASSUME NEW msg \in Messages
  PROVE  (\E cred \in Names : msg = Rename(cred)) \/ \E len \in 0 .. 99 : AsSent(msg, len)
<1>1. \A len \in 0 .. 99 : \A data \in DataOf(len) : \A cred, name \in Names :
        msg = Write(cred, name, data) => AsSent(msg, len)
  <2> TAKE len \in 0 .. 99
  <2>1. len \in Nat
    OBVIOUS
  <2> TAKE data \in DataOf(len)
  <2> TAKE cred, name \in Names
  <2>2. AsSent(Write(cred, name, data), len)
    BY Zenon, <2>1, WriteWords
  <2> QED
    BY Zenon, <2>2
<1>2. CASE \E cred, name \in Names :
             \E data \in UNION {DataOf(len) : len \in 1 .. MaxData} :
               msg = Write(cred, name, data)
  <2>1. PICK cred \in Names, name \in Names, len \in 1 .. MaxData :
               \E data \in DataOf(len) : msg = Write(cred, name, data)
    BY Zenon, <1>2
  <2>2. len \in 0 .. 99
    BY RpcAssumption
  <2> QED
    BY Zenon, <2>1, <2>2, <1>1
<1>3. CASE \E data \in [1 .. MaxLen -> {Text}] : msg = Write(Text, Text, data)
  <2>1. MaxLen \in 0 .. 99
    BY RpcAssumption
  <2>2. [1 .. MaxLen -> {Text}] \subseteq DataOf(MaxLen) /\ Text \in Names
    BY Zenon DEF DataOf, Names
  <2> QED
    BY Zenon, <1>3, <2>1, <2>2, <1>1
<1>4. CASE \E cred \in Names : msg = Rename(cred)
  BY Zenon, <1>4
<1>5. CASE msg \in Writes
  <2>1. PICK cred \in Names : msg \in UNION {WritesOf(cred, name) : name \in Names}
    BY Zenon, <1>5 DEF Writes
  <2>2. PICK name \in Names : msg \in WritesOf(cred, name)
    BY Zenon, <2>1
  <2> QED
    BY Zenon, <2>2, <1>2 DEF WritesOf
<1> QED
  BY Zenon, <1>5, <1>3, <1>4 DEF Messages

\* The self-check does not refuse a WRITE that arrived as it was sent and whose
\* data hold no CALL header: nothing in it but its own beginning could pass for
\* one.
LEMMA SentNotCorrupt ==
  ASSUME NEW buf, NEW len \in 0 .. 99, AsSent(buf, len),
         \A w \in 8 .. len + 6 : ~(buf[w] = 100 /\ buf[w + 1] = 101)
  PROVE  ~Corrupt(buf)
<1>1. ~BadLength(buf)
  BY DEF AsSent, BadLength, CountOff
<1>2. ASSUME NEW d \in Nat, d >= 1, d + 3 <= len + 7, buf[d + 1] = 100, buf[d + 2] = 101
      PROVE  FALSE
  <2>1. d + 1 \notin 2 .. 7
    <3>1. \A w \in 2 .. 7 : buf[w] # 100
      BY DEF AsSent
    <3> QED
      BY Zenon, <3>1, <1>2
  <2>2. d + 1 \in 8 .. len + 6 /\ (d + 1) + 1 = d + 2
    BY <2>1, <1>2
  <2>3. ~(buf[d + 1] = 100 /\ buf[(d + 1) + 1] = 101)
    BY Zenon, <2>2
  <2> QED
    BY Zenon, <2>2, <2>3, <1>2
<1>3. Len(buf) = len + 7 /\ Hits(buf) \subseteq Nat
  BY DEF AsSent, Hits
<1>4. ~Confirmed(buf)
  <2> SUFFICES ASSUME Confirmed(buf) PROVE FALSE
    BY Zenon
  <2>2. PICK off1, off2 \in Hits(buf) :
               /\ off1 < off2 /\ (off2 - off1) + ProcOff <= Len(buf)
               /\ buf[(off2 - off1) + 1] = CallWord
               /\ buf[(off2 - off1) + ProgOff] = ProgWord
    BY Zenon DEF Confirmed
  <2> DEFINE d == off2 - off1
  <2>1. d \in Nat /\ d >= 1
    BY <1>3, <2>2
  <2>3. d + 3 <= len + 7 /\ buf[d + 1] = 100 /\ buf[d + 2] = 101
    BY Zenon, <2>2, <1>3 DEF ProcOff, ProgOff, CallWord, ProgWord
  <2> HIDE DEF d
  <2> QED
    BY Zenon, <2>1, <2>3, <1>2
<1> QED
  BY Zenon, <1>1, <1>4 DEF Corrupt

\* buf is a message of n words that was started over after at words.
Restarted(buf, msg, at, n) ==
  /\ Len(buf) = n /\ DOMAIN buf = 1 .. n
  /\ \A w \in 1 .. at : buf[w] = msg[w]
  /\ \A w \in at + 1 .. n : buf[w] = msg[w - at]

\* What recv() delivers of a message it starts over after some words.
LEMMA DeliveredWords ==
  ASSUME NEW msg, NEW n \in Nat, DOMAIN msg = 1 .. n, NEW at \in 1 .. n - 1
  PROVE  Restarted(Delivered(msg, at), msg, at, n)
BY DEF Delivered, Restarted

\* A RENAME is not made a WRITE by starting it over.
LEMMA ReplayedRename ==
  ASSUME NEW cred \in Names, NEW at \in 1 .. 7
  PROVE  Payload(Delivered(Rename(cred), at)) = <<>>
<1> PICK msg : msg = Rename(cred)
  BY Zenon
<1> PICK buf : buf = Delivered(msg, at)
  BY Zenon
<1>4. DOMAIN msg = 1 .. 8 /\ msg[1] = 100 /\ msg[2] = 101 /\ msg[3] = 103
  BY RenameWords
<1>3. 8 \in Nat /\ at \in 1 .. 8 - 1 /\ DOMAIN msg = 1 .. 8
  BY <1>4
<1>1. /\ \A w \in 1 .. at : buf[w] = msg[w]
      /\ \A w \in at + 1 .. 8 : buf[w] = msg[w - at]
  <2>1. Restarted(Delivered(msg, at), msg, at, 8)
    BY Zenon, <1>3, DeliveredWords
  <2> QED
    BY Zenon, <2>1 DEF Restarted
<1>2. buf[3] # 102
  <2>1. CASE at >= 3
    BY <2>1, <1>1, <1>4
  <2>2. CASE at < 3
    <3>1. buf[3] = msg[3 - at] /\ 3 - at \in 1 .. 2
      BY <2>2, <1>1
    <3> QED
      BY <3>1, <1>4
  <2> QED
    BY <2>1, <2>2
<1> QED
  BY Zenon, <1>2 DEF Payload, IsWrite, ProcOff, WriteWord

\* buf is such a WRITE, started over early enough to bring its handle again,
\* that is received and stored all the same.
Passes(buf, msg, len, at) ==
  /\ len \in 0 .. 99 /\ at \in 1 .. len + 6 /\ len + 7 - at >= 5
  /\ AsSent(msg, len) /\ Restarted(buf, msg, at, len + 7)
  /\ Received(buf) /\ Payload(buf) # <<>>

\* A WRITE that was started over early enough to bring its handle again, and is
\* received all the same, held the magic elsewhere before: with no other magic
\* between them the two handles are the first two, and they are as far apart as
\* the two CALL headers (rpc_recv_selfcheck).
LEMMA ReplayedWrite ==
  ASSUME NEW msg, NEW buf, NEW len, NEW at, Passes(buf, msg, len, at)
  PROVE  \E w \in 1 .. at : w # 5 /\ msg[w] = 104
<1> SUFFICES ASSUME len \in 0 .. 99, at \in 1 .. len + 6, len + 7 - at >= 5,
                    AsSent(msg, len), Restarted(buf, msg, at, len + 7),
                    Received(buf), Payload(buf) # <<>>
             PROVE  \E w \in 1 .. at : w # 5 /\ msg[w] = 104
  BY Zenon DEF Passes
<1>0. SUFFICES ASSUME \A w \in 1 .. at : w # 5 => msg[w] # 104 PROVE FALSE
  BY Zenon
<1>1. /\ Len(buf) = len + 7 /\ DOMAIN buf = 1 .. len + 7
      /\ \A w \in 1 .. at : buf[w] = msg[w]
      /\ \A w \in at + 1 .. len + 7 : buf[w] = msg[w - at]
  BY Zenon DEF Restarted
<1>2. buf[3] = 102 /\ buf[5] = 104 /\ 7 + buf[7] <= len + 7 /\ IsWrite(buf)
  <2>1. /\ IsWrite(buf) /\ buf[HandleOff] = Magic
        /\ CountOff + buf[CountOff] <= Len(buf)
    BY Zenon DEF Payload
  <2>2. buf[3] = 102
    BY Zenon, <2>1 DEF IsWrite, ProcOff, WriteWord
  <2> QED
    BY Zenon, <2>1, <2>2, <1>1 DEF HandleOff, CountOff, Magic
<1>3. len + 7 <= 99
  <2>1. len + 7 <= MaxLen
    BY Zenon, <1>1 DEF Received
  <2> QED
    BY <2>1, RpcAssumption
<1>4. msg[1] = 100 /\ msg[2] = 101 /\ msg[3] = 102 /\ msg[5] = 104
  BY Zenon DEF AsSent
<1>5. at >= 3
  <2> SUFFICES ASSUME at < 3 PROVE FALSE
    OBVIOUS
  <2>1. buf[3] \in {msg[1], msg[2]}
    <3>1. 3 \in at + 1 .. len + 7 /\ 3 - at \in {1, 2}
      OBVIOUS
    <3> QED
      BY Zenon, <3>1, <1>1
  <2> QED
    BY <2>1, <1>2, <1>4
<1>6. at >= 7
  <2>1. CASE at \in {3, 4}
    <3>1. 5 \in at + 1 .. len + 7 /\ 5 - at \in {1, 2}
      BY <2>1
    <3>2. buf[5] \in {msg[1], msg[2]}
      BY Zenon, <3>1, <1>1
    <3> QED
      BY <3>2, <1>2, <1>4
  <2>2. CASE at \in {5, 6}
    <3>1. 7 \in at + 1 .. len + 7 /\ 7 - at \in {1, 2}
      BY <2>2
    <3>2. buf[7] \in {msg[1], msg[2]}
      BY Zenon, <3>1, <1>1
    <3> QED
      BY <3>2, <1>2, <1>3, <1>4
  <2> QED
    BY <1>5, <2>1, <2>2
<1>7. 5 \in Hits(buf) /\ at + 5 \in Hits(buf)
  <2>1. 5 \in 1 .. at /\ at + 5 \in at + 1 .. len + 7 /\ (at + 5) - at = 5
    BY <1>6
  <2>2. buf[5] = 104 /\ buf[at + 5] = 104
    BY <2>1, <1>1, <1>4
  <2>3. 5 \in 1 .. len + 7 /\ at + 5 \in 1 .. len + 7
    BY <2>1
  <2> QED
    BY Zenon, <2>2, <2>3, <1>1 DEF Hits, Magic
<1>8. ASSUME NEW w \in Hits(buf) PROVE w \in {5, at + 5} \/ w > at + 5
  <2>1. w \in 1 .. len + 7 /\ buf[w] = 104
    BY Zenon, <1>1 DEF Hits, Magic
  <2>2. CASE w <= at
    <3>1. msg[w] = 104 /\ w \in 1 .. at
      BY <2>1, <2>2, <1>1
    <3> QED
      BY Zenon, <3>1, <1>0
  <2>3. CASE w > at
    <3>1. msg[w - at] = 104 /\ w - at \in 1 .. len + 7
      BY <2>1, <2>3, <1>1
    <3>3. 4 \in 1 .. at /\ 4 # 5
      BY <1>6
    <3>4. msg[4] # 104
      BY <3>3, <1>0
    <3>2. w - at # 1 /\ w - at # 2 /\ w - at # 3 /\ w - at # 4
      BY <3>1, <3>4, <1>4
    <3> QED
      BY <3>1, <3>2, <2>1, <2>3
  <2> QED
    BY <2>1, <2>2, <2>3
<1>9. Confirmed(buf)
  <2>1. 5 < at + 5 /\ (at + 5) - 5 = at /\ at + 3 <= len + 7
    OBVIOUS
  <2>3. at + 3 <= Len(buf)
    BY Zenon, <2>1, <1>1
  <2>2. buf[at + 1] = 100 /\ buf[at + 2] = 101
    <3>1. /\ at + 1 \in at + 1 .. len + 7 /\ at + 2 \in at + 1 .. len + 7
          /\ (at + 1) - at = 1 /\ (at + 2) - at = 2
      OBVIOUS
    <3>2. buf[at + 1] = msg[1]
      BY Zenon, <3>1, <1>1
    <3>3. buf[at + 2] = msg[2]
      BY Zenon, <3>1, <1>1
    <3> QED
      BY Zenon, <3>2, <3>3, <1>4
  <2> DEFINE Header(off1, off2) ==
               /\ off1 < off2
               /\ \A w \in Hits(buf) : w \in {off1, off2} \/ w > off2
               /\ (off2 - off1) + 3 <= Len(buf)
               /\ buf[(off2 - off1) + 1] = 100 /\ buf[(off2 - off1) + 2] = 101
  <2>6. /\ ((at + 5) - 5) + 3 <= Len(buf)
        /\ buf[((at + 5) - 5) + 1] = 100 /\ buf[((at + 5) - 5) + 2] = 101
    <3> DEFINE d == (at + 5) - 5
    <3>1. d = at
      BY Zenon, <2>1
    <3> HIDE DEF d
    <3>2. d + 3 <= Len(buf) /\ buf[d + 1] = 100 /\ buf[d + 2] = 101
      BY Zenon, <2>2, <2>3, <3>1
    <3>3. QED
      BY Zenon, <3>2 DEF d
  <2>4. Header(5, at + 5)
    BY Zenon, <1>8, <2>1, <2>6
  <2>5. (\E off1, off2 \in Hits(buf) : Header(off1, off2)) => Confirmed(buf)
    BY Zenon DEF Confirmed, ProcOff, ProgOff, CallWord, ProgWord
  <2> HIDE DEF Header
  <2> QED
    BY Zenon, <1>7, <2>4, <2>5
<1> QED
  BY Zenon, <1>2, <1>9 DEF Received, Corrupt

\* What is made of a message that came as it was sent, or was started over.
LEMMA OutcomesRight ==
  ASSUME NEW o \in Outcomes
  PROVE  /\ o.handled /\ o.stores = "damage" /\ o.repeats => o.decoy
         /\ o.handled \/ o.replayed \/ o.toolong \/ o.image
<1> PICK msg \in Messages : \E at \in 0 .. Len(msg) - 1 : o = Outcome(msg, at)
  BY Zenon DEF Outcomes
<1> PICK at \in 0 .. Len(msg) - 1 : o = Outcome(msg, at)
  BY Zenon
<1>1. /\ o.handled = (Received(Delivered(msg, at)) /\ Parsed(Delivered(msg, at)))
      /\ o.replayed = (at # 0) /\ o.toolong = (Len(msg) > MaxLen)
      /\ o.repeats = (at > 0 /\ Len(msg) - at >= HandleOff)
      /\ o.decoy = (\E w \in 1 .. at : w # HandleOff /\ msg[w] = Magic)
      /\ o.image = (\E w \in CountOff + 1 .. Len(msg) - 1 :
                      msg[w] = CallWord /\ msg[w + 1] = ProgWord)
      /\ o.stores = "damage" => Payload(Delivered(msg, at)) # <<>>
  BY Zenon DEF Outcome
<1>2. ASSUME o.handled, o.stores = "damage", o.repeats PROVE o.decoy
  <2>1. /\ Received(Delivered(msg, at)) /\ Payload(Delivered(msg, at)) # <<>>
        /\ at > 0 /\ Len(msg) - at >= 5
    BY Zenon, <1>1, <1>2 DEF HandleOff
  <2>2. CASE \E cred \in Names : msg = Rename(cred)
    <3>0. PICK cred \in Names : msg = Rename(cred)
      BY Zenon, <2>2
    <3>2. Len(msg) = 8
      BY <3>0, RenameWords
    <3>1. at \in 1 .. 7
      BY <2>1, <3>2
    <3> QED
      BY Zenon, <3>0, <3>1, <2>1, ReplayedRename
  <2>3. CASE \E len \in 0 .. 99 : AsSent(msg, len)
    <3>1. PICK len \in 0 .. 99 : AsSent(msg, len)
      BY Zenon, <2>3
    <3>2. Len(msg) = len + 7
      BY Zenon, <3>1 DEF AsSent
    <3>3. at \in 1 .. len + 6 /\ len + 7 - at >= 5
      BY <3>2, <2>1
    <3>4. \E w \in 1 .. at : w # 5 /\ msg[w] = 104
      <4>1. len + 7 \in Nat /\ at \in 1 .. (len + 7) - 1 /\ DOMAIN msg = 1 .. len + 7
        BY <3>1, <3>3 DEF AsSent
      <4>2. Restarted(Delivered(msg, at), msg, at, len + 7)
        BY Zenon, <4>1, DeliveredWords
      <4>3. PICK buf : buf = Delivered(msg, at)
        BY Zenon
      <4>4. Received(buf) /\ Payload(buf) # <<>> /\ Restarted(buf, msg, at, len + 7)
        BY Zenon, <4>2, <4>3, <2>1
      <4>5. Passes(buf, msg, len, at)
        BY Zenon, <4>4, <3>1, <3>3 DEF Passes
      <4> QED
        BY <4>5, ReplayedWrite
    <3>5. \E w \in 1 .. at : w # HandleOff /\ msg[w] = Magic
      BY Zenon, <3>4 DEF Magic, HandleOff
    <3> QED
      BY Zenon, <3>5, <1>1
  <2> QED
    BY Zenon, <2>2, <2>3, MessageForms
<1>3. ASSUME at = 0, ~(Len(msg) > MaxLen), ~o.image PROVE o.handled
  <2>1. Delivered(msg, at) = msg
    BY Zenon, <1>3 DEF Delivered
  <2>2. CASE \E cred \in Names : msg = Rename(cred)
    <3>0. Len(msg) = 8 /\ msg[1] = 100 /\ msg[3] = 103
      BY <2>2, RenameWords
    <3>1. ~IsWrite(msg) /\ Parsed(msg)
      BY <3>0 DEF IsWrite, Parsed, ProcOff, WriteWord, CallWord
    <3>2. Len(msg) <= MaxLen
      BY <1>3, <3>0, RpcAssumption
    <3> QED
      BY Zenon, <3>1, <3>2, <2>1, <1>1 DEF Received, Corrupt
  <2>3. CASE \E len \in 0 .. 99 : AsSent(msg, len)
    <3>1. PICK len \in 0 .. 99 : AsSent(msg, len)
      BY Zenon, <2>3
    <3>4. \A w \in 8 .. len + 6 : ~(msg[w] = 100 /\ msg[w + 1] = 101)
      <4>1. CountOff + 1 = 8 /\ Len(msg) - 1 = len + 6
        BY <3>1 DEF AsSent, CountOff
      <4>2. \A w \in CountOff + 1 .. Len(msg) - 1 :
              ~(msg[w] = CallWord /\ msg[w + 1] = ProgWord)
        BY Zenon, <1>1, <1>3
      <4>3. \A w \in CountOff + 1 .. Len(msg) - 1 : ~(msg[w] = 100 /\ msg[w + 1] = 101)
        BY Zenon, <4>2 DEF CallWord, ProgWord
      <4> QED
        BY Zenon, <4>1, <4>3
    <3>2. ~Corrupt(msg)
      BY Zenon, <3>1, <3>4, SentNotCorrupt
    <3>3. Parsed(msg) /\ Len(msg) <= MaxLen
      BY <3>1, <1>3, RpcAssumption DEF AsSent, Parsed, ProcOff, CallWord
    <3> QED
      BY Zenon, <3>2, <3>3, <2>1, <1>1 DEF Received
  <2> QED
    BY Zenon, <2>2, <2>3, MessageForms
<1> QED
  BY Zenon, <1>1, <1>2, <1>3

\* A WRITE garbled by a replay that comes to the handle again is refused,
\* unless the magic was elsewhere in the message before the replay, in the
\* credential, a name or the data (rpc_recv_selfcheck): for messages of any
\* length.
THEOREM ReplaysCaught == Spec => []ReplayCaught
<1>1. ReplayCaught
  BY Zenon, OutcomesRight DEF ReplayCaught
<1> QED
  BY <1>1, PTL

\* A message that arrives as it was sent, and fits the buffer, is handled,
\* whatever the credential, the names and the data in it, unless the data hold
\* the image of a CALL header (rpc_recv_selfcheck, rpc_parse_call).
THEOREM GoodMessagesKept == Spec => []GoodMessageKept
<1>1. GoodMessageKept
  BY Zenon, OutcomesRight DEF GoodMessageKept
<1> QED
  BY <1>1, PTL
=============================================================================
