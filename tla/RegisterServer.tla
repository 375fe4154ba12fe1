--------------------------- MODULE RegisterServer ---------------------------
(***************************************************************************)
(* How the overlay starts: CRegisterServer (register_server.cpp) on top of *)
(* CTcpServer (tcp_server.cpp), and the part of CPeerClient that registers *)
(* and connects (Register, HandleRegisterResponse, ConnectToPeers).        *)
(*                                                                         *)
(* The register server runs an accept thread, one thread per connection    *)
(* and the loop of Run(), which ends the process once IsKeepRunning() is   *)
(* false. Every peer runs the thread of Run() and, started before it and   *)
(* not synchronised with it, the accept thread of its CPeerServer.         *)
(*                                                                         *)
(* A user may kill a peer and start it again with the same id. The         *)
(* connection of its n-th start is <<peer, n>>.                            *)
(*                                                                         *)
(* An operator marked MUTANT is a faulty version of the definition it names,*)
(* used only to see that a property notices the fault.                     *)
(***************************************************************************)
EXTENDS Integers, Sequences, FiniteSets

CONSTANTS
  Peers,        \* the peer ids of the topology file
  Neighbors,    \* the peers each peer is to be connected to
  Hosts,        \* ip addresses
  host,         \* the machine each peer runs on
  MaxRestarts,  \* BOUND: how often each peer is started again
  NoIp          \* "", no address yet

ASSUME TopologyAssumption ==
  /\ IsFiniteSet(Peers)
  /\ Neighbors \in [Peers -> SUBSET Peers]
  /\ \A p \in Peers : p \notin Neighbors[p]

ASSUME HostsAssumption == host \in [Peers -> Hosts] /\ NoIp \notin Hosts

ASSUME RestartsAssumption == MaxRestarts \in [Peers -> Nat]

VARIABLES
  pc,                   \* what the peer is doing in Register()
  restarts,             \* how often the peer was started again
  listening,            \* the peer's CPeerServer listens
  m_peer_id_to_ip,      \* the addresses a peer knows
  m_peer_id_to_sockfd,  \* the peers a peer is connected to
  running,              \* the register server's process runs
  backlog,              \* connections that wait for accept
  client_addr,          \* the accept loop's variable: the last client's address
  thread,               \* what the thread of a connection is doing
  index_client_addr,    \* the address that thread has copied
  m_client_info,        \* the address registered for a peer
  m_all_peers_registered,
  m_thread_exit_count,
  requested,            \* the connections over which a peer has sent its request
  response              \* what was sent over a connection: peer -> address

peerVars == <<pc, restarts, listening, m_peer_id_to_ip, m_peer_id_to_sockfd>>
infoVars == <<m_client_info, m_all_peers_registered, m_thread_exit_count>>
vars == <<peerVars, running, backlog, client_addr, thread, index_client_addr,
          infoVars, requested, response>>

Connections == UNION {{p} \X (0 .. MaxRestarts[p]) : p \in Peers}
Current(p) == <<p, restarts[p]>>
Addresses == Hosts \cup {NoIp}
\* Nothing was sent: a response always lists the peer it is for.
NoResponse == [p \in Peers |-> NoIp]

TypeOK ==
  /\ pc \in [Peers -> {"start", "connected", "registering", "connecting",
                       "running", "exited"}]
  /\ restarts \in [Peers -> Nat]
  /\ listening \in [Peers -> BOOLEAN]
  /\ m_peer_id_to_ip \in [Peers -> [Peers -> Addresses]]
  /\ m_peer_id_to_sockfd \in [Peers -> SUBSET Peers]
  /\ running \in BOOLEAN
  /\ backlog \in Seq(Connections)
  /\ client_addr \in Addresses
  /\ thread \in [Connections -> {"none", "started", "reading", "waiting", "ended"}]
  /\ index_client_addr \in [Connections -> Addresses]
  /\ m_client_info \in [Peers -> Addresses]
  /\ m_all_peers_registered \in BOOLEAN
  /\ m_thread_exit_count \in 0 .. Cardinality(Connections)
  /\ requested \subseteq Connections
  /\ response \in [Connections -> [Peers -> Addresses]]

Init ==
  /\ pc = [p \in Peers |-> "start"]
  /\ restarts = [p \in Peers |-> 0]
  /\ listening = [p \in Peers |-> FALSE]
  /\ m_peer_id_to_ip = [p \in Peers |-> [q \in Peers |-> NoIp]]
  /\ m_peer_id_to_sockfd = [p \in Peers |-> {}]
  /\ running = TRUE
  /\ backlog = <<>>
  /\ client_addr = NoIp
  /\ thread = [c \in Connections |-> "none"]
  /\ index_client_addr = [c \in Connections |-> NoIp]
  /\ m_client_info = [p \in Peers |-> NoIp]
  /\ m_all_peers_registered = FALSE
  /\ m_thread_exit_count = 0
  /\ requested = {}
  /\ response = [c \in Connections |-> NoResponse]
-----------------------------------------------------------------------------
(* The register server.                                                    *)

\* IsKeepRunning().
KeepsRunning == m_thread_exit_count < Cardinality(Peers)

\* StartAccepting: every client's address goes to the same variable, whose
\* address every thread of a connection gets.
Accept ==
  /\ running
  /\ backlog # <<>>
  /\ KeepsRunning
  /\ backlog' = Tail(backlog)
  /\ client_addr' = host[Head(backlog)[1]]
  /\ thread' = [thread EXCEPT ![Head(backlog)] = "started"]
  /\ UNCHANGED <<peerVars, running, index_client_addr, infoVars, requested, response>>

\* HandleRequest copies the address when its thread gets to run.
CopyAddress(c) ==
  /\ running
  /\ thread[c] = "started"
  /\ index_client_addr' = [index_client_addr EXCEPT ![c] = client_addr]
  /\ thread' = [thread EXCEPT ![c] = "reading"]
  /\ UNCHANGED <<peerVars, running, backlog, client_addr, infoVars, requested, response>>

\* MUTANTS of AllRegistered: m_num_of_peers is off by one, down and up.
AllButOneRegistered(info) ==
  Cardinality({q \in Peers : info[q] # NoIp}) >= Cardinality(Peers) - 1
OneMoreRegistered(info) ==
  Cardinality({q \in Peers : info[q] # NoIp}) = Cardinality(Peers) + 1
\* m_client_info.size() == m_num_of_peers.
AllRegistered(info) == \A q \in Peers : info[q] # NoIp

\* DealWithRequest up to the loop that waits for all peers. The thread of a
\* connection whose peer was killed before it sent its request reads zero bytes
\* for ever.
RegisterPeer(c) ==
  LET info == [m_client_info EXCEPT ![c[1]] = index_client_addr[c]] IN
  /\ running
  /\ thread[c] = "reading"
  /\ c \in requested
  /\ m_client_info' = info
  /\ m_all_peers_registered' = (m_all_peers_registered \/ AllRegistered(info))
  /\ thread' = [thread EXCEPT ![c] = "waiting"]
  /\ UNCHANGED <<peerVars, running, backlog, client_addr, index_client_addr,
                 m_thread_exit_count, requested, response>>

\* MUTANT of CountExit: both the handler and its caller count.
CountExitTwice == m_thread_exit_count' = m_thread_exit_count + 2
CountExit == m_thread_exit_count' = m_thread_exit_count + 1

\* The peers whose entry of m_client_info another thread may be writing right now:
\* peers that were started again.
BeingWritten == {c[1] : c \in {d \in requested : thread[d] = "reading"}}

\* DealWithRequest after that loop. m_client_info is read without its mutex: a
\* racing read of an address yields some mixture of the old and the new one. A
\* peer that was killed meanwhile counts too.
Respond(c) ==
  /\ running
  /\ thread[c] = "waiting"
  /\ m_all_peers_registered
  /\ \E mixture \in [BeingWritten -> Hosts] :
       response' = [response EXCEPT ![c] =
         [q \in Peers |-> IF q \in BeingWritten THEN mixture[q] ELSE m_client_info[q]]]
  /\ CountExit
  /\ thread' = [thread EXCEPT ![c] = "ended"]
  /\ UNCHANGED <<peerVars, running, backlog, client_addr, index_client_addr,
                 m_client_info, m_all_peers_registered, requested>>

\* Run() ends the process, whatever the other threads are doing.
Exit ==
  /\ running
  /\ ~KeepsRunning
  /\ running' = FALSE
  /\ UNCHANGED <<peerVars, backlog, client_addr, thread, index_client_addr, infoVars,
                 requested, response>>
-----------------------------------------------------------------------------
(* A peer.                                                                 *)

UnchangedServer ==
  UNCHANGED <<running, client_addr, thread, index_client_addr, infoVars, response>>

\* The accept thread of CPeerServer gets to its listen().
Listen(p) ==
  /\ pc[p] # "exited"
  /\ ~listening[p]
  /\ listening' = [listening EXCEPT ![p] = TRUE]
  /\ UNCHANGED <<pc, restarts, m_peer_id_to_ip, m_peer_id_to_sockfd, backlog, requested>>
  /\ UnchangedServer

\* exit(1).
Exits(p) ==
  /\ pc' = [pc EXCEPT ![p] = "exited"]
  /\ listening' = [listening EXCEPT ![p] = FALSE]

\* Register() up to its connect().
Connect(p) ==
  /\ pc[p] = "start"
  /\ \/ /\ running
        /\ pc' = [pc EXCEPT ![p] = "connected"]
        /\ backlog' = Append(backlog, Current(p))
        /\ UNCHANGED listening
     \/ /\ ~running
        /\ Exits(p)
        /\ UNCHANGED backlog
  /\ UNCHANGED <<restarts, m_peer_id_to_ip, m_peer_id_to_sockfd, requested>>
  /\ UnchangedServer

SendRequest(p) ==
  /\ pc[p] = "connected"
  /\ running
  /\ pc' = [pc EXCEPT ![p] = "registering"]
  /\ requested' = requested \cup {Current(p)}
  /\ UNCHANGED <<restarts, listening, m_peer_id_to_ip, m_peer_id_to_sockfd, backlog>>
  /\ UnchangedServer

\* MUTANT of Reachable: "peer is not reachable by this client" is not checked.
AnyPeer(p, q) == TRUE
Reachable(p, q) == q \in Neighbors[p] \cup {p}

\* HandleRegisterResponse: a peer keeps the addresses of its neighbours and its own.
HandleRegisterResponse(p) ==
  LET ips == response[Current(p)] IN
  /\ pc[p] = "registering"
  /\ ips # NoResponse
  /\ m_peer_id_to_ip' = [m_peer_id_to_ip EXCEPT ![p] =
                           [q \in Peers |-> IF Reachable(p, q) THEN ips[q] ELSE NoIp]]
  /\ pc' = [pc EXCEPT ![p] = IF Neighbors[p] = {} THEN "running" ELSE "connecting"]
  /\ UNCHANGED <<restarts, listening, m_peer_id_to_sockfd, backlog, requested>>
  /\ UnchangedServer

\* The server is gone: recv() returns 0 and the empty response is invalid, which
\* the peer takes for a start without connections; or send() or recv() fails.
LoseServer(p) ==
  /\ pc[p] \in {"connected", "registering"}
  /\ ~running
  /\ response[Current(p)] = NoResponse
  /\ \/ /\ pc' = [pc EXCEPT ![p] = "running"]
        /\ UNCHANGED listening
     \/ Exits(p)
  /\ UNCHANGED <<restarts, m_peer_id_to_ip, m_peer_id_to_sockfd, backlog, requested>>
  /\ UnchangedServer

\* The keys of m_peer_id_to_ip but its own: the neighbours of the topology file
\* (LoadTopology), whose address may be missing, and whoever the response added.
OthersKnown(p) ==
  (Neighbors[p] \cup {q \in Peers : m_peer_id_to_ip[p][q] # NoIp}) \ {p}

\* One round of ConnectToPeers, which gives up the process where nobody listens
\* or the address is missing: the port is the one of peer q, the address the one
\* registered for it.
ConnectToPeer(p, q) ==
  LET connected == m_peer_id_to_sockfd[p] \cup {q} IN
  /\ pc[p] = "connecting"
  /\ q \in OthersKnown(p) \ m_peer_id_to_sockfd[p]
  /\ \/ /\ m_peer_id_to_ip[p][q] = host[q]
        /\ listening[q]
        /\ m_peer_id_to_sockfd' = [m_peer_id_to_sockfd EXCEPT ![p] = connected]
        /\ pc' = [pc EXCEPT ![p] = IF connected = OthersKnown(p) THEN "running" ELSE @]
        /\ UNCHANGED listening
     \/ /\ m_peer_id_to_ip[p][q] # host[q] \/ ~listening[q]
        /\ Exits(p)
        /\ UNCHANGED m_peer_id_to_sockfd
  /\ UNCHANGED <<restarts, m_peer_id_to_ip, backlog, requested>>
  /\ UnchangedServer

\* The user kills a peer that has not been answered and starts it again, or starts
\* again one that has exited.
Restart(p) ==
  /\ restarts[p] < MaxRestarts[p]
  /\ pc[p] \in {"connected", "registering", "exited"}
  /\ restarts' = [restarts EXCEPT ![p] = @ + 1]
  /\ pc' = [pc EXCEPT ![p] = "start"]
  /\ listening' = [listening EXCEPT ![p] = FALSE]
  /\ m_peer_id_to_ip' = [m_peer_id_to_ip EXCEPT ![p] = [q \in Peers |-> NoIp]]
  /\ m_peer_id_to_sockfd' = [m_peer_id_to_sockfd EXCEPT ![p] = {}]
  /\ UNCHANGED <<backlog, requested>>
  /\ UnchangedServer
-----------------------------------------------------------------------------
ServerThread(c) == CopyAddress(c) \/ RegisterPeer(c) \/ Respond(c)

\* The thread of a peer's Run(), inside Register().
Register(p) ==
  \/ Connect(p)
  \/ SendRequest(p)
  \/ HandleRegisterResponse(p)
  \/ LoseServer(p)
  \/ \E q \in Peers : ConnectToPeer(p, q)

\* A step of one of the threads.
Threads ==
  \/ Accept
  \/ \E c \in Connections : ServerThread(c)
  \/ Exit
  \/ \E p \in Peers : Listen(p) \/ Register(p)

Next == Threads \/ \E p \in Peers : Restart(p)

Spec == Init /\ [][Next]_vars

\* The threads do not all stop while one of them can go on: no thread can take
\* infinitely many steps here, so each gets its turn. Nothing makes the user
\* restart a peer.
Fairness == WF_vars(Threads)

FairSpec == Spec /\ Fairness
-----------------------------------------------------------------------------
NeverRestarted == \A p \in Peers : restarts[p] = 0
Answered(c) == response[c] # NoResponse

\* README, "When all peers are connected, register server broadcast ip of all
\* peers": no response leaves before every peer is registered, whichever thread
\* sees m_all_peers_registered first and whoever registers twice.
RespondsInFull == \A c \in Connections :
  Answered(c) => \A q \in Peers : response[c][q] # NoIp

\* README, "to every peer": Run() does not end the process (IsKeepRunning,
\* register_server.h) while a thread still has a response to send, unless a peer
\* registered twice.
NobodyLeftOut == ~running /\ NeverRestarted => \A p \in Peers : Answered(Current(p))

\* README, "be connected to peers specified in corresponding topology config
\* files": a peer that has gone through Register() with an answer is connected
\* to exactly its neighbours, and never to anybody else.
TopologyConnected == \A p \in Peers :
  /\ m_peer_id_to_sockfd[p] \subseteq Neighbors[p]
  /\ pc[p] = "running" /\ Answered(Current(p)) => m_peer_id_to_sockfd[p] = Neighbors[p]

\* The address registered for a peer is the one of the machine it runs on: what
\* README's "broadcast ip of all peers" takes for granted.
RightAddresses == \A p \in Peers : m_client_info[p] \in {NoIp, host[p]}

\* Liveness, under FairSpec: once every peer has sent its request, every peer is
\* answered, whatever the order of the threads; or somebody restarted a peer.
EveryoneAnswered ==
  (\A p \in Peers : <<p, 0>> \in requested)
    ~> ((\A p \in Peers : Answered(<<p, 0>>)) \/ ~NeverRestarted)
-----------------------------------------------------------------------------
(* Why the invariants hold: an inductive invariant.                        *)

\* The process c[2] of peer c[1] has gone beyond its connect().
Made(c) ==
  \/ c[2] < restarts[c[1]]
  \/ c[2] = restarts[c[1]] /\ pc[c[1]] # "start"

Ended == {c \in Connections : thread[c] = "ended"}

\* A connection is made by one process, waits at most once for accept, and has a thread
\* only after that; the threads that have responded are those IsKeepRunning() counts.
ConnectionsInv ==
  /\ \A p \in Peers : restarts[p] <= MaxRestarts[p]
  /\ \A i \in 1 .. Len(backlog) : Made(backlog[i]) /\ thread[backlog[i]] = "none"
  /\ \A i, j \in 1 .. Len(backlog) : backlog[i] = backlog[j] => i = j
  /\ \A c \in Connections : thread[c] # "none" => Made(c)
  /\ m_thread_exit_count = Cardinality(Ended)
  /\ running \/ ~KeepsRunning

\* An address is known wherever the code goes on to use it.
AddressesInv ==
  /\ \A c \in Connections : thread[c] # "none" => client_addr # NoIp
  /\ \A c \in Connections : thread[c] \in {"reading", "waiting", "ended"} => index_client_addr[c] # NoIp
  /\ m_all_peers_registered => AllRegistered(m_client_info)
  /\ \A c \in Connections :
       /\ thread[c] = "ended" => \A q \in Peers : response[c][q] # NoIp
       /\ thread[c] # "ended" => response[c] = NoResponse

\* What a peer has connected to, by where it is in Register().
PeersInv ==
  \A p \in Peers :
    /\ pc[p] \in {"start", "connected", "registering"} => m_peer_id_to_sockfd[p] = {}
    /\ pc[p] = "connecting" => OthersKnown(p) = Neighbors[p]
    /\ pc[p] \in {"connecting", "running"} =>
         \/ Answered(Current(p))
         \/ pc[p] = "running" /\ ~running

RegisterInv == ConnectionsInv /\ AddressesInv /\ PeersInv
=============================================================================
