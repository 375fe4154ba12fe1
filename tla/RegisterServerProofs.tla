------------------------- MODULE RegisterServerProofs -------------------------
(***************************************************************************)
(* Proofs about the start of the overlay, for every topology, every        *)
(* assignment of peers to machines and every number of restarts of module  *)
(* RegisterServer: that the register server answers in full                *)
(* (RespondsInFull) and everybody (NobodyLeftOut), and that peers connect  *)
(* to exactly their neighbours (TopologyConnected).                        *)
(***************************************************************************)
EXTENDS RegisterServer, TLAPS, FiniteSetTheorems

-----------------------------------------------------------------------------
(* Connections, and how many of them have ended.                           *)

\* There are finitely many connections: finitely many peers, and for each of them
\* finitely many starts.
LEMMA ConnectionsFinite == IsFiniteSet(Connections)
<1> DEFINE own(p) == {p} \X (0 .. MaxRestarts[p])
           all == {own(p) : p \in Peers}
           f == [p \in Peers |-> own(p)]
<1>1. IsFiniteSet(all)
  <2>1. f \in Surjection(Peers, all)
    BY DEF Surjection
  <2> QED  BY <2>1, FS_Surjection, TopologyAssumption
<1>2. ASSUME NEW p \in Peers  PROVE IsFiniteSet(own(p))
  <2>1. MaxRestarts[p] \in Nat
    BY RestartsAssumption
  <2>2. IsFiniteSet(0 .. MaxRestarts[p])
    BY <2>1, FS_Interval
  <2>3. IsFiniteSet({p})
    BY FS_Singleton
  <2> QED  BY <2>2, <2>3, FS_Product
<1>3. \A T \in all : IsFiniteSet(T)
  BY <1>2
<1> HIDE DEF own
<1> QED  BY <1>1, <1>3, FS_UNION DEF Connections, own

\* A connection is a peer and the number of its start.
LEMMA ConnectionIs ==
  /\ \A c \in Connections : c[1] \in Peers /\ c[2] \in Nat /\ c[2] <= MaxRestarts[c[1]]
                            /\ c = <<c[1], c[2]>>
  /\ \A p \in Peers, n \in Nat : n <= MaxRestarts[p] => <<p, n>> \in Connections
BY RestartsAssumption DEF Connections

\* The connection of a peer's present process.
LEMMA CurrentIs ==
  ASSUME TypeOK, ConnectionsInv, NEW p \in Peers
  PROVE  Current(p) \in Connections /\ Current(p)[1] = p /\ Current(p)[2] = restarts[p]
BY ConnectionIs DEF TypeOK, ConnectionsInv, Current

\* The connections that have ended are finite in number.
LEMMA EndedFinite ==
  /\ IsFiniteSet(Ended)
  /\ Cardinality(Ended) \in Nat
  /\ Cardinality(Ended) <= Cardinality(Connections)
  /\ Cardinality(Connections) \in Nat
<1>1. Ended \subseteq Connections
  BY DEF Ended
<1> QED  BY <1>1, ConnectionsFinite, FS_Subset, FS_CardinalityType

\* No thread ends.
LEMMA SameEnded ==
  ASSUME \A c \in Connections : thread'[c] = "ended" <=> thread[c] = "ended"
  PROVE  Ended' = Ended
BY DEF Ended

\* Respond counts the thread that ends.
LEMMA RespondCounts ==
  ASSUME TypeOK, ConnectionsInv, NEW c \in Connections, Respond(c)
  PROVE  /\ m_thread_exit_count' = Cardinality(Ended')
         /\ m_thread_exit_count' \in 0 .. Cardinality(Connections)
<1>1. Ended' = Ended \cup {c}
  BY DEF Ended, Respond, TypeOK
<1>2. c \notin Ended
  BY DEF Ended, Respond
<1>3. Cardinality(Ended') = Cardinality(Ended) + 1
  BY <1>1, <1>2, EndedFinite, FS_AddElement
<1>4. m_thread_exit_count' = Cardinality(Ended')
  BY <1>3 DEF Respond, CountExit, ConnectionsInv
<1>5. Ended' \subseteq Connections
  BY <1>1 DEF Ended
<1>6. Cardinality(Ended') <= Cardinality(Connections)
  BY <1>5, ConnectionsFinite, FS_Subset
<1> QED  BY <1>3, <1>4, <1>6, EndedFinite

-----------------------------------------------------------------------------
(* Types.                                                                  *)

\* What an answer is made of.
LEMMA AnswerType ==
  ASSUME TypeOK, NEW c \in Connections, Respond(c)
  PROVE  response' \in [Connections -> [Peers -> Addresses]]
<1>1. PICK mixture \in [BeingWritten -> Hosts] :
        response' = [response EXCEPT ![c] =
          [q \in Peers |-> IF q \in BeingWritten THEN mixture[q] ELSE m_client_info[q]]]
  BY DEF Respond
<1>2. [q \in Peers |-> IF q \in BeingWritten THEN mixture[q] ELSE m_client_info[q]]
        \in [Peers -> Addresses]
  BY DEF TypeOK, Addresses
<1> QED  BY <1>1, <1>2 DEF TypeOK

\* TypeOK is kept by every step.
LEMMA TypeNext ==
  ASSUME TypeOK, ConnectionsInv, [Next]_vars
  PROVE  TypeOK'
<1>1. CASE Accept
  <2>1. Head(backlog) \in Connections /\ Tail(backlog) \in Seq(Connections)
    BY <1>1 DEF Accept, TypeOK
  <2>2. host[Head(backlog)[1]] \in Addresses
    BY <2>1, ConnectionIs, HostsAssumption DEF Addresses
  <2> QED  BY <1>1, <2>1, <2>2 DEF Accept, TypeOK, peerVars, infoVars
<1>2. ASSUME NEW c \in Connections, ServerThread(c)  PROVE TypeOK'
  <2>1. CASE CopyAddress(c)
    BY <2>1 DEF CopyAddress, TypeOK, peerVars, infoVars
  <2>2. CASE RegisterPeer(c)
    <3>1. [m_client_info EXCEPT ![c[1]] = index_client_addr[c]] \in [Peers -> Addresses]
      BY DEF TypeOK
    <3> QED  BY <2>2, <3>1 DEF RegisterPeer, TypeOK, peerVars, AllRegistered
  <2>3. CASE Respond(c)
    BY <2>3, AnswerType, RespondCounts DEF Respond, TypeOK, peerVars
  <2> QED  BY <1>2, <2>1, <2>2, <2>3 DEF ServerThread
<1>3. CASE Exit
  BY <1>3 DEF Exit, TypeOK, peerVars, infoVars
<1>4. ASSUME NEW p \in Peers, Listen(p)  PROVE TypeOK'
  BY <1>4 DEF Listen, TypeOK, UnchangedServer, infoVars
<1>5. ASSUME NEW p \in Peers, Register(p)  PROVE TypeOK'
  <2>1. CASE Connect(p)
    <3>1. Append(backlog, Current(p)) \in Seq(Connections)
      BY CurrentIs DEF TypeOK
    <3> QED  BY <2>1, <3>1 DEF Connect, Exits, TypeOK, UnchangedServer, infoVars
  <2>2. CASE SendRequest(p)
    BY <2>2, CurrentIs DEF SendRequest, TypeOK, UnchangedServer, infoVars
  <2>3. CASE HandleRegisterResponse(p)
    <3>1. response[Current(p)] \in [Peers -> Addresses]
      BY CurrentIs DEF TypeOK
    <3>2. [q \in Peers |-> IF Reachable(p, q) THEN response[Current(p)][q] ELSE NoIp]
            \in [Peers -> Addresses]
      BY <3>1 DEF Addresses
    <3> QED  BY <2>3, <3>2 DEF HandleRegisterResponse, TypeOK, UnchangedServer, infoVars
  <2>4. CASE LoseServer(p)
    BY <2>4 DEF LoseServer, Exits, TypeOK, UnchangedServer, infoVars
  <2>5. ASSUME NEW q \in Peers, ConnectToPeer(p, q)  PROVE TypeOK'
    <3>1. PICK there \in SUBSET Peers, at \in {"connecting", "running", "exited"} :
            /\ m_peer_id_to_sockfd' = [m_peer_id_to_sockfd EXCEPT ![p] = there]
            /\ pc' = [pc EXCEPT ![p] = at]
            /\ listening' \in [Peers -> BOOLEAN]
      <4>1. m_peer_id_to_sockfd[p] \cup {q} \in SUBSET Peers
        BY DEF TypeOK
      <4>2. m_peer_id_to_sockfd = [m_peer_id_to_sockfd EXCEPT ![p] = m_peer_id_to_sockfd[p]]
        BY DEF TypeOK
      <4>3. pc[p] = "connecting"
        BY <2>5 DEF ConnectToPeer
      <4> QED  BY <2>5, <4>1, <4>2, <4>3 DEF ConnectToPeer, Exits, TypeOK
    <3>2. m_peer_id_to_sockfd' \in [Peers -> SUBSET Peers]
      BY <3>1 DEF TypeOK
    <3>3. pc' \in [Peers -> {"start", "connected", "registering", "connecting", "running", "exited"}]
      BY <3>1 DEF TypeOK
    <3>4. /\ UNCHANGED <<restarts, m_peer_id_to_ip, backlog, requested, running, client_addr>>
          /\ UNCHANGED <<thread, index_client_addr, infoVars, response>>
      BY <2>5 DEF ConnectToPeer, UnchangedServer
    <3> QED  BY <3>1, <3>2, <3>3, <3>4 DEF TypeOK, infoVars
  <2> QED  BY <1>5, <2>1, <2>2, <2>3, <2>4, <2>5 DEF Register
<1>6. ASSUME NEW p \in Peers, Restart(p)  PROVE TypeOK'
  BY <1>6 DEF Restart, TypeOK, UnchangedServer, infoVars, Addresses
<1>7. CASE UNCHANGED vars
  BY <1>7 DEF vars, TypeOK, peerVars, infoVars
<1> QED  BY <1>1, <1>2, <1>3, <1>4, <1>5, <1>6, <1>7 DEF Next, Threads

-----------------------------------------------------------------------------
(* The connections.                                                        *)

\* Made in the next state.
MadeNext(c) ==
  \/ c[2] < restarts'[c[1]]
  \/ c[2] = restarts'[c[1]] /\ pc'[c[1]] # "start"

\* A process does not come back to the time before its connect().
LEMMA MadeStays ==
  ASSUME TypeOK, [Next]_vars, NEW c \in Connections, Made(c)
  PROVE  MadeNext(c)
<1>1. c[1] \in Peers /\ c[2] \in Nat
  BY ConnectionIs
<1>2. ASSUME NEW p \in Peers, Restart(p)  PROVE MadeNext(c)
  <2>1. restarts' = [restarts EXCEPT ![p] = @ + 1] /\ pc' = [pc EXCEPT ![p] = "start"]
    BY <1>2 DEF Restart
  <2>2. CASE c[1] = p
    <3>1. restarts[p] \in Nat /\ restarts'[p] = restarts[p] + 1
      BY <2>1 DEF TypeOK
    <3>2. c[2] <= restarts[p]
      BY <1>1, <2>2, <3>1 DEF Made
    <3> QED  BY <1>1, <2>2, <3>1, <3>2 DEF MadeNext
  <2>3. CASE c[1] # p
    <3>1. restarts'[c[1]] = restarts[c[1]] /\ pc'[c[1]] = pc[c[1]]
      BY <1>1, <2>1, <2>3 DEF TypeOK
    <3> QED  BY <3>1 DEF Made, MadeNext
  <2> QED  BY <2>2, <2>3
<1>3. CASE restarts' = restarts /\ (pc'[c[1]] = "start" => pc[c[1]] = "start")
  BY <1>3 DEF Made, MadeNext
<1>4. ASSUME [Threads]_vars  PROVE restarts' = restarts /\ (pc'[c[1]] = "start" => pc[c[1]] = "start")
  <2>1. CASE Accept \/ Exit \/ (\E d \in Connections : ServerThread(d)) \/ UNCHANGED vars
    BY <2>1 DEF Accept, Exit, ServerThread, CopyAddress, RegisterPeer, Respond, vars, peerVars
  <2>2. ASSUME NEW p \in Peers, Listen(p) \/ Connect(p) \/ SendRequest(p)
        PROVE  restarts' = restarts /\ (pc'[c[1]] = "start" => pc[c[1]] = "start")
    BY <1>1, <2>2 DEF TypeOK, Listen, Connect, SendRequest, Exits
  <2>3. ASSUME NEW p \in Peers, HandleRegisterResponse(p) \/ LoseServer(p)
        PROVE  restarts' = restarts /\ (pc'[c[1]] = "start" => pc[c[1]] = "start")
    BY <1>1, <2>3 DEF TypeOK, HandleRegisterResponse, LoseServer, Exits
  <2>4. ASSUME NEW p \in Peers, NEW q \in Peers, ConnectToPeer(p, q)
        PROVE  restarts' = restarts /\ (pc'[c[1]] = "start" => pc[c[1]] = "start")
    <3>1. pc[p] = "connecting" /\ restarts' = restarts
      BY <2>4 DEF ConnectToPeer
    <3>2. \/ pc' = [pc EXCEPT ![p] = "running"]
          \/ pc' = [pc EXCEPT ![p] = pc[p]]
          \/ pc' = [pc EXCEPT ![p] = "exited"]
      BY <2>4 DEF ConnectToPeer, Exits
    <3> QED  BY <1>1, <3>1, <3>2 DEF TypeOK
  <2> QED  BY <1>4, <2>1, <2>2, <2>3, <2>4 DEF Threads, Register
<1> QED  BY <1>2, <1>3, <1>4 DEF Next

\* A connection that is about to be made has left no trace at the server.
LEMMA NotMade ==
  ASSUME TypeOK, ConnectionsInv, NEW p \in Peers, pc[p] = "start"
  PROVE  /\ ~Made(Current(p))
         /\ thread[Current(p)] = "none"
         /\ \A i \in 1 .. Len(backlog) : backlog[i] # Current(p)
<1>1. restarts[p] \in Nat
  BY DEF TypeOK
<1>2. ~Made(Current(p))
  BY <1>1, CurrentIs DEF Made
<1> QED  BY <1>2, CurrentIs DEF ConnectionsInv

\* Steps that leave the queue of the accept loop and the count alone.
LEMMA QuietConnections ==
  ASSUME TypeOK, ConnectionsInv, [Next]_vars,
         UNCHANGED <<backlog, m_thread_exit_count>>,
         restarts' = restarts,
         \A c \in Connections : thread'[c] = "ended" <=> thread[c] = "ended",
         \A c \in Connections : thread'[c] = "none" <=> thread[c] = "none",
         running' \/ ~KeepsRunning
  PROVE  ConnectionsInv'
<1>1. Ended' = Ended
  BY SameEnded
<1>2. \A i \in 1 .. Len(backlog) : backlog[i] \in Connections
  BY DEF TypeOK
<1>3. \A c \in Connections : Made(c) => MadeNext(c)
  BY MadeStays
<1>4. \A p \in Peers : restarts'[p] <= MaxRestarts[p]
  BY DEF ConnectionsInv
<1>5. \A i \in 1 .. Len(backlog) : MadeNext(backlog[i])
  BY <1>2, <1>3 DEF ConnectionsInv
<1> QED  BY <1>1, <1>2, <1>3, <1>4, <1>5 DEF ConnectionsInv, KeepsRunning, Made, MadeNext

\* ConnectionsInv is kept by every step.
LEMMA ConnectionsNext ==
  ASSUME TypeOK, ConnectionsInv, [Next]_vars
  PROVE  ConnectionsInv'
<1>1. CASE Accept
  <2> DEFINE n == Len(backlog)
  <2>1. n \in Nat /\ n > 0 /\ Head(backlog) = backlog[1]
    BY <1>1 DEF Accept, TypeOK
  <2>2. Len(backlog') = n - 1 /\ \A i \in 1 .. n - 1 : backlog'[i] = backlog[i + 1]
    BY <1>1, <2>1 DEF Accept, TypeOK
  <2>3. \A i \in 1 .. n : backlog[i] \in Connections
    BY DEF TypeOK
  <2>4. \A i \in 1 .. n - 1 : backlog[i + 1] # backlog[1] /\ backlog[i + 1] \in Connections
    BY <2>1, <2>3 DEF ConnectionsInv
  <2>5. thread' = [thread EXCEPT ![backlog[1]] = "started"] /\ DOMAIN thread = Connections
    BY <1>1, <2>1 DEF Accept, TypeOK
  <2>6. \A i \in 1 .. n - 1 : MadeNext(backlog[i + 1]) /\ thread[backlog[i + 1]] = "none"
    <3>1. ASSUME NEW i \in 1 .. n - 1  PROVE Made(backlog[i + 1]) /\ thread[backlog[i + 1]] = "none"
      <4>1. i + 1 \in 1 .. Len(backlog)
        BY <2>1
      <4> QED  BY <4>1 DEF ConnectionsInv
    <3>2. \A i \in 1 .. n - 1 : MadeNext(backlog[i + 1])
      BY <2>4, <3>1, MadeStays
    <3> QED  BY <3>1, <3>2
  <2>7. \A i \in 1 .. Len(backlog') : MadeNext(backlog'[i]) /\ thread'[backlog'[i]] = "none"
    BY <2>2, <2>4, <2>5, <2>6
  <2>8. \A i, j \in 1 .. Len(backlog') : backlog'[i] = backlog'[j] => i = j
    <3>1. \A i, j \in 1 .. n - 1 : backlog[i + 1] = backlog[j + 1] => i + 1 = j + 1
      BY <2>1 DEF ConnectionsInv
    <3> QED  BY <2>1, <2>2, <3>1
  <2>9. \A c \in Connections : thread'[c] # "none" => MadeNext(c)
    <3>1. Made(backlog[1])
      BY <2>1 DEF ConnectionsInv
    <3> QED  BY <2>5, <3>1, MadeStays DEF ConnectionsInv
  <2>10. Ended' = Ended
    <3>1. thread[backlog[1]] = "none"
      BY <2>1 DEF ConnectionsInv
    <3> QED  BY <2>5, <3>1, SameEnded
  <2> QED  BY <1>1, <2>7, <2>8, <2>9, <2>10 DEF Accept, ConnectionsInv, KeepsRunning, Made, MadeNext, peerVars, infoVars
<1>2. ASSUME NEW c \in Connections, CopyAddress(c) \/ RegisterPeer(c)  PROVE ConnectionsInv'
  <2>1. thread[c] \notin {"none", "ended"} /\ running'
        /\ \E at \in {"reading", "waiting"} : thread' = [thread EXCEPT ![c] = at]
    BY <1>2 DEF CopyAddress, RegisterPeer
  <2>2. UNCHANGED <<backlog, m_thread_exit_count, restarts>>
    BY <1>2 DEF CopyAddress, RegisterPeer, peerVars, infoVars
  <2> QED  BY <2>1, <2>2, QuietConnections DEF TypeOK
<1>3. ASSUME NEW c \in Connections, Respond(c)  PROVE ConnectionsInv'
  <2>1. \A d \in Connections : Made(d) => MadeNext(d)
    BY MadeStays
  <2>2. thread[c] = "waiting" /\ thread' = [thread EXCEPT ![c] = "ended"]
    BY <1>3 DEF Respond
  <2>3. \A i \in 1 .. Len(backlog) : backlog[i] \in Connections /\ backlog[i] # c
    BY <2>2 DEF TypeOK, ConnectionsInv
  <2>4. UNCHANGED <<restarts, pc, backlog, running>> /\ running
    BY <1>3 DEF Respond, peerVars
  <2>5. \A d \in Connections : thread'[d] # "none" => MadeNext(d)
    BY <2>1, <2>2 DEF ConnectionsInv, TypeOK
  <2>6. \A i \in 1 .. Len(backlog) : MadeNext(backlog[i]) /\ thread'[backlog[i]] = "none"
    BY <2>1, <2>2, <2>3 DEF ConnectionsInv, TypeOK
  <2>7. m_thread_exit_count' = Cardinality(Ended')
    BY <1>3, RespondCounts
  <2> QED  BY <2>4, <2>5, <2>6, <2>7 DEF ConnectionsInv, Made, MadeNext
<1>4. CASE Exit \/ UNCHANGED vars
  BY <1>4, QuietConnections DEF Exit, vars, peerVars, infoVars, ConnectionsInv
<1>5. ASSUME NEW p \in Peers, Listen(p) \/ SendRequest(p)  PROVE ConnectionsInv'
  BY <1>5, QuietConnections DEF Listen, SendRequest, UnchangedServer, infoVars, ConnectionsInv
<1>6. ASSUME NEW p \in Peers, HandleRegisterResponse(p) \/ LoseServer(p)  PROVE ConnectionsInv'
  BY <1>6, QuietConnections DEF HandleRegisterResponse, LoseServer, UnchangedServer, infoVars, ConnectionsInv
<1>7. ASSUME NEW p \in Peers, NEW q \in Peers, ConnectToPeer(p, q)  PROVE ConnectionsInv'
  BY <1>7, QuietConnections DEF ConnectToPeer, UnchangedServer, infoVars, ConnectionsInv
<1>8. ASSUME NEW p \in Peers, Connect(p)  PROVE ConnectionsInv'
  <2>1. CASE ~running
    BY <1>8, <2>1, QuietConnections DEF Connect, UnchangedServer, infoVars, ConnectionsInv
  <2>2. CASE running
    <3> DEFINE n == Len(backlog)
    <3>1. pc[p] = "start" /\ pc' = [pc EXCEPT ![p] = "connected"] /\ restarts' = restarts
          /\ thread' = thread /\ running' /\ m_thread_exit_count' = m_thread_exit_count
      BY <1>8, <2>2 DEF Connect, UnchangedServer, infoVars
    <3>2. n \in Nat /\ Len(backlog') = n + 1 /\ backlog'[n + 1] = Current(p)
          /\ \A i \in 1 .. n : backlog'[i] = backlog[i]
      <4>1. backlog' = Append(backlog, Current(p))
        BY <1>8, <2>2 DEF Connect
      <4>2. backlog \in Seq(Connections) /\ Current(p) \in Connections
        BY CurrentIs DEF TypeOK
      <4> QED  BY <4>1, <4>2
    <3>3. MadeNext(Current(p))
      BY <3>1, CurrentIs DEF MadeNext, TypeOK
    <3>4. \A c \in Connections : Made(c) => MadeNext(c)
      BY MadeStays
    <3>5. \A i \in 1 .. n : backlog[i] \in Connections
      BY DEF TypeOK
    <3>6. \A i \in 1 .. n + 1 : i \in 1 .. n \/ i = n + 1
      BY <3>2
    <3>7. \A i \in 1 .. n : MadeNext(backlog'[i]) /\ thread'[backlog'[i]] = "none"
                            /\ backlog'[i] # backlog'[n + 1]
      BY <3>1, <3>2, <3>4, <3>5, NotMade DEF ConnectionsInv
    <3>8. \A i \in 1 .. n + 1 : MadeNext(backlog'[i]) /\ thread'[backlog'[i]] = "none"
      BY <3>1, <3>2, <3>3, <3>6, <3>7, NotMade
    <3>9. \A i, j \in 1 .. n + 1 : backlog'[i] = backlog'[j] => i = j
      <4>1. \A i, j \in 1 .. n : backlog'[i] = backlog'[j] => i = j
        BY <3>2 DEF ConnectionsInv
      <4> QED  BY <3>6, <3>7, <4>1
    <3>10. \A c \in Connections : thread'[c] # "none" => MadeNext(c)
      BY <3>1, <3>4 DEF ConnectionsInv
    <3>11. Ended' = Ended
      BY <3>1, SameEnded
    <3> QED  BY <3>1, <3>2, <3>8, <3>9, <3>10, <3>11 DEF ConnectionsInv, Made, MadeNext
  <2> QED  BY <2>1, <2>2
<1>9. ASSUME NEW p \in Peers, Restart(p)  PROVE ConnectionsInv'
  <2>1. restarts' = [restarts EXCEPT ![p] = @ + 1] /\ restarts[p] < MaxRestarts[p]
        /\ UNCHANGED <<backlog, thread, running, m_thread_exit_count>>
    BY <1>9 DEF Restart, UnchangedServer, infoVars
  <2>2. \A q \in Peers : restarts'[q] <= MaxRestarts[q]
    <3>1. restarts[p] \in Nat /\ MaxRestarts[p] \in Nat
      BY RestartsAssumption DEF TypeOK
    <3> QED  BY <2>1, <3>1 DEF ConnectionsInv, TypeOK
  <2>3. \A c \in Connections : Made(c) => MadeNext(c)
    BY MadeStays
  <2>4. \A i \in 1 .. Len(backlog) : backlog[i] \in Connections
    BY DEF TypeOK
  <2>5. \A i \in 1 .. Len(backlog) : MadeNext(backlog[i])
    BY <2>3, <2>4 DEF ConnectionsInv
  <2>6. Ended' = Ended
    BY <2>1, SameEnded
  <2> QED  BY <2>1, <2>2, <2>3, <2>5, <2>6 DEF ConnectionsInv, KeepsRunning, Made, MadeNext
<1> QED
  BY <1>1, <1>2, <1>3, <1>4, <1>5, <1>6, <1>7, <1>8, <1>9 DEF Next, Threads, ServerThread, Register

-----------------------------------------------------------------------------
(* The addresses.                                                          *)

\* What is answered has every address.
LEMMA AnswerFull ==
  ASSUME TypeOK, AddressesInv, NEW c \in Connections, Respond(c)
  PROVE  /\ \A d \in Connections : d # c => response'[d] = response[d]
         /\ \A q \in Peers : response'[c][q] # NoIp
<1>1. PICK mixture \in [BeingWritten -> Hosts] :
        response' = [response EXCEPT ![c] =
          [q \in Peers |-> IF q \in BeingWritten THEN mixture[q] ELSE m_client_info[q]]]
  BY DEF Respond
<1>2. \A q \in Peers : m_client_info[q] # NoIp
  BY DEF Respond, AddressesInv, AllRegistered
<1>3. \A q \in Peers : q \in BeingWritten => mixture[q] # NoIp
  BY HostsAssumption
<1> QED  BY <1>1, <1>2, <1>3 DEF TypeOK

\* A response that lists a peer is one.
LEMMA FullIsAnswer ==
  ASSUME NEW c \in Connections, \A q \in Peers : response[c][q] # NoIp
  PROVE  Answered(c)
<1>1. c[1] \in Peers
  BY ConnectionIs
<1> QED  BY <1>1 DEF Answered, NoResponse

\* AddressesInv is kept by every step.
LEMMA AddressesNext ==
  ASSUME TypeOK, ConnectionsInv, AddressesInv, [Next]_vars
  PROVE  AddressesInv'
<1>1. CASE Accept
  <2>1. Head(backlog) \in Connections /\ Head(backlog) = backlog[1] /\ 1 \in 1 .. Len(backlog)
    BY <1>1 DEF Accept, TypeOK
  <2>2. host[Head(backlog)[1]] # NoIp
    BY <2>1, ConnectionIs, HostsAssumption
  <2>3. thread[Head(backlog)] = "none"
    BY <2>1 DEF ConnectionsInv
  <2>4. \A c \in Connections : thread'[c] = IF c = Head(backlog) THEN "started" ELSE thread[c]
    BY <1>1, <2>1 DEF Accept, TypeOK
  <2>5. UNCHANGED <<index_client_addr, m_all_peers_registered, m_client_info, response>>
        /\ client_addr' # NoIp
    BY <1>1, <2>2 DEF Accept, infoVars
  <2> QED  BY <2>3, <2>4, <2>5 DEF AddressesInv, AllRegistered
<1>2. ASSUME NEW c \in Connections, CopyAddress(c)  PROVE AddressesInv'
  <2>1. \A d \in Connections : thread'[d] = IF d = c THEN "reading" ELSE thread[d]
    BY <1>2 DEF CopyAddress, TypeOK
  <2>2. thread[c] = "started" /\ client_addr # NoIp
    BY <1>2 DEF CopyAddress, AddressesInv
  <2>3. \A d \in Connections : index_client_addr'[d] = IF d = c THEN client_addr ELSE index_client_addr[d]
    BY <1>2 DEF CopyAddress, TypeOK
  <2>4. UNCHANGED <<client_addr, m_all_peers_registered, m_client_info, response>>
    BY <1>2 DEF CopyAddress, infoVars
  <2> QED  BY <2>1, <2>2, <2>3, <2>4 DEF AddressesInv, AllRegistered
<1>3. ASSUME NEW c \in Connections, RegisterPeer(c)  PROVE AddressesInv'
  <2>1. thread[c] = "reading" /\ \A d \in Connections : thread'[d] = IF d = c THEN "waiting" ELSE thread[d]
    BY <1>3 DEF RegisterPeer, TypeOK
  <2>2. index_client_addr[c] # NoIp /\ c[1] \in Peers
    BY <2>1, ConnectionIs DEF AddressesInv
  <2>3. \A q \in Peers : m_client_info'[q] = IF q = c[1] THEN index_client_addr[c] ELSE m_client_info[q]
    BY <1>3 DEF RegisterPeer, TypeOK
  <2>4. m_all_peers_registered' => AllRegistered(m_client_info')
    <3>1. m_all_peers_registered' = (m_all_peers_registered \/ AllRegistered(m_client_info'))
      BY <1>3 DEF RegisterPeer
    <3> QED  BY <3>1, <2>2, <2>3 DEF AddressesInv, AllRegistered
  <2>5. UNCHANGED <<client_addr, index_client_addr, response>>
    BY <1>3 DEF RegisterPeer
  <2> QED  BY <2>1, <2>2, <2>4, <2>5 DEF AddressesInv, AllRegistered
<1>4. ASSUME NEW c \in Connections, Respond(c)  PROVE AddressesInv'
  <2>1. thread[c] = "waiting" /\ \A d \in Connections : thread'[d] = IF d = c THEN "ended" ELSE thread[d]
    BY <1>4 DEF Respond, TypeOK
  <2>2. UNCHANGED <<client_addr, index_client_addr, m_client_info, m_all_peers_registered>>
    BY <1>4 DEF Respond
  <2> QED  BY <1>4, <2>1, <2>2, AnswerFull DEF AddressesInv, AllRegistered
<1>5. CASE UNCHANGED <<client_addr, thread, index_client_addr, infoVars, response>>
  BY <1>5 DEF AddressesInv, AllRegistered, infoVars, NoResponse
<1>6. CASE Exit \/ UNCHANGED vars
  BY <1>5, <1>6 DEF Exit, vars, infoVars
<1>7. ASSUME NEW p \in Peers, Listen(p) \/ Register(p) \/ Restart(p)  PROVE AddressesInv'
  <2>1. UnchangedServer
    BY <1>7 DEF Listen, Register, Connect, SendRequest, HandleRegisterResponse, LoseServer,
                ConnectToPeer, Restart
  <2> QED  BY <1>5, <2>1 DEF UnchangedServer
<1> QED
  BY <1>1, <1>2, <1>3, <1>4, <1>6, <1>7 DEF Next, Threads, ServerThread

-----------------------------------------------------------------------------
(* The peers.                                                              *)

\* Where a peer is in Register(), and what it has connected to.
PeerOK(p) ==
  /\ pc[p] \in {"start", "connected", "registering"} => m_peer_id_to_sockfd[p] = {}
  /\ pc[p] = "connecting" => OthersKnown(p) = Neighbors[p]
  /\ pc[p] \in {"connecting", "running"} =>
       \/ Answered(Current(p))
       \/ pc[p] = "running" /\ ~running
  /\ m_peer_id_to_sockfd[p] \subseteq Neighbors[p]
  /\ pc[p] = "running" /\ Answered(Current(p)) => m_peer_id_to_sockfd[p] = Neighbors[p]

\* A peer that does nothing in a step, in which the server may send it a response.
LEMMA PeerRests ==
  ASSUME TypeOK, ConnectionsInv, NEW p \in Peers, PeerOK(p),
         restarts'[p] = restarts[p], pc'[p] = pc[p],
         m_peer_id_to_ip'[p] = m_peer_id_to_ip[p],
         m_peer_id_to_sockfd'[p] = m_peer_id_to_sockfd[p],
         running' => running,
         \A c \in Connections : Answered(c) => Answered(c)',
         ~running => response' = response
  PROVE  PeerOK(p)'
<1>1. Current(p)' = Current(p) /\ Current(p) \in Connections
  BY CurrentIs DEF Current
<1>2. OthersKnown(p)' = OthersKnown(p)
  BY DEF OthersKnown
<1>3. Answered(Current(p)) => Answered(Current(p))'
  BY <1>1 DEF Answered
<1>4. ~running => (Answered(Current(p))' <=> Answered(Current(p)))
  BY <1>1 DEF Answered, NoResponse
<1> QED  BY <1>2, <1>3, <1>4 DEF PeerOK

\* The peers that do nothing in a step of peer p.
LEMMA OthersRest ==
  ASSUME TypeOK, ConnectionsInv, \A q \in Peers : PeerOK(q), NEW p \in Peers,
         Listen(p) \/ Register(p) \/ Restart(p), PeerOK(p)'
  PROVE  \A q \in Peers : PeerOK(q)'
<1>1. UNCHANGED <<running, response>>
  BY DEF Listen, Register, Connect, SendRequest, HandleRegisterResponse, LoseServer, ConnectToPeer,
         Restart, UnchangedServer
<1>2. ASSUME NEW q \in Peers, q # p
      PROVE  /\ restarts'[q] = restarts[q]
             /\ m_peer_id_to_ip'[q] = m_peer_id_to_ip[q]
             /\ m_peer_id_to_sockfd'[q] = m_peer_id_to_sockfd[q]
             /\ pc'[q] = pc[q]
  <2>1. CASE Listen(p) \/ Connect(p) \/ SendRequest(p) \/ LoseServer(p)
    BY <1>2, <2>1 DEF Listen, Connect, SendRequest, LoseServer, Exits, TypeOK
  <2>2. CASE HandleRegisterResponse(p) \/ Restart(p)
    BY <1>2, <2>2 DEF HandleRegisterResponse, Restart, TypeOK
  <2>3. ASSUME NEW r \in Peers, ConnectToPeer(p, r)
        PROVE  /\ UNCHANGED <<restarts, m_peer_id_to_ip>>
               /\ \E s : m_peer_id_to_sockfd' = [m_peer_id_to_sockfd EXCEPT ![p] = s]
               /\ \E s : pc' = [pc EXCEPT ![p] = s]
    <3>1. m_peer_id_to_sockfd = [m_peer_id_to_sockfd EXCEPT ![p] = m_peer_id_to_sockfd[p]]
      BY DEF TypeOK
    <3> QED  BY <2>3, <3>1 DEF ConnectToPeer, Exits
  <2> QED  BY <1>2, <2>1, <2>2, <2>3 DEF Register, TypeOK
<1>3. ASSUME NEW q \in Peers, q # p  PROVE PeerOK(q)'
  BY <1>1, <1>2, <1>3, PeerRests DEF Answered, NoResponse
<1> QED  BY <1>3

\* PeerOK of every peer is kept by every step.
LEMMA PeersNext ==
  ASSUME TypeOK, ConnectionsInv, AddressesInv, \A p \in Peers : PeerOK(p), [Next]_vars
  PROVE  \A p \in Peers : PeerOK(p)'
<1>1. CASE Accept \/ Exit \/ (\E c \in Connections : CopyAddress(c) \/ RegisterPeer(c))
           \/ UNCHANGED vars
  <2>1. UNCHANGED <<peerVars, response>> /\ (running' => running)
    <3>1. CASE Accept \/ Exit
      BY <3>1 DEF Accept, Exit
    <3>2. CASE UNCHANGED vars
      BY <3>2 DEF vars
    <3>3. ASSUME NEW c \in Connections, CopyAddress(c) \/ RegisterPeer(c)
          PROVE  UNCHANGED <<peerVars, response>> /\ (running' => running)
      BY <3>3 DEF CopyAddress, RegisterPeer
    <3> QED  BY <1>1, <3>1, <3>2, <3>3
  <2> QED  BY <2>1, PeerRests DEF peerVars, Answered, NoResponse
<1>2. ASSUME NEW c \in Connections, Respond(c)  PROVE \A p \in Peers : PeerOK(p)'
  <2>1. UNCHANGED <<peerVars, running>> /\ running
    BY <1>2 DEF Respond
  <2>2. ASSUME NEW d \in Connections, Answered(d)  PROVE Answered(d)'
    <3>1. c[1] \in Peers
      BY ConnectionIs
    <3>2. response'[c] # NoResponse
      BY <1>2, <3>1, AnswerFull DEF NoResponse
    <3> QED  BY <1>2, <2>2, <3>2, AnswerFull DEF Answered, NoResponse
  <2> QED  BY <2>1, <2>2, PeerRests DEF peerVars
<1>3. ASSUME NEW p \in Peers, Listen(p)  PROVE \A q \in Peers : PeerOK(q)'
  <2>1. PeerOK(p)'
    BY <1>3, PeerRests DEF Listen, UnchangedServer, Answered, NoResponse
  <2> QED  BY <1>3, <2>1, OthersRest
<1>4. ASSUME NEW p \in Peers, Register(p)  PROVE \A q \in Peers : PeerOK(q)'
  <2>1. CASE Connect(p) \/ SendRequest(p)
    <3>1. m_peer_id_to_sockfd'[p] = {} /\ pc'[p] \in {"connected", "registering", "exited"}
      BY <2>1 DEF Connect, SendRequest, Exits, PeerOK, TypeOK
    <3> QED  BY <1>4, <3>1, OthersRest DEF PeerOK
  <2>2. CASE HandleRegisterResponse(p)
    <3>1. pc[p] = "registering" /\ m_peer_id_to_sockfd'[p] = {}
      BY <2>2 DEF HandleRegisterResponse, PeerOK
    <3>2. Answered(Current(p)) /\ thread[Current(p)] = "ended"
      BY <2>2, CurrentIs DEF HandleRegisterResponse, Answered, AddressesInv
    <3>3. \A q \in Peers : response[Current(p)][q] # NoIp
      BY <3>2, CurrentIs DEF AddressesInv
    <3>4. \A q \in Peers :
            m_peer_id_to_ip'[p][q] = IF Reachable(p, q) THEN response[Current(p)][q] ELSE NoIp
      BY <2>2 DEF HandleRegisterResponse, TypeOK
    <3>5. OthersKnown(p)' = Neighbors[p]
      BY <3>3, <3>4, TopologyAssumption DEF OthersKnown, Reachable
    <3>6. Answered(Current(p))'
      BY <2>2, <3>2 DEF HandleRegisterResponse, UnchangedServer, Answered, Current, NoResponse
    <3>7. pc'[p] = IF Neighbors[p] = {} THEN "running" ELSE "connecting"
      BY <2>2 DEF HandleRegisterResponse, TypeOK
    <3> QED  BY <1>4, <3>1, <3>5, <3>6, <3>7, OthersRest DEF PeerOK
  <2>3. CASE LoseServer(p)
    <3>1. m_peer_id_to_sockfd'[p] = {} /\ pc'[p] \in {"running", "exited"} /\ ~running'
      BY <2>3 DEF LoseServer, Exits, PeerOK, TypeOK, UnchangedServer
    <3>2. ~Answered(Current(p))'
      BY <2>3 DEF LoseServer, UnchangedServer, Answered, Current, NoResponse
    <3> QED  BY <1>4, <3>1, <3>2, OthersRest DEF PeerOK
  <2>4. ASSUME NEW q \in Peers, ConnectToPeer(p, q)  PROVE \A r \in Peers : PeerOK(r)'
    <3>1. pc[p] = "connecting" /\ OthersKnown(p) = Neighbors[p] /\ q \in Neighbors[p]
          /\ Answered(Current(p)) /\ m_peer_id_to_sockfd[p] \subseteq Neighbors[p]
      BY <2>4 DEF ConnectToPeer, PeerOK
    <3>2. Answered(Current(p))' /\ OthersKnown(p)' = Neighbors[p]
      BY <2>4, <3>1 DEF ConnectToPeer, UnchangedServer, Answered, Current, NoResponse, OthersKnown
    <3>3. CASE pc' = [pc EXCEPT ![p] = "exited"] /\ UNCHANGED m_peer_id_to_sockfd
      <4>1. pc'[p] = "exited" /\ m_peer_id_to_sockfd'[p] \subseteq Neighbors[p]
        BY <3>1, <3>3 DEF TypeOK
      <4> QED  BY <1>4, <4>1, OthersRest DEF PeerOK
    <3>4. CASE ~(pc' = [pc EXCEPT ![p] = "exited"] /\ UNCHANGED m_peer_id_to_sockfd)
      <4> DEFINE connected == m_peer_id_to_sockfd[p] \cup {q}
      <4>1. /\ m_peer_id_to_sockfd' = [m_peer_id_to_sockfd EXCEPT ![p] = connected]
            /\ pc' = [pc EXCEPT ![p] = IF connected = OthersKnown(p) THEN "running" ELSE @]
        BY <2>4, <3>4 DEF ConnectToPeer, Exits
      <4>2. m_peer_id_to_sockfd'[p] = connected /\ connected \subseteq Neighbors[p]
            /\ pc'[p] = IF connected = Neighbors[p] THEN "running" ELSE "connecting"
        BY <3>1, <4>1 DEF TypeOK
      <4>3. PeerOK(p)'
        BY <3>2, <4>2 DEF PeerOK
      <4> QED  BY <1>4, <4>3, OthersRest
    <3> QED  BY <3>3, <3>4
  <2> QED  BY <1>4, <2>1, <2>2, <2>3, <2>4 DEF Register
<1>5. ASSUME NEW p \in Peers, Restart(p)  PROVE \A q \in Peers : PeerOK(q)'
  <2>1. m_peer_id_to_sockfd'[p] = {} /\ pc'[p] = "start"
    BY <1>5 DEF Restart, TypeOK
  <2> QED  BY <1>5, <2>1, OthersRest DEF PeerOK
<1> QED
  BY <1>1, <1>2, <1>3, <1>4, <1>5 DEF Next, Threads, ServerThread

-----------------------------------------------------------------------------
(* The theorems.                                                           *)

\* PeerOK is what PeersInv and TopologyConnected say of a peer.
LEMMA PeerOKIs == (\A p \in Peers : PeerOK(p)) <=> PeersInv /\ TopologyConnected
BY DEF PeerOK, PeersInv, TopologyConnected

\* All of it holds at first.
LEMMA RegisterInit ==
  ASSUME Init
  PROVE  TypeOK /\ RegisterInv /\ TopologyConnected
<1>1. Ended = {}
  BY DEF Init, Ended
<1>2. IsFiniteSet(Peers) /\ Cardinality(Connections) \in Nat
  BY TopologyAssumption, EndedFinite
<1>3. TypeOK
  <2>1. NoResponse \in [Peers -> Addresses]
    BY DEF NoResponse, Addresses
  <2>2. 0 \in 0 .. Cardinality(Connections)
    BY <1>2
  <2>3. m_peer_id_to_ip \in [Peers -> [Peers -> Addresses]] /\ backlog \in Seq(Connections)
    BY DEF Init, Addresses
  <2> QED  BY <2>1, <2>2, <2>3 DEF Init, TypeOK, Addresses
<1>4. ConnectionsInv
  <2>1. \A p \in Peers : restarts[p] <= MaxRestarts[p]
    BY RestartsAssumption DEF Init
  <2>2. m_thread_exit_count = Cardinality(Ended)
    BY <1>1, FS_EmptySet DEF Init
  <2> QED  BY <2>1, <2>2 DEF Init, ConnectionsInv
<1>5. AddressesInv
  BY DEF Init, AddressesInv
<1>6. \A p \in Peers : PeerOK(p)
  BY DEF Init, PeerOK
<1> QED  BY <1>3, <1>4, <1>5, <1>6, PeerOKIs DEF RegisterInv

\* The inductive invariant of the start of the overlay: which connections the register
\* server has made, answered and counted (HandleRequest, IsKeepRunning), which addresses
\* it has, and where every peer is in Register().
THEOREM RegisterInvariant == Spec => [](TypeOK /\ RegisterInv /\ TopologyConnected)
<1>1. Init => TypeOK /\ RegisterInv /\ TopologyConnected
  BY RegisterInit
<1>2. TypeOK /\ RegisterInv /\ TopologyConnected /\ [Next]_vars
        => (TypeOK /\ RegisterInv /\ TopologyConnected)'
  <2> SUFFICES ASSUME TypeOK, RegisterInv, TopologyConnected, [Next]_vars
               PROVE  (TypeOK /\ RegisterInv /\ TopologyConnected)'
    OBVIOUS
  <2>1. TypeOK' /\ ConnectionsInv' /\ AddressesInv'
    BY TypeNext, ConnectionsNext, AddressesNext DEF RegisterInv
  <2>2. \A p \in Peers : PeerOK(p)'
    BY PeersNext, PeerOKIs DEF RegisterInv
  <2>3. PeersInv' /\ TopologyConnected'
    BY <2>2 DEF PeerOK, PeersInv, TopologyConnected
  <2> QED  BY <2>1, <2>3 DEF RegisterInv
<1> QED  BY <1>1, <1>2, PTL DEF Spec

\* Every value stays in its type; the register server never counts more threads than it
\* has had.
THEOREM RegisterTypes == Spec => []TypeOK
BY RegisterInvariant, PTL

\* A peer that has gone through Register() with an answer is connected to exactly its
\* neighbours (ConnectToPeers), whatever peers were killed and started again meanwhile.
THEOREM ConnectedAsConfigured == Spec => []TopologyConnected
BY RegisterInvariant, PTL

\* No response of DealWithRequest leaves before every peer is registered.
THEOREM AnswersInFull == Spec => []RespondsInFull
<1>1. TypeOK /\ RegisterInv => RespondsInFull
  BY DEF RegisterInv, AddressesInv, RespondsInFull, Answered
<1> QED  BY <1>1, RegisterInvariant, PTL

\* Unless a peer was started again, Run() does not end the process before every thread has
\* sent its response: IsKeepRunning counts threads, and every peer has one.
THEOREM EverybodyAnswered == Spec => []NobodyLeftOut
<1>1. ASSUME TypeOK, RegisterInv, ~running, NeverRestarted, NEW p \in Peers
      PROVE  Answered(Current(p))
  <2> DEFINE first == Peers \X {0}
  <2>1. IsFiniteSet(first) /\ Cardinality(first) = Cardinality(Peers)
    <3>1. Cardinality(Peers) \in Nat /\ IsFiniteSet({0}) /\ Cardinality({0}) = 1
      BY TopologyAssumption, FS_Singleton, FS_CardinalityType
    <3>2. IsFiniteSet(first) /\ Cardinality(first) = Cardinality(Peers) * Cardinality({0})
      BY <3>1, TopologyAssumption, FS_Product
    <3> QED  BY <3>1, <3>2
  <2>2. Ended \subseteq first
    <3> SUFFICES ASSUME NEW c \in Ended  PROVE c \in first
      OBVIOUS
    <3>1. c \in Connections /\ Made(c)
      BY <1>1 DEF Ended, RegisterInv, ConnectionsInv
    <3>2. c[1] \in Peers /\ c[2] \in Nat /\ c = <<c[1], c[2]>> /\ restarts[c[1]] = 0
      BY <1>1, <3>1, ConnectionIs DEF NeverRestarted
    <3>3. c[2] = 0
      BY <3>1, <3>2 DEF Made
    <3> QED  BY <3>2, <3>3
  <2>3. Cardinality(Ended) >= Cardinality(Peers)
    <3>1. Cardinality(Peers) \in Nat
      BY TopologyAssumption, FS_CardinalityType
    <3> QED  BY <1>1, <3>1, EndedFinite DEF RegisterInv, ConnectionsInv, KeepsRunning
  <2>4. Ended = first
    <3>1. Cardinality(Ended) <= Cardinality(first)
      BY <2>1, <2>2, FS_Subset
    <3>2. Cardinality(Ended) = Cardinality(first)
      BY <2>1, <2>3, <3>1, EndedFinite, TopologyAssumption, FS_CardinalityType
    <3> QED  BY <2>1, <2>2, <3>2, FS_Subset
  <2>5. Current(p) \in Ended
    BY <1>1, <2>4 DEF NeverRestarted, Current
  <2>6. \A q \in Peers : response[Current(p)][q] # NoIp
    BY <1>1, <2>5 DEF Ended, RegisterInv, AddressesInv
  <2> QED  BY <2>5, <2>6, FullIsAnswer DEF Ended
<1>2. TypeOK /\ RegisterInv => NobodyLeftOut
  BY <1>1 DEF NobodyLeftOut
<1> QED  BY <1>2, RegisterInvariant, PTL
=============================================================================
