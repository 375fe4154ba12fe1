------------------------ MODULE FileTransferInvariants ------------------------
(***************************************************************************)
(* Inductive invariants of module FileTransfer: what holds between the     *)
(* workers of a process, its descriptors and the connections, and why      *)
(* descriptors have one user each (DescriptorsOwned).                      *)
(***************************************************************************)
EXTENDS FileTransfer

ClientPcs == {"connecting", "sending", "requeue", "opening", "downloading", "waiting", "pushing"}
ServerPcs == {"reading", "starting", "pushing", "receiving", "missing", "closing",
              "closing again", "counting"}

\* A worker that is not idle has a descriptor, and a request of another peer's server as
\* soon as it knows it.
GoodClient(p, me) == me # Idle => /\ me.pc \in ClientPcs
                                  /\ me.fd \in FdNums
                                  /\ me.req \in Requests
                                  /\ me.req.server # p
GoodServer(me) == me # Idle =>
  /\ me.pc \in ServerPcs
  /\ me.fd \in FdNums
  /\ me.pc \in {"starting", "pushing", "receiving"} => me.req \in Requests
GoodAcceptor(me) == me # Idle => me.pc \in {"testing", "enqueuing"} /\ me.fd \in FdNums
ClientWorkers == \A p \in Peers :
  /\ \A req \in Range(wanted[p]) \cup Range(m_request_queue[p]) : req.server # p
  /\ \A t \in ClientThreads : GoodClient(p, client[p][t])
ServerWorkers == \A p \in Peers :
  /\ GoodAcceptor(acceptor[p])
  /\ \A w \in ServerThreads : GoodServer(server[p][w])
WorkersInv == ClientWorkers /\ ServerWorkers

\* A descriptor of a connection is the only one of an open end, of its own process; the
\* server's end of a connection that waits for accept() is open and has no descriptor. No
\* peer has a connection to itself. This holds whatever is closed twice.
Owner(conn, side) == IF side = "client" THEN conn.from ELSE conn.req.server
NoSelf == \A c \in ConnIds : conns[c].from # conns[c].req.server \/ conns[c] = Unused
FdsOpen == \A p \in Peers, fd \in FdNums : Connected(p, fd) =>
  /\ Conn(p, fd).open[Side(p, fd)]
  /\ Owner(Conn(p, fd), Side(p, fd)) = p
  /\ \A other \in FdNums : fds[p][fd] = fds[p][other] => fd = other
BacklogOpen == \A p \in Peers :
  /\ IsInjective(backlog[p])
  /\ \A c \in Range(backlog[p]) :
       /\ conns[c].open["server"]
       /\ conns[c].req.server = p
       /\ \A fd \in FdNums : fds[p][fd] # [conn |-> c, side |-> "server"]
ConnsInv == NoSelf /\ FdsOpen /\ BacklogOpen

\* The workers that are going to use their descriptors.
ClientUses(p, t) == client[p][t].pc \notin {"idle", "requeue"}
ServerUses(p, w) == server[p][w].pc \notin {"idle", "closing again", "counting"}

\* Unless p once closed another thread's descriptor: the client's workers have sockets of
\* their own, connected for their own request; the accept loop, the queue and the server's
\* workers have accepted ones, each in one place; and nobody else has any, but for the
\* pushes whose file was missing.
ClientOwns(p) == \A t \in ClientThreads : ClientUses(p, t) =>
  LET me == client[p][t] IN
  /\ \/ me.pc = "connecting" /\ fds[p][me.fd] = Unconnected
     \/ /\ me.pc # "connecting"
        /\ Connected(p, me.fd)
        /\ Side(p, me.fd) = "client"
        /\ Conn(p, me.fd).req = me.req
  /\ \A u \in ClientThreads : ClientUses(p, u) /\ client[p][u].fd = me.fd => u = t
ServerOwns(p) ==
  /\ \A w \in ServerThreads : ServerUses(p, w) =>
       LET me == server[p][w] IN
       /\ Side(p, me.fd) = "server"
       /\ me.fd \notin Range(m_socket_fd_queue[p])
       /\ acceptor[p] # Idle => acceptor[p].fd # me.fd
       /\ \A v \in ServerThreads : ServerUses(p, v) /\ server[p][v].fd = me.fd => v = w
  /\ \A fd \in Range(m_socket_fd_queue[p]) : Side(p, fd) = "server"
  /\ IsInjective(m_socket_fd_queue[p])
  /\ acceptor[p] # Idle => /\ Side(p, acceptor[p].fd) = "server"
                           /\ acceptor[p].fd \notin Range(m_socket_fd_queue[p])
Used(p, fd) ==
  \/ \E t \in ClientThreads : ClientUses(p, t) /\ client[p][t].fd = fd
  \/ \E w \in ServerThreads : ServerUses(p, w) /\ server[p][w].fd = fd
  \/ fd \in Range(m_socket_fd_queue[p])
  \/ acceptor[p] # Idle /\ acceptor[p].fd = fd
Leaked(p, fd) ==
  /\ Connected(p, fd)
  /\ Conn(p, fd).req.type = "push"
  /\ Conn(p, fd).req.file \notin shared[p]
NoneLeft(p) == \A fd \in FdNums : fds[p][fd] = Free \/ Used(p, fd) \/ Leaked(p, fd)
OwnersInv == \A p \in Peers \ stolen : ClientOwns(p) /\ ServerOwns(p) /\ NoneLeft(p)

\* All of them, for the theorems.
TransferInv == WorkersInv /\ ConnsInv /\ OwnersInv
=============================================================================
