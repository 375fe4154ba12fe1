---------------------------- MODULE FileTransfer ----------------------------
(***************************************************************************)
(* The transfer of files: CPeerFileClient (peer_file_client.cpp), whose    *)
(* workers execute the requests CPeerClient enqueues, and CPeerFileServer  *)
(* (peer_file_server.cpp), whose accept loop passes descriptors to its     *)
(* workers. Both belong to one process per peer and share its descriptors. *)
(*                                                                         *)
(* A connection carries items in both directions: the request, the         *)
(* "start" of a push, and the blocks of a file, each what one round of the *)
(* sender's loop reads. Each end closes for itself. An end that closes     *)
(* with items unread, or is sent some after it closed, resets the          *)
(* connection: the other end's recv() may then fail, and its send() fails  *)
(* or raises SIGPIPE, which ends the process.                              *)
(*                                                                         *)
(* A descriptor is an index of the process's table; the kernel hands out   *)
(* the lowest free one. Descriptors of files are left out.                 *)
(*                                                                         *)
(* The user may start and kill peers, and remove shared files.             *)
(***************************************************************************)
EXTENDS Integers, Sequences, FiniteSets, Functions

CONSTANTS
  Peers,          \* the peers
  Files,          \* file names
  Blocks,         \* the number of blocks of each file
  m_files,        \* the files each peer shares at first
  Wanted,         \* the requests CPeerClient makes of each peer's file client, in order
  ClientThreads,  \* FILE_CLIENT_THREAD_NUM threads
  ServerThreads,  \* FILE_SERVER_THREAD_NUM threads
  Limit,          \* MAX_SOCKET_FD_QUEUE_SIZE
  MaxTries,       \* how often a refused connect() is tried again
  UpAtFirst,      \* the peers that run in the initial state
  MaxKills,       \* BOUND: how often the user kills each peer
  FdNums,         \* BOUND: the descriptors of a process
  ConnIds         \* BOUND: the connections there can be at a time

Requests == [type : {"download", "push"}, file : Files, server : Peers]

ASSUME FilesAssumption ==
  /\ Blocks \in [Files -> Nat]
  /\ m_files \in [Peers -> SUBSET Files]

\* No peer is sent the same file twice: PushedOnce of module PeerClient.
ASSUME RequestsAssumption ==
  /\ Wanted \in [Peers -> Seq(Requests)]
  /\ \A p, q \in Peers : \A i \in DOMAIN Wanted[p], j \in DOMAIN Wanted[q] :
       /\ Wanted[p][i].server # p
       /\ Wanted[p][i] = Wanted[q][j] /\ Wanted[p][i].type = "push" => <<p, i>> = <<q, j>>

ASSUME ThreadsAssumption == IsFiniteSet(ServerThreads)
ASSUME NumbersAssumption ==
  /\ Limit \in Nat
  /\ MaxTries \in Nat
  /\ MaxKills \in [Peers -> Nat]
  /\ UpAtFirst \subseteq Peers
  /\ FdNums \subseteq Nat \ {0}
  /\ ConnIds \subseteq Nat \ {0}

VARIABLES
  up,                 \* the peers whose process runs
  wanted,             \* the requests that were not made yet
  m_request_queue,    \* requests for the client's workers
  client,             \* the client's workers
  m_obtain_num,       \* the number in the name of the next download
  acceptor,           \* the accept loop
  m_socket_fd_counts, \* connections taken and not finished
  m_socket_fd_queue,  \* descriptors for the server's workers
  server,             \* the server's workers
  shared,             \* the files that can be opened
  stored,             \* the downloads on the peer's disk, by number and file
  received,           \* the files pushed to the peer, on its disk
  fds,                \* the descriptors of each process
  conns,              \* the connections
  backlog,            \* connections that wait for accept()
  kills,              \* how often the user killed each peer
  crashed,            \* HISTORY: the peers that once ended by themselves
  stolen              \* HISTORY: the peers that once closed a descriptor twice, and
                      \* the second time it was somebody else's

clientVars == <<m_request_queue, client, m_obtain_num>>
serverVars == <<acceptor, m_socket_fd_counts, m_socket_fd_queue, server>>
netVars == <<fds, conns, backlog>>
diskVars == <<shared, stored, received>>
lifeVars == <<up, kills, crashed>>
vars == <<wanted, clientVars, serverVars, netVars, diskVars, lifeVars, stolen>>
-----------------------------------------------------------------------------
(* Connections and descriptors.                                            *)

Sides == {"client", "server"}
Other(side) == IF side = "client" THEN "server" ELSE "client"

\* What is sent: the request, "start", or the n-th block of a file.
Items == [kind : {"request", "start"} \cup Files, n : Nat]
Request == [kind |-> "request", n |-> 0]
Start == [kind |-> "start", n |-> 0]
Block(f, n) == [kind |-> f, n |-> n]
Content(f) == [n \in 1 .. Blocks[f] |-> Block(f, n)]

\* in[s] is what side s has not received yet; shut[s]: it will send no more. A
\* connection is hurt by the end of a process, a refusal or a missing file.
NoRequest == [type |-> "none", file |-> "none", server |-> 0]
Connection == [from : Peers, req : Requests, in : [Sides -> Seq(Items)],
               open : [Sides -> BOOLEAN], shut : [Sides -> BOOLEAN],
               reset : BOOLEAN, hurt : BOOLEAN]
Both(x) == [side \in Sides |-> x]
Established(p, req) ==
  [from |-> p, req |-> req, in |-> Both(<<>>), open |-> Both(TRUE), shut |-> Both(FALSE),
   reset |-> FALSE, hurt |-> FALSE]
Unused == [Established(0, NoRequest) EXCEPT !.open = Both(FALSE), !.shut = Both(TRUE)]

\* close() of one side: unread items reset the connection.
Closed(conn, side) ==
  IF conn.open[Other(side)]
  THEN [conn EXCEPT !.open[side] = FALSE, !.shut[side] = TRUE, !.in[side] = <<>>,
                    !.reset = @ \/ conn.in[side] # <<>>]
  ELSE Unused

\* What a descriptor stands for; a socket that is not connected has connection 0.
End == [conn : ConnIds \cup {0}, side : Sides]
Free == [conn |-> 0, side |-> "none"]
Unconnected == [conn |-> 0, side |-> "client"]

Lowest(S) == CHOOSE n \in S : \A m \in S : n <= m
FreeFds(p) == {n \in FdNums : fds[p][n] = Free}
FreeConns == {c \in ConnIds : conns[c] = Unused}

\* fd is the lowest free descriptor of p and now stands for end.
Opens(p, fd, end) ==
  /\ FreeFds(p) # {}
  /\ fd = Lowest(FreeFds(p))
  /\ fds' = [fds EXCEPT ![p][fd] = end]

Connected(p, fd) == fds[p][fd].conn \in ConnIds
Conn(p, fd) == conns[fds[p][fd].conn]
Side(p, fd) == fds[p][fd].side
Incoming(p, fd) == Conn(p, fd).in[Side(p, fd)]
OtherOpen(p, fd) == Conn(p, fd).open[Other(Side(p, fd))]

Changes(p, fd, conn) == conns' = [conns EXCEPT ![fds[p][fd].conn] = conn]

\* close(fd), which does nothing to a free descriptor. The connection has become h.
CloseConn(p, fd, h) ==
  /\ fds' = [fds EXCEPT ![p][fd] = Free]
  /\ IF Connected(p, fd)
     THEN Changes(p, fd, Closed([Conn(p, fd) EXCEPT !.hurt = @ \/ h], Side(p, fd)))
     ELSE UNCHANGED conns
Close(p, fd) == CloseConn(p, fd, FALSE)

\* recv() takes an item, or returns 0, or fails.
Receives(p, fd) ==
  /\ Connected(p, fd)
  /\ Incoming(p, fd) # <<>>
  /\ Changes(p, fd, [Conn(p, fd) EXCEPT !.in[Side(p, fd)] = Tail(@)])
ReachesEnd(p, fd) ==
  /\ Connected(p, fd)
  /\ Incoming(p, fd) = <<>>
  /\ Conn(p, fd).shut[Other(Side(p, fd))]
Broken(p, fd) == Connected(p, fd) => Conn(p, fd).reset

\* send() hands the item over. What the other end has closed before it is lost, and
\* resets the connection.
Sends(p, fd, item) ==
  /\ Connected(p, fd)
  /\ ~Conn(p, fd).shut[Side(p, fd)]
  /\ Changes(p, fd, IF OtherOpen(p, fd)
                    THEN [Conn(p, fd) EXCEPT !.in[Other(Side(p, fd))] = Append(@, item)]
                    ELSE [Conn(p, fd) EXCEPT !.reset = TRUE])
\* send() fails.
SendFails(p, fd) ==
  \/ fds[p][fd] = Free
  \/ /\ Connected(p, fd)
     /\ Conn(p, fd).reset
\* send() raises SIGPIPE, which nobody handles.
BreaksPipe(p, fd) ==
  \/ fds[p][fd] = Unconnected
  \/ /\ Connected(p, fd)
     /\ Conn(p, fd).reset \/ Conn(p, fd).shut[Side(p, fd)]
SendsOrNot(p, fd, item) ==
  \/ Sends(p, fd, item)
  \/ SendFails(p, fd) /\ UNCHANGED conns

\* The connections without p's process. Those it never accepted are reset.
WithoutPeer(p) ==
  [c \in ConnIds |->
     LET conn == conns[c]
         side == IF conn.from = p THEN "client" ELSE "server" IN
     IF p \in {conn.from, conn.req.server} /\ conn.open[side]
     THEN Closed([conn EXCEPT !.hurt = TRUE, !.reset = @ \/ c \in Range(backlog[p])], side)
     ELSE conn]
-----------------------------------------------------------------------------
(* Processes.                                                              *)

Worker == [pc : {"idle", "connecting", "sending", "requeue", "opening", "downloading",
                 "waiting", "pushing",
                 "testing", "enqueuing", "reading", "starting", "receiving", "missing", "closing",
                 "closing again", "counting"},
           req : Requests \cup {NoRequest}, fd : FdNums \cup {0}, n : Nat]
Idle == [pc |-> "idle", req |-> NoRequest, fd |-> 0, n |-> 0]

Init ==
  /\ up = UpAtFirst
  /\ wanted = Wanted
  /\ m_request_queue = [p \in Peers |-> <<>>]
  /\ client = [p \in Peers |-> [t \in ClientThreads |-> Idle]]
  /\ m_obtain_num = [p \in Peers |-> 0]
  /\ acceptor = [p \in Peers |-> Idle]
  /\ m_socket_fd_counts = [p \in Peers |-> 0]
  /\ m_socket_fd_queue = [p \in Peers |-> <<>>]
  /\ server = [p \in Peers |-> [w \in ServerThreads |-> Idle]]
  /\ shared = m_files
  /\ stored = [p \in Peers |-> [d \in (0 .. Len(Wanted[p])) \X Files |-> <<>>]]
  /\ received = [p \in Peers |-> [f \in Files |-> <<>>]]
  /\ fds = [p \in Peers |-> [n \in FdNums |-> Free]]
  /\ conns = [c \in ConnIds |-> Unused]
  /\ backlog = [p \in Peers |-> <<>>]
  /\ kills = [p \in Peers |-> 0]
  /\ crashed = {}
  /\ stolen = {}

\* The process ends, and with it all its threads, queues and descriptors.
Ends(p) ==
  /\ up' = up \ {p}
  /\ m_request_queue' = [m_request_queue EXCEPT ![p] = <<>>]
  /\ client' = [client EXCEPT ![p] = [t \in ClientThreads |-> Idle]]
  /\ m_obtain_num' = [m_obtain_num EXCEPT ![p] = 0]
  /\ acceptor' = [acceptor EXCEPT ![p] = Idle]
  /\ m_socket_fd_counts' = [m_socket_fd_counts EXCEPT ![p] = 0]
  /\ m_socket_fd_queue' = [m_socket_fd_queue EXCEPT ![p] = <<>>]
  /\ server' = [server EXCEPT ![p] = [w \in ServerThreads |-> Idle]]
  /\ fds' = [fds EXCEPT ![p] = [n \in FdNums |-> Free]]
  /\ conns' = WithoutPeer(p)
  /\ backlog' = [backlog EXCEPT ![p] = <<>>]
  /\ UNCHANGED <<wanted, diskVars, stolen>>

Crash(p) == Ends(p) /\ crashed' = crashed \cup {p} /\ UNCHANGED kills
Kill(p) ==
  /\ p \in up
  /\ kills[p] < MaxKills[p]
  /\ kills' = [kills EXCEPT ![p] = @ + 1]
  /\ Ends(p)
  /\ UNCHANGED crashed

\* The user starts the peer: its file server listens.
Run(p) ==
  /\ p \notin up
  /\ up' = up \cup {p}
  /\ UNCHANGED <<wanted, clientVars, serverVars, netVars, diskVars, kills, crashed, stolen>>

\* Somebody removes a file from the shared directory.
RemoveFile(p, f) ==
  /\ f \in shared[p]
  /\ shared' = [shared EXCEPT ![p] = @ \ {f}]
  /\ UNCHANGED <<wanted, clientVars, serverVars, netVars, stored, received, lifeVars, stolen>>
-----------------------------------------------------------------------------
(* CPeerFileClient.                                                        *)

\* The two calls that enqueue a request, of CPeerClient and of the workers.
PushFile(p, req) ==
  /\ req.type = "push"
  /\ m_request_queue' = [m_request_queue EXCEPT ![p] = Append(@, req)]
ObtainFile(p, req) ==
  /\ req.type = "download"
  /\ m_request_queue' = [m_request_queue EXCEPT ![p] = Append(@, req)]

Want(p) ==
  /\ p \in up
  /\ wanted[p] # <<>>
  /\ PushFile(p, Head(wanted[p])) \/ ObtainFile(p, Head(wanted[p]))
  /\ wanted' = [wanted EXCEPT ![p] = Tail(@)]
  /\ UNCHANGED <<client, m_obtain_num, serverVars, netVars, diskVars, lifeVars, stolen>>

\* HandleRequestThreadFunc: a worker takes a request and makes a socket for it.
TakeRequest(p, t) ==
  /\ client[p][t] = Idle
  /\ m_request_queue[p] # <<>>
  /\ m_request_queue' = [m_request_queue EXCEPT ![p] = Tail(@)]
  /\ \E fd \in FdNums :
       /\ Opens(p, fd, Unconnected)
       /\ client' = [client EXCEPT ![p][t] =
                       [pc |-> "connecting", req |-> Head(m_request_queue[p]), fd |-> fd, n |-> 0]]
  /\ UNCHANGED <<wanted, m_obtain_num, serverVars, conns, backlog, diskVars, lifeVars, stolen>>

ClientGoes(p, t, pc) == client' = [client EXCEPT ![p][t].pc = pc]
ClientDone(p, t) == client' = [client EXCEPT ![p][t] = Idle]

\* ExecPushFile, ExecObtainFile: connect(), with its retries ...
Connect(p, t) ==
  LET me == client[p][t]
      s == me.req.server IN
  /\ me.pc = "connecting"
  /\ \/ /\ s \in up /\ fds[p][me.fd] = Unconnected
        /\ FreeConns # {}
        /\ LET c == Lowest(FreeConns) IN
           /\ conns' = [conns EXCEPT ![c] = Established(p, me.req)]
           /\ fds' = [fds EXCEPT ![p][me.fd].conn = c]
           /\ backlog' = [backlog EXCEPT ![s] = Append(@, c)]
        /\ ClientGoes(p, t, "sending")
     \/ /\ s \notin up \/ fds[p][me.fd] # Unconnected
        /\ me.n < MaxTries
        /\ client' = [client EXCEPT ![p][t].n = @ + 1]
        /\ UNCHANGED netVars
     \/ /\ s \notin up \/ fds[p][me.fd] # Unconnected
        /\ me.n = MaxTries
        /\ Close(p, me.fd)
        /\ ClientGoes(p, t, "requeue")
        /\ UNCHANGED backlog
  /\ UNCHANGED <<wanted, m_request_queue, m_obtain_num, serverVars, diskVars, lifeVars, stolen>>

\* ... and the request.
SendRequest(p, t) ==
  LET me == client[p][t] IN
  /\ me.pc = "sending"
  /\ \/ /\ Sends(p, me.fd, Request)
        /\ client' = [client EXCEPT ![p][t].pc = "opening", ![p][t].n = 0]
        /\ UNCHANGED fds
     \/ /\ SendFails(p, me.fd)
        /\ Close(p, me.fd)
        /\ ClientGoes(p, t, "requeue")
  /\ UNCHANGED <<wanted, m_request_queue, m_obtain_num, serverVars, backlog, diskVars, lifeVars, stolen>>

\* MUTANT of Requeue: the return after the failure is missing.
RequeueGoesOn(p, t) ==
  LET me == client[p][t] IN
  /\ me.pc = "requeue"
  /\ PushFile(p, me.req) \/ ObtainFile(p, me.req)
  /\ ClientGoes(p, t, "opening")
  /\ UNCHANGED <<wanted, m_obtain_num, serverVars, netVars, diskVars, lifeVars, stolen>>

\* A request that failed is enqueued again.
Requeue(p, t) ==
  LET me == client[p][t] IN
  /\ me.pc = "requeue"
  /\ PushFile(p, me.req) \/ ObtainFile(p, me.req)
  /\ ClientDone(p, t)
  /\ UNCHANGED <<wanted, m_obtain_num, serverVars, netVars, diskVars, lifeVars, stolen>>

\* HandleObtainResponse: the file of the next number is opened to be appended to ...
OpenDownload(p, t) ==
  /\ client[p][t].pc = "opening"
  /\ client[p][t].req.type = "download"
  /\ client' = [client EXCEPT ![p][t].pc = "downloading", ![p][t].n = m_obtain_num[p]]
  /\ m_obtain_num' = [m_obtain_num EXCEPT ![p] = @ + 1]
  /\ UNCHANGED <<wanted, m_request_queue, serverVars, netVars, diskVars, lifeVars, stolen>>

DownloadBlock(p, t) ==
  LET me == client[p][t] IN
  /\ me.pc = "downloading"
  /\ Receives(p, me.fd)
  /\ stored' = [stored EXCEPT ![p][<<me.n, me.req.file>>] = Append(@, Head(Incoming(p, me.fd)))]
  /\ UNCHANGED <<wanted, clientVars, serverVars, fds, backlog, shared, received, lifeVars, stolen>>

\* MUTANT of EndDownload: the socket is not closed.
EndDownloadUnclosed(p, t) ==
  LET me == client[p][t] IN
  /\ me.pc = "downloading"
  /\ ReachesEnd(p, me.fd) \/ Broken(p, me.fd)
  /\ ClientDone(p, t)
  /\ UNCHANGED <<wanted, m_request_queue, m_obtain_num, serverVars, netVars, diskVars, lifeVars, stolen>>

\* ... until recv() returns nothing, whatever the reason.
EndDownload(p, t) ==
  LET me == client[p][t] IN
  /\ me.pc = "downloading"
  /\ ReachesEnd(p, me.fd) \/ Broken(p, me.fd)
  /\ Close(p, me.fd)
  /\ ClientDone(p, t)
  /\ UNCHANGED <<wanted, m_request_queue, m_obtain_num, serverVars, backlog, diskVars, lifeVars, stolen>>

\* MUTANT of OpenPush: the blocks are sent without waiting for "start".
PushAtOnce(p, t) ==
  /\ client[p][t].pc = "opening"
  /\ client[p][t].req.type = "push"
  /\ client[p][t].req.file \in shared[p]
  /\ ClientGoes(p, t, "pushing")
  /\ UNCHANGED <<wanted, m_request_queue, m_obtain_num, serverVars, netVars, diskVars, lifeVars, stolen>>

\* HandlePushResponse: without the file the worker returns and leaves its socket open.
OpenPush(p, t) ==
  /\ client[p][t].pc = "opening"
  /\ client[p][t].req.type = "push"
  /\ \/ /\ client[p][t].req.file \in shared[p]
        /\ ClientGoes(p, t, "waiting")
     \/ /\ client[p][t].req.file \notin shared[p]
        /\ ClientDone(p, t)
  /\ UNCHANGED <<wanted, m_request_queue, m_obtain_num, serverVars, netVars, diskVars, lifeVars, stolen>>

\* recv() of "start", whose result nobody looks at.
AwaitStart(p, t) ==
  LET me == client[p][t] IN
  /\ me.pc = "waiting"
  /\ \/ Receives(p, me.fd)
     \/ (ReachesEnd(p, me.fd) \/ Broken(p, me.fd)) /\ UNCHANGED conns
  /\ ClientGoes(p, t, "pushing")
  /\ UNCHANGED <<wanted, m_request_queue, m_obtain_num, serverVars, fds, backlog, diskVars, lifeVars, stolen>>

\* A block is sent; an error is printed, and the next block is sent all the same.
PushBlock(p, t) ==
  LET me == client[p][t] IN
  /\ me.pc = "pushing"
  /\ me.n < Blocks[me.req.file]
  /\ SendsOrNot(p, me.fd, Block(me.req.file, me.n + 1))
  /\ client' = [client EXCEPT ![p][t].n = @ + 1]
  /\ UNCHANGED <<wanted, m_request_queue, m_obtain_num, serverVars, fds, backlog, diskVars, lifeVars, stolen>>

\* shutdown() and close() after the last block.
EndPush(p, t) ==
  LET me == client[p][t] IN
  /\ me.pc = "pushing"
  /\ me.n = Blocks[me.req.file]
  /\ Close(p, me.fd)
  /\ ClientDone(p, t)
  /\ UNCHANGED <<wanted, m_request_queue, m_obtain_num, serverVars, backlog, diskVars, lifeVars, stolen>>

ClientBreaksPipe(p, t) ==
  LET me == client[p][t] IN
  /\ me.pc \in {"sending", "pushing"}
  /\ me.pc = "pushing" => me.n < Blocks[me.req.file]
  /\ BreaksPipe(p, me.fd)
  /\ Crash(p)

ClientStep(p, t) ==
  \/ TakeRequest(p, t) \/ Connect(p, t) \/ SendRequest(p, t) \/ Requeue(p, t)
  \/ OpenDownload(p, t) \/ DownloadBlock(p, t) \/ EndDownload(p, t)
  \/ OpenPush(p, t) \/ AwaitStart(p, t) \/ PushBlock(p, t) \/ EndPush(p, t)
  \/ ClientBreaksPipe(p, t)
-----------------------------------------------------------------------------
(* CPeerFileServer.                                                        *)

\* Run(): the next connection is accepted ...
Accept(p) ==
  /\ acceptor[p] = Idle
  /\ backlog[p] # <<>>
  /\ \E fd \in FdNums :
       /\ Opens(p, fd, [conn |-> Head(backlog[p]), side |-> "server"])
       /\ acceptor' = [acceptor EXCEPT ![p].pc = "testing", ![p].fd = fd]
  /\ backlog' = [backlog EXCEPT ![p] = Tail(@)]
  /\ UNCHANGED <<wanted, clientVars, m_socket_fd_counts, m_socket_fd_queue, server, conns, diskVars, lifeVars, stolen>>

\* MUTANT of TestLimit: the connection is not counted.
TestLimitUncounted(p) ==
  /\ acceptor[p].pc = "testing"
  /\ m_socket_fd_counts[p] <= Limit
  /\ acceptor' = [acceptor EXCEPT ![p].pc = "enqueuing"]
  /\ UNCHANGED <<wanted, clientVars, m_socket_fd_counts, m_socket_fd_queue, server, netVars, diskVars, lifeVars, stolen>>

\* ... closed again when there are too many of them ...
TestLimit(p) ==
  /\ acceptor[p].pc = "testing"
  /\ \/ /\ m_socket_fd_counts[p] > Limit
        /\ CloseConn(p, acceptor[p].fd, TRUE)
        /\ acceptor' = [acceptor EXCEPT ![p] = Idle]
        /\ UNCHANGED m_socket_fd_counts
     \/ /\ m_socket_fd_counts[p] <= Limit
        /\ m_socket_fd_counts' = [m_socket_fd_counts EXCEPT ![p] = @ + 1]
        /\ acceptor' = [acceptor EXCEPT ![p].pc = "enqueuing"]
        /\ UNCHANGED <<fds, conns>>
  /\ UNCHANGED <<wanted, clientVars, m_socket_fd_queue, server, backlog, diskVars, lifeVars, stolen>>

\* ... or passed to the workers.
EnqueueSocket(p) ==
  /\ acceptor[p].pc = "enqueuing"
  /\ m_socket_fd_queue' = [m_socket_fd_queue EXCEPT ![p] = Append(@, acceptor[p].fd)]
  /\ acceptor' = [acceptor EXCEPT ![p] = Idle]
  /\ UNCHANGED <<wanted, clientVars, m_socket_fd_counts, server, netVars, diskVars, lifeVars, stolen>>

AcceptStep(p) == Accept(p) \/ TestLimit(p) \/ EnqueueSocket(p)

\* HandleRequestThreadFunc: a worker takes a descriptor.
TakeSocket(p, w) ==
  /\ server[p][w] = Idle
  /\ m_socket_fd_queue[p] # <<>>
  /\ m_socket_fd_queue' = [m_socket_fd_queue EXCEPT ![p] = Tail(@)]
  /\ server' = [server EXCEPT ![p][w].pc = "reading", ![p][w].fd = Head(m_socket_fd_queue[p])]
  /\ UNCHANGED <<wanted, clientVars, acceptor, m_socket_fd_counts, netVars, diskVars, lifeVars, stolen>>

ServerGoes(p, w, pc) == server' = [server EXCEPT ![p][w].pc = pc]

\* HandleClient: the request is received and its file opened; a missing file ends it.
ReadRequest(p, w) ==
  LET me == server[p][w]
      req == Conn(p, me.fd).req IN
  /\ me.pc = "reading"
  /\ Receives(p, me.fd)
  /\ Head(Incoming(p, me.fd)) = Request
  /\ \/ /\ req.type = "push"
        /\ received' = [received EXCEPT ![p][req.file] = <<>>]
        /\ server' = [server EXCEPT ![p][w].pc = "starting", ![p][w].req = req]
     \/ /\ req.type = "download"
        /\ req.file \in shared[p]
        /\ server' = [server EXCEPT ![p][w].pc = "pushing", ![p][w].req = req]
        /\ UNCHANGED received
     \/ /\ req.type = "download"
        /\ req.file \notin shared[p]
        /\ server' = [server EXCEPT ![p][w].pc = "missing"]
        /\ UNCHANGED received
  /\ UNCHANGED <<wanted, clientVars, acceptor, m_socket_fd_counts, m_socket_fd_queue, fds, backlog, shared, stored, lifeVars, stolen>>

\* MUTANT of ReadFails: the early return skips the decrement of the counter.
ReadFailsUncounted(p, w) ==
  /\ server[p][w].pc = "reading"
  /\ Broken(p, server[p][w].fd)
  /\ Close(p, server[p][w].fd)
  /\ server' = [server EXCEPT ![p][w] = Idle]
  /\ UNCHANGED <<wanted, clientVars, acceptor, m_socket_fd_counts, m_socket_fd_queue, backlog, diskVars, lifeVars, stolen>>

ReadFails(p, w) ==
  /\ server[p][w].pc = "reading"
  /\ Broken(p, server[p][w].fd)
  /\ Close(p, server[p][w].fd)
  /\ ServerGoes(p, w, "counting")
  /\ UNCHANGED <<wanted, clientVars, acceptor, m_socket_fd_counts, m_socket_fd_queue, backlog, diskVars, lifeVars, stolen>>

\* std::stoi() throws, which nobody catches, when nothing was received, or something that
\* is no request: the blocks of a file are taken not to begin with a number.
StoiThrows(p, w) ==
  LET fd == server[p][w].fd IN
  /\ server[p][w].pc = "reading"
  /\ Connected(p, fd)
  /\ IF Incoming(p, fd) = <<>> THEN ReachesEnd(p, fd) ELSE Head(Incoming(p, fd)) # Request
  /\ Crash(p)

\* MUTANT of SendBlock: the loop ends before the last block.
SendBlockButLast(p, w) ==
  LET me == server[p][w] IN
  /\ me.pc = "pushing"
  /\ \/ /\ me.n + 1 < Blocks[me.req.file]
        /\ SendsOrNot(p, me.fd, Block(me.req.file, me.n + 1))
        /\ server' = [server EXCEPT ![p][w].n = @ + 1]
     \/ /\ me.n + 1 >= Blocks[me.req.file]
        /\ ServerGoes(p, w, "closing")
        /\ UNCHANGED conns
  /\ UNCHANGED <<wanted, clientVars, acceptor, m_socket_fd_counts, m_socket_fd_queue, fds, backlog, diskVars, lifeVars, stolen>>

\* SendFile: a block, whether it can be sent or not; shutdown() after the last one.
SendBlock(p, w) ==
  LET me == server[p][w] IN
  /\ me.pc = "pushing"
  /\ \/ /\ me.n < Blocks[me.req.file]
        /\ SendsOrNot(p, me.fd, Block(me.req.file, me.n + 1))
        /\ server' = [server EXCEPT ![p][w].n = @ + 1]
     \/ /\ me.n = Blocks[me.req.file]
        /\ ServerGoes(p, w, "closing")
        /\ IF Connected(p, me.fd)
           THEN Changes(p, me.fd, [Conn(p, me.fd) EXCEPT !.shut[Side(p, me.fd)] = TRUE])
           ELSE UNCHANGED conns
  /\ UNCHANGED <<wanted, clientVars, acceptor, m_socket_fd_counts, m_socket_fd_queue, fds, backlog, diskVars, lifeVars, stolen>>

\* MUTANT of SendStart: nothing is sent.
SendNoStart(p, w) ==
  /\ server[p][w].pc = "starting"
  /\ ServerGoes(p, w, "receiving")
  /\ UNCHANGED <<wanted, clientVars, acceptor, m_socket_fd_counts, m_socket_fd_queue, netVars, diskVars, lifeVars, stolen>>

\* ReceiveFile: "start", the blocks, and the first close().
SendStart(p, w) ==
  LET me == server[p][w] IN
  /\ me.pc = "starting"
  /\ SendsOrNot(p, me.fd, Start)
  /\ ServerGoes(p, w, "receiving")
  /\ UNCHANGED <<wanted, clientVars, acceptor, m_socket_fd_counts, m_socket_fd_queue, fds, backlog, diskVars, lifeVars, stolen>>

ReceiveBlock(p, w) ==
  LET me == server[p][w] IN
  /\ me.pc = "receiving"
  /\ Receives(p, me.fd)
  /\ received' = [received EXCEPT ![p][me.req.file] = Append(@, Head(Incoming(p, me.fd)))]
  /\ UNCHANGED <<wanted, clientVars, serverVars, fds, backlog, shared, stored, lifeVars, stolen>>

\* MUTANT of EndReceive: the server closes without waiting for the end of the file.
EndReceiveEarly(p, w) ==
  LET me == server[p][w] IN
  /\ me.pc = "receiving"
  /\ Close(p, me.fd)
  /\ ServerGoes(p, w, "closing again")
  /\ UNCHANGED <<wanted, clientVars, acceptor, m_socket_fd_counts, m_socket_fd_queue, backlog, diskVars, lifeVars, stolen>>

EndReceive(p, w) ==
  LET me == server[p][w] IN
  /\ me.pc = "receiving"
  /\ ReachesEnd(p, me.fd) \/ Broken(p, me.fd)
  /\ Close(p, me.fd)
  /\ ServerGoes(p, w, "closing again")
  /\ UNCHANGED <<wanted, clientVars, acceptor, m_socket_fd_counts, m_socket_fd_queue, backlog, diskVars, lifeVars, stolen>>

\* The close() at the end of HandleClient, the second one after ReceiveFile.
CloseClient(p, w) ==
  LET me == server[p][w] IN
  /\ me.pc \in {"missing", "closing", "closing again"}
  /\ CloseConn(p, me.fd, me.pc = "missing")
  /\ stolen' = IF me.pc = "closing again" /\ fds[p][me.fd] # Free THEN stolen \cup {p} ELSE stolen
  /\ ServerGoes(p, w, "counting")
  /\ UNCHANGED <<wanted, clientVars, acceptor, m_socket_fd_counts, m_socket_fd_queue, backlog, diskVars, lifeVars>>

CountDown(p, w) ==
  /\ server[p][w].pc = "counting"
  /\ m_socket_fd_counts' = [m_socket_fd_counts EXCEPT ![p] = @ - 1]
  /\ server' = [server EXCEPT ![p][w] = Idle]
  /\ UNCHANGED <<wanted, clientVars, acceptor, m_socket_fd_queue, netVars, diskVars, lifeVars, stolen>>

ServerBreaksPipe(p, w) ==
  LET me == server[p][w] IN
  /\ me.pc \in {"starting", "pushing"}
  /\ me.pc = "pushing" => me.n < Blocks[me.req.file]
  /\ BreaksPipe(p, me.fd)
  /\ Crash(p)

ServerStep(p, w) ==
  \/ TakeSocket(p, w) \/ ReadRequest(p, w) \/ ReadFails(p, w) \/ StoiThrows(p, w)
  \/ SendBlock(p, w) \/ SendStart(p, w) \/ ReceiveBlock(p, w) \/ EndReceive(p, w)
  \/ CloseClient(p, w) \/ CountDown(p, w) \/ ServerBreaksPipe(p, w)
-----------------------------------------------------------------------------
Next ==
  \E p \in Peers :
    \/ Want(p) \/ Kill(p) \/ Run(p)
    \/ \E f \in Files : RemoveFile(p, f)
    \/ AcceptStep(p)
    \/ \E t \in ClientThreads : ClientStep(p, t)
    \/ \E w \in ServerThreads : ServerStep(p, w)

Spec == Init /\ [][Next]_vars

\* The threads are scheduled; the user and the file system do what they like.
Fairness ==
  \A p \in Peers :
    /\ WF_vars(AcceptStep(p))
    /\ \A t \in ClientThreads : WF_vars(ClientStep(p, t))
    /\ \A w \in ServerThreads : WF_vars(ServerStep(p, w))
FairSpec == Spec /\ Fairness
-----------------------------------------------------------------------------
(* Properties.                                                             *)

TypeOK ==
  /\ up \subseteq Peers
  /\ wanted \in [Peers -> Seq(Requests)]
  /\ m_request_queue \in [Peers -> Seq(Requests)]
  /\ client \in [Peers -> [ClientThreads -> Worker]]
  /\ m_obtain_num \in [Peers -> Nat]
  /\ acceptor \in [Peers -> Worker]
  /\ m_socket_fd_counts \in [Peers -> Nat]
  /\ m_socket_fd_queue \in [Peers -> Seq(FdNums)]
  /\ server \in [Peers -> [ServerThreads -> Worker]]
  /\ shared \in [Peers -> SUBSET Files]
  /\ DOMAIN stored = Peers
  /\ \A p \in Peers : stored[p] \in [(0 .. Len(Wanted[p])) \X Files -> Seq(Items)]
  /\ received \in [Peers -> [Files -> Seq(Items)]]
  /\ fds \in [Peers -> [FdNums -> End \cup {Free}]]
  /\ conns \in [ConnIds -> Connection \cup {Unused}]
  /\ backlog \in [Peers -> Seq(ConnIds)]
  /\ kills \in [Peers -> Nat]
  /\ crashed \subseteq Peers
  /\ stolen \subseteq Peers

\* The counter that limits the connections counts exactly the descriptors between the
\* accept loop and the end of HandleClient, and the test lets one more than the limit
\* pass, however the threads that count up and down interleave.
CountExact ==
  \A p \in Peers :
    /\ m_socket_fd_counts[p] =
         Len(m_socket_fd_queue[p]) + Cardinality({w \in ServerThreads : server[p][w] # Idle})
         + IF acceptor[p].pc = "enqueuing" THEN 1 ELSE 0
    /\ m_socket_fd_counts[p] <= Limit + 1

\* The descriptors that somebody is going to use.
ClientFds(p) == {<<"client", t>> : t \in {t \in ClientThreads : client[p][t].pc \notin {"idle", "requeue"}}}
ServerFds(p) == {<<"server", w>> : w \in {w \in ServerThreads :
                   server[p][w].pc \notin {"idle", "closing again", "counting"}}}
Holders(p) ==
  ClientFds(p) \cup ServerFds(p)
  \cup {<<"queue", i>> : i \in DOMAIN m_socket_fd_queue[p]}
  \cup {<<"acceptor", 0>> : x \in {y \in {0} : acceptor[p] # Idle}}
FdOf(p, h) ==
  CASE h[1] = "client" -> client[p][h[2]].fd
    [] h[1] = "server" -> server[p][h[2]].fd
    [] h[1] = "queue" -> m_socket_fd_queue[p][h[2]]
    [] OTHER -> acceptor[p].fd

\* Unless a peer was unlucky with the double close of a received file: every descriptor
\* in use is open and has one user, who is at the right end of its own connection; and
\* every open one is in use, but for those of pushes whose file was missing.
DescriptorsOwned ==
  \A p \in Peers \ stolen :
    /\ \A h \in Holders(p) :
         /\ fds[p][FdOf(p, h)].side = IF h[1] = "client" THEN "client" ELSE "server"
         /\ \A k \in Holders(p) : FdOf(p, h) = FdOf(p, k) => h = k
    /\ \A fd \in FdNums :
         \/ fds[p][fd] = Free
         \/ \E h \in Holders(p) : FdOf(p, h) = fd
         \/ /\ Connected(p, fd)
            /\ Conn(p, fd).req.type = "push"
            /\ Conn(p, fd).req.file \notin shared[p]

Undisturbed(p, fd) ==
  /\ Connected(p, fd)
  /\ ~Conn(p, fd).hurt
  /\ {Conn(p, fd).from, Conn(p, fd).req.server} \cap stolen = {}

\* The client takes the end of a connection for the end of the file. Unless a process
\* ended, the server refused or the file was missing, that is right. A peer that was
\* started again may append to a file of its former life.
DownloadsWhole ==
  [][\A p \in Peers, t \in ClientThreads :
       LET me == client[p][t] IN
       /\ me.pc = "downloading"
       /\ client'[p][t].pc = "idle"
       /\ p \in up'
       /\ Undisturbed(p, me.fd)
       /\ kills[p] = 0 /\ p \notin crashed
       => stored[p][<<me.n, me.req.file>>] = Content(me.req.file)]_vars

\* The same of a file that is pushed, which the server truncates at first.
PushesWhole ==
  [][\A p \in Peers, w \in ServerThreads :
       LET me == server[p][w] IN
       /\ me.pc = "receiving"
       /\ server'[p][w].pc = "closing again"
       /\ Undisturbed(p, me.fd)
       => received[p][me.req.file] = Content(me.req.file)]_vars

\* However often ExecObtainFile fails and enqueues its request again, no request for a
\* download is lost on the way between the queue and the workers, nor executed twice:
\* those that wait and those that got a number (m_obtain_num) are all that were made.
\* With TransfersEnd, each download is begun once in the end.
Downloads(requests) == Len(SelectSeq(requests, LAMBDA req : req.type = "download"))
RequestsKept ==
  \A p \in Peers \ crashed : kills[p] = 0 =>
    Downloads(wanted[p]) + Downloads(m_request_queue[p])
      + Cardinality({t \in ClientThreads :
                       /\ client[p][t].req.type = "download"
                       /\ client[p][t].pc \in {"connecting", "sending", "requeue", "opening"}})
      + m_obtain_num[p] = Downloads(Wanted[p])

\* Connections are the only way from peer to peer for harm: a process ends by itself
\* (SIGPIPE, an exception of stoi()) only if it has a connection that was refused or
\* whose other process ended or whose file was missing, or if somebody closed a
\* descriptor of another one.
CrashesHaveCauses ==
  [][\A p \in crashed' \ crashed :
       \/ stolen # {}
       \/ \E c \in ConnIds : p \in {conns[c].from, conns[c].req.server} /\ conns[c].hurt]_vars

\* Once nobody stops or removes anything any more, every transfer ends: the queues run
\* empty and all workers wait again. Excluded are a peer that pushes a file it does not
\* have, which keeps a worker of the server for good, and the double close.
Leaks(p) ==
  \E fd \in FdNums :
    fds[p][fd] # Free /\ \A h \in Holders(p) : FdOf(p, h) # fd
AllIdle ==
  \A p \in Peers :
    /\ m_request_queue[p] = <<>>
    /\ backlog[p] = <<>>
    /\ m_socket_fd_counts[p] = 0
    /\ \A t \in ClientThreads : client[p][t] = Idle
TransfersEnd ==
  /\ <>[](up = Peers)
  /\ <>[](stolen = {} /\ \A p \in Peers : ~Leaks(p))
  => <>[]AllIdle
=============================================================================
