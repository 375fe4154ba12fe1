# p2p_file_sharing_system: models, checks and proofs

TLA+ models of the peer-to-peer file sharing program under `src/`, TLC
configurations that check them on small overlays, and TLAPS proofs of the main
results for every overlay. Paths below are relative to `src/src/`.

## 1. The system

Sixteen (or three) peers form an overlay given by a topology file. A user asks
his peer for a file; the query floods the overlay; a hit travels back along the
recorded upstream peers; the originator then downloads the file directly.
Replication works the other way round: an inverse query looks for peers that
lack a file, and the originator pushes the file to them.

| Component | State | Operations | Talks to |
|---|---|---|---|
| `CRegisterServer` (`register_server.*`) | `m_client_info`, `m_all_peers_registered`, `m_thread_exit_count` | register a peer, wait for all, answer, exit | peers, by TCP |
| `CTcpServer` (`tcp_server.*`) | `client_addr`, one thread per connection | accept, read blocks of 1024 bytes, `DealWithRequest` | base of the two servers |
| `CPeerServer` (`peer_server.*`) | none | hand a received message to `CPeerClient::HandleMessage` | overlay neighbours |
| `CPeerClient` (`peer_client.*`) | `m_queries` (message id -> upstream), `m_query_hit_result`, `m_wait_queryhit`, `m_replicate_query_filename`, two queues, `m_files`, `m_peer_id_to_sockfd` | register, console commands, replicate at start-up, broadcast, handle messages, relay hits, maintain caches | all the others |
| `CPeerFileClient` (`peer_file_client.*`) | `m_request_queue`, `m_obtain_num`; two workers | obtain a file, push a file, retry | other peers' file servers |
| `CPeerFileServer` (`peer_file_server.*`) | `m_socket_fd_queue`, `m_socket_fd_counts`; four workers | accept, send a file, receive a file | other peers' file clients |
| helpers (`defines.*`), settings, topologies, `gen-dataset.sh` | none | split and join messages, ports, time | all |

Threads of one peer process: the console (`Run`), `StartReplicateAllFiles`,
`HandleMessageThread`, `BroadcastProcessThread`, `MantainQueryMapSize`, one
`CPeerServer` thread per incoming connection and its accept loop, two file client
workers, four file server workers and their accept loop. They share maps and
queues under one mutex each; two reads (`m_queries.size()` and the lookup in
`RelayQueryHit`) take none.

What is hard here, and what would make each component right:

* **Flooding.** Copies of a query race along different ways. The upstream entries
  must lead back to the originator; each peer answers once.
* **Two-step operations.** `ObtainFile` and `ReplicateFile` first send and then
  register what they wait for, while another thread consumes hits. A query must
  start one transfer, from or to a sensible peer.
* **Caches that expire.** `MantainQueryMapSize` erases entries that hits on their
  way still need, under three locks one after the other.
* **Replication** starts at many peers at the same time; a peer must be pushed a
  file once.
* **The start-up barrier.** Threads of the register server wait for one flag and
  count down to `exit(0)`, while accept goes on and users restart peers.
* **The wire.** Two threads send to the same sockets in pieces, a receiver puts
  blocks of 1024 bytes together; a failed send skips the rest of its block. Messages
  must neither mix nor be lost as long as the processes live.
* **Transfers.** The file server counts connections up in one thread and down in
  four, descriptors are closed twice, a connection's end stands for the end of the
  file, failed requests are retried without an end, and an exception or SIGPIPE ends
  the whole peer.
* **Load tests** make the thread that handles messages issue queries and obtains of
  its own, while hits and messages to relay pile up behind it.

`PROJECT.json` lists each hazard with its line and the properties that would catch it
going wrong. Some have none, with the reason: mostly the code does go wrong there (a
refused download that looks complete, a descriptor that is closed twice, a peer that is
started again before the barrier opens), the model has it as an action, and the
properties say what holds elsewhere.

## 2. The modules

`PeerClient` is the core; `Wire` justifies its sockets, which carry whole messages;
`FileTransfer` executes the requests it makes, in the order of `m_request_queue`;
`RegisterServer` ends where it begins. They are separate specifications, each with the
part of a process it is about: together they would not be checkable, and they meet at
one queue each. What one takes from the other is said where it is taken (the promise of
module `Links`, and the assumption that no peer is pushed the same file twice, which
`PushedOnce` checks).

### `PeerClient`: the overlay after start-up

The variables carry the names of the members of `CPeerClient`, one function over
the peers for each. `sock[p][q]` is the TCP stream from p to q: reliable and in
order per connection, unordered between connections. The local state of the threads is
in `handler` (what `HandleMessageThread` has left to do), `pending` with `message_id` and
`replicate_filenames` (a thread between sending and `SetWaitQueryHit`), `load_test` (the
calls a thread has left in a load test) and `maintenance` (which of the three maps comes
next). `asked` and `lost` are history variables: no action reads them
to decide whether a program step happens, except that `EvictQueries` picks
timed-out ids among those asked.

An action is what a thread does between two points where others can interfere:

| Action | Code |
|---|---|
| `QueryCommand`, `ObtainFile`, `InvQueryCommand`, `ReplicateCommand` | the console commands up to their broadcast |
| `LoadTestCommand`, `LoadTestCall` | the commands of the load tests, and each `SendQuery` or `ObtainFile` of a test, by the console or by `HandleMessageThread` |
| `SetWaitQueryHit` | the end of `ObtainFile` and `ReplicateFile` |
| `SelectFilesToReplicate`, `ReplicateNextFile` | `StartReplicateAllFiles` |
| `BroadcastProcessThread` | one item of `m_broadcast_queue` to all neighbours but one |
| `DealWithRequest` | `CPeerServer`: one message from a socket to `m_messages_queue` |
| `DropQuery`, `HandleQuery`, `HandleInvQuery`, `HandleQueryHit` | the handlers, up to the call of `RelayQueryHit` or the locks of `HandleQueryHit` |
| `HandleLoadTest`, `RelayLoadTest` | `HandleConcurrentTestQuery` and `HandleConcurrentTestObtain` before and after the calls of the test |
| `RelayQueryHit`, `CrashInRelay` | the unlocked lookup, the assertion, the send; the same when the race ends in an invalid access |
| `RecordQueryHit`, `StartTransfers` | the two halves of `HandleWaitQueryHit`, between which maintenance may run |
| `EvictQueries`, `EvictQueryHitResults`, `EvictWaits` | the three critical sections of `MantainQueryMapSize` |
| `SigPipe` | a send to a dead process kills the sender |
| `TornMessage` | the handler of `CTcpServer` gets the torn last message of a dead neighbour, and its parse throws |

What is undefined in the code is a choice in the model: the racy lookup sees the
entry or not, or the process dies; an `SMessageID` that was never assigned holds
any id. What the lookup inserts for a missing key (`DefaultPeer` = 0) is modelled
by what it does. A query's file name, type, TTL and replication factor are kept;
time stamps only appear as the set of ids that are timed out, older ids of an
originator first (the query cache and the results use the same 120 s).

A message that spreads a load test carries, in the fields of a query, the file of
`settings.config` it asks for (`file`) and the peer id below which a peer joins
(`factor`). `LoadTests` gives the calls of a test, which are 10001 queries or 10000
obtains in the program.

`FileLookup` is the abstract specification of all this, without messages, caches or
threads: a query is asked, peers that can answer it do so once, the originator starts
its transfers once, from or to the first of those who answered; a forgotten query may
be answered again or lose its answers. `LookupCorrect` says that `PeerClient` implements
it, with the results recorded at the originators as the answers, `m_request_queue` as the
transfers and `lost` as what is forgotten.

### `Wire` and `Links`: from the sending threads of a peer to its neighbours

`BroadcastProcessThread` and `RelayQueryHit` send a message to its receivers, one after
the other, under `m_send_buffer_mutex`, in as many pieces as each socket has room for;
`HandleRequest` receives pieces of any length and hands on what fills a block. A receiver's
process may end (the send to it fails, the rest of the block is left out, the next send
raises SIGPIPE), and so may the sender's: the connection is reset, what was not
received is lost, and the handler is called once more with what the buffer holds
(`RecvFails`), after which the loop ends. `TornLast` says that nothing follows such a block.

`Links` is the abstract specification: a message goes to all its receivers in one
step, each gets whole messages in that order, and after the sender's end at most one
torn one, as the last thing it handles: `GiveUp` happens once per receiver. `KeepsPromise`
says that `Wire` implements it; a message counts as sent when its thread gets the mutex.
It is what `PeerClient` takes for granted: its `Send` and `DealWithRequest` are `Send` and
`Handle` of `Links`, any step by which a process dies is `End`, and `TornMessage` a `GiveUp`
with a torn message.

### `FileTransfer`: file clients and file servers

The client's queue and workers, the server's accept loop, queue and workers, the table of
descriptors of each process (the kernel gives out the lowest free one), and the
connections between them, each end of which closes for itself.

| Action | Code |
|---|---|
| `Want`, `PushFile`, `ObtainFile` | requests are enqueued |
| `TakeRequest`, `Connect`, `Requeue` | a worker takes a request, connects with its retries, puts a failed one back |
| `SendRequest`, `OpenDownload`, `DownloadBlock`, `EndDownload` | a download |
| `OpenPush`, `AwaitStart`, `PushBlock`, `EndPush` | a push |
| `Accept`, `TestLimit`, `EnqueueSocket` | the accept loop, with the test of the limit |
| `TakeSocket`, `ReadRequest`, `ReadFails`, `StoiThrows` | a server worker up to the request, and its ways out |
| `SendBlock`; `SendStart`, `ReceiveBlock`, `EndReceive` | `SendFile` and `ReceiveFile` |
| `CloseClient`, `CountDown` | the second `close()` and the end of `HandleClient` |
| `ClientBreaksPipe`, `ServerBreaksPipe` | SIGPIPE |
| `Run`, `Kill`, `RemoveFile` | the user starts or kills a peer, or removes a file |

A file is a sequence of numbered blocks, one per round of the sender's loop. `hurt` in a
connection and `stolen`, `crashed` are history variables: they mark connections whose
transfer somebody cut short, and peers at which the double close hit a descriptor of
somebody else.

### `RegisterServer`: from the start of the processes to a connected overlay

The register server's threads (accept loop, one per connection, the loop of
`Run`) and each peer's `Register()`, with the accept thread of its `CPeerServer`,
which nobody waits for. Peers may be killed before they are answered, or after
`exit(1)`, and started again with the same id: the n-th start has a connection of
its own. A peer connects to every key of `m_peer_id_to_ip`, neighbours
without an address included, and exits where that fails. The address of a client goes through the one variable of the accept loop,
as in `StartAccepting`. A response is read without the mutex, so the entry of a peer
that registers again may be any mixture.

### Others

`MCPeerClient`, `MCWire`, `MCFileTransfer` and `MCRegisterServer` define the small
instances. `PeerClientInvariants` and `FileTransferInvariants` hold the inductive
invariants of `PeerClient` and `FileTransfer`, which their MC modules extend, so that TLC
can check them; those of `Wire` and `RegisterServer` are in the modules themselves.
The proofs are in eight modules (section 4): `PeerClientProofs` (types),
`PeerClientUpstream` (the ways back), `PeerClientAnswers` (truthful hits),
`PeerClientNoDuplicates` (single answers), `PeerClientTransfers` (transfers, and the
refinement of `FileLookup`), `WireProofs`, `FileTransferProofs` and
`RegisterServerProofs`. Operators marked MUTANT are faulty versions of the
definition below them; with each of them in its place TLC finds the property in
question violated, so the properties do depend on the code modelled.

## 3. The runs

| Run | Instance | Question |
|---|---|---|
| `star` | `top_test.config`, both leaves share f; one obtains it, the other starts a load test in which the hub obtains it | one download at most per query; hits return, queries are answered, the obtains of the hub's test always download (liveness); refinement of `FileLookup` |
| `mesh` | two cells of `top_mesh_2d.config`, from a corner to the next one; obtain, query and both query tests; TTL 4 | upstream peers, no cycle, no duplicate answers, the inductive invariant; the query is answered on every race of its copies |
| `lookup` | the star, factor 3; both leaves share f, leaf 1 also g, and they replicate their files at start-up, leaf 1 f once more on command; leaf 2 obtains g, and the hub asks who lacks it | hits of a query and an inverse query, or of two inverse queries for one file, up to two responders each, on their way at the same time: truthful hits, sensible transfers, each file pushed once although two peers replicate it, refinement of `FileLookup` |
| `eviction` | the star, cache limit 2, an obtain and a flooded load test | types, answers and transfers while the caches are emptied between any two steps, with misrouted hits and dying processes; refinement of `FileLookup`, where queries are forgotten |
| `wire` | two threads, two neighbours, two messages each, blocks of 3 units, room for 2 | streams are framed at every moment, a torn block is the last, the inductive invariant; refinement of `Links`; all is handled in the end (liveness) |
| `transfer` | a peer downloads from and pushes to another one at the same time, limit 0; late start, a kill and a restart, files that vanish | the counter is exact; every descriptor has one owner and is closed; no download is lost or begun twice by retries; the inductive invariant; downloads and pushes that nobody disturbed are whole (action properties); a process ends by itself only for a cause; all transfers end (liveness) |
| `register` | three peers on two machines, one may be restarted once | complete responses, nobody left out, connected to exactly the neighbours, the inductive invariant, everybody answered (liveness) |

Five runs show a statement of the documentation, a comment or an assertion that the
code does not keep: `early_hit`, `stale_id`, `relay_assert`, `first_hit` and
`wrong_address`; the findings in `PROJECT.json` quote the lines.

No run checks deadlock: the system rests when all messages are handled and no user
types anything, and after the start-up the register server has ended.

**Bounds and why they are enough.** `MaxMsgId` bounds the ids of a peer (one or
two): the interactions are between the threads over one id, or between two ids of one
peer (an old and a new query at eviction, the id of the command before). Three peers
give an originator, a relay and a responder, and with both leaves sharing two
responders; the mesh of six adds two cycles that share an edge and ways of unequal
length, on which copies overtake each other. `CacheLimit` stands for 120 000 entries;
it is 2 in the runs in which maintenance is to act and out of reach in the others.
In `lookup`, which has six possible queries, the constraint `TwoQueries` bounds a behaviour
to two of them, one of each kind or two inverse queries for one file: what is new against
the other runs is that hits of different queries meet in the relay, at the originator and
in `m_wait_queryhit`, and that two peers replicate one file, and two queries suffice for
that. The run checks safety only, so the constraint cuts no behaviour that it needs.
`TTL` is 5 as in `defines.h`, but 4 in `mesh`: the longest way between its two corners
without a peer twice, which the first copy may take. With 3 `QueryAnswered` fails. A
load test is one call: what matters is that the handler makes it, and when. A test of the
console may be cut short when no id is left, as any command may; the hub of the
star has no commands of its own, so the bound never stops its handler in a test. `MaxRestarts` is one for one peer: it is the second
registration under one id that matters. In `wire` a block is larger than a socket, so that a sender blocks in the middle, and no
message fits twice; two messages per thread make each of them wait for the other. In
`transfer` two workers on each side, one more connection than the limit lets pass
(the test is `>`), files of two blocks, so that a transfer may be cut in the
middle, one retry of `connect()`, and three descriptors and connections, one more
than the two requests need at a time; a step that would need another one waits. In `register` two of the three peers share a
machine, so that addresses may or may not differ.

**Fairness.** `PeerClient`: weak fairness of each thread that has work (a message
waiting, an item in the queue, a call to finish), one conjunct per thread. The threads
wait on condition variables with the predicate tested under the mutex, each `push` is
followed by `notify_one`, and each queue has a single consumer, so a thread with work
is woken and scheduled. No fairness for commands (nothing makes a user type) nor for
maintenance (it may sleep). The calls of a load test are steps of the thread that
runs it. `FileTransfer`: weak fairness of the accept loop and of each worker, none for what
users do. `Wire`: weak fairness of each sending thread and each receiver, none for the end
of a process; a thread that wants the mutex needs no more, since each holds it a
bounded number of times. `RegisterServer`: weak fairness of the disjunction of all
threads' steps; nothing can be repeated for ever there, so each thread gets its turn.
Restarts are not fair.

Liveness is stated up to the first lost cache entry or dead process, where the code
promises nothing any more. The eviction run, whose purpose is what happens then, checks
safety only. `QueryAnswered` needs a TTL of the longest way the first copy can take;
in the 4 x 4 mesh of the program, diameter 6, a query may die on the way. `TransfersEnd`
is stated for peers that run in the end, without a descriptor that was closed under
its owner and without the pushes of a missing file, which keep a worker of the server for good.

## 4. What is proved

Everything below holds for all values of the constants that satisfy the named
assumptions of the modules: any overlay with symmetric connections, any files, commands,
factor, TTL and cache limit (`PeerClient`); any size of blocks, sockets and buffers, any
messages and receivers (`Wire`); any files, requests, limit, retries and kills
(`FileTransfer`); any peers, addresses, neighbours and restarts (`RegisterServer`).
`Wire` and `FileTransfer` assume finitely many threads (`ThreadsAssumption`): the
program starts a fixed number of each. Each theorem about states follows from an
inductive invariant, which TLC has checked on the instances before.

| Module | Theorem | Says |
|---|---|---|
| `PeerClientProofs` | `TypeCorrect` | `[]TypeOK` |
| `PeerClientUpstream` | `UpstreamInvariant`, `RelayCorrect`, `UpstreamTree` | `[]UpstreamInv`, `[]RelayFindsUpstream`, `[]NoUpstreamCycle` |
| `PeerClientAnswers` | `GenuineInvariant`, `HitsCorrect` | `[]GenuineInv`, `[]HitsTruthful` |
| `PeerClientNoDuplicates` | `AnswersInvariant`, `AnswersOnce` | `[]AnswersInv`, `[]NoDuplicateAnswers` |
| `PeerClientTransfers` | `RequestsInvariant`, `TransfersOnce`, `TransfersCorrect` | under `IdsAssigned`: `[]RequestsInv`, `[]TransfersBounded`, `[]TransfersSensible` |
| | `PushesInvariant`, `PushedOnceOnly` | `[]PushesInv` under `IdsAssigned`, `[]PushedOnce` without it |
| | `LookupImplemented` | under `IdsAssigned`: `LookupCorrect`, the refinement of `FileLookup` |
| `WireProofs` | `WireInvariant`, `WireTypes`, `BlocksWhole`, `OneTornAtMost` | `[](TypeOK /\ WireInv)`, `[]TypeOK`, `[]StreamFramed`, `[]TornLast` |
| | `PromiseKept` | `KeepsPromise`, the refinement of `Links` |
| `FileTransferProofs` | `TransferInvariant`, `TransferTypes`, `CountCorrect`, `OwnedDescriptors` | `[](TypeOK /\ CountExact /\ TransferInv)`, `[]TypeOK`, `[]CountExact`, `[]DescriptorsOwned` |
| `RegisterServerProofs` | `RegisterInvariant`, `RegisterTypes`, `ConnectedAsConfigured`, `AnswersInFull`, `EverybodyAnswered` | `[](TypeOK /\ RegisterInv /\ TopologyConnected)`, `[]TypeOK`, `[]TopologyConnected`, `[]RespondsInFull`, `[]NobodyLeftOut` |

**The one hypothesis.** `IdsAssigned` says that the factor is above 1 or nobody gives the
command `replicate`. Without it `ReplicateFile` asks nobody and registers its wait under
an id that was never assigned, so a second transfer may start under an old id: the
run `stale_id` shows it. So the hypothesis excludes exactly the case in which the
theorems fail. With a factor above 1 it holds whatever the users type; with
`replication_factor 1`, the value in `settings.config`, it means that no user types
`replicate`, which the program offers all the same. `PushedOnceOnly` needs no
hypothesis: where it is false, the factor is 1 or less and there are no pushes.

**The overlay.** `RelayFindsUpstream` and `NoUpstreamCycle` are not inductive: that the
upstream of a newly cached query is a neighbour that has it cached follows only if that is
true of every copy on its way. `UpstreamInv` says so for each place where a copy or a hit
can be: a query to be broadcast is cached by its sender, a query in a socket or
queue comes from a neighbour that has it cached, a hit is at a peer that has its
query cached, a load test is relayed by a peer that has its message cached, the
upstreams recorded are neighbours that have it cached, and all of this unless the query
is in `lost`. The proof divides the steps of the peers into two kinds. A step *forgets* if
no upstream entry changes except of lost queries; it *learns* if one peer caches one query
under a neighbour that has it (or -1, its own). Both kinds remember: a query known to a
peer stays known or becomes lost. So everything already on its way stays right, and
each action has to account for what it adds only. For `NoUpstreamCycle`: a learning
step adds an entry at a peer p that had none, and since nobody can have recorded p as
an upstream before p had the query, a set of peers closed under upstreams
cannot come to exist by adding p: it would have existed without p.

**Answers.** `HitsTruthful` is about the recorded responders, but what makes it true was
said by a message on its way: `GenuineInv` says of every message in every place that
it descends from one of the queries asked and, for a hit, that its sender does
answer that query; ids are never used twice (`IdsInv`). For `NoDuplicateAnswers` it must
be excluded that two equal hits are under way: `AnswersInv` views sockets, queues,
handlers and results as places that contain answers and says that no answer is in two
places or twice in one, and that its responder has the query cached, or has recorded the
file of the inverse query, so that it will not give the answer again. Each action
then only moves an answer from one place to another, drops it, or makes a new one at a
peer that had none.

**Transfers.** The file name that a query waits with goes from the thread between sending
and `SetWaitQueryHit` to `m_wait_queryhit`, to the handler, and is used up when the
transfers are requested. `WaitsInv` says that it is never in two of these places. With
`HitsTruthful` it follows that every transfer is sensible, and with `AnswersInv` that
the pushes of one query go to different peers. For `PushedOnce`, `PushesInv` adds that who
was pushed a file has answered no other inverse query for it, over all queries and for
good, since `m_replicate_query_filename` is never emptied. For the refinement, each
step of `PeerClient` is shown to be a step of `FileLookup` or a stutter:
asking, answering (`RecordQueryHit` at the originator), starting the transfers, and
forgetting (`EvictQueries`, `EvictQueryHitResults`).

**The wire.** `StreamFramed` looks at the stream of a receiver from the last block it
handled to what its socket holds. `WireInv` adds what the mutex is for: a block that has
been begun is the last thing in its stream, its message is that of the holder, and who does
not hold the mutex has sent nothing of its next block. The proof rests on lemmas about
sequences of units (appending and taking pieces keeps them framed). For the refinement of
`Links`, what is promised to a receiver is what it has handled, what the buffer and socket
hold whole, and what the holder of the mutex still has to send. `TornLast` is inductive with
them: a receiver that has handled a torn block is gone, and one that is gone handles nothing.

**Transfers of files.** `CountExact` is inductive with the types alone. `DescriptorsOwned`
is not, for two reasons. First, a worker may close a descriptor that the kernel has
given to another thread meanwhile, and the connection of the other one suffers.
`ConnsInv` holds whatever is closed twice: a descriptor of a connection is the only one of
an open end, which belongs to its process, and a connection that waits for
`accept()` has an open end without descriptor. So a `close()` at one peer can take nothing
from another one. Second, it says nothing of whose request a connection carries, which
decides what a worker leaves behind when the file to push is missing.
`OwnersInv` says for each peer that never closed another thread's descriptor which
sides its users are at, that a client worker's connection carries its own request, and that
users are different. Each step of a worker is first shown to be of one of few kinds
(the worker goes on with its descriptor, closes it, leaves it, takes a new one); the kinds
are shown to keep the invariants. `TypeOK` does not say that the numbers of downloads
stay below the number of requests: a block appended under a number out of range would be
no step of `stored`, which TLC would report.

**The start-up.** `RegisterInv` ties `m_thread_exit_count` to the set of ended threads
(its cardinality), the registered addresses to the connections that delivered them, and
the state of each peer to the answer of its current connection. `NobodyLeftOut` follows by
counting: as many threads have ended as there are peers, each peer has had one
connection unless it was started again, so each has its answer.

## 5. What is only model-checked

Liveness (`HitReturns`, `QueryAnswered`, `TestObtainsDownload`, `EverythingArrives`,
`TransfersEnd`, `EveryoneAnswered`), which is out of the provers' reach, and three
action properties of `FileTransfer`: `DownloadsWhole`, `PushesWhole` and
`CrashesHaveCauses`. These three need one more invariant, on what is in each connection at
each stage of a transfer (section 6). Nor is `RequestsKept` proved, which counts requests in
sequences by a recursive operator. Every other invariant and action property of the
passing runs is a theorem. The statements of the five runs that expect a violation are
false, and stay with TLC.

## 6. What is not modelled, and the plan

Left out by design: wording, logging, the format of messages, console parsing,
`PrintHelp`, sockets that cannot be created, `UpdateFileInfoPeriodically` and
`WaitReplicateFileQueryHit` (never called), `SplitCommandStringBySize`, `CalcChunkNums`
and `GetFileSize` (never called), and the helpers of `defines.cpp` on strings, numbers and
time, which work on one call's arguments. A process of the overlay dies of the
assertion, of the race, of SIGPIPE or of a torn message, and does not come back: the
program does not reconnect. A torn message that is dropped is one that stays unread; one
that is cut inside its last number or name, and so handled as a message about another
query, peer or file, is not modelled (one that is cut in the padding is whole).

In `FileTransfer`: the descriptors of files, and the process's end when no descriptor
is left (`exit(1)` after `socket()`); the room in sockets, which hold whole items here
(`Wire` has the bounded ones); a request arrives whole; a block of a file is never
taken for a request; `recv()` on a descriptor that another thread closed meanwhile ends
when it is used next. In `Wire`: every part of a block holds text, so a torn block is
not empty. In `RegisterServer`: the response arrives in one piece.

Plan, the most important first:

1. An invariant on the content of connections in `FileTransfer`: which items are in each
   direction at each stage (the request, `start`, and a run of the blocks of the
   requested file that continues what the receiver has stored), unless the connection is
   hurt or a descriptor of one of its peers was stolen. From it `DownloadsWhole`,
   `PushesWhole` and `CrashesHaveCauses` as theorems.
2. A specification of what a transfer promises, as `FileLookup` and `Links` are for the
   other components, and the refinement.
