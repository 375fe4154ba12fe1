----------------------------- MODULE PeerClient -----------------------------
(***************************************************************************)
(* CPeerClient (src/src/peer_client.cpp): the flooding of queries, the     *)
(* return of query hits along the recorded upstream peers, and the         *)
(* originator's bookkeeping that turns a hit into a file transfer.         *)
(*                                                                         *)
(* Every peer runs one process with these threads, each with its own       *)
(* actions below:                                                          *)
(*   - the console loop of Run(), driven by the user's commands;           *)
(*   - StartReplicateAllFiles, once per process;                           *)
(*   - HandleMessageThread, the only thread that handles messages;         *)
(*   - BroadcastProcessThread, which sends what the others enqueue;        *)
(*   - MantainQueryMapSize, the cache maintenance;                         *)
(*   - one CPeerServer thread per incoming connection, which moves a       *)
(*     message from the TCP stream to m_messages_queue.                    *)
(* An action is what a thread does between two points where another thread *)
(* of the process can see or change what it uses: a critical section, or   *)
(* several when nothing they touch is shared.                              *)
(*                                                                         *)
(* The model starts when Register() has returned at every peer: all the    *)
(* connections of the topology are up (module RegisterServer has the start).*)
(*                                                                         *)
(* An operator marked MUTANT is a faulty version of the definition it names,*)
(* used only to see that a property notices the fault.                     *)
(***************************************************************************)
EXTENDS Integers, Sequences, FiniteSets, Functions

CONSTANTS
  Peers,              \* the peer ids of the overlay
  Neighbors,          \* m_peer_id_to_sockfd: the peers each peer is connected to
  Files,              \* file names
  m_files,            \* the files each peer shares; LoadFileInfo runs only once
  ReplicationFactor,  \* m_replicatioin_factor, from settings.config
  TTL,                \* the initial time to live of a message
  CacheLimit,         \* QUERY_CACHE_TIME_OUT * 1000: entries before maintenance acts
  Commands,           \* the commands each peer's user may type
  LoadTests,          \* the files a load test of a type and file asks for, in order
  RequiredPeer,       \* con_test_query_max_peer: the peers below it join a load test
  MaxMsgId,           \* BOUND: message ids a peer may use, 0 .. MaxMsgId - 1
  NoFile              \* no file name

\* -1, the upstream of an originator's own query (CacheQuery(*message_id, -1)),
\* and the exclude_peer_id of a broadcast that excludes nobody.
NoPeer == -1
\* The message id has no entry in m_queries.
Absent == -2
\* The PeerID that operator[] of an unordered_map inserts for a missing key.
DefaultPeer == 0

\* SMessageID, whose equality ignores the timestamp.
MsgIds == [peer : Peers, num : 0 .. (MaxMsgId - 1)]
\* An SMessageID that was never assigned.
Unset == [peer |-> NoPeer, num |-> 0]

\* The types of message. "peer" is message_vec[5]: the sender of a query, the
\* responder of a hit. "factor" is the replication factor of an inverse query.
\* A hit names no file here: message_vec[7] of a query hit is read by nobody,
\* and the hit of an inverse query does not carry the name. A message that spreads
\* a load test stands for the file of settings.config that the test asks for
\* (m_ensure_queryhit_file or m_large_file_name); its "factor" is the peer id
\* below which a peer joins.
TestTypes == {"test_query", "test_obtain"}
Queries == [type : {"query", "inv_query"} \cup TestTypes, id : MsgIds, ttl : 1 .. TTL,
            peer : Peers, file : Files, factor : Nat]
Hits == [type : {"query_hit", "inv_query_hit"}, id : MsgIds, ttl : 1 .. TTL,
         peer : Peers, file : {NoFile}, factor : {0}]
Message == Queries \cup Hits

\* "test_obtain2" is also test_obtain3, its variant with the large file.
CommandTypes == {"query", "obtain", "inv_query", "replicate"} \cup TestTypes
                \cup {"test_query2", "test_obtain2"}

ASSUME PeersAssumption == Peers \subseteq Nat /\ DefaultPeer \in Peers

\* The topology files list every connection at both of its ends (top_*.config).
ASSUME NeighborsAssumption ==
  /\ Neighbors \in [Peers -> SUBSET Peers]
  /\ \A p, q \in Peers : q \in Neighbors[p] => p # q /\ p \in Neighbors[q]

ASSUME FilesAssumption ==
  /\ m_files \in [Peers -> SUBSET Files]
  /\ NoFile \notin Files

ASSUME NumbersAssumption ==
  /\ ReplicationFactor \in Nat
  /\ TTL \in Nat \ {0}
  /\ CacheLimit \in Nat
  /\ MaxMsgId \in Nat

ASSUME CommandsAssumption ==
  Commands \in [Peers -> SUBSET [type : CommandTypes, file : Files]]

ASSUME LoadTestsAssumption ==
  /\ LoadTests \in [TestTypes -> [Files -> Seq(Files)]]
  /\ RequiredPeer \in Nat

VARIABLES
  alive,               \* the peer's process is running
  m_msg_id_counter,    \* the number of the next message id
  m_queries,           \* message id -> upstream peer, or Absent
  m_query_hit_result,  \* message id -> responders in order of arrival
  m_wait_queryhit,     \* message id -> file to transfer on a hit, or NoFile
  m_replicate_query_filename, \* the files whose inverse query was handled
  m_broadcast_queue,   \* <<message, excluded peer>> to be broadcast
  m_messages_queue,    \* received messages not handled yet
  m_request_queue,     \* requests handed to CPeerFileClient, never removed here
  sock,                \* sock[p][q]: messages sent by p that q has not received
  handler,             \* what HandleMessageThread has left to do for its message
  message_id,          \* the variable of Run() that its commands share
  pending,             \* the SetWaitQueryHit call a thread is about to make
  replicate_filenames, \* what StartReplicateAllFiles has left to replicate
  load_test,           \* the calls a thread has left to make in a load test
  maintenance,         \* the progress of MantainQueryMapSize
  asked,               \* HISTORY: the queries as their originators issued them
  lost                 \* HISTORY: ids whose m_queries entry some peer lost

callerVars == <<message_id, pending, replicate_filenames, load_test>>
hitVars == <<m_query_hit_result, m_wait_queryhit, m_request_queue>>
historyVars == <<asked, lost>>
vars == <<alive, m_msg_id_counter, m_queries, m_replicate_query_filename,
          m_broadcast_queue, m_messages_queue, sock, handler, maintenance,
          callerVars, hitVars, historyVars>>
-----------------------------------------------------------------------------
(* The state of the threads.                                               *)

\* The threads that issue queries of their own: "handler" is HandleMessageThread,
\* which makes the calls of a load test before it relays the message.
Callers == {"console", "replicate", "handler"}
Testers == {"console", "handler"}
NoCall == [id |-> Unset, file |-> NoFile]
Calls == [id : MsgIds \cup {Unset}, file : Files]

\* The calls of SendTestQuery, and of SendTestObtain and SendTestObtainLarge.
TestCalls == [type : TestTypes, file : Files]
CallsOf(type, file) ==
  [i \in DOMAIN LoadTests[type][file] |-> [type |-> type, file |-> LoadTests[type][file][i]]]

\* StartReplicateAllFiles has not looked at the files yet.
NotStarted == {NoFile}

BroadcastItem == [msg : Queries, exclude : Peers \cup {NoPeer}]

\* HandleMessageThread waits for a message; or is about to call RelayQueryHit
\* and then to broadcast what is in "after", racy when another thread changed
\* m_queries meanwhile; or is about to record a hit of one of its own queries;
\* or holds the file name it took from m_wait_queryhit for that hit; or makes the
\* calls of the load test that its message spreads.
Idle == [pc |-> "idle"]
Relaying(hit, after) ==
  [pc |-> "relay", msg |-> hit, after |-> after, racy |-> FALSE]
Handlers ==
  {Idle} \cup
  [pc : {"relay"}, msg : Hits, after : Seq(BroadcastItem), racy : BOOLEAN] \cup
  [pc : {"record"}, msg : Hits] \cup
  [pc : {"start"}, msg : Hits, file : Files] \cup
  [pc : {"test"}, msg : Queries]

\* MantainQueryMapSize visits its three maps under three locks; "old" holds the
\* ids that were timed out when it last read the clock.
Maintenance == [pc : {"queries", "results", "waits"}, old : SUBSET MsgIds]
Rested == [pc |-> "queries", old |-> {}]

Requests == [type : {"download", "push"}, file : Files, server : Peers,
             id : MsgIds]

TypeOK ==
  /\ alive \in [Peers -> BOOLEAN]
  /\ m_msg_id_counter \in [Peers -> 0 .. MaxMsgId]
  /\ m_queries \in [Peers -> [MsgIds -> Peers \cup {NoPeer, Absent}]]
  /\ m_query_hit_result \in [Peers -> [MsgIds -> Seq(Peers)]]
  /\ m_wait_queryhit \in [Peers -> [MsgIds -> Files \cup {NoFile}]]
  /\ m_replicate_query_filename \in [Peers -> SUBSET Files]
  /\ m_broadcast_queue \in [Peers -> Seq(BroadcastItem)]
  /\ m_messages_queue \in [Peers -> Seq(Message)]
  /\ m_request_queue \in [Peers -> Seq(Requests)]
  /\ sock \in [Peers -> [Peers -> Seq(Message)]]
  /\ handler \in [Peers -> Handlers]
  /\ message_id \in [Peers -> MsgIds \cup {Unset}]
  /\ pending \in [Peers -> [Callers -> Calls \cup {NoCall}]]
  /\ replicate_filenames \in [Peers -> SUBSET (Files \cup {NoFile})]
  /\ load_test \in [Peers -> [Testers -> Seq(TestCalls)]]
  /\ maintenance \in [Peers -> Maintenance]
  /\ asked \subseteq Queries
  /\ lost \subseteq MsgIds

Init ==
  /\ alive = [p \in Peers |-> TRUE]
  /\ m_msg_id_counter = [p \in Peers |-> 0]
  /\ m_queries = [p \in Peers |-> [id \in MsgIds |-> Absent]]
  /\ m_query_hit_result = [p \in Peers |-> [id \in MsgIds |-> <<>>]]
  /\ m_wait_queryhit = [p \in Peers |-> [id \in MsgIds |-> NoFile]]
  /\ m_replicate_query_filename = [p \in Peers |-> {}]
  /\ m_broadcast_queue = [p \in Peers |-> <<>>]
  /\ m_messages_queue = [p \in Peers |-> <<>>]
  /\ m_request_queue = [p \in Peers |-> <<>>]
  /\ sock = [p \in Peers |-> [q \in Peers |-> <<>>]]
  /\ handler = [p \in Peers |-> Idle]
  /\ message_id = [p \in Peers |-> Unset]
  /\ pending = [p \in Peers |-> [t \in Callers |-> NoCall]]
  /\ replicate_filenames = [p \in Peers |-> NotStarted]
  /\ load_test = [p \in Peers |-> [t \in Testers |-> <<>>]]
  /\ maintenance = [p \in Peers |-> Rested]
  /\ asked = {}
  /\ lost = {}
-----------------------------------------------------------------------------
(* Helpers of the handlers.                                                *)

\* MUTANTS of HasFile: find() is compared with the wrong iterator.
EveryFile(p, file) == TRUE
NoFileAtAll(p, file) == FALSE
HasFile(p, file) == file \in m_files[p]
\* MUTANT of IsQueryCached: only the originator's own queries are looked up.
OwnQuery(p, id) == id.peer = p
IsQueryCached(p, id) == m_queries[p][id] # Absent

\* MUTANT of CacheQuery: message_vec[5] is overwritten before it is cached.
CacheOwnName(p, id, upstream) ==
  m_queries' = [m_queries EXCEPT ![p][id] = IF @ = Absent THEN p ELSE @]
\* The first upstream recorded for a message id stays.
CacheQuery(p, id, upstream) ==
  m_queries' = [m_queries EXCEPT ![p][id] = IF @ = Absent THEN upstream ELSE @]

\* RelayQueryHit reads m_queries without queries_map_mutex: a change made by
\* another thread while it is at it is a data race.
Raced(p) ==
  IF handler[p].pc = "relay" THEN [handler EXCEPT ![p].racy = TRUE] ELSE handler

BroadcastAll(p, items) ==
  m_broadcast_queue' = [m_broadcast_queue EXCEPT ![p] = @ \o items]

\* MUTANT of RelayedQuery: message_vec[5] stays the peer the query came from.
RelayedUnderUpstreamsName(p, msg, factor) ==
  [msg |-> [msg EXCEPT !.ttl = @ - 1, !.factor = factor], exclude |-> msg.peer]

\* MUTANT of RelayedQuery: a hop costs two of the time to live.
RelayedTwoHops(p, msg, factor) ==
  [msg |-> [msg EXCEPT !.ttl = IF @ > 2 THEN @ - 2 ELSE 1, !.peer = p, !.factor = factor],
   exclude |-> msg.peer]

\* RelayQuery: what is broadcast to everybody but the peer the query came from.
RelayedQuery(p, msg, factor) ==
  [msg |-> [msg EXCEPT !.ttl = @ - 1, !.peer = p, !.factor = factor],
   exclude |-> msg.peer]

\* MUTANTS of HitMessage: the time to live is the rest of the query's, here its
\* last hop; or it counts the responder's hop too; or the number of the message id is
\* the responder's own, as in CreateCommonQueryMsgVec.
LastHopHit(p, type, id) ==
  [type |-> type, id |-> id, ttl |-> 1, peer |-> p, file |-> NoFile, factor |-> 0]
ExtraHopHit(p, type, id) ==
  [type |-> type, id |-> id, ttl |-> TTL + 1, peer |-> p, file |-> NoFile, factor |-> 0]
HitUnderOwnNumber(p, type, id) ==
  [type |-> type, id |-> [id EXCEPT !.num = m_msg_id_counter[p] % MaxMsgId], ttl |-> TTL,
   peer |-> p, file |-> NoFile, factor |-> 0]

\* CreateQueryHitMessage, CreateInvQueryHitMessage.
HitMessage(p, type, id) ==
  [type |-> type, id |-> id, ttl |-> TTL, peer |-> p, file |-> NoFile, factor |-> 0]

\* CreateQueryMessage, CreateInvQueryMessage, CreateCommonQueryMsgVec.
NextId(p) == [peer |-> p, num |-> m_msg_id_counter[p]]
QueryMessage(p, type, file) ==
  [type |-> type, id |-> NextId(p), ttl |-> TTL, peer |-> p, file |-> file,
   factor |-> CASE type = "inv_query" -> ReplicationFactor - 1
                [] type \in TestTypes -> RequiredPeer
                [] OTHER -> 0]

\* SendQuery, the part of SendInvQuery after its check of the factor, and how a load
\* test is spread.
Issue(p, type, file) ==
  LET msg == QueryMessage(p, type, file) IN
  /\ m_msg_id_counter[p] < MaxMsgId
  /\ m_msg_id_counter' = [m_msg_id_counter EXCEPT ![p] = @ + 1]
  /\ CacheQuery(p, msg.id, NoPeer)
  /\ BroadcastAll(p, <<[msg |-> msg, exclude |-> NoPeer]>>)
  /\ handler' = Raced(p)
  /\ asked' = asked \cup {msg}
  /\ UNCHANGED <<alive, m_replicate_query_filename, m_messages_queue, sock,
                 maintenance, hitVars, lost>>
-----------------------------------------------------------------------------
(* The console thread, Run(). Its commands share the variable message_id.  *)

Commanded(p, type, file) ==
  /\ alive[p]
  /\ [type |-> type, file |-> file] \in Commands[p]
  /\ pending[p]["console"] = NoCall
  /\ load_test[p]["console"] = <<>>

QueryCommand(p, file) ==
  /\ Commanded(p, "query", file)
  /\ Issue(p, "query", file)
  /\ message_id' = [message_id EXCEPT ![p] = NextId(p)]
  /\ UNCHANGED <<pending, replicate_filenames, load_test>>

\* ObtainFile up to the call of SetWaitQueryHit.
ObtainFile(p, file) ==
  /\ Commanded(p, "obtain", file)
  /\ Issue(p, "query", file)
  /\ message_id' = [message_id EXCEPT ![p] = NextId(p)]
  /\ pending' = [pending EXCEPT ![p]["console"] = [id |-> NextId(p), file |-> file]]
  /\ UNCHANGED <<replicate_filenames, load_test>>

InvQueryCommand(p, file) ==
  /\ Commanded(p, "inv_query", file)
  /\ ReplicationFactor > 1
  /\ Issue(p, "inv_query", file)
  /\ message_id' = [message_id EXCEPT ![p] = NextId(p)]
  /\ UNCHANGED <<pending, replicate_filenames, load_test>>

\* ReplicateFile from the console, up to the call of SetWaitQueryHit. When
\* SendInvQuery refuses, message_id still is the one of the command before.
ReplicateCommand(p, file) ==
  /\ Commanded(p, "replicate", file)
  /\ HasFile(p, file)
  /\ \/ /\ ReplicationFactor > 1
        /\ Issue(p, "inv_query", file)
        /\ message_id' = [message_id EXCEPT ![p] = NextId(p)]
        /\ pending' = [pending EXCEPT ![p]["console"] =
                         [id |-> NextId(p), file |-> file]]
        /\ UNCHANGED <<replicate_filenames, load_test>>
     \/ /\ ReplicationFactor <= 1
        /\ pending' = [pending EXCEPT ![p]["console"] =
                         [id |-> message_id[p], file |-> file]]
        /\ UNCHANGED <<alive, m_msg_id_counter, m_queries, m_broadcast_queue,
                       m_replicate_query_filename, m_messages_queue, sock,
                       handler, maintenance, message_id, replicate_filenames,
                       load_test, hitVars, historyVars>>

\* The load tests: test_query and test_obtain begin with the calls; test_query2,
\* test_obtain2 and test_obtain3 spread the test first. (BOUND: a test that could not
\* begin for want of a message id is not started.)
LoadTestCommand(p, file) == \E type \in TestTypes :
  /\ m_msg_id_counter[p] < MaxMsgId
  /\ \/ /\ Commanded(p, type, file)
        /\ UNCHANGED <<alive, m_msg_id_counter, m_queries, m_broadcast_queue,
                       m_replicate_query_filename, m_messages_queue, sock,
                       handler, maintenance, hitVars, historyVars>>
     \/ /\ Commanded(p, IF type = "test_query" THEN "test_query2" ELSE "test_obtain2", file)
        /\ Issue(p, type, file)
  /\ load_test' = [load_test EXCEPT ![p]["console"] = CallsOf(type, file)]
  /\ UNCHANGED <<message_id, pending, replicate_filenames>>

Command(p) == \E file \in Files :
  \/ QueryCommand(p, file)
  \/ ObtainFile(p, file)
  \/ InvQueryCommand(p, file)
  \/ ReplicateCommand(p, file)
  \/ LoadTestCommand(p, file)

\* The next call of a load test: SendQuery, or ObtainFile up to its SetWaitQueryHit.
LoadTestCall(p, thread) ==
  LET call == Head(load_test[p][thread]) IN
  /\ alive[p]
  /\ load_test[p][thread] # <<>>
  /\ pending[p][thread] = NoCall
  /\ Issue(p, "query", call.file)
  /\ load_test' = [load_test EXCEPT ![p][thread] = Tail(@)]
  /\ pending' = IF call.type = "test_query" THEN pending
                ELSE [pending EXCEPT ![p][thread] = [id |-> NextId(p), file |-> call.file]]
  /\ UNCHANGED <<message_id, replicate_filenames>>
-----------------------------------------------------------------------------
(* The thread StartReplicateAllFiles, after its random sleep.              *)

SelectFilesToReplicate(p) ==
  /\ alive[p]
  /\ ReplicationFactor > 1
  /\ replicate_filenames[p] = NotStarted
  /\ replicate_filenames' = [replicate_filenames EXCEPT ![p] =
                               m_files[p] \ m_replicate_query_filename[p]]
  /\ UNCHANGED <<alive, m_msg_id_counter, m_queries, m_replicate_query_filename,
                 m_broadcast_queue, m_messages_queue, sock, handler, maintenance,
                 message_id, pending, load_test, hitVars, historyVars>>

\* ReplicateFile for one of them, up to the call of SetWaitQueryHit. The order
\* of the files is the one of an unordered_set.
ReplicateNextFile(p) ==
  /\ alive[p]
  /\ ReplicationFactor > 1
  /\ pending[p]["replicate"] = NoCall
  /\ \E file \in replicate_filenames[p] \ NotStarted :
       /\ Issue(p, "inv_query", file)
       /\ replicate_filenames' = [replicate_filenames EXCEPT ![p] = @ \ {file}]
       /\ pending' = [pending EXCEPT ![p]["replicate"] =
                        [id |-> NextId(p), file |-> file]]
       /\ UNCHANGED <<message_id, load_test>>

\* The call of SetWaitQueryHit at the end of ObtainFile and ReplicateFile. The
\* fields of an SMessageID that was never assigned hold anything.
SetWaitQueryHit(p, thread) ==
  LET call == pending[p][thread] IN
  /\ alive[p]
  /\ call # NoCall
  /\ \E id \in IF call.id = Unset THEN MsgIds \cup {Unset} ELSE {call.id} :
       m_wait_queryhit' = IF id = Unset THEN m_wait_queryhit
                          ELSE [m_wait_queryhit EXCEPT ![p][id] = call.file]
  /\ pending' = [pending EXCEPT ![p][thread] = NoCall]
  /\ UNCHANGED <<alive, m_msg_id_counter, m_queries, m_replicate_query_filename,
                 m_broadcast_queue, m_messages_queue, sock, handler, maintenance,
                 message_id, replicate_filenames, load_test, m_query_hit_result,
                 m_request_queue, historyVars>>
-----------------------------------------------------------------------------
(* The network and the threads that feed it and drain it.                  *)

\* MUTANT of Send: after a partial send the buffer is sent from its start.
SendTwice(p, targets, msg) ==
  sock' = [sock EXCEPT ![p] = [q \in Peers |->
             IF q \in targets THEN @[q] \o <<msg, msg>> ELSE @[q]]]
Send(p, targets, msg) ==
  sock' = [sock EXCEPT ![p] =
             [q \in Peers |-> IF q \in targets THEN Append(@[q], msg) ELSE @[q]]]

\* MUTANT of BroadcastTargets: 0 stands for "exclude nobody".
TargetsWithout0(p) ==
  LET exclude == Head(m_broadcast_queue[p]).exclude IN
  Neighbors[p] \ {IF exclude = NoPeer THEN DefaultPeer ELSE exclude}
BroadcastTargets(p) == Neighbors[p] \ {Head(m_broadcast_queue[p]).exclude}

\* One round of BroadcastProcessThread. m_send_buffer_mutex keeps RelayQueryHit
\* out of it, and nothing orders what arrives over different connections.
BroadcastProcessThread(p) ==
  /\ alive[p]
  /\ m_broadcast_queue[p] # <<>>
  /\ Send(p, BroadcastTargets(p), Head(m_broadcast_queue[p]).msg)
  /\ m_broadcast_queue' = [m_broadcast_queue EXCEPT ![p] = Tail(@)]
  /\ UNCHANGED <<alive, m_msg_id_counter, m_queries, m_replicate_query_filename,
                 m_messages_queue, handler, maintenance, callerVars, hitVars,
                 historyVars>>

\* The thread of q's CPeerServer for the connection from p: HandleRequest reads
\* one message, DealWithRequest passes it to HandleMessage. What a dead process
\* has sent can still be read.
DealWithRequest(p, q) ==
  /\ alive[q]
  /\ sock[p][q] # <<>>
  /\ sock' = [sock EXCEPT ![p][q] = Tail(@)]
  /\ m_messages_queue' = [m_messages_queue EXCEPT ![q] = Append(@, Head(sock[p][q]))]
  /\ UNCHANGED <<alive, m_msg_id_counter, m_queries, m_replicate_query_filename,
                 m_broadcast_queue, handler, maintenance, callerVars, hitVars,
                 historyVars>>

\* A send to a process that has died raises SIGPIPE, which nothing handles: the
\* sender dies too, after it has sent to some of the others.
SigPipe(p) ==
  /\ alive[p]
  /\ \/ /\ m_broadcast_queue[p] # <<>>
        /\ \E q \in BroadcastTargets(p) : ~alive[q]
        /\ \E targets \in SUBSET {q \in BroadcastTargets(p) : alive[q]} :
             Send(p, targets, Head(m_broadcast_queue[p]).msg)
     \/ /\ handler[p].pc = "relay"
        /\ m_queries[p][handler[p].msg.id] \in {q \in Neighbors[p] : ~alive[q]}
        /\ UNCHANGED sock
  /\ alive' = [alive EXCEPT ![p] = FALSE]
  /\ UNCHANGED <<m_msg_id_counter, m_queries, m_replicate_query_filename,
                 m_broadcast_queue, m_messages_queue, handler, maintenance,
                 callerVars, hitVars, historyVars>>
-----------------------------------------------------------------------------
(* HandleMessageThread: the handlers up to the call of RelayQueryHit or to   *)
(* the locks of HandleQueryHit, and then those.                              *)

Takes(p, type) ==
  /\ alive[p]
  /\ handler[p].pc = "idle"
  /\ m_messages_queue[p] # <<>>
  /\ Head(m_messages_queue[p]).type = type
  /\ m_messages_queue' = [m_messages_queue EXCEPT ![p] = Tail(@)]
  /\ UNCHANGED <<alive, m_msg_id_counter, sock, maintenance, message_id, pending,
                 replicate_filenames, hitVars, historyVars>>

\* Any handler but those of the hits drops a message that was seen before.
DropQuery(p) ==
  LET msg == Head(m_messages_queue[p]) IN
  /\ \E type \in {"query", "inv_query"} \cup TestTypes : Takes(p, type)
  /\ IsQueryCached(p, msg.id)
  /\ UNCHANGED <<m_queries, m_replicate_query_filename, m_broadcast_queue, handler,
                 load_test>>

HandleQuery(p) ==
  LET msg == Head(m_messages_queue[p]) IN
  /\ Takes(p, "query")
  /\ ~IsQueryCached(p, msg.id)
  /\ CacheQuery(p, msg.id, msg.peer)
  /\ \/ /\ HasFile(p, msg.file)
        /\ handler' = [handler EXCEPT ![p] =
                         Relaying(HitMessage(p, "query_hit", msg.id), <<>>)]
        /\ UNCHANGED m_broadcast_queue
     \/ /\ ~HasFile(p, msg.file)
        /\ msg.ttl > 1
        /\ BroadcastAll(p, <<RelayedQuery(p, msg, msg.factor)>>)
        /\ UNCHANGED handler
     \/ /\ ~HasFile(p, msg.file)
        /\ msg.ttl = 1
        /\ UNCHANGED <<m_broadcast_queue, handler>>
  /\ UNCHANGED <<m_replicate_query_filename, load_test>>

\* MUTANT of HandleLoadTest: the calls are left to a thread of their own.
LoadTestInBackground(p) ==
  LET msg == Head(m_messages_queue[p]) IN
  /\ Takes(p, "test_query") \/ Takes(p, "test_obtain")
  /\ ~IsQueryCached(p, msg.id)
  /\ CacheQuery(p, msg.id, msg.peer)
  /\ load_test' = IF p < msg.factor
                  THEN [load_test EXCEPT ![p]["handler"] = CallsOf(msg.type, msg.file)]
                  ELSE load_test
  /\ BroadcastAll(p, IF msg.ttl > 1 THEN <<RelayedQuery(p, msg, msg.factor)>> ELSE <<>>)
  /\ UNCHANGED <<m_replicate_query_filename, handler>>

\* HandleConcurrentTestQuery and HandleConcurrentTestObtain up to the calls ...
HandleLoadTest(p) ==
  LET msg == Head(m_messages_queue[p]) IN
  /\ Takes(p, "test_query") \/ Takes(p, "test_obtain")
  /\ ~IsQueryCached(p, msg.id)
  /\ CacheQuery(p, msg.id, msg.peer)
  /\ handler' = [handler EXCEPT ![p] = [pc |-> "test", msg |-> msg]]
  /\ load_test' = IF p < msg.factor
                  THEN [load_test EXCEPT ![p]["handler"] = CallsOf(msg.type, msg.file)]
                  ELSE load_test
  /\ UNCHANGED <<m_replicate_query_filename, m_broadcast_queue>>

\* ... and after them.
RelayLoadTest(p) ==
  LET msg == handler[p].msg IN
  /\ alive[p]
  /\ handler[p].pc = "test"
  /\ load_test[p]["handler"] = <<>>
  /\ pending[p]["handler"] = NoCall
  /\ handler' = [handler EXCEPT ![p] = Idle]
  /\ \/ /\ msg.ttl > 1
        /\ BroadcastAll(p, <<RelayedQuery(p, msg, msg.factor)>>)
     \/ /\ msg.ttl = 1
        /\ UNCHANGED m_broadcast_queue
  /\ UNCHANGED <<alive, m_msg_id_counter, m_queries, m_replicate_query_filename,
                 m_messages_queue, sock, maintenance, callerVars, hitVars, historyVars>>

\* MUTANT of RecordReplicated: the file name is only looked up.
RecordNothing(p, file) == UNCHANGED m_replicate_query_filename
RecordReplicated(p, file) ==
  m_replicate_query_filename' = [m_replicate_query_filename EXCEPT ![p] = @ \cup {file}]

\* What HandleInvQuery broadcasts: the factor is spent before the time to live.
InvQueriesToRelay(p, msg) ==
  IF msg.factor > 1 /\ msg.ttl > 1
  THEN <<RelayedQuery(p, msg, msg.factor - 1)>> ELSE <<>>

HandleInvQuery(p) ==
  LET msg == Head(m_messages_queue[p])
      relayed == InvQueriesToRelay(p, msg) IN
  /\ Takes(p, "inv_query")
  /\ ~IsQueryCached(p, msg.id)
  /\ CacheQuery(p, msg.id, msg.peer)
  /\ RecordReplicated(p, msg.file)
  /\ \/ /\ msg.file \in m_replicate_query_filename[p]
        /\ UNCHANGED <<m_broadcast_queue, handler>>
     \/ /\ msg.file \notin m_replicate_query_filename[p]
        /\ HasFile(p, msg.file)
        /\ BroadcastAll(p, relayed)
        /\ UNCHANGED handler
     \/ /\ msg.file \notin m_replicate_query_filename[p]
        /\ ~HasFile(p, msg.file)
        /\ handler' = [handler EXCEPT ![p] =
                         Relaying(HitMessage(p, "inv_query_hit", msg.id), relayed)]
        /\ UNCHANGED m_broadcast_queue
  /\ UNCHANGED load_test

\* HandleQueryHit, also called by HandleInvQueryHit. The time to live it
\* decrements is a local variable: the hit goes on as it came.
HandleQueryHit(p) ==
  LET hit == Head(m_messages_queue[p]) IN
  /\ Takes(p, "query_hit") \/ Takes(p, "inv_query_hit")
  /\ \/ /\ hit.id.peer = p
        /\ IsQueryCached(p, hit.id)
        /\ handler' = [handler EXCEPT ![p] = [pc |-> "record", msg |-> hit]]
     \/ /\ hit.id.peer = p
        /\ ~IsQueryCached(p, hit.id)
        /\ UNCHANGED handler
     \/ /\ hit.id.peer # p
        /\ hit.ttl > 1
        /\ handler' = [handler EXCEPT ![p] = Relaying(hit, <<>>)]
     \/ /\ hit.id.peer # p
        /\ hit.ttl = 1
        /\ UNCHANGED handler
  /\ UNCHANGED <<m_queries, m_replicate_query_filename, m_broadcast_queue, load_test>>

\* RelayQueryHit, and RelayQuery after it where HandleInvQuery goes on. A lookup
\* that misses inserts DefaultPeer; the assertion aborts the process.
RelayQueryHit(p) ==
  LET hit == handler[p].msg
      found == {m_queries[p][hit.id]} \cup
               (IF handler[p].racy THEN {Absent} ELSE {}) IN
  /\ alive[p]
  /\ handler[p].pc = "relay"
  /\ \E entry \in found :
       LET upstream == IF entry = Absent THEN DefaultPeer ELSE entry IN
       /\ m_queries' = [m_queries EXCEPT ![p][hit.id] = upstream]
       /\ lost' = IF entry = Absent THEN lost \cup {hit.id} ELSE lost
       /\ \/ /\ upstream \in Neighbors[p]
             /\ Send(p, {upstream}, hit)
             /\ BroadcastAll(p, handler[p].after)
             /\ handler' = [handler EXCEPT ![p] = Idle]
             /\ UNCHANGED alive
          \/ /\ upstream \notin Neighbors[p]
             /\ alive' = [alive EXCEPT ![p] = FALSE]
             /\ UNCHANGED <<sock, m_broadcast_queue, handler>>
  /\ UNCHANGED <<m_msg_id_counter, m_replicate_query_filename, m_messages_queue,
                 maintenance, callerVars, hitVars, asked>>

\* The race on m_queries may also end in an invalid memory access.
CrashInRelay(p) ==
  /\ alive[p]
  /\ handler[p].pc = "relay"
  /\ handler[p].racy
  /\ alive' = [alive EXCEPT ![p] = FALSE]
  /\ UNCHANGED <<m_msg_id_counter, m_queries, m_replicate_query_filename,
                 m_broadcast_queue, m_messages_queue, sock, handler, maintenance,
                 callerVars, hitVars, historyVars>>

\* The process of a neighbour that ends may leave its last message torn (module Links).
\* Such a message is dropped, which is as if it had not been read; or the handler looks
\* for a number that is missing, std::stoi throws, and this process ends, too.
TornMessage(p, q) ==
  /\ alive[q] /\ ~alive[p]
  /\ Len(sock[p][q]) = 1
  /\ m_messages_queue[q] = <<>>
  /\ handler[q].pc = "idle"
  /\ alive' = [alive EXCEPT ![q] = FALSE]
  /\ UNCHANGED <<m_msg_id_counter, m_queries, m_replicate_query_filename,
                 m_broadcast_queue, m_messages_queue, sock, handler, maintenance,
                 callerVars, hitVars, historyVars>>

\* MUTANT of EraseWait: the entry of m_wait_queryhit stays.
KeepWait(p, id) == UNCHANGED m_wait_queryhit
EraseWait(p, id) == m_wait_queryhit' = [m_wait_queryhit EXCEPT ![p][id] = NoFile]

\* The end of HandleQueryHit, and the first half of HandleWaitQueryHit: the hit
\* is recorded, and the file name somebody waits for is taken.
RecordQueryHit(p) ==
  LET hit == handler[p].msg
      filename == m_wait_queryhit[p][hit.id] IN
  /\ alive[p]
  /\ handler[p].pc = "record"
  /\ m_query_hit_result' = [m_query_hit_result EXCEPT ![p][hit.id] = Append(@, hit.peer)]
  /\ EraseWait(p, hit.id)
  /\ handler' = [handler EXCEPT ![p] =
                   IF filename = NoFile THEN Idle
                   ELSE [pc |-> "start", msg |-> hit, file |-> filename]]
  /\ UNCHANGED <<alive, m_msg_id_counter, m_queries, m_replicate_query_filename,
                 m_broadcast_queue, m_messages_queue, sock, maintenance, callerVars,
                 m_request_queue, historyVars>>

\* MUTANT of TransferRequests: every hit starts a download.
DownloadRequests(p, hit, file) ==
  [i \in DOMAIN m_query_hit_result[p][hit.id] |->
     [type |-> "download", file |-> file,
      server |-> m_query_hit_result[p][hit.id][i], id |-> hit.id]]

\* StartFileTransfer from the first responder, StartPushFile to the first ones:
\* the requests for CPeerFileClient.
TransferRequests(p, hit, file) ==
  LET results == m_query_hit_result[p][hit.id]
      wanted == IF hit.type = "query_hit" THEN 1
                ELSE IF HasFile(p, file) THEN ReplicationFactor - 1 ELSE 0
      count == IF wanted < Len(results) THEN wanted ELSE Len(results) IN
  [i \in 1 .. count |->
     [type |-> IF hit.type = "query_hit" THEN "download" ELSE "push",
      file |-> file, server |-> results[i], id |-> hit.id]]

\* The second half of HandleWaitQueryHit.
StartTransfers(p) ==
  /\ alive[p]
  /\ handler[p].pc = "start"
  /\ m_request_queue' = [m_request_queue EXCEPT ![p] =
       @ \o TransferRequests(p, handler[p].msg, handler[p].file)]
  /\ handler' = [handler EXCEPT ![p] = Idle]
  /\ UNCHANGED <<alive, m_msg_id_counter, m_queries, m_replicate_query_filename,
                 m_broadcast_queue, m_messages_queue, sock, maintenance, callerVars,
                 m_query_hit_result, m_wait_queryhit, historyVars>>
-----------------------------------------------------------------------------
(* The thread MantainQueryMapSize.                                         *)

\* MUTANT of Without: the comparison of the time stamps is the wrong way round.
WithoutYounger(ids, map, default) ==
  [id \in MsgIds |-> IF id \in ids THEN map[id] ELSE default]
Without(ids, map, default) == [id \in MsgIds |-> IF id \in ids THEN default ELSE map[id]]

\* Of one originator's ids the older ones time out first, and time only grows.
TimedOut(p, old) ==
  /\ maintenance[p].old \subseteq old
  /\ \A id \in old : \A k \in 0 .. id.num : [id EXCEPT !.num = k] \in old

EvictQueries(p) ==
  /\ Cardinality({id \in MsgIds : IsQueryCached(p, id)}) >= CacheLimit
  /\ alive[p]
  /\ maintenance[p].pc = "queries"
  /\ \E old \in SUBSET {msg.id : msg \in asked} :
       /\ TimedOut(p, old)
       /\ maintenance' = [maintenance EXCEPT ![p] = [pc |-> "results", old |-> old]]
       /\ m_queries' = [m_queries EXCEPT ![p] = Without(old, @, Absent)]
       /\ lost' = lost \cup {id \in old : IsQueryCached(p, id)}
  /\ handler' = Raced(p)
  /\ UNCHANGED <<alive, m_msg_id_counter, m_replicate_query_filename,
                 m_broadcast_queue, m_messages_queue, sock, callerVars, hitVars, asked>>

EvictQueryHitResults(p) ==
  /\ alive[p]
  /\ maintenance[p].pc = "results"
  /\ maintenance' = [maintenance EXCEPT ![p].pc = "waits"]
  /\ m_query_hit_result' =
       [m_query_hit_result EXCEPT ![p] = Without(maintenance[p].old, @, <<>>)]
  /\ UNCHANGED <<alive, m_msg_id_counter, m_queries, m_replicate_query_filename,
                 m_broadcast_queue, m_messages_queue, sock, handler, callerVars,
                 m_wait_queryhit, m_request_queue, historyVars>>

EvictWaits(p) ==
  /\ alive[p]
  /\ maintenance[p].pc = "waits"
  /\ maintenance' = [maintenance EXCEPT ![p].pc = "queries"]
  /\ m_wait_queryhit' =
       [m_wait_queryhit EXCEPT ![p] = Without(maintenance[p].old, @, NoFile)]
  /\ UNCHANGED <<alive, m_msg_id_counter, m_queries, m_replicate_query_filename,
                 m_broadcast_queue, m_messages_queue, sock, handler, callerVars,
                 m_query_hit_result, m_request_queue, historyVars>>

MantainQueryMapSize(p) ==
  EvictQueries(p) \/ EvictQueryHitResults(p) \/ EvictWaits(p)
-----------------------------------------------------------------------------
HandleMessageThread(p) ==
  \/ DropQuery(p)
  \/ HandleQuery(p)
  \/ HandleInvQuery(p)
  \/ HandleLoadTest(p)
  \/ RelayLoadTest(p)
  \/ HandleQueryHit(p)
  \/ RelayQueryHit(p)
  \/ RecordQueryHit(p)
  \/ StartTransfers(p)

StartReplicateAllFiles(p) == SelectFilesToReplicate(p) \/ ReplicateNextFile(p)

Next == \E p \in Peers :
  \/ Command(p)
  \/ StartReplicateAllFiles(p)
  \/ \E thread \in Testers : LoadTestCall(p, thread)
  \/ \E thread \in Callers : SetWaitQueryHit(p, thread)
  \/ BroadcastProcessThread(p)
  \/ \E q \in Neighbors[p] : DealWithRequest(q, p) \/ TornMessage(q, p)
  \/ HandleMessageThread(p)
  \/ CrashInRelay(p)
  \/ SigPipe(p)
  \/ MantainQueryMapSize(p)

Spec == Init /\ [][Next]_vars

\* The scheduler lets every thread run. Nothing makes the user type a command,
\* and MantainQueryMapSize may sleep.
Fairness == \A p \in Peers :
  /\ WF_vars(StartReplicateAllFiles(p))
  /\ \A thread \in Testers : WF_vars(LoadTestCall(p, thread))
  /\ \A thread \in Callers : WF_vars(SetWaitQueryHit(p, thread))
  /\ WF_vars(BroadcastProcessThread(p))
  /\ \A q \in Neighbors[p] : WF_vars(DealWithRequest(q, p))
  /\ WF_vars(HandleMessageThread(p))

FairSpec == Spec /\ Fairness
-----------------------------------------------------------------------------
(* Safety.                                                                 *)

\* The assertion in RelayQueryHit (peer_client.cpp:1035): the upstream of a hit
\* to be relayed is a connected peer, as long as no peer lost its entry of the
\* query. Query, duplicate, eviction and relay are steps of different peers.
RelayFindsUpstream == \A p \in Peers :
  handler[p].pc = "relay" /\ handler[p].msg.id \notin lost
    => m_queries[p][handler[p].msg.id] \in Neighbors[p]

\* That assertion without the condition: with the peer id that operator[] inserts
\* for a query that is no longer cached.
RelayAssertion == \A p \in Peers :
  LET entry == m_queries[p][handler[p].msg.id] IN
  alive[p] /\ handler[p].pc = "relay"
    => (IF entry = Absent THEN DefaultPeer ELSE entry) \in Neighbors[p]

\* README, QueryHit: the hit is passed back the way the query came. However the
\* copies of a query race around the cycles of the overlay, the upstream peers
\* recorded for it never form a cycle: every set of peers that have it cached,
\* without the originator, has a member whose upstream lies outside the set.
NoUpstreamCycle == \A id \in MsgIds \ lost : \A S \in SUBSET (Peers \ {id.peer}) :
  S # {} /\ (\A p \in S : IsQueryCached(p, id))
    => \E p \in S : m_queries[p][id] \notin S

Asked(id, type, file) ==
  \E msg \in asked : msg.id = id /\ msg.type = type /\ msg.file = file

\* The responders recorded at the originator of id.
QueryResults(id) == m_query_hit_result[id.peer][id]
Answers(server, msg) ==
  IF msg.type = "query" THEN msg.file \in m_files[server]
  ELSE msg.file \notin m_files[server]

\* Only the originator records responders, and each of them has the file asked
\* for (HandleQuery) or lacks the one to be replicated (HandleInvQuery), however
\* the hits of several queries and inverse queries are interleaved on their way.
HitsTruthful ==
  /\ \A p \in Peers, id \in MsgIds : id.peer # p => m_query_hit_result[p][id] = <<>>
  /\ \A msg \in asked : \A i \in DOMAIN QueryResults(msg.id) :
       Answers(QueryResults(msg.id)[i], msg)

\* A peer answers a query once, over however many paths it arrives, unless the
\* query was forgotten on the way.
NoDuplicateAnswers == \A id \in MsgIds \ lost :
  \A i, j \in DOMAIN QueryResults(id) : QueryResults(id)[i] = QueryResults(id)[j] => i = j

RequestsOf(p) == Range(m_request_queue[p])
RequestCount(p, id) == Cardinality({i \in DOMAIN m_request_queue[p] :
                                      m_request_queue[p][i].id = id})

\* A download goes to a peer that shares the file, a push to one that does not
\* share it already.
TransfersSensible == \A p \in Peers : \A req \in RequestsOf(p) :
  req.type = "download" <=> req.file \in m_files[req.server]

\* "delete wait queryhit, to avoid duplicate startFileTransfer"
\* (peer_client.cpp:561): whatever the number of hits and of threads that
\* register and consume, a query starts one download at most, an inverse query
\* one push for each missing replica, the message that spreads a load test nothing.
TransfersBounded == \A msg \in asked :
  RequestCount(msg.id.peer, msg.id) <=
    CASE msg.type = "query" -> 1
      [] msg.type = "inv_query" -> ReplicationFactor - 1
      [] OTHER -> 0

\* README, Replication: "a peer node will only deal with the replication of a
\* file once". In the whole overlay a file is pushed to a peer at most once, even
\* when several peers replicate it at the same time or caches are emptied.
PushedOnce == \A p, q \in Peers :
  \A i \in DOMAIN m_request_queue[p], j \in DOMAIN m_request_queue[q] :
    LET r == m_request_queue[p][i]
        s == m_request_queue[q][j] IN
    r.type = "push" /\ s.type = "push" /\ r.file = s.file /\ r.server = s.server
      => p = q /\ i = j

\* The abstract specification FileLookup: its answers are those recorded at the
\* originators, and the messages of the load tests are no queries.
Lookup == INSTANCE FileLookup WITH
  Ids <- MsgIds,
  Shares <- m_files,
  Replicas <- ReplicationFactor - 1,
  asked <- {[id |-> msg.id, type |-> msg.type, file |-> msg.file] :
              msg \in {q \in asked : q.type \notin TestTypes}},
  answers <- [id \in MsgIds |-> QueryResults(id)],
  transfers <- m_request_queue,
  forgotten <- lost

\* The peers, their caches and all their threads together do no more than FileLookup
\* allows: no answer is changed or doubled on its way, and none is dropped once it is
\* recorded, until somebody forgets the query, and each query starts its transfers once.
\* (That answers arrive is HitReturns.)
LookupCorrect == Lookup!Spec
-----------------------------------------------------------------------------
(* Liveness, under FairSpec.                                               *)

\* README, QueryHit: a hit that a peer is about to send or to pass on is recorded
\* at the originator in the end, over any number of hops, unless some peer forgot
\* the query or died.
HitReturns == \A responder \in Peers, id \in MsgIds :
  (\E p \in Peers : /\ handler[p].pc = "relay"
                    /\ handler[p].msg.id = id
                    /\ handler[p].msg.peer = responder)
    ~> (\/ id \in lost \/ \E q \in Peers : ~alive[q]
        \/ \E i \in DOMAIN QueryResults(id) : QueryResults(id)[i] = responder)

\* README, Query: a query for a file that another peer shares is answered in the
\* end, where the time to live suffices for the longest way around the overlay.
QueryAnswered == \A id \in MsgIds, file \in Files :
  (Asked(id, "query", file) /\ \E q \in Peers \ {id.peer} : file \in m_files[q])
    ~> (QueryResults(id) # <<>> \/ id \in lost \/ \E q \in Peers : ~alive[q])

\* README, Obtain: a peer that obtains a file establishes a connection with the
\* peer that sends the hit.
ObtainDownloads == \A p \in Peers, id \in MsgIds :
  (pending[p]["console"].id = id /\ Asked(id, "query", pending[p]["console"].file)
   /\ \E q \in Peers \ {p} : pending[p]["console"].file \in m_files[q])
    ~> (RequestCount(p, id) > 0 \/ id \in lost \/ \E q \in Peers : ~alive[q])

\* An obtain that HandleMessageThread makes in a load test always leads to a download:
\* the thread that would handle the hits is the one that has not registered the wait
\* yet. (The console has no such luck: ObtainDownloads.)
TestObtainsDownload == \A p \in Peers, id \in MsgIds :
  (pending[p]["handler"].id = id /\ \E q \in Peers \ {p} : pending[p]["handler"].file \in m_files[q])
    ~> (RequestCount(p, id) > 0 \/ id \in lost \/ \E q \in Peers : ~alive[q])

\* "go through all the queryhits in m_query_hit_result" (peer_client.cpp:565): an
\* inverse query that has started a transfer starts one for each of its hits, up
\* to the number of missing replicas.
AllHitsPushed == \A id \in MsgIds, k \in 1 .. (ReplicationFactor - 1) :
  (/\ \E file \in Files : Asked(id, "inv_query", file)
   /\ RequestCount(id.peer, id) > 0
   /\ Len(QueryResults(id)) >= k)
    ~> (RequestCount(id.peer, id) >= k)
=============================================================================
