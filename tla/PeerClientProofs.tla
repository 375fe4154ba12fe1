-------------------------- MODULE PeerClientProofs --------------------------
(***************************************************************************)
(* Proof that every variable of PeerClient keeps its type (TypeOK), for    *)
(* every overlay, every set of files and every bound. TypeOK is inductive: *)
(* the record types of the messages say which of them carry a file name and*)
(* that a time to live is never zero, and the guards of the handlers keep  *)
(* it so. One lemma per operator, then one per action.                     *)
(***************************************************************************)
EXTENDS PeerClient, SequenceTheorems, TLAPS
-----------------------------------------------------------------------------
(* The operators the actions are built from.                               *)

\* A handler that is interrupted in RelayQueryHit stays one.
LEMMA RacedType ==
  ASSUME TypeOK, NEW p \in Peers
  PROVE  Raced(p) \in [Peers -> Handlers]
<1>1. CASE handler[p].pc = "relay"
  <2>1. handler[p] \in [pc : {"relay"}, msg : Hits, after : Seq(BroadcastItem), racy : BOOLEAN]
    BY <1>1 DEF TypeOK, Handlers, Idle
  <2>2. [handler[p] EXCEPT !.racy = TRUE] \in Handlers
    BY <2>1 DEF Handlers
  <2> QED BY <1>1, <2>2 DEF Raced, TypeOK
<1>2. CASE handler[p].pc # "relay"
  BY <1>2 DEF Raced, TypeOK
<1> QED BY <1>1, <1>2

\* The messages of SendQuery, of SendInvQuery and of the load tests.
LEMMA QueryMessageType ==
  ASSUME TypeOK, NEW p \in Peers, NEW file \in Files, m_msg_id_counter[p] < MaxMsgId,
         NEW type \in {"query", "inv_query"} \cup TestTypes,
         type = "inv_query" => ReplicationFactor > 1
  PROVE  /\ NextId(p) \in MsgIds
         /\ QueryMessage(p, type, file) \in Queries
         /\ [msg |-> QueryMessage(p, type, file), exclude |-> NoPeer] \in BroadcastItem
<1>1. NextId(p) \in MsgIds
  BY NumbersAssumption DEF TypeOK, MsgIds, NextId
<1>2. QueryMessage(p, type, file) \in Queries
  <2>1. (CASE type = "inv_query" -> ReplicationFactor - 1
           [] type \in TestTypes -> RequiredPeer
           [] OTHER -> 0) \in Nat
    BY NumbersAssumption, LoadTestsAssumption DEF TestTypes
  <2> QED BY <1>1, <2>1, NumbersAssumption DEF QueryMessage, Queries
<1> QED BY <1>1, <1>2 DEF BroadcastItem

\* CacheQuery records a peer or -1, never Absent.
LEMMA CacheQueryType ==
  ASSUME TypeOK, NEW p \in Peers, NEW id \in MsgIds, NEW upstream \in Peers \cup {NoPeer},
         CacheQuery(p, id, upstream)
  PROVE  m_queries' \in [Peers -> [MsgIds -> Peers \cup {NoPeer, Absent}]]
BY DEF CacheQuery, TypeOK

\* Broadcast enqueues what it is given.
LEMMA BroadcastAllType ==
  ASSUME TypeOK, NEW p \in Peers, NEW items \in Seq(BroadcastItem), BroadcastAll(p, items)
  PROVE  m_broadcast_queue' \in [Peers -> Seq(BroadcastItem)]
BY ConcatProperties DEF TypeOK, BroadcastAll

\* SendQuery, SendInvQuery and the spreading of a load test, whatever the command does
\* with the new id.
LEMMA IssueType ==
  ASSUME TypeOK, NEW p \in Peers, NEW file \in Files,
         NEW type \in {"query", "inv_query"} \cup TestTypes,
         type = "inv_query" => ReplicationFactor > 1,
         Issue(p, type, file),
         message_id' \in [Peers -> MsgIds \cup {Unset}],
         pending' \in [Peers -> [Callers -> Calls \cup {NoCall}]],
         replicate_filenames' \in [Peers -> SUBSET (Files \cup {NoFile})],
         load_test' \in [Peers -> [Testers -> Seq(TestCalls)]]
  PROVE  TypeOK'
<1> DEFINE item == [msg |-> QueryMessage(p, type, file), exclude |-> NoPeer]
<1>1. NextId(p) \in MsgIds /\ item.msg \in Queries /\ item \in BroadcastItem
  BY QueryMessageType DEF Issue
<1>2. m_queries' \in [Peers -> [MsgIds -> Peers \cup {NoPeer, Absent}]]
  BY <1>1, CacheQueryType DEF Issue, QueryMessage
<1>3. m_broadcast_queue' \in [Peers -> Seq(BroadcastItem)]
  BY <1>1 DEF Issue, BroadcastAll, TypeOK
<1>4. m_msg_id_counter' \in [Peers -> 0 .. MaxMsgId]
  BY NumbersAssumption DEF Issue, TypeOK
<1>5. handler' \in [Peers -> Handlers]
  BY RacedType DEF Issue
<1>6. asked' \subseteq Queries
  BY <1>1 DEF Issue, TypeOK
<1> QED
  BY <1>2, <1>3, <1>4, <1>5, <1>6 DEF Issue, TypeOK, hitVars
-----------------------------------------------------------------------------
(* The actions.                                                            *)

\* The calls of a load test.
LEMMA CallsOfType ==
  ASSUME NEW type \in TestTypes, NEW file \in Files
  PROVE  CallsOf(type, file) \in Seq(TestCalls)
<1>1. LoadTests[type][file] \in Seq(Files)
  BY LoadTestsAssumption
<1>2. PICK n \in Nat : LoadTests[type][file] \in [1 .. n -> Files]
  BY <1>1, SeqDef
<1>3. CallsOf(type, file) \in [1 .. n -> TestCalls]
  BY <1>2 DEF CallsOf, TestCalls
<1> QED BY <1>3, SeqDef

\* The load tests of the console, up to their first call.
LEMMA LoadTestCommandType ==
  ASSUME TypeOK, NEW p \in Peers, NEW file \in Files, LoadTestCommand(p, file)
  PROVE  TypeOK'
<1>1. PICK type \in TestTypes :
        /\ \/ UNCHANGED <<alive, m_msg_id_counter, m_queries, m_broadcast_queue,
                          m_replicate_query_filename, m_messages_queue, sock,
                          handler, maintenance, hitVars, historyVars>>
           \/ Issue(p, type, file)
        /\ load_test' = [load_test EXCEPT ![p]["console"] = CallsOf(type, file)]
        /\ UNCHANGED <<message_id, pending, replicate_filenames>>
  BY DEF LoadTestCommand
<1>2. load_test' \in [Peers -> [Testers -> Seq(TestCalls)]]
  BY <1>1, CallsOfType DEF TypeOK, Testers
<1>3. CASE Issue(p, type, file)
  <2>1. type # "inv_query"
    BY DEF TestTypes
  <2> QED BY <1>1, <1>2, <1>3, <2>1, IssueType DEF TypeOK
<1>4. CASE ~Issue(p, type, file)
  BY <1>1, <1>2, <1>4 DEF TypeOK, hitVars, historyVars
<1> QED BY <1>3, <1>4

\* The commands of the user.
LEMMA CommandType ==
  ASSUME TypeOK, NEW p \in Peers, Command(p)
  PROVE  TypeOK'
<1> PICK file \in Files : \/ QueryCommand(p, file) \/ ObtainFile(p, file)
                          \/ InvQueryCommand(p, file) \/ ReplicateCommand(p, file)
                          \/ LoadTestCommand(p, file)
  BY DEF Command
<1>1. CASE QueryCommand(p, file)
  BY <1>1, IssueType, QueryMessageType DEF QueryCommand, TypeOK, Issue
<1>2. CASE ObtainFile(p, file)
  BY <1>2, IssueType, QueryMessageType DEF ObtainFile, TypeOK, Issue, Calls
<1>3. CASE InvQueryCommand(p, file)
  BY <1>3, IssueType, QueryMessageType DEF InvQueryCommand, TypeOK, Issue
<1>4. CASE ReplicateCommand(p, file)
  <2>1. CASE ReplicationFactor > 1
    <3>1. /\ Issue(p, "inv_query", file)
          /\ message_id' = [message_id EXCEPT ![p] = NextId(p)]
          /\ pending' = [pending EXCEPT ![p]["console"] = [id |-> NextId(p), file |-> file]]
          /\ UNCHANGED <<replicate_filenames, load_test>>
      BY <1>4, <2>1, NumbersAssumption DEF ReplicateCommand
    <3>2. NextId(p) \in MsgIds
      BY <2>1, <3>1, QueryMessageType DEF Issue
    <3>3. [id |-> NextId(p), file |-> file] \in Calls
      BY <3>2 DEF Calls
    <3>4. pending' \in [Peers -> [Callers -> Calls \cup {NoCall}]]
      BY <3>1, <3>3 DEF TypeOK, Callers
    <3>5. /\ message_id' \in [Peers -> MsgIds \cup {Unset}]
          /\ replicate_filenames' \in [Peers -> SUBSET (Files \cup {NoFile})]
          /\ load_test' \in [Peers -> [Testers -> Seq(TestCalls)]]
      BY <3>1, <3>2 DEF TypeOK
    <3> QED BY <2>1, <3>1, <3>4, <3>5, IssueType
  <2>2. CASE ReplicationFactor <= 1
    <3>1. pending' = [pending EXCEPT ![p]["console"] = [id |-> message_id[p], file |-> file]]
      BY <1>4, <2>2, NumbersAssumption DEF ReplicateCommand
    <3>2. [id |-> message_id[p], file |-> file] \in Calls
      BY DEF Calls, TypeOK
    <3>3. pending' \in [Peers -> [Callers -> Calls \cup {NoCall}]]
      BY <3>1, <3>2 DEF TypeOK, Callers
    <3> QED
      BY <1>4, <2>2, <3>3, NumbersAssumption
      DEF ReplicateCommand, TypeOK, hitVars, historyVars
  <2> QED BY <2>1, <2>2, NumbersAssumption
<1>5. CASE LoadTestCommand(p, file)
  BY <1>5, LoadTestCommandType
<1> QED BY <1>1, <1>2, <1>3, <1>4, <1>5

\* A call of a load test.
LEMMA LoadTestCallType ==
  ASSUME TypeOK, NEW p \in Peers, NEW thread \in Testers, LoadTestCall(p, thread)
  PROVE  TypeOK'
<1> DEFINE call == Head(load_test[p][thread])
<1>1. call \in TestCalls /\ Tail(load_test[p][thread]) \in Seq(TestCalls)
  BY HeadTailProperties DEF LoadTestCall, TypeOK
<1>2. call.file \in Files /\ Issue(p, "query", call.file)
  BY <1>1 DEF LoadTestCall, TestCalls
<1>3. NextId(p) \in MsgIds
  BY <1>2, QueryMessageType DEF Issue
<1>4. load_test' \in [Peers -> [Testers -> Seq(TestCalls)]]
  BY <1>1 DEF LoadTestCall, TypeOK
<1>5. pending' \in [Peers -> [Callers -> Calls \cup {NoCall}]]
  <2>1. [id |-> NextId(p), file |-> call.file] \in Calls
    BY <1>2, <1>3 DEF Calls
  <2> QED BY <2>1 DEF LoadTestCall, TypeOK
<1> QED
  BY <1>2, <1>4, <1>5, IssueType DEF LoadTestCall, TypeOK

\* The replicate thread.
LEMMA StartReplicateAllFilesType ==
  ASSUME TypeOK, NEW p \in Peers, StartReplicateAllFiles(p)
  PROVE  TypeOK'
<1>1. CASE SelectFilesToReplicate(p)
  BY <1>1, FilesAssumption DEF SelectFilesToReplicate, TypeOK, hitVars, historyVars
<1>2. CASE ReplicateNextFile(p)
  <2>1. PICK file \in replicate_filenames[p] \ NotStarted :
          /\ Issue(p, "inv_query", file)
          /\ replicate_filenames' = [replicate_filenames EXCEPT ![p] = @ \ {file}]
          /\ pending' = [pending EXCEPT ![p]["replicate"] = [id |-> NextId(p), file |-> file]]
          /\ UNCHANGED <<message_id, load_test>>
    BY <1>2 DEF ReplicateNextFile
  <2>2. file \in Files
    BY <2>1 DEF TypeOK, NotStarted
  <2>3. [id |-> NextId(p), file |-> file] \in Calls
    BY <1>2, <2>1, <2>2, QueryMessageType DEF Calls, Issue, ReplicateNextFile
  <2> QED
    BY <1>2, <2>1, <2>2, <2>3, IssueType DEF TypeOK, ReplicateNextFile, Callers
<1> QED BY <1>1, <1>2 DEF StartReplicateAllFiles

\* SetWaitQueryHit, with whatever id an uninitialised one may hold.
LEMMA SetWaitQueryHitType ==
  ASSUME TypeOK, NEW p \in Peers, NEW thread \in Callers, SetWaitQueryHit(p, thread)
  PROVE  TypeOK'
<1>1. pending[p][thread] \in Calls
  BY DEF TypeOK, SetWaitQueryHit
<1>2. m_wait_queryhit' \in [Peers -> [MsgIds -> Files \cup {NoFile}]]
  <2>1. PICK id \in MsgIds \cup {Unset} :
          m_wait_queryhit' = IF id = Unset THEN m_wait_queryhit
                             ELSE [m_wait_queryhit EXCEPT ![p][id] = pending[p][thread].file]
    BY <1>1 DEF SetWaitQueryHit, Calls
  <2> QED BY <1>1, <2>1 DEF TypeOK, Calls
<1>3. pending' \in [Peers -> [Callers -> Calls \cup {NoCall}]]
  BY DEF TypeOK, SetWaitQueryHit
<1> QED BY <1>2, <1>3 DEF TypeOK, SetWaitQueryHit, historyVars

\* Sending a message to some of the connected peers.
LEMMA SendType ==
  ASSUME TypeOK, NEW p \in Peers, NEW targets, NEW msg \in Message, Send(p, targets, msg)
  PROVE  sock' \in [Peers -> [Peers -> Seq(Message)]]
BY DEF TypeOK, Send

\* The broadcast thread.
LEMMA BroadcastProcessThreadType ==
  ASSUME TypeOK, NEW p \in Peers, BroadcastProcessThread(p)
  PROVE  TypeOK'
<1>1. /\ Head(m_broadcast_queue[p]) \in BroadcastItem
      /\ Tail(m_broadcast_queue[p]) \in Seq(BroadcastItem)
  BY HeadTailProperties DEF TypeOK, BroadcastProcessThread
<1>2. sock' \in [Peers -> [Peers -> Seq(Message)]]
  BY <1>1, SendType DEF BroadcastProcessThread, BroadcastItem, Message
<1> QED
  BY <1>1, <1>2 DEF TypeOK, BroadcastProcessThread, callerVars, hitVars, historyVars

\* The threads of CPeerServer.
LEMMA DealWithRequestType ==
  ASSUME TypeOK, NEW p \in Peers, NEW q \in Peers, DealWithRequest(p, q)
  PROVE  TypeOK'
<1>1. Head(sock[p][q]) \in Message /\ Tail(sock[p][q]) \in Seq(Message)
  BY HeadTailProperties DEF TypeOK, DealWithRequest
<1>2. sock' \in [Peers -> [Peers -> Seq(Message)]]
  BY <1>1 DEF TypeOK, DealWithRequest
<1>3. m_messages_queue' \in [Peers -> Seq(Message)]
  BY <1>1 DEF TypeOK, DealWithRequest
<1> QED
  BY <1>2, <1>3 DEF TypeOK, DealWithRequest, callerVars, hitVars, historyVars

\* A sender that dies of SIGPIPE.
LEMMA SigPipeType ==
  ASSUME TypeOK, NEW p \in Peers, SigPipe(p)
  PROVE  TypeOK'
<1>1. sock' \in [Peers -> [Peers -> Seq(Message)]]
  <2>1. CASE m_broadcast_queue[p] # <<>>
    <3>1. Head(m_broadcast_queue[p]) \in BroadcastItem
      BY <2>1, HeadTailProperties DEF TypeOK
    <3>2. Head(m_broadcast_queue[p]).msg \in Message
      BY <3>1 DEF BroadcastItem, Message
    <3> QED BY <3>2, SendType DEF SigPipe, TypeOK
  <2>2. CASE m_broadcast_queue[p] = <<>>
    BY <2>2 DEF SigPipe, TypeOK
  <2> QED BY <2>1, <2>2
<1> QED BY <1>1 DEF TypeOK, SigPipe, callerVars, hitVars, historyVars

\* What every handler finds and leaves when it takes a message.
LEMMA TakesType ==
  ASSUME TypeOK, NEW p \in Peers, NEW type, Takes(p, type)
  PROVE  /\ Head(m_messages_queue[p]) \in Message
         /\ type \in {"query", "inv_query"} \cup TestTypes => Head(m_messages_queue[p]) \in Queries
         /\ type \in {"query_hit", "inv_query_hit"} => Head(m_messages_queue[p]) \in Hits
         /\ m_messages_queue' \in [Peers -> Seq(Message)]
<1>1. /\ Head(m_messages_queue[p]) \in Message
      /\ m_messages_queue' \in [Peers -> Seq(Message)]
  BY HeadTailProperties DEF TypeOK, Takes
<1>2. Head(m_messages_queue[p]).type = type
  BY DEF Takes
<1> QED BY <1>1, <1>2 DEF Message, Queries, Hits, TestTypes

\* The hits a peer answers with.
LEMMA HitMessageType ==
  ASSUME NEW p \in Peers, NEW id \in MsgIds, NEW type \in {"query_hit", "inv_query_hit"}
  PROVE  HitMessage(p, type, id) \in Hits
BY NumbersAssumption DEF HitMessage, Hits

\* A query goes on with a time to live that is still positive.
LEMMA RelayedQueryType ==
  ASSUME NEW p \in Peers, NEW msg \in Queries, NEW factor \in Nat, msg.ttl > 1
  PROVE  RelayedQuery(p, msg, factor) \in BroadcastItem
<1> DEFINE relayed == [msg EXCEPT !.ttl = @ - 1, !.peer = p, !.factor = factor]
<1>1. msg.ttl - 1 \in 1 .. TTL
  BY NumbersAssumption DEF Queries
<1>2. relayed \in Queries
  BY <1>1 DEF Queries
<1> QED BY <1>2 DEF RelayedQuery, BroadcastItem, Queries

\* The handler about to relay a hit.
LEMMA RelayingType ==
  ASSUME NEW hit \in Hits, NEW after \in Seq(BroadcastItem)
  PROVE  Relaying(hit, after) \in Handlers
BY DEF Relaying, Handlers

\* A query that was seen before.
LEMMA DropQueryType ==
  ASSUME TypeOK, NEW p \in Peers, DropQuery(p)
  PROVE  TypeOK'
BY TakesType DEF TypeOK, DropQuery, Takes, callerVars, hitVars, historyVars

\* HandleQuery.
LEMMA HandleQueryType ==
  ASSUME TypeOK, NEW p \in Peers, HandleQuery(p)
  PROVE  TypeOK'
<1> DEFINE msg == Head(m_messages_queue[p])
<1>1. msg \in Queries /\ m_messages_queue' \in [Peers -> Seq(Message)]
  BY TakesType DEF HandleQuery
<1>2. msg.id \in MsgIds /\ msg.peer \in Peers /\ msg.factor \in Nat /\ msg.ttl \in 1 .. TTL
  BY <1>1 DEF Queries
<1>3. m_queries' \in [Peers -> [MsgIds -> Peers \cup {NoPeer, Absent}]]
  BY <1>2, CacheQueryType DEF HandleQuery
<1>4. handler' \in [Peers -> Handlers]
  <2>1. Relaying(HitMessage(p, "query_hit", msg.id), <<>>) \in Handlers
    BY <1>2, HitMessageType, RelayingType, EmptySeq
  <2> QED BY <2>1 DEF HandleQuery, TypeOK
<1>5. m_broadcast_queue' \in [Peers -> Seq(BroadcastItem)]
  <2>1. CASE msg.ttl > 1
    <3>1. RelayedQuery(p, msg, msg.factor) \in BroadcastItem
      BY <1>1, <1>2, <2>1, RelayedQueryType
    <3>2. \/ UNCHANGED m_broadcast_queue
          \/ BroadcastAll(p, <<RelayedQuery(p, msg, msg.factor)>>)
      BY DEF HandleQuery
    <3>3. <<RelayedQuery(p, msg, msg.factor)>> \in Seq(BroadcastItem)
      BY <3>1
    <3> QED BY <3>2, <3>3, BroadcastAllType DEF TypeOK
  <2>2. CASE msg.ttl = 1
    BY <1>2, <2>2 DEF HandleQuery, TypeOK
  <2> QED BY <1>2, <2>1, <2>2, NumbersAssumption
<1> QED
  BY <1>1, <1>3, <1>4, <1>5
  DEF TypeOK, HandleQuery, Takes, callerVars, hitVars, historyVars

\* HandleConcurrentTestQuery and HandleConcurrentTestObtain up to the calls.
LEMMA HandleLoadTestType ==
  ASSUME TypeOK, NEW p \in Peers, HandleLoadTest(p)
  PROVE  TypeOK'
<1> DEFINE msg == Head(m_messages_queue[p])
<1>1. msg \in Queries /\ msg.type \in TestTypes /\ m_messages_queue' \in [Peers -> Seq(Message)]
  BY TakesType DEF HandleLoadTest, Takes, TestTypes
<1>2. msg.id \in MsgIds /\ msg.peer \in Peers /\ msg.file \in Files
  BY <1>1 DEF Queries
<1>3. m_queries' \in [Peers -> [MsgIds -> Peers \cup {NoPeer, Absent}]]
  BY <1>2, CacheQueryType DEF HandleLoadTest
<1>4. handler' \in [Peers -> Handlers]
  <2>1. [pc |-> "test", msg |-> msg] \in Handlers
    BY <1>1 DEF Handlers
  <2> QED BY <2>1 DEF HandleLoadTest, TypeOK
<1>5. load_test' \in [Peers -> [Testers -> Seq(TestCalls)]]
  BY <1>1, <1>2, CallsOfType DEF HandleLoadTest, TypeOK
<1> QED
  BY <1>1, <1>3, <1>4, <1>5 DEF TypeOK, HandleLoadTest, Takes, hitVars, historyVars

\* HandleInvQuery.
LEMMA HandleInvQueryType ==
  ASSUME TypeOK, NEW p \in Peers, HandleInvQuery(p)
  PROVE  TypeOK'
<1> DEFINE msg == Head(m_messages_queue[p])
           relayed == InvQueriesToRelay(p, msg)
<1>1. msg \in Queries /\ m_messages_queue' \in [Peers -> Seq(Message)]
  BY TakesType DEF HandleInvQuery
<1>2. msg.id \in MsgIds /\ msg.peer \in Peers /\ msg.factor \in Nat /\ msg.file \in Files
  BY <1>1 DEF Queries
<1>3. m_queries' \in [Peers -> [MsgIds -> Peers \cup {NoPeer, Absent}]]
  BY <1>2, CacheQueryType DEF HandleInvQuery
<1>4. relayed \in Seq(BroadcastItem)
  <2>1. CASE msg.factor > 1 /\ msg.ttl > 1
    <3>1. RelayedQuery(p, msg, msg.factor - 1) \in BroadcastItem
      BY <1>1, <1>2, <2>1, RelayedQueryType
    <3> QED BY <2>1, <3>1 DEF InvQueriesToRelay
  <2>2. CASE ~(msg.factor > 1 /\ msg.ttl > 1)
    BY <2>2, EmptySeq DEF InvQueriesToRelay
  <2> QED BY <2>1, <2>2
<1>5. handler' \in [Peers -> Handlers]
  <2>1. Relaying(HitMessage(p, "inv_query_hit", msg.id), relayed) \in Handlers
    BY <1>2, <1>4, HitMessageType, RelayingType
  <2> QED BY <2>1 DEF HandleInvQuery, TypeOK
<1>6. m_broadcast_queue' \in [Peers -> Seq(BroadcastItem)]
  <2>1. UNCHANGED m_broadcast_queue \/ BroadcastAll(p, relayed)
    BY DEF HandleInvQuery
  <2> QED BY <1>4, <2>1, BroadcastAllType DEF TypeOK
<1>7. m_replicate_query_filename' \in [Peers -> SUBSET Files]
  BY <1>2 DEF HandleInvQuery, RecordReplicated, TypeOK
<1> QED
  BY <1>1, <1>3, <1>5, <1>6, <1>7
  DEF TypeOK, HandleInvQuery, Takes, callerVars, hitVars, historyVars

\* HandleQueryHit up to its locks.
LEMMA HandleQueryHitType ==
  ASSUME TypeOK, NEW p \in Peers, HandleQueryHit(p)
  PROVE  TypeOK'
<1> DEFINE hit == Head(m_messages_queue[p])
<1>1. hit \in Hits /\ m_messages_queue' \in [Peers -> Seq(Message)]
  BY TakesType DEF HandleQueryHit
<1>2. Relaying(hit, <<>>) \in Handlers /\ [pc |-> "record", msg |-> hit] \in Handlers
  BY <1>1, RelayingType, EmptySeq DEF Handlers
<1>3. handler' \in [Peers -> Handlers]
  BY <1>2 DEF HandleQueryHit, TypeOK
<1> QED
  BY <1>1, <1>3 DEF TypeOK, HandleQueryHit, Takes, callerVars, hitVars, historyVars

\* The handler's record in each of its states.
LEMMA HandlerType ==
  ASSUME TypeOK, NEW p \in Peers
  PROVE  /\ handler[p].pc = "relay" =>
              /\ handler[p].msg \in Hits
              /\ handler[p].msg.id \in MsgIds
              /\ handler[p].after \in Seq(BroadcastItem)
         /\ handler[p].pc = "record" => handler[p].msg \in Hits /\ handler[p].msg.id \in MsgIds
         /\ handler[p].pc = "start" =>
              /\ handler[p].msg \in Hits
              /\ handler[p].msg.id \in MsgIds
              /\ handler[p].file \in Files
         /\ handler[p].pc = "test" => handler[p].msg \in Queries /\ handler[p].msg.id \in MsgIds
<1>1. handler[p] \in Handlers
  BY DEF TypeOK
<1> QED BY <1>1 DEF Handlers, Idle, Hits, Queries

\* The handler that waits for a message.
LEMMA IdleType == Idle \in Handlers
BY DEF Handlers

\* The load test goes on to the neighbours.
LEMMA RelayLoadTestType ==
  ASSUME TypeOK, NEW p \in Peers, RelayLoadTest(p)
  PROVE  TypeOK'
<1> DEFINE msg == handler[p].msg
<1>1. msg \in Queries /\ msg.factor \in Nat
  BY HandlerType DEF RelayLoadTest, Queries
<1>2. m_broadcast_queue' \in [Peers -> Seq(BroadcastItem)]
  <2>1. CASE msg.ttl > 1
    <3>1. <<RelayedQuery(p, msg, msg.factor)>> \in Seq(BroadcastItem)
      BY <1>1, <2>1, RelayedQueryType
    <3>2. \/ UNCHANGED m_broadcast_queue
          \/ BroadcastAll(p, <<RelayedQuery(p, msg, msg.factor)>>)
      BY DEF RelayLoadTest
    <3> QED BY <3>1, <3>2, BroadcastAllType DEF TypeOK
  <2>2. CASE ~(msg.ttl > 1)
    BY <2>2 DEF RelayLoadTest, TypeOK
  <2> QED BY <2>1, <2>2
<1>3. handler' \in [Peers -> Handlers]
  BY IdleType DEF RelayLoadTest, TypeOK
<1> QED
  BY <1>2, <1>3 DEF TypeOK, RelayLoadTest, callerVars, hitVars, historyVars

\* RelayQueryHit, also where operator[] inserts the default peer.
LEMMA RelayQueryHitType ==
  ASSUME TypeOK, NEW p \in Peers, RelayQueryHit(p)
  PROVE  TypeOK'
<1> DEFINE hit == handler[p].msg
<1>1. hit \in Hits /\ hit.id \in MsgIds /\ handler[p].after \in Seq(BroadcastItem)
  BY HandlerType DEF RelayQueryHit
<1>2. PICK entry \in {m_queries[p][hit.id]} \cup (IF handler[p].racy THEN {Absent} ELSE {}) :
        LET upstream == IF entry = Absent THEN DefaultPeer ELSE entry IN
        /\ m_queries' = [m_queries EXCEPT ![p][hit.id] = upstream]
        /\ lost' = IF entry = Absent THEN lost \cup {hit.id} ELSE lost
        /\ \/ /\ upstream \in Neighbors[p]
              /\ Send(p, {upstream}, hit)
              /\ BroadcastAll(p, handler[p].after)
              /\ handler' = [handler EXCEPT ![p] = Idle]
              /\ UNCHANGED alive
           \/ /\ upstream \notin Neighbors[p]
              /\ alive' = [alive EXCEPT ![p] = FALSE]
              /\ UNCHANGED <<sock, m_broadcast_queue, handler>>
  BY DEF RelayQueryHit
<1>3. entry \in Peers \cup {NoPeer, Absent}
  BY <1>1, <1>2 DEF TypeOK
<1>4. m_queries' \in [Peers -> [MsgIds -> Peers \cup {NoPeer, Absent}]]
  BY <1>1, <1>2, <1>3, PeersAssumption DEF TypeOK
<1>5. lost' \subseteq MsgIds
  BY <1>1, <1>2 DEF TypeOK
<1>6. sock' \in [Peers -> [Peers -> Seq(Message)]]
  BY <1>1, <1>2, SendType DEF TypeOK, Message
<1>7. m_broadcast_queue' \in [Peers -> Seq(BroadcastItem)]
  BY <1>1, <1>2, BroadcastAllType DEF TypeOK
<1>8. handler' \in [Peers -> Handlers]
  BY <1>2, IdleType DEF TypeOK
<1>9. alive' \in [Peers -> BOOLEAN]
  BY <1>2 DEF TypeOK
<1> QED
  BY <1>4, <1>5, <1>6, <1>7, <1>8, <1>9
  DEF TypeOK, RelayQueryHit, callerVars, hitVars, historyVars

\* A crash in RelayQueryHit.
LEMMA CrashInRelayType ==
  ASSUME TypeOK, NEW p \in Peers, CrashInRelay(p)
  PROVE  TypeOK'
BY DEF TypeOK, CrashInRelay, callerVars, hitVars, historyVars

\* A crash over a torn message.
LEMMA TornMessageType ==
  ASSUME TypeOK, NEW p \in Peers, NEW q \in Peers, TornMessage(p, q)
  PROVE  TypeOK'
BY DEF TypeOK, TornMessage, callerVars, hitVars, historyVars

\* The end of HandleQueryHit.
LEMMA RecordQueryHitType ==
  ASSUME TypeOK, NEW p \in Peers, RecordQueryHit(p)
  PROVE  TypeOK'
<1> DEFINE hit == handler[p].msg
           filename == m_wait_queryhit[p][hit.id]
<1>1. hit \in Hits /\ hit.id \in MsgIds /\ hit.peer \in Peers
  BY HandlerType DEF RecordQueryHit, Hits
<1>2. m_query_hit_result' \in [Peers -> [MsgIds -> Seq(Peers)]]
  <2>1. m_query_hit_result[p][hit.id] \in Seq(Peers)
    BY <1>1 DEF TypeOK
  <2>2. Append(m_query_hit_result[p][hit.id], hit.peer) \in Seq(Peers)
    BY <1>1, <2>1
  <2>3. m_query_hit_result' =
          [m_query_hit_result EXCEPT ![p][hit.id] = Append(m_query_hit_result[p][hit.id], hit.peer)]
    BY DEF RecordQueryHit
  <2> QED BY <1>1, <2>2, <2>3 DEF TypeOK
<1>3. m_wait_queryhit' \in [Peers -> [MsgIds -> Files \cup {NoFile}]]
  BY <1>1 DEF RecordQueryHit, EraseWait, TypeOK
<1>4. handler' \in [Peers -> Handlers]
  <2>1. filename # NoFile => [pc |-> "start", msg |-> hit, file |-> filename] \in Handlers
    BY <1>1 DEF TypeOK, Handlers
  <2> QED BY <2>1, IdleType DEF RecordQueryHit, TypeOK
<1> QED
  BY <1>2, <1>3, <1>4 DEF TypeOK, RecordQueryHit, callerVars, historyVars

\* A function on 1 .. n is a sequence.
LEMMA FunctionIsSeq ==
  ASSUME NEW S, NEW n \in Nat, NEW f \in [1 .. n -> S]
  PROVE  f \in Seq(S)
BY SeqDef

\* The requests for CPeerFileClient, none where the replication factor is 0.
LEMMA TransferRequestsType ==
  ASSUME TypeOK, NEW p \in Peers, NEW hit \in Hits, NEW file \in Files
  PROVE  TransferRequests(p, hit, file) \in Seq(Requests)
<1> DEFINE results == m_query_hit_result[p][hit.id]
           wanted == IF hit.type = "query_hit" THEN 1
                     ELSE IF HasFile(p, file) THEN ReplicationFactor - 1 ELSE 0
           count == IF wanted < Len(results) THEN wanted ELSE Len(results)
           type == IF hit.type = "query_hit" THEN "download" ELSE "push"
           request(i) == [type |-> type, file |-> file, server |-> results[i], id |-> hit.id]
<1>1. hit.id \in MsgIds /\ results \in Seq(Peers)
  BY DEF Hits, TypeOK
<1>2. Len(results) \in Nat /\ count \in Int /\ count <= Len(results)
  BY <1>1, LenProperties, NumbersAssumption
<1>3. ASSUME NEW i \in 1 .. count PROVE request(i) \in Requests
  <2>1. results[i] \in Peers
    BY <1>1, <1>2, ElementOfSeq
  <2> QED BY <1>1, <2>1 DEF Requests
<1>4. PICK n \in Nat : 1 .. count = 1 .. n
  BY <1>2
<1>5. [i \in 1 .. count |-> request(i)] \in [1 .. n -> Requests]
  BY <1>3, <1>4
<1>6. [i \in 1 .. count |-> request(i)] \in Seq(Requests)
  BY <1>5, FunctionIsSeq
<1> QED BY <1>6 DEF TransferRequests

\* The end of HandleWaitQueryHit.
LEMMA StartTransfersType ==
  ASSUME TypeOK, NEW p \in Peers, StartTransfers(p)
  PROVE  TypeOK'
<1>1. TransferRequests(p, handler[p].msg, handler[p].file) \in Seq(Requests)
  BY HandlerType, TransferRequestsType DEF StartTransfers
<1>2. m_request_queue' \in [Peers -> Seq(Requests)]
  BY <1>1, ConcatProperties DEF StartTransfers, TypeOK
<1>3. handler' \in [Peers -> Handlers]
  BY IdleType DEF StartTransfers, TypeOK
<1> QED
  BY <1>2, <1>3 DEF TypeOK, StartTransfers, callerVars, historyVars

\* A cache after its old entries were erased.
LEMMA WithoutType ==
  ASSUME NEW T, NEW ids, NEW map \in [MsgIds -> T], NEW default \in T
  PROVE  Without(ids, map, default) \in [MsgIds -> T]
BY DEF Without

\* The maintenance of the caches.
LEMMA MantainQueryMapSizeType ==
  ASSUME TypeOK, NEW p \in Peers, MantainQueryMapSize(p)
  PROVE  TypeOK'
<1>1. CASE EvictQueries(p)
  <2>1. PICK old \in SUBSET {msg.id : msg \in asked} :
          /\ maintenance' = [maintenance EXCEPT ![p] = [pc |-> "results", old |-> old]]
          /\ m_queries' = [m_queries EXCEPT ![p] = Without(old, @, Absent)]
          /\ lost' = lost \cup {id \in old : IsQueryCached(p, id)}
    BY <1>1 DEF EvictQueries
  <2>2. old \subseteq MsgIds
    BY DEF TypeOK, Queries
  <2>3. maintenance' \in [Peers -> Maintenance]
    BY <2>1, <2>2 DEF TypeOK, Maintenance
  <2>4. m_queries' \in [Peers -> [MsgIds -> Peers \cup {NoPeer, Absent}]]
    BY <2>1, WithoutType DEF TypeOK
  <2>5. lost' \subseteq MsgIds
    BY <2>1, <2>2 DEF TypeOK
  <2>6. handler' \in [Peers -> Handlers]
    BY <1>1, RacedType DEF EvictQueries
  <2> QED
    BY <1>1, <2>3, <2>4, <2>5, <2>6
    DEF TypeOK, EvictQueries, callerVars, hitVars
<1>2. CASE EvictQueryHitResults(p)
  <2>1. m_query_hit_result' \in [Peers -> [MsgIds -> Seq(Peers)]]
    BY <1>2, WithoutType, EmptySeq DEF TypeOK, EvictQueryHitResults
  <2>2. maintenance' \in [Peers -> Maintenance]
    BY <1>2 DEF TypeOK, EvictQueryHitResults, Maintenance
  <2> QED
    BY <1>2, <2>1, <2>2 DEF TypeOK, EvictQueryHitResults, callerVars, historyVars
<1>3. CASE EvictWaits(p)
  <2>1. m_wait_queryhit' \in [Peers -> [MsgIds -> Files \cup {NoFile}]]
    BY <1>3, WithoutType DEF TypeOK, EvictWaits
  <2>2. maintenance' \in [Peers -> Maintenance]
    <3>1. [maintenance[p] EXCEPT !.pc = "queries"] \in Maintenance
      BY DEF TypeOK, Maintenance
    <3> QED BY <1>3, <3>1 DEF TypeOK, EvictWaits
  <2> QED
    BY <1>3, <2>1, <2>2 DEF TypeOK, EvictWaits, callerVars, historyVars
<1> QED BY <1>1, <1>2, <1>3 DEF MantainQueryMapSize
-----------------------------------------------------------------------------
(* All steps.                                                              *)

\* The state after Register().
LEMMA InitType == Init => TypeOK
<1> SUFFICES ASSUME Init PROVE TypeOK
  OBVIOUS
<1>1. Unset \notin {} /\ Rested \in Maintenance
  BY DEF Rested, Maintenance
<1> QED
  BY <1>1, IdleType, EmptySeq, NumbersAssumption DEF Init, TypeOK, NotStarted

\* Every step keeps every variable in its type.
LEMMA NextType == TypeOK /\ [Next]_vars => TypeOK'
<1> SUFFICES ASSUME TypeOK, [Next]_vars PROVE TypeOK'
  OBVIOUS
<1>1. CASE UNCHANGED vars
  BY <1>1 DEF TypeOK, vars, callerVars, hitVars, historyVars
<1>2. ASSUME NEW p \in Peers, HandleMessageThread(p) PROVE TypeOK'
  BY <1>2, DropQueryType, HandleQueryType, HandleInvQueryType, HandleLoadTestType,
     RelayLoadTestType, HandleQueryHitType, RelayQueryHitType, RecordQueryHitType, StartTransfersType DEF HandleMessageThread
<1>3. ASSUME NEW p \in Peers, NEW q \in Neighbors[p], DealWithRequest(q, p) \/ TornMessage(q, p) PROVE TypeOK'
  BY <1>3, DealWithRequestType, TornMessageType, NeighborsAssumption
<1> QED
  BY <1>1, <1>2, <1>3, CommandType, LoadTestCallType, StartReplicateAllFilesType, SetWaitQueryHitType,
     BroadcastProcessThreadType, CrashInRelayType, SigPipeType, MantainQueryMapSizeType
  DEF Next

\* The variables of every peer stay in their types: no handler produces a message
\* with a spent time to live, a hit with a file name or a query without one, and
\* no id beyond those issued.
THEOREM TypeCorrect == Spec => []TypeOK
BY InitType, NextType, PTL DEF Spec
=============================================================================
