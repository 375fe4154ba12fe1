--------------------------- MODULE PeerClientAnswers ---------------------------
(***************************************************************************)
(* Proofs about the answers to a query, for every overlay, every set of    *)
(* files and every bound of PeerClient: that each recorded responder has   *)
(* what was asked for (HitsTruthful).                                      *)
(***************************************************************************)
EXTENDS PeerClientUpstream

-----------------------------------------------------------------------------
(* The names of queries.                                                   *)

\* A step asks nothing, or is one of the calls that issue a query.
Issues == \E p \in Peers, file \in Files, type \in {"query", "inv_query"} \cup TestTypes :
  (type = "inv_query" => ReplicationFactor > 1) /\ Issue(p, type, file)

\* Only Issue counts the message ids and asks.
LEMMA NextIssues ==
  ASSUME TypeOK, [Next]_vars
  PROVE  UNCHANGED <<asked, m_msg_id_counter>> \/ Issues
<1>1. CASE UNCHANGED vars
  BY <1>1 DEF vars, historyVars
<1>2. ASSUME NEW p \in Peers, Command(p)
      PROVE  UNCHANGED <<asked, m_msg_id_counter>> \/ Issues
  <2>1. PICK file \in Files : \/ QueryCommand(p, file) \/ ObtainFile(p, file)
                              \/ InvQueryCommand(p, file) \/ ReplicateCommand(p, file)
                              \/ LoadTestCommand(p, file)
    BY <1>2 DEF Command
  <2>2. CASE LoadTestCommand(p, file)
    <3>1. \A type \in TestTypes : type # "inv_query"
      BY DEF TestTypes
    <3> QED BY <2>2, <3>1 DEF LoadTestCommand, Issues, historyVars
  <2> QED BY <2>1, <2>2
          DEF QueryCommand, ObtainFile, InvQueryCommand, ReplicateCommand, Issues, historyVars
<1>3. ASSUME NEW p \in Peers, StartReplicateAllFiles(p)
      PROVE  UNCHANGED <<asked, m_msg_id_counter>> \/ Issues
  <2>1. CASE SelectFilesToReplicate(p)
    BY <2>1 DEF SelectFilesToReplicate, historyVars
  <2>2. CASE ReplicateNextFile(p)
    BY <2>2 DEF ReplicateNextFile, Issues, TypeOK, NotStarted
  <2> QED BY <1>3, <2>1, <2>2 DEF StartReplicateAllFiles
<1>4. ASSUME NEW p \in Peers, NEW thread \in Testers, LoadTestCall(p, thread)
      PROVE  UNCHANGED <<asked, m_msg_id_counter>> \/ Issues
  <2>1. Head(load_test[p][thread]) \in TestCalls
    BY <1>4, HeadTailProperties DEF LoadTestCall, TypeOK
  <2> QED BY <1>4, <2>1 DEF LoadTestCall, Issues, TestCalls
<1>5. ASSUME NEW p \in Peers,
             \/ \E thread \in Callers : SetWaitQueryHit(p, thread)
             \/ BroadcastProcessThread(p)
             \/ \E q \in Neighbors[p] : DealWithRequest(q, p) \/ TornMessage(q, p)
             \/ CrashInRelay(p) \/ SigPipe(p) \/ MantainQueryMapSize(p)
      PROVE  UNCHANGED <<asked, m_msg_id_counter>>
  BY <1>5 DEF SetWaitQueryHit, BroadcastProcessThread, DealWithRequest, TornMessage, CrashInRelay, SigPipe,
              MantainQueryMapSize, EvictQueries, EvictQueryHitResults, EvictWaits, historyVars
<1>6. ASSUME NEW p \in Peers, HandleMessageThread(p)
      PROVE  UNCHANGED <<asked, m_msg_id_counter>>
  BY <1>6 DEF HandleMessageThread, DropQuery, HandleQuery, HandleInvQuery, HandleLoadTest,
              RelayLoadTest, HandleQueryHit, RelayQueryHit, RecordQueryHit, StartTransfers,
              Takes, historyVars
<1> QED BY <1>1, <1>2, <1>3, <1>4, <1>5, <1>6 DEF Next

\* The call asks the query msg.
Asks(p, type, file, msg) ==
  /\ msg = QueryMessage(p, type, file)
  /\ msg.id = NextId(p) /\ msg.id \in MsgIds
  /\ msg.id.peer = p /\ msg.id.num = m_msg_id_counter[p]
  /\ msg.type = type /\ msg.file = file /\ msg.peer = p
  /\ asked' = asked \cup {msg}
  /\ [msg |-> msg, exclude |-> NoPeer] \in BroadcastItem
  /\ BroadcastAll(p, <<[msg |-> msg, exclude |-> NoPeer]>>)

\* What a call that issues a query asks.
LEMMA IssueAsks ==
  ASSUME TypeOK, NEW p \in Peers, NEW file \in Files,
         NEW type \in {"query", "inv_query"} \cup TestTypes,
         type = "inv_query" => ReplicationFactor > 1, Issue(p, type, file)
  PROVE  \E msg \in Queries : Asks(p, type, file, msg)
BY QueryMessageType DEF Issue, QueryMessage, NextId, Asks

\* Nothing that was asked is forgotten by the history.
LEMMA AskedGrows ==
  ASSUME TypeOK, [Next]_vars
  PROVE  asked \subseteq asked'
BY NextIssues DEF Issues, Issue

\* Every step keeps what its peers know of a query, except for lost ids.
LEMMA StepRemembers ==
  ASSUME TypeOK, UpstreamInv, [Next]_vars
  PROVE  Remembers
BY NextStep, ForgetsRemembers, LearnsRemembers DEF Step

\* The next id is new.
LEMMA NextIdNew ==
  ASSUME TypeOK, IdsInv, NEW p \in Peers
  PROVE  \A msg \in asked : msg.id # NextId(p)
BY DEF IdsInv, NextId, TypeOK, Queries, MsgIds

\* Ids stay unique, and originators keep their queries.
LEMMA IdsStep ==
  ASSUME TypeOK, UpstreamInv, IdsInv, [Next]_vars
  PROVE  IdsInv'
<1>1. Remembers /\ asked \subseteq Queries
  BY StepRemembers DEF TypeOK
<1>2. ASSUME NEW msg \in asked PROVE Known(msg.id.peer, msg.id)'
  <2>1. msg.id \in MsgIds /\ msg.id.peer \in Peers
    BY <1>1 DEF Queries, MsgIds
  <2> QED BY <1>1, <2>1, KnownStays DEF IdsInv
<1>3. CASE UNCHANGED <<asked, m_msg_id_counter>>
  BY <1>2, <1>3 DEF IdsInv
<1>4. CASE Issues
  <2>1. PICK p \in Peers, file \in Files, type \in {"query", "inv_query"} \cup TestTypes :
          (type = "inv_query" => ReplicationFactor > 1) /\ Issue(p, type, file)
    BY <1>4 DEF Issues
  <2>2. PICK msg \in Queries : Asks(p, type, file, msg)
    BY <2>1, IssueAsks
  <2>3. \A other \in asked : other.id # msg.id
    BY <2>2, NextIdNew DEF Asks
  <2>4. /\ m_msg_id_counter' = [m_msg_id_counter EXCEPT ![p] = @ + 1]
        /\ CacheQuery(p, msg.id, NoPeer)
    BY <2>1, <2>2 DEF Issue, Asks
  <2>5. Known(p, msg.id)'
    <3>1. NoPeer # Absent
      BY DEF NoPeer, Absent
    <3> QED BY <2>2, <2>4, <3>1 DEF Asks, Known, CacheQuery, IsQueryCached, TypeOK
  <2>6. \A other \in asked' : other.id.num < m_msg_id_counter'[other.id.peer]
    <3>1. ASSUME NEW other \in asked PROVE other.id.num < m_msg_id_counter'[other.id.peer]
      <4>1. /\ other.id.num < m_msg_id_counter[other.id.peer]
            /\ other.id.peer \in Peers /\ other.id.num \in Nat
        BY <1>1, NumbersAssumption DEF IdsInv, Queries, MsgIds
      <4>2. m_msg_id_counter[other.id.peer] \in Nat
        BY <4>1, NumbersAssumption DEF TypeOK
      <4>3. m_msg_id_counter'[other.id.peer] \in
              {m_msg_id_counter[other.id.peer], m_msg_id_counter[other.id.peer] + 1}
        BY <2>4, <4>1 DEF TypeOK
      <4> QED BY <4>1, <4>2, <4>3
    <3>2. msg.id.num < m_msg_id_counter'[msg.id.peer]
      BY <2>2, <2>4 DEF TypeOK, Asks
    <3> QED BY <2>2, <3>1, <3>2 DEF Asks
  <2>7. \A a, b \in asked' : a.id = b.id => a = b
    BY <2>2, <2>3 DEF IdsInv, Asks
  <2>8. \A other \in asked' : Known(other.id.peer, other.id)'
    BY <1>2, <2>2, <2>5 DEF Asks
  <2> QED BY <2>6, <2>7, <2>8 DEF IdsInv
<1> QED BY <1>3, <1>4, NextIssues
-----------------------------------------------------------------------------
(* The parts of GenuineInv.                                                *)

\* What descends from a query that was asked always does.
LEMMA GenuineStays ==
  ASSUME asked \subseteq asked', NEW msg, Genuine(msg)
  PROVE  Genuine(msg)'
BY DEF Genuine, Traces, Answers

\* Who has answered always has.
LEMMA RecordedStays ==
  ASSUME asked \subseteq asked', NEW p, NEW id, NEW server, Recorded(p, id, server)
  PROVE  Recorded(p, id, server)'
BY DEF Recorded, Answers

\* The handler has the message it had before and goes on with it as it was about to, or
\* has nothing to do.
KeepsTask(p) == handler'[p].pc # "idle" =>
  /\ handler'[p].pc = handler[p].pc
  /\ handler'[p].msg = handler[p].msg
  /\ handler[p].pc = "relay" => handler'[p].after = handler[p].after
  /\ handler[p].pc = "start" => handler'[p].file = handler[p].file

\* Raced changes a flag of the handler only.
LEMMA RacedKeepsTask ==
  ASSUME TypeOK, NEW p \in Peers, handler' = Raced(p)
  PROVE  \A q \in Peers : KeepsTask(q)
<1> SUFFICES ASSUME NEW q \in Peers PROVE KeepsTask(q)
  OBVIOUS
<1>1. handler[p] \in Handlers
  BY DEF TypeOK
<1> QED BY <1>1 DEF KeepsTask, Raced, Handlers, TypeOK

\* A handler that has ended its task.
LEMMA IdleKeepsTask ==
  ASSUME TypeOK, NEW p \in Peers, handler' = [handler EXCEPT ![p] = Idle]
  PROVE  \A q \in Peers : KeepsTask(q)
BY DEF KeepsTask, Idle, TypeOK

\* A handler that goes on with its message.
LEMMA HandlerGenuineStays ==
  ASSUME asked \subseteq asked', NEW p \in Peers, HandlerGenuine(p), KeepsTask(p)
  PROVE  HandlerGenuine(p)'
<1> SUFFICES ASSUME handler'[p].pc # "idle" PROVE HandlerGenuine(p)'
  BY DEF HandlerGenuine
<1>1. /\ handler'[p].pc = handler[p].pc /\ handler'[p].msg = handler[p].msg
      /\ handler[p].pc = "relay" => handler'[p].after = handler[p].after
  BY DEF KeepsTask
<1>2. Genuine(handler[p].msg)
  BY <1>1 DEF HandlerGenuine
<1>3. \E query \in asked' : Traces(handler'[p].msg, query)
  BY <1>1, <1>2 DEF Genuine
<1>4. ASSUME handler'[p].pc = "relay", NEW item \in Range(handler'[p].after)
      PROVE  Genuine(item.msg)'
  BY <1>1, <1>4, GenuineStays DEF HandlerGenuine
<1> QED BY <1>1, <1>3, <1>4 DEF HandlerGenuine, Genuine, Traces, Answers

\* What a step has to respect: everything it puts somewhere is genuine.
LEMMA GenuineStep ==
  ASSUME TypeOK, GenuineInv, IdsInv', asked \subseteq asked',
         \A p \in Peers : \A item \in Range(m_broadcast_queue'[p]) :
           item \in Range(m_broadcast_queue[p]) \/ Genuine(item.msg)',
         \A p, q \in Peers : \A msg \in Range(sock'[p][q]) :
           msg \in Range(sock[p][q]) \/ Genuine(msg),
         \A p \in Peers : \A msg \in Range(m_messages_queue'[p]) :
           msg \in Range(m_messages_queue[p]) \/ Genuine(msg),
         \A p \in Peers : HandlerGenuine(p)',
         \A p \in Peers, id \in MsgIds : \A server \in Range(m_query_hit_result'[p][id]) :
           server \in Range(m_query_hit_result[p][id]) \/ Recorded(p, id, server)
  PROVE  GenuineInv'
<1>1. ASSUME NEW p \in Peers, NEW item \in Range(m_broadcast_queue'[p]) PROVE Genuine(item.msg)'
  BY GenuineStays DEF GenuineInv
<1>2. ASSUME NEW p \in Peers, NEW q \in Peers, NEW msg \in Range(sock'[p][q]) PROVE Genuine(msg)'
  BY GenuineStays DEF GenuineInv
<1>3. ASSUME NEW p \in Peers, NEW msg \in Range(m_messages_queue'[p]) PROVE Genuine(msg)'
  BY GenuineStays DEF GenuineInv
<1>4. ASSUME NEW p \in Peers, NEW id \in MsgIds, NEW server \in Range(m_query_hit_result'[p][id])
      PROVE  Recorded(p, id, server)'
  BY RecordedStays DEF GenuineInv
<1> QED BY <1>1, <1>2, <1>3, <1>4 DEF GenuineInv

\* Where the items in the broadcast queues come from after BroadcastAll.
LEMMA BroadcastAllRange ==
  ASSUME TypeOK, NEW p \in Peers, NEW items \in Seq(BroadcastItem), BroadcastAll(p, items)
  PROVE  \A q \in Peers : \A item \in Range(m_broadcast_queue'[q]) :
           item \in Range(m_broadcast_queue[q]) \/ item \in Range(items)
<1>1. m_broadcast_queue[p] \in Seq(BroadcastItem)
  BY DEF TypeOK
<1>2. Range(m_broadcast_queue[p] \o items) \subseteq Range(m_broadcast_queue[p]) \cup Range(items)
  BY <1>1, RangeConcat
<1> QED BY <1>2 DEF TypeOK, BroadcastAll

\* Where the messages in the sockets come from after Send.
LEMMA SendRange ==
  ASSUME TypeOK, NEW p \in Peers, NEW targets, NEW msg \in Message, Send(p, targets, msg)
  PROVE  \A r, q \in Peers : \A m \in Range(sock'[r][q]) : m \in Range(sock[r][q]) \/ m = msg
<1> SUFFICES ASSUME NEW r \in Peers, NEW q \in Peers, NEW m \in Range(sock'[r][q])
             PROVE  m \in Range(sock[r][q]) \/ m = msg
  OBVIOUS
<1>1. sock'[r][q] = sock[r][q] \/ sock'[r][q] = Append(sock[r][q], msg)
  BY DEF Send, TypeOK
<1>2. Range(Append(sock[r][q], msg)) \subseteq Range(sock[r][q]) \cup {msg}
  <2>1. sock[r][q] \in Seq(Message)
    BY DEF TypeOK
  <2> QED BY <2>1, RangeAppend
<1> QED BY <1>1, <1>2

\* A relayed query says what the query says.
LEMMA RelayedGenuine ==
  ASSUME NEW p \in Peers, NEW msg \in Queries, NEW factor \in Nat, msg.ttl > 1, Genuine(msg)
  PROVE  Genuine(RelayedQuery(p, msg, factor).msg)
<1>1. RelayedQuery(p, msg, factor) \in BroadcastItem
  BY RelayedQueryType
<1>2. PICK relayed \in Queries :
        /\ relayed = RelayedQuery(p, msg, factor).msg /\ relayed.id = msg.id
        /\ relayed.type = msg.type /\ relayed.file = msg.file
  BY <1>1 DEF RelayedQuery, BroadcastItem, Queries
<1> QED BY <1>2 DEF Genuine, Traces

\* A hit says who has, or lacks, the file of the query it answers.
LEMMA HitGenuine ==
  ASSUME NEW p \in Peers, NEW msg \in Queries, Genuine(msg),
         NEW type \in {"query_hit", "inv_query_hit"},
         msg.type = IF type = "query_hit" THEN "query" ELSE "inv_query",
         IF type = "query_hit" THEN HasFile(p, msg.file) ELSE ~HasFile(p, msg.file)
  PROVE  Genuine(HitMessage(p, type, msg.id))
<1> DEFINE hit == HitMessage(p, type, msg.id)
<1>1. msg.id \in MsgIds
  BY DEF Queries
<1>2. hit \in Hits /\ hit \notin Queries
  BY <1>1, HitMessageType DEF Queries, Hits, TestTypes
<1>3. hit.id = msg.id /\ hit.type = type /\ hit.peer = p
  BY DEF HitMessage
<1>4. PICK query \in asked : query.id = msg.id /\ msg.type = query.type /\ msg.file = query.file
  BY DEF Genuine, Traces
<1>5. Answers(p, query)
  BY <1>4 DEF Answers, HasFile
<1> HIDE DEF hit
<1>6. Traces(hit, query)
  BY <1>2, <1>3, <1>4, <1>5 DEF Traces
<1> QED BY <1>6 DEF Genuine, hit

\* A handler that begins to relay what is genuine.
LEMMA BeginsGenuine ==
  ASSUME TypeOK, GenuineInv, asked \subseteq asked', NEW p \in Peers, NEW q \in Peers,
         NEW hit, NEW after, Genuine(hit), \A item \in Range(after) : Genuine(item.msg),
         handler' = [handler EXCEPT ![p] = Relaying(hit, after)]
  PROVE  HandlerGenuine(q)'
<1>1. CASE q # p
  BY <1>1, HandlerGenuineStays DEF KeepsTask, GenuineInv, TypeOK
<1>2. CASE q = p
  <2>1. handler'[p].pc = "relay" /\ handler'[p].msg = hit /\ handler'[p].after = after
    BY DEF Relaying, TypeOK
  <2> QED BY <1>2, <2>1 DEF HandlerGenuine, Genuine, Traces, Answers
<1> QED BY <1>1, <1>2

-----------------------------------------------------------------------------
(* One lemma per kind of step.                                             *)

\* Where the steps of the handlers put no hit into a socket and record none.
LEMMA GenuineHandlerStep ==
  ASSUME TypeOK, GenuineInv, IdsInv', asked \subseteq asked',
         UNCHANGED <<sock, m_query_hit_result>>,
         \A p \in Peers : \A item \in Range(m_broadcast_queue'[p]) :
           item \in Range(m_broadcast_queue[p]) \/ Genuine(item.msg)',
         \A p \in Peers : Range(m_messages_queue'[p]) \subseteq Range(m_messages_queue[p]),
         \A p \in Peers : HandlerGenuine(p)'
  PROVE  GenuineInv'
BY GenuineStep

\* SendQuery and SendInvQuery: the new query descends from itself.
LEMMA GenuineIssue ==
  ASSUME TypeOK, GenuineInv, IdsInv', NEW p \in Peers, NEW file \in Files,
         NEW type \in {"query", "inv_query"} \cup TestTypes,
         type = "inv_query" => ReplicationFactor > 1, Issue(p, type, file)
  PROVE  GenuineInv'
<1>1. PICK msg \in Queries : Asks(p, type, file, msg)
  BY IssueAsks
<1>2. PICK item \in BroadcastItem : item = [msg |-> msg, exclude |-> NoPeer]
  BY <1>1 DEF Asks
<1>3. Genuine(item.msg)' /\ asked \subseteq asked'
  BY <1>1, <1>2 DEF Asks, Genuine, Traces
<1>4. ASSUME NEW q \in Peers, NEW i \in Range(m_broadcast_queue'[q])
      PROVE  i \in Range(m_broadcast_queue[q]) \/ Genuine(i.msg)'
  <2>1. BroadcastAll(p, <<item>>) /\ <<item>> \in Seq(BroadcastItem) /\ Range(<<item>>) = {item}
    BY <1>1, <1>2 DEF Asks, Range
  <2> QED BY <1>3, <2>1, BroadcastAllRange
<1>5. \A q \in Peers : HandlerGenuine(q)'
  BY <1>3, RacedKeepsTask, HandlerGenuineStays DEF Issue, GenuineInv
<1> QED BY <1>3, <1>4, <1>5, GenuineHandlerStep DEF Issue, hitVars

\* The broadcast thread sends what is in its queue.
LEMMA GenuineBroadcast ==
  ASSUME TypeOK, GenuineInv, IdsInv', NEW p \in Peers, BroadcastProcessThread(p) \/ SigPipe(p)
  PROVE  GenuineInv'
<1> UNCHANGED <<handler, asked, m_messages_queue, m_query_hit_result>>
  BY DEF BroadcastProcessThread, SigPipe, hitVars, historyVars
<1>0. \A q \in Peers : HandlerGenuine(q)'
  BY HandlerGenuineStays DEF KeepsTask, GenuineInv
<1>1. CASE UNCHANGED <<sock, m_broadcast_queue>>
  BY <1>0, <1>1, GenuineStep
<1>2. CASE m_broadcast_queue[p] # <<>> /\ \E targets : Send(p, targets, Head(m_broadcast_queue[p]).msg)
  <2>1. PICK item, targets :
          item \in Range(m_broadcast_queue[p]) /\ item \in BroadcastItem /\ item.msg \in Message /\ Send(p, targets, item.msg)
    BY <1>2, RangeHeadTail, HeadMessage, HeadTailProperties DEF TypeOK
  <2>2. \A r, q \in Peers : \A m \in Range(sock'[r][q]) : m \in Range(sock[r][q]) \/ Genuine(m)
    BY <2>1, SendRange DEF GenuineInv
  <2>3. \A q \in Peers : Range(m_broadcast_queue'[q]) \subseteq Range(m_broadcast_queue[q])
    <3>1. Range(Tail(m_broadcast_queue[p])) \subseteq Range(m_broadcast_queue[p])
      BY <1>2, RangeHeadTail DEF TypeOK
    <3> QED BY <3>1 DEF TypeOK, BroadcastProcessThread, SigPipe
  <2> QED BY <1>0, <2>2, <2>3, GenuineStep
<1> QED BY <1>1, <1>2 DEF BroadcastProcessThread, SigPipe

\* A message keeps what it says when it is received.
LEMMA GenuineDealWithRequest ==
  ASSUME TypeOK, GenuineInv, IdsInv', NEW p \in Peers, NEW q \in Peers, DealWithRequest(p, q)
  PROVE  GenuineInv'
<1>1. sock[p][q] \in Seq(Message) /\ m_messages_queue[q] \in Seq(Message) /\ sock[p][q] # <<>>
  BY DEF TypeOK, DealWithRequest
<1>2. PICK msg \in Range(sock[p][q]) : msg = Head(sock[p][q]) /\ msg \in Message /\ Genuine(msg)
  BY <1>1, RangeHeadTail, RangeTyped DEF GenuineInv
<1>3. \A r \in Peers : \A m \in Range(m_messages_queue'[r]) :
        m \in Range(m_messages_queue[r]) \/ Genuine(m)
  <2>1. Range(Append(m_messages_queue[q], msg)) \subseteq Range(m_messages_queue[q]) \cup {msg}
    BY <1>1, <1>2, RangeAppend
  <2> QED BY <1>2, <2>1 DEF TypeOK, DealWithRequest
<1>4. \A r, s \in Peers : Range(sock'[r][s]) \subseteq Range(sock[r][s])
  <2>1. Range(Tail(sock[p][q])) \subseteq Range(sock[p][q])
    BY <1>1, RangeHeadTail
  <2> QED BY <2>1 DEF TypeOK, DealWithRequest
<1>5. UNCHANGED <<handler, asked, m_broadcast_queue, m_query_hit_result>>
  BY DEF DealWithRequest, hitVars, historyVars
<1>6. \A r \in Peers : HandlerGenuine(r)'
  BY <1>5, HandlerGenuineStays DEF KeepsTask, GenuineInv
<1> QED BY <1>3, <1>4, <1>5, <1>6, GenuineStep

\* What a handler takes from its queue is genuine.
LEMMA TakesGenuine ==
  ASSUME TypeOK, GenuineInv, NEW p \in Peers, NEW type, Takes(p, type)
  PROVE  Genuine(Head(m_messages_queue[p]))
BY TakesRange DEF GenuineInv

\* A handler that drops a query.
LEMMA GenuineDropQuery ==
  ASSUME TypeOK, GenuineInv, IdsInv', NEW p \in Peers, DropQuery(p)
  PROVE  GenuineInv'
<1>1. PICK type : Takes(p, type)
  BY DEF DropQuery
<1>2. \A q \in Peers : HandlerGenuine(q)'
  BY <1>1, HandlerGenuineStays DEF DropQuery, KeepsTask, GenuineInv, Takes, historyVars
<1> QED BY <1>1, <1>2, TakesRange, GenuineHandlerStep DEF DropQuery, Takes, hitVars, historyVars

\* A query is answered by who has the file, and relayed by who has not.
LEMMA GenuineHandleQuery ==
  ASSUME TypeOK, GenuineInv, IdsInv', NEW p \in Peers, HandleQuery(p)
  PROVE  GenuineInv'
<1>1. Takes(p, "query")
  BY DEF HandleQuery
<1>2. PICK msg \in Queries : msg = Head(m_messages_queue[p]) /\ msg.type = "query" /\ Genuine(msg)
  BY <1>1, TakesType, TakesGenuine DEF Takes
<1>3. msg.id \in MsgIds /\ msg.factor \in Nat /\ msg.ttl \in 1 .. TTL /\ UNCHANGED asked
  BY <1>1, <1>2 DEF Queries, Takes, historyVars
<1>4. ASSUME NEW q \in Peers, NEW item \in Range(m_broadcast_queue'[q])
      PROVE  item \in Range(m_broadcast_queue[q]) \/ Genuine(item.msg)'
  <2>1. CASE UNCHANGED m_broadcast_queue
    BY <2>1
  <2>2. CASE msg.ttl > 1 /\ BroadcastAll(p, <<RelayedQuery(p, msg, msg.factor)>>)
    <3>1. PICK relayed \in BroadcastItem : relayed = RelayedQuery(p, msg, msg.factor)
      BY <1>3, <2>2, RelayedQueryType
    <3>2. Genuine(relayed.msg)'
      BY <1>2, <1>3, <2>2, <3>1, RelayedGenuine, GenuineStays
    <3>3. <<relayed>> \in Seq(BroadcastItem) /\ Range(<<relayed>>) = {relayed}
      BY DEF Range
    <3> QED BY <2>2, <3>1, <3>2, <3>3, BroadcastAllRange
  <2> QED BY <1>2, <2>1, <2>2 DEF HandleQuery
<1>5. ASSUME NEW q \in Peers PROVE HandlerGenuine(q)'
  <2>1. CASE UNCHANGED handler
    BY <1>3, <2>1, HandlerGenuineStays DEF KeepsTask, GenuineInv
  <2>2. CASE /\ HasFile(p, msg.file)
             /\ handler' = [handler EXCEPT ![p] = Relaying(HitMessage(p, "query_hit", msg.id), <<>>)]
    <3>1. Genuine(HitMessage(p, "query_hit", msg.id))
      BY <1>2, <2>2, HitGenuine
    <3> QED BY <1>3, <2>2, <3>1, RangeEmpty, BeginsGenuine
  <2> QED BY <1>2, <2>1, <2>2 DEF HandleQuery
<1> QED BY <1>1, <1>3, <1>4, <1>5, TakesRange, GenuineHandlerStep
        DEF HandleQuery, Takes, hitVars

\* An inverse query is answered by who lacks the file, and relayed.
LEMMA GenuineHandleInvQuery ==
  ASSUME TypeOK, GenuineInv, IdsInv', NEW p \in Peers, HandleInvQuery(p)
  PROVE  GenuineInv'
<1>1. Takes(p, "inv_query")
  BY DEF HandleInvQuery
<1>2. PICK msg \in Queries : msg = Head(m_messages_queue[p]) /\ msg.type = "inv_query" /\ Genuine(msg)
  BY <1>1, TakesType, TakesGenuine DEF Takes
<1>3. msg.id \in MsgIds /\ msg.factor \in Nat /\ msg.ttl \in 1 .. TTL /\ UNCHANGED asked
  BY <1>1, <1>2 DEF Queries, Takes, historyVars
<1>4. PICK items \in Seq(BroadcastItem) :
        items = InvQueriesToRelay(p, msg) /\ \A item \in Range(items) : Genuine(item.msg)
  <2>1. CASE msg.factor > 1 /\ msg.ttl > 1
    <3>1. PICK relayed \in BroadcastItem : relayed = RelayedQuery(p, msg, msg.factor - 1)
      BY <1>3, <2>1, RelayedQueryType
    <3>2. Genuine(relayed.msg)
      BY <1>2, <1>3, <2>1, <3>1, RelayedGenuine
    <3>3. <<relayed>> \in Seq(BroadcastItem) /\ Range(<<relayed>>) = {relayed}
      BY DEF Range
    <3> QED BY <2>1, <3>1, <3>2, <3>3 DEF InvQueriesToRelay
  <2>2. CASE ~(msg.factor > 1 /\ msg.ttl > 1)
    BY <2>2, EmptySeq, RangeEmpty DEF InvQueriesToRelay
  <2> QED BY <2>1, <2>2
<1>5. ASSUME NEW q \in Peers, NEW item \in Range(m_broadcast_queue'[q])
      PROVE  item \in Range(m_broadcast_queue[q]) \/ Genuine(item.msg)'
  <2>1. UNCHANGED m_broadcast_queue \/ BroadcastAll(p, items)
    BY <1>2, <1>4 DEF HandleInvQuery
  <2> QED BY <1>3, <1>4, <2>1, BroadcastAllRange, GenuineStays
<1>6. ASSUME NEW q \in Peers PROVE HandlerGenuine(q)'
  <2>1. CASE UNCHANGED handler
    BY <1>3, <2>1, HandlerGenuineStays DEF KeepsTask, GenuineInv
  <2>2. CASE /\ ~HasFile(p, msg.file)
             /\ handler' = [handler EXCEPT ![p] =
                              Relaying(HitMessage(p, "inv_query_hit", msg.id), items)]
    <3>1. Genuine(HitMessage(p, "inv_query_hit", msg.id))
      BY <1>2, <2>2, HitGenuine
    <3> QED BY <1>3, <1>4, <2>2, <3>1, BeginsGenuine
  <2> QED BY <1>2, <1>4, <2>1, <2>2 DEF HandleInvQuery
<1> QED BY <1>1, <1>3, <1>5, <1>6, TakesRange, GenuineHandlerStep
        DEF HandleInvQuery, Takes, hitVars

\* A handler with a new message.
LEMMA HandlerTakesGenuine ==
  ASSUME TypeOK, GenuineInv, UNCHANGED asked, NEW p \in Peers, NEW q \in Peers,
         NEW pc \in {"record", "test"}, NEW msg, Genuine(msg), pc = "record" => msg.id.peer = p,
         handler' = [handler EXCEPT ![p] = [pc |-> pc, msg |-> msg]]
  PROVE  HandlerGenuine(q)'
<1>1. CASE q # p
  BY <1>1, HandlerGenuineStays DEF KeepsTask, GenuineInv, TypeOK
<1>2. CASE q = p
  <2>1. handler'[p].pc = pc /\ handler'[p].msg = msg
    BY DEF TypeOK
  <2> QED BY <1>2, <2>1 DEF HandlerGenuine, Genuine, Traces, Answers
<1> QED BY <1>1, <1>2

\* A load test begins, ...
LEMMA GenuineHandleLoadTest ==
  ASSUME TypeOK, GenuineInv, IdsInv', NEW p \in Peers, HandleLoadTest(p)
  PROVE  GenuineInv'
<1>1. PICK type : Takes(p, type)
  BY DEF HandleLoadTest
<1>2. Genuine(Head(m_messages_queue[p]))
  BY <1>1, TakesGenuine
<1>3. \A q \in Peers : HandlerGenuine(q)'
  BY <1>1, <1>2, HandlerTakesGenuine DEF HandleLoadTest, Takes, historyVars
<1> QED BY <1>1, <1>3, TakesRange, GenuineHandlerStep
        DEF HandleLoadTest, Takes, hitVars, historyVars

\* ... and is relayed.
LEMMA GenuineRelayLoadTest ==
  ASSUME TypeOK, GenuineInv, IdsInv', NEW p \in Peers, RelayLoadTest(p)
  PROVE  GenuineInv'
<1>1. PICK msg \in Queries : msg = handler[p].msg /\ Genuine(msg)
  BY HandlerType DEF RelayLoadTest, GenuineInv, HandlerGenuine
<1>2. msg.factor \in Nat /\ msg.ttl \in 1 .. TTL /\ UNCHANGED asked
  BY <1>1 DEF Queries, RelayLoadTest, historyVars
<1>3. ASSUME NEW q \in Peers, NEW item \in Range(m_broadcast_queue'[q])
      PROVE  item \in Range(m_broadcast_queue[q]) \/ Genuine(item.msg)'
  <2>1. CASE UNCHANGED m_broadcast_queue
    BY <2>1
  <2>2. CASE msg.ttl > 1 /\ BroadcastAll(p, <<RelayedQuery(p, msg, msg.factor)>>)
    <3>1. PICK relayed \in BroadcastItem : relayed = RelayedQuery(p, msg, msg.factor)
      BY <1>2, <2>2, RelayedQueryType
    <3>2. Genuine(relayed.msg)'
      BY <1>1, <1>2, <2>2, <3>1, RelayedGenuine, GenuineStays
    <3>3. <<relayed>> \in Seq(BroadcastItem) /\ Range(<<relayed>>) = {relayed}
      BY DEF Range
    <3> QED BY <2>2, <3>1, <3>2, <3>3, BroadcastAllRange
  <2> QED BY <1>1, <2>1, <2>2 DEF RelayLoadTest
<1>4. \A q \in Peers : HandlerGenuine(q)'
  BY <1>2, IdleKeepsTask, HandlerGenuineStays DEF RelayLoadTest, GenuineInv
<1> QED BY <1>2, <1>3, <1>4, GenuineHandlerStep DEF RelayLoadTest, hitVars

\* A hit is recorded by its originator, or passed on.
LEMMA GenuineHandleQueryHit ==
  ASSUME TypeOK, GenuineInv, IdsInv', NEW p \in Peers, HandleQueryHit(p)
  PROVE  GenuineInv'
<1>1. PICK type : Takes(p, type)
  BY DEF HandleQueryHit
<1>2. PICK hit : hit = Head(m_messages_queue[p]) /\ Genuine(hit)
  BY <1>1, TakesGenuine
<1>3. UNCHANGED asked
  BY <1>1 DEF Takes, historyVars
<1>4. ASSUME NEW q \in Peers PROVE HandlerGenuine(q)'
  <2>1. CASE UNCHANGED handler
    BY <1>3, <2>1, HandlerGenuineStays DEF KeepsTask, GenuineInv
  <2>2. CASE hit.id.peer = p /\ handler' = [handler EXCEPT ![p] = [pc |-> "record", msg |-> hit]]
    BY <1>2, <1>3, <2>2, HandlerTakesGenuine
  <2>3. CASE handler' = [handler EXCEPT ![p] = Relaying(hit, <<>>)]
    BY <1>2, <1>3, <2>3, RangeEmpty, BeginsGenuine
  <2> QED BY <1>2, <2>1, <2>2, <2>3 DEF HandleQueryHit
<1> QED BY <1>1, <1>3, <1>4, TakesRange, GenuineHandlerStep
        DEF HandleQueryHit, Takes, hitVars

\* The hit goes to the next peer, and the inverse query on behind it.
LEMMA GenuineRelayQueryHit ==
  ASSUME TypeOK, GenuineInv, IdsInv', NEW p \in Peers, RelayQueryHit(p)
  PROVE  GenuineInv'
<1>1. PICK hit \in Hits, after \in Seq(BroadcastItem) :
        /\ hit = handler[p].msg /\ after = handler[p].after
        /\ hit \in Message /\ Genuine(hit)
        /\ \A item \in Range(after) : Genuine(item.msg)
  BY HandlerType DEF RelayQueryHit, GenuineInv, HandlerGenuine, Message
<1>2. \/ /\ \E targets : Send(p, targets, hit)
         /\ BroadcastAll(p, after)
         /\ handler' = [handler EXCEPT ![p] = Idle]
      \/ UNCHANGED <<sock, m_broadcast_queue, handler>>
  BY <1>1 DEF RelayQueryHit
<1>3. UNCHANGED <<asked, m_messages_queue, m_query_hit_result>>
  BY DEF RelayQueryHit, hitVars
<1>4. \A q \in Peers : \A item \in Range(m_broadcast_queue'[q]) :
        item \in Range(m_broadcast_queue[q]) \/ Genuine(item.msg)'
  BY <1>1, <1>2, <1>3, BroadcastAllRange, GenuineStays
<1>5. \A r, q \in Peers : \A m \in Range(sock'[r][q]) : m \in Range(sock[r][q]) \/ Genuine(m)
  BY <1>1, <1>2, SendRange
<1>6. \A q \in Peers : HandlerGenuine(q)'
  BY <1>2, <1>3, IdleKeepsTask, HandlerGenuineStays DEF KeepsTask, GenuineInv
<1> QED BY <1>3, <1>4, <1>5, <1>6, GenuineStep

\* The results of a query are a sequence of peers.
LEMMA ResultsType ==
  ASSUME TypeOK, NEW p \in Peers, NEW id \in MsgIds
  PROVE  m_query_hit_result[p][id] \in Seq(Peers)
BY DEF TypeOK

\* The originator records who answered.
LEMMA GenuineRecordQueryHit ==
  ASSUME TypeOK, GenuineInv, IdsInv', NEW p \in Peers, RecordQueryHit(p)
  PROVE  GenuineInv'
<1>1. PICK hit \in Hits : hit = handler[p].msg /\ hit.id.peer = p /\ Genuine(hit)
  BY HandlerType DEF RecordQueryHit, GenuineInv, HandlerGenuine
<1>2. hit.id \in MsgIds /\ hit.peer \in Peers /\ hit \notin Queries
  BY DEF Hits, Queries, TestTypes
<1>3. Recorded(p, hit.id, hit.peer)
  BY <1>1, <1>2 DEF Genuine, Traces, Recorded, TestTypes
<1>4. ASSUME NEW q \in Peers, NEW id \in MsgIds, NEW server \in Range(m_query_hit_result'[q][id])
      PROVE  server \in Range(m_query_hit_result[q][id]) \/ Recorded(q, id, server)
  <2>1. m_query_hit_result[p][hit.id] \in Seq(Peers)
    BY <1>2, ResultsType
  <2>2. Range(Append(m_query_hit_result[p][hit.id], hit.peer))
          \subseteq Range(m_query_hit_result[p][hit.id]) \cup {hit.peer}
    BY <1>2, <2>1, RangeAppend
  <2>3. m_query_hit_result' = [m_query_hit_result EXCEPT ![p][hit.id] = Append(@, hit.peer)]
    BY <1>1 DEF RecordQueryHit
  <2>4. CASE q = p /\ id = hit.id
    <3>1. m_query_hit_result'[q][id] = Append(m_query_hit_result[p][hit.id], hit.peer)
      BY <2>3, <2>4 DEF TypeOK
    <3> QED BY <1>3, <2>2, <2>4, <3>1
  <2>5. CASE ~(q = p /\ id = hit.id)
    BY <2>3, <2>5 DEF TypeOK
  <2> QED BY <2>4, <2>5
<1>5. UNCHANGED <<asked, m_broadcast_queue, sock, m_messages_queue>>
  BY DEF RecordQueryHit, historyVars
<1>6. ASSUME NEW q \in Peers PROVE HandlerGenuine(q)'
  <2>1. CASE handler' = [handler EXCEPT ![p] = Idle]
    BY <1>5, <2>1, IdleKeepsTask, HandlerGenuineStays DEF GenuineInv
  <2>2. ASSUME NEW file, handler' = [handler EXCEPT ![p] = [pc |-> "start", msg |-> hit, file |-> file]]
        PROVE  HandlerGenuine(q)'
    <3>1. CASE q # p
      BY <1>5, <2>2, <3>1, HandlerGenuineStays DEF KeepsTask, GenuineInv, TypeOK
    <3>2. CASE q = p
      <4>1. handler'[p].pc = "start" /\ handler'[p].msg = hit
        BY <2>2 DEF TypeOK
      <4> QED BY <1>1, <1>5, <3>2, <4>1 DEF HandlerGenuine, Genuine, Traces, Answers
    <3> QED BY <3>1, <3>2
  <2> QED BY <1>1, <2>1, <2>2 DEF RecordQueryHit
<1> QED BY <1>4, <1>5, <1>6, GenuineStep

\* The originator drops what it recorded.
LEMMA GenuineEvictResults ==
  ASSUME TypeOK, GenuineInv, IdsInv', NEW p \in Peers, EvictQueryHitResults(p)
  PROVE  GenuineInv'
<1>1. ASSUME NEW q \in Peers, NEW id \in MsgIds
      PROVE  Range(m_query_hit_result'[q][id]) \subseteq Range(m_query_hit_result[q][id])
  <2>1. m_query_hit_result'[q][id] \in {m_query_hit_result[q][id], <<>>}
    BY DEF EvictQueryHitResults, Without, TypeOK
  <2> QED BY <2>1, RangeEmpty
<1>2. UNCHANGED <<asked, handler, m_broadcast_queue, sock, m_messages_queue>>
  BY DEF EvictQueryHitResults, historyVars
<1>3. \A q \in Peers : HandlerGenuine(q)'
  BY <1>2, HandlerGenuineStays DEF KeepsTask, GenuineInv
<1> QED BY <1>1, <1>2, <1>3, GenuineStep

\* Steps that put no message anywhere.
LEMMA GenuineQuiet ==
  ASSUME TypeOK, GenuineInv, IdsInv',
         UNCHANGED <<asked, m_broadcast_queue, sock, m_messages_queue, m_query_hit_result>>,
         \A p \in Peers : KeepsTask(p)
  PROVE  GenuineInv'
<1>1. \A p \in Peers : HandlerGenuine(p)'
  BY HandlerGenuineStays DEF GenuineInv
<1> QED BY <1>1, GenuineStep

\* Every step keeps GenuineInv.
LEMMA GenuineNext ==
  ASSUME TypeOK, UpstreamInv, GenuineInv, [Next]_vars
  PROVE  GenuineInv'
<1>1. IdsInv'
  BY IdsStep DEF GenuineInv
<1>2. CASE Issues
  BY <1>1, <1>2, GenuineIssue DEF Issues
<1>3. CASE UNCHANGED <<asked, m_msg_id_counter>>
  <2>1. ASSUME NEW p \in Peers, HandleMessageThread(p) PROVE GenuineInv'
    <3>1. CASE StartTransfers(p)
      BY <1>1, <3>1, IdleKeepsTask, GenuineQuiet DEF StartTransfers, historyVars
    <3> QED BY <1>1, <2>1, <3>1, GenuineDropQuery, GenuineHandleQuery, GenuineHandleInvQuery,
               GenuineHandleLoadTest, GenuineRelayLoadTest, GenuineHandleQueryHit,
               GenuineRelayQueryHit, GenuineRecordQueryHit DEF HandleMessageThread
  <2>2. ASSUME NEW p \in Peers, MantainQueryMapSize(p) PROVE GenuineInv'
    <3>1. CASE EvictQueries(p)
      BY <1>1, <3>1, RacedKeepsTask, GenuineQuiet DEF EvictQueries, hitVars
    <3>2. CASE EvictWaits(p)
      BY <1>1, <3>2, GenuineQuiet DEF EvictWaits, KeepsTask, historyVars
    <3> QED BY <1>1, <2>2, <3>1, <3>2, GenuineEvictResults DEF MantainQueryMapSize
  <2>3. ASSUME NEW p \in Peers,
               \/ \E thread \in Callers : SetWaitQueryHit(p, thread)
               \/ \E q \in Neighbors[p] : TornMessage(q, p)
               \/ CrashInRelay(p) \/ SelectFilesToReplicate(p)
        PROVE  GenuineInv'
    BY <1>1, <2>3, GenuineQuiet
    DEF SetWaitQueryHit, TornMessage, CrashInRelay, SelectFilesToReplicate, KeepsTask, hitVars, historyVars
  <2>4. ASSUME NEW p \in Peers, Command(p) \/ ReplicateNextFile(p)
                                \/ \E thread \in Testers : LoadTestCall(p, thread)
        PROVE  GenuineInv'
    <3>1. UNCHANGED <<asked, m_broadcast_queue, sock, m_messages_queue, m_query_hit_result, handler>>
          \/ \E file, type : Issue(p, type, file)
      BY <2>4 DEF Command, QueryCommand, ObtainFile, InvQueryCommand, ReplicateCommand,
                  LoadTestCommand, ReplicateNextFile, LoadTestCall, hitVars, historyVars
    <3>2. ASSUME NEW file, NEW type, Issue(p, type, file) PROVE FALSE
      BY <1>3, <3>2, NumbersAssumption DEF Issue, TypeOK
    <3> QED BY <1>1, <3>1, <3>2, GenuineQuiet DEF KeepsTask
  <2>5. CASE UNCHANGED vars
    BY <1>1, <2>5, GenuineQuiet DEF vars, KeepsTask, hitVars, historyVars
  <2>6. ASSUME NEW p \in Peers, NEW q \in Neighbors[p], DealWithRequest(q, p) PROVE GenuineInv'
    BY <1>1, <2>6, GenuineDealWithRequest, NeighborsAssumption
  <2> QED BY <1>1, <2>1, <2>2, <2>3, <2>4, <2>5, <2>6, GenuineBroadcast
          DEF Next, StartReplicateAllFiles
<1> QED BY <1>2, <1>3, NextIssues

\* There is nothing at the start.
LEMMA InitGenuine == Init => GenuineInv
<1> SUFFICES ASSUME Init PROVE GenuineInv
  OBVIOUS
<1>1. IdsInv /\ \A p \in Peers : HandlerGenuine(p)
  BY DEF Init, IdsInv, HandlerGenuine, Idle
<1> QED BY <1>1, RangeEmpty DEF Init, GenuineInv

\* Whatever a peer records about a query of its own is true.
LEMMA GenuineTruthful ==
  ASSUME TypeOK, GenuineInv
  PROVE  HitsTruthful
<1>1. ASSUME NEW p \in Peers, NEW id \in MsgIds, m_query_hit_result[p][id] # <<>>
      PROVE  id.peer = p
  <2>1. Head(m_query_hit_result[p][id]) \in Range(m_query_hit_result[p][id])
    BY <1>1, RangeHeadTail, ResultsType
  <2> QED BY <2>1 DEF GenuineInv, Recorded
<1>2. ASSUME NEW msg \in asked, NEW i \in DOMAIN QueryResults(msg.id)
      PROVE  Answers(QueryResults(msg.id)[i], msg)
  <2>1. msg.id \in MsgIds /\ msg.id.peer \in Peers
    BY DEF TypeOK, Queries, MsgIds
  <2>2. QueryResults(msg.id)[i] \in Range(m_query_hit_result[msg.id.peer][msg.id])
    BY DEF QueryResults, Range
  <2> QED BY <2>1, <2>2 DEF GenuineInv, IdsInv, Recorded
<1> QED BY <1>1, <1>2 DEF HitsTruthful
-----------------------------------------------------------------------------
\* Every message in the overlay descends from a query that some peer asked, and says of it
\* what is true.
THEOREM GenuineInvariant == Spec => []GenuineInv
<1>1. Init => TypeOK /\ UpstreamInv /\ GenuineInv
  BY InitType, InitUpstream, InitGenuine
<1>2. TypeOK /\ UpstreamInv /\ GenuineInv /\ [Next]_vars => TypeOK' /\ UpstreamInv' /\ GenuineInv'
  BY NextType, NextStep, GenuineNext
<1> QED BY <1>1, <1>2, PTL DEF Spec

\* A responder is recorded by the originator only, and has the file that was asked for, or
\* lacks the one to be replicated.
THEOREM HitsCorrect == Spec => []HitsTruthful
<1>1. TypeOK /\ GenuineInv => HitsTruthful
  BY GenuineTruthful
<1> QED BY <1>1, TypeCorrect, GenuineInvariant, PTL
=============================================================================
