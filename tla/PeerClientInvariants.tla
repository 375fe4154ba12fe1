------------------------ MODULE PeerClientInvariants ------------------------
(***************************************************************************)
(* The inductive invariants behind the safety properties of PeerClient:    *)
(* what holds between any two steps of its threads, from which the proofs  *)
(* derive the properties.                                                  *)
(***************************************************************************)
EXTENDS PeerClient

-----------------------------------------------------------------------------
(* The inductive invariant behind RelayFindsUpstream and NoUpstreamCycle: what *)
(* the peers remember of a query as long as nobody has forgotten it.           *)

\* The originator and peer p have id cached, unless somebody forgot it.
Known(p, id) == id \in lost \/ (IsQueryCached(p, id) /\ IsQueryCached(id.peer, id))

\* The upstream of an originator is -1, that of any other peer is a neighbour that
\* has the query cached.
UpstreamsCached == \A p \in Peers, id \in MsgIds \ lost : IsQueryCached(p, id) =>
  IF p = id.peer THEN m_queries[p][id] = NoPeer
  ELSE m_queries[p][id] \in Neighbors[p] /\ IsQueryCached(m_queries[p][id], id)

\* p broadcasts queries it has cached, under its own name.
Broadcastable(p, item) ==
  item.msg.peer = p /\ Known(p, item.msg.id)

\* A query comes from a neighbour that has it cached, and a hit goes to a peer
\* that has its query cached.
Deliverable(p, msg) ==
  IF msg \in Queries THEN msg.peer \in Neighbors[p] /\ Known(msg.peer, msg.id)
  ELSE Known(p, msg.id)

\* A hit to be relayed is one of somebody else's query.
RelayReady(p) == handler[p].pc = "relay" =>
  /\ Known(p, handler[p].msg.id)
  /\ handler[p].msg.id \in lost \/ handler[p].msg.id.peer # p
  /\ \A item \in Range(handler[p].after) : Broadcastable(p, item)

\* A load test is relayed by a peer that has its message cached.
TestReady(p) == handler[p].pc = "test" => Known(p, handler[p].msg.id)
HandlerReady(p) == RelayReady(p) /\ TestReady(p)

\* Whatever is on its way for a query, in a queue, in a socket or in a handler,
\* is about a query that its sender or receiver and the originator still know:
\* no copy of a query can overtake what its way back relies on.
UpstreamInv ==
  /\ UpstreamsCached
  /\ \A p \in Peers : \A item \in Range(m_broadcast_queue[p]) : Broadcastable(p, item)
  /\ \A p, q \in Peers : \A msg \in Range(sock[p][q]) : Deliverable(q, msg)
  /\ \A p \in Peers : \A msg \in Range(m_messages_queue[p]) : Deliverable(p, msg)
  /\ \A p \in Peers : HandlerReady(p)
-----------------------------------------------------------------------------
(* Behind HitsTruthful: no message says anything its sender does not know.     *)

\* No id is used for two queries, and the next id of a peer is new. An originator
\* has its own query cached, unless it forgot it.
IdsInv ==
  /\ \A a, b \in asked : a.id = b.id => a = b
  /\ \A msg \in asked : msg.id.num < m_msg_id_counter[msg.id.peer]
                      /\ Known(msg.id.peer, msg.id)

\* The message passes on the query, or answers it with a file its responder shares or,
\* for an inverse query, lacks.
Traces(msg, query) ==
  /\ msg.id = query.id
  /\ IF msg \in Queries THEN msg.type = query.type /\ msg.file = query.file
     ELSE /\ query.type = IF msg.type = "query_hit" THEN "query" ELSE "inv_query"
          /\ Answers(msg.peer, query)
Genuine(msg) == \E query \in asked : Traces(msg, query)

\* Only an originator records a hit or starts its transfers.
HandlerGenuine(p) ==
  /\ handler[p].pc # "idle" => Genuine(handler[p].msg)
  /\ handler[p].pc \in {"record", "start"} => handler[p].msg.id.peer = p
  /\ handler[p].pc = "relay" => \A item \in Range(handler[p].after) : Genuine(item.msg)

\* server has answered the query id of p.
Recorded(p, id, server) ==
  /\ id.peer = p
  /\ \E query \in asked : query.id = id /\ query.type \notin TestTypes
                          /\ Answers(server, query)

\* Every message in a queue, a socket or a handler descends from a query that was
\* asked, through however many relays and whatever else is in between.
GenuineInv ==
  /\ IdsInv
  /\ \A p \in Peers : \A item \in Range(m_broadcast_queue[p]) : Genuine(item.msg)
  /\ \A p, q \in Peers : \A msg \in Range(sock[p][q]) : Genuine(msg)
  /\ \A p \in Peers : \A msg \in Range(m_messages_queue[p]) : Genuine(msg)
  /\ \A p \in Peers : HandlerGenuine(p)
  /\ \A p \in Peers, id \in MsgIds : \A server \in Range(m_query_hit_result[p][id]) :
       Recorded(p, id, server)
-----------------------------------------------------------------------------
(* Behind NoDuplicateAnswers: where the answers to the queries are.            *)

\* Who answers which query; the messages that are queries answer none.
Answer == [id : MsgIds, peer : Peers]
NoAnswer == [id |-> Unset, peer |-> NoPeer]
AnswerOf(msg) == IF msg \in Hits THEN [id |-> msg.id, peer |-> msg.peer] ELSE NoAnswer
AnswersOf(messages) == [i \in DOMAIN messages |-> AnswerOf(messages[i])]

\* An answer is on its way until its originator has recorded it.
Sockets == {"sock"} \X Peers \X Peers
Queues == {"queue"} \X Peers \X {NoPeer}
HandlersAt == {"handler"} \X Peers \X {NoPeer}
Results == {"results"} \X Peers \X MsgIds
Places == Sockets \cup Queues \cup HandlersAt \cup Results

HandlerAnswers(p) ==
  IF handler[p].pc \in {"relay", "record"} THEN <<AnswerOf(handler[p].msg)>> ELSE <<>>
RecordedAnswers(p, id) ==
  [i \in DOMAIN m_query_hit_result[p][id] |->
     [id |-> id, peer |-> m_query_hit_result[p][id][i]]]
Contents == [place \in Places |->
  LET p == place[2] IN
  CASE place[1] = "sock" -> AnswersOf(sock[p][place[3]])
    [] place[1] = "queue" -> AnswersOf(m_messages_queue[p])
    [] place[1] = "handler" -> HandlerAnswers(p)
    [] OTHER -> RecordedAnswers(p, place[3])]

\* None of the answers is in two of the places, or twice in one.
Distinct(contents, answers) ==
  \A k, l \in DOMAIN contents : \A i \in DOMAIN contents[k], j \in DOMAIN contents[l] :
    contents[k][i] \in answers /\ contents[k][i] = contents[l][j] => k = l /\ i = j

\* All the answers there are.
Present(contents) == {a \in UNION {Range(contents[k]) : k \in DOMAIN contents} : a # NoAnswer}

InverseOf(id, file) == Asked(id, "inv_query", file)

\* The answers that must be single: those to queries nobody has forgotten, and those to
\* inverse queries, which are answered once per file.
Single == {a \in Answer : a.id \notin lost \/ \E file \in Files : InverseOf(a.id, file)}

\* Every answer is in one place only, and its responder will not give it again: it has
\* the query cached, or has recorded the file of the inverse query.
AnswersInv ==
  /\ Distinct(Contents, Single)
  /\ \A a \in Present(Contents) : a.id \in lost \/ IsQueryCached(a.peer, a.id)
  /\ \A a \in Present(Contents), file \in Files : InverseOf(a.id, file) =>
       /\ file \in m_replicate_query_filename[a.peer]
       /\ \A b \in Present(Contents) : InverseOf(b.id, file) /\ a.peer = b.peer => a = b
-----------------------------------------------------------------------------
(* Behind TransfersBounded and TransfersSensible: where the file name is that  *)
(* a query's transfers wait for.                                               *)

Waiting(p, id) == m_wait_queryhit[p][id] # NoFile
Starting(p, id) == handler[p].pc = "start" /\ handler[p].msg.id = id
Requested(p, id) == \E req \in RequestsOf(p) : req.id = id
AskedFor(p, id, file) ==
  id.peer = p /\ \E query \in asked : query.id = id /\ query.file = file

\* A peer that calls "replicate" with no peer to replicate to registers its wait under the
\* message id of an earlier command or none at all (peer_client.cpp:229): what the
\* bounds on the transfers need is that no such command is given.
IdsAssigned ==
  ReplicationFactor > 1 \/ \A p \in Peers : \A command \in Commands[p] : command.type # "replicate"

\* A query's file name is with the thread that is about to register it, or registered, or
\* taken by the handler of a hit, or its transfers are requested: never two of these.
WaitsInv ==
  /\ \A p \in Peers, thread \in Callers : LET call == pending[p][thread] IN
       call # NoCall =>
         /\ AskedFor(p, call.id, call.file)
         /\ ~Waiting(p, call.id) /\ ~Starting(p, call.id) /\ ~Requested(p, call.id)
         /\ \A other \in Callers \ {thread} : pending[p][other].id # call.id
  /\ \A p \in Peers, id \in MsgIds : Waiting(p, id) =>
       /\ AskedFor(p, id, m_wait_queryhit[p][id])
       /\ ~Starting(p, id) /\ ~Requested(p, id)
  /\ \A p \in Peers : handler[p].pc = "start" =>
       /\ AskedFor(p, handler[p].msg.id, handler[p].file)
       /\ ~Requested(p, handler[p].msg.id)

\* The request downloads the file from a peer that answered the query, or pushes it to
\* one that answered the inverse query.
Requestable(p, req) ==
  /\ req.id.peer = p
  /\ \E query \in asked : /\ query.id = req.id /\ query.file = req.file
                          /\ query.type = IF req.type = "download" THEN "query" ELSE "inv_query"
                          /\ Answers(req.server, query)

RequestsInv ==
  /\ WaitsInv
  /\ \A p \in Peers : \A req \in RequestsOf(p) : Requestable(p, req)
  /\ TransfersBounded

\* Who got a file pushed has recorded its inverse query, and answered none other that asked
\* for the same file.
PushesInv ==
  /\ \A p \in Peers : \A req \in RequestsOf(p) : req.type = "push" =>
       /\ req.file \in m_replicate_query_filename[req.server]
       /\ \A a \in Present(Contents) :
            a.peer = req.server /\ InverseOf(a.id, req.file) => a.id = req.id
  /\ PushedOnce

\* What MantainQueryMapSize is about to drop of p's own results is lost already.
OldForgotten == \A p \in Peers : maintenance[p].pc = "results" =>
  \A id \in maintenance[p].old : id.peer = p => id \in lost
=============================================================================
