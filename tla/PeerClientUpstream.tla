------------------------- MODULE PeerClientUpstream -------------------------
(***************************************************************************)
(* Proofs that a query hit finds its way back (RelayFindsUpstream) and     *)
(* that the recorded upstream peers form no cycle (NoUpstreamCycle), for   *)
(* every overlay, every set of files and every bound of PeerClient.        *)
(***************************************************************************)
EXTENDS PeerClientInvariants, PeerClientProofs

-----------------------------------------------------------------------------
(* What is in a sequence.                                                  *)

\* What is in a queue after one more message was put into it.
LEMMA RangeAppend ==
  ASSUME NEW S, NEW s \in Seq(S), NEW e \in S
  PROVE  Range(Append(s, e)) \subseteq Range(s) \cup {e}
BY DEF Range

\* What is in a queue after its head was taken.
LEMMA RangeHeadTail ==
  ASSUME NEW S, NEW s \in Seq(S), s # <<>>
  PROVE  Head(s) \in Range(s) /\ Range(Tail(s)) \subseteq Range(s)
<1>1. Len(s) \in Nat \ {0} /\ DOMAIN s = 1 .. Len(s)
  BY EmptySeq, LenProperties
<1>2. Head(s) = s[1]
  OBVIOUS
<1>3. /\ Tail(s) \in Seq(S) /\ Len(Tail(s)) = Len(s) - 1
      /\ \A i \in 1 .. Len(Tail(s)) : Tail(s)[i] = s[i + 1]
  BY HeadTailProperties
<1>4. DOMAIN Tail(s) = 1 .. (Len(s) - 1)
  BY <1>3, LenProperties
<1> QED BY <1>1, <1>2, <1>3, <1>4 DEF Range

\* What is in a queue after several messages were put into it.
LEMMA RangeConcat ==
  ASSUME NEW S, NEW s \in Seq(S), NEW t \in Seq(S)
  PROVE  Range(s \o t) \subseteq Range(s) \cup Range(t)
<1> SUFFICES ASSUME NEW i \in DOMAIN (s \o t)
             PROVE  (s \o t)[i] \in Range(s) \cup Range(t)
  BY DEF Range
<1>1. /\ Len(s) \in Nat /\ DOMAIN s = 1 .. Len(s)
      /\ Len(t) \in Nat /\ DOMAIN t = 1 .. Len(t)
  BY LenProperties
<1>2. /\ s \o t \in Seq(S)
      /\ Len(s \o t) = Len(s) + Len(t)
      /\ \A j \in 1 .. Len(s) + Len(t) :
           (s \o t)[j] = IF j <= Len(s) THEN s[j] ELSE t[j - Len(s)]
  BY ConcatProperties
<1>3. DOMAIN (s \o t) = 1 .. Len(s) + Len(t)
  BY <1>2, LenProperties
<1> QED BY <1>1, <1>2, <1>3 DEF Range

\* What is in a typed queue has its type.
LEMMA RangeTyped ==
  ASSUME NEW S, NEW s \in Seq(S)
  PROVE  Range(s) \subseteq S
BY LenProperties, ElementOfSeq DEF Range

\* Nothing is in an empty queue.
LEMMA RangeEmpty == Range(<<>>) = {}
BY DEF Range
-----------------------------------------------------------------------------
(* The two ways in which a step changes what the peers remember of a query. *)

\* No entry of a query nobody has forgotten changes.
Forgets ==
  /\ lost \subseteq lost'
  /\ \A q \in Peers, id \in MsgIds \ lost' : m_queries'[q][id] = m_queries[q][id]

\* p caches a query of its own, or one that comes from a neighbour which knows it.
Learns(p, id, upstream) ==
  /\ CacheQuery(p, id, upstream)
  /\ UNCHANGED lost
  /\ id \in lost \/ IF p = id.peer THEN upstream = NoPeer
                    ELSE upstream \in Neighbors[p] /\ IsQueryCached(upstream, id)

\* Nobody who knows a query loses it, unless the id is recorded as lost.
Remembers ==
  /\ lost \subseteq lost'
  /\ \A q \in Peers, id \in MsgIds \ lost' : IsQueryCached(q, id) => IsQueryCached(q, id)'

\* Who changes no entry of a query nobody forgot, loses none.
LEMMA ForgetsRemembers == Forgets => Remembers
BY DEF Forgets, Remembers, IsQueryCached

\* Caching a query keeps the others, and the query is cached afterwards.
LEMMA LearnsRemembers ==
  ASSUME TypeOK, NEW p \in Peers, NEW id \in MsgIds, NEW upstream \in Peers \cup {NoPeer},
         Learns(p, id, upstream)
  PROVE  Remembers /\ IsQueryCached(p, id)'
<1>1. upstream # Absent
  BY PeersAssumption DEF NoPeer, Absent
<1> QED BY <1>1 DEF Learns, CacheQuery, Remembers, IsQueryCached, TypeOK

\* The upstream peers stay right in steps that forget.
LEMMA ForgetsUpstreams ==
  ASSUME TypeOK, UpstreamsCached, Forgets
  PROVE  UpstreamsCached'
<1> SUFFICES ASSUME NEW p \in Peers, NEW id \in MsgIds \ lost', IsQueryCached(p, id)'
             PROVE  (IF p = id.peer THEN m_queries[p][id] = NoPeer
                     ELSE /\ m_queries[p][id] \in Neighbors[p]
                          /\ IsQueryCached(m_queries[p][id], id))'
  BY DEF UpstreamsCached
<1>1. id \notin lost /\ m_queries'[p][id] = m_queries[p][id]
  BY DEF Forgets
<1>2. IsQueryCached(p, id)
  BY <1>1 DEF IsQueryCached
<1>3. CASE p = id.peer
  BY <1>1, <1>2, <1>3 DEF UpstreamsCached
<1>4. CASE p # id.peer
  BY <1>1, <1>2, <1>4, NeighborsAssumption DEF UpstreamsCached, Forgets, IsQueryCached
<1> QED BY <1>3, <1>4

\* The upstream peers stay right in steps that cache a query.
LEMMA LearnsUpstreams ==
  ASSUME TypeOK, UpstreamsCached, NEW p \in Peers, NEW id \in MsgIds,
         NEW upstream \in Peers \cup {NoPeer}, Learns(p, id, upstream)
  PROVE  UpstreamsCached'
<1> SUFFICES ASSUME NEW q \in Peers, NEW i \in MsgIds \ lost, IsQueryCached(q, i)'
             PROVE  (IF q = i.peer THEN m_queries[q][i] = NoPeer
                     ELSE /\ m_queries[q][i] \in Neighbors[q]
                          /\ IsQueryCached(m_queries[q][i], i))'
  BY DEF UpstreamsCached, Learns
<1>1. Remembers /\ lost' = lost
  BY LearnsRemembers DEF Learns
<1>2. CASE IsQueryCached(q, i)
  <2>1. m_queries'[q][i] = m_queries[q][i]
    BY <1>2 DEF Learns, CacheQuery, IsQueryCached, TypeOK
  <2> QED BY <1>1, <1>2, <2>1, NeighborsAssumption DEF UpstreamsCached, Remembers
<1>3. CASE ~IsQueryCached(q, i)
  <2>1. q = p /\ i = id /\ m_queries'[p][id] = upstream
    BY <1>3 DEF Learns, CacheQuery, IsQueryCached, TypeOK
  <2> QED BY <1>1, <2>1, NeighborsAssumption DEF Learns, Remembers
<1> QED BY <1>2, <1>3
-----------------------------------------------------------------------------
(* The parts of UpstreamInv.                                               *)

\* What is known of a query stays known, or its id gets lost.
LEMMA KnownStays ==
  ASSUME TypeOK, Remembers, NEW p \in Peers, NEW id \in MsgIds, Known(p, id)
  PROVE  Known(p, id)'
<1>1. id.peer \in Peers
  BY DEF MsgIds
<1> QED BY <1>1 DEF Known, Remembers

\* The same of an item in m_broadcast_queue.
LEMMA BroadcastableStays ==
  ASSUME TypeOK, Remembers, NEW p \in Peers, NEW item \in BroadcastItem,
         Broadcastable(p, item)
  PROVE  Broadcastable(p, item)'
BY KnownStays DEF Broadcastable, BroadcastItem, Queries

\* The same of a message on its way.
LEMMA DeliverableStays ==
  ASSUME TypeOK, Remembers, NEW p \in Peers, NEW msg \in Message, Deliverable(p, msg)
  PROVE  Deliverable(p, msg)'
<1>1. msg.id \in MsgIds /\ msg.peer \in Peers
  BY DEF Message, Queries, Hits, TestTypes
<1> QED BY <1>1, KnownStays DEF Deliverable

\* handler[p] is about to do what it was about to do before, or has nothing left to
\* send: it relays no hit, and is in no load test.
SameTask(p) ==
  /\ handler'[p].pc = "relay" =>
       /\ handler[p].pc = "relay"
       /\ handler'[p].msg = handler[p].msg
       /\ handler'[p].after = handler[p].after
  /\ handler'[p].pc = "test" => handler[p].pc = "test" /\ handler'[p].msg = handler[p].msg

\* The same of a handler that is about to relay a hit or a load test.
LEMMA HandlerReadyStays ==
  ASSUME TypeOK, Remembers, NEW p \in Peers, HandlerReady(p), SameTask(p)
  PROVE  HandlerReady(p)'
<1>1. ASSUME handler'[p].pc = "relay" PROVE RelayReady(p)'
  <2>1. /\ handler[p].pc = "relay"
        /\ handler'[p].msg = handler[p].msg
        /\ handler'[p].after = handler[p].after
    BY <1>1 DEF SameTask
  <2>2. handler[p].msg.id \in MsgIds /\ handler[p].after \in Seq(BroadcastItem)
    BY <2>1, HandlerType
  <2>3. Known(p, handler[p].msg.id)'
    <3>1. Known(p, handler[p].msg.id)
      BY <2>1 DEF HandlerReady, RelayReady
    <3> QED BY <2>1, <2>2, <3>1, KnownStays DEF Known
  <2>4. ASSUME NEW item \in Range(handler[p].after) PROVE Broadcastable(p, item)'
    BY <2>1, <2>2, BroadcastableStays, RangeTyped DEF HandlerReady, RelayReady
  <2> QED BY <2>1, <2>3, <2>4 DEF HandlerReady, RelayReady, Remembers
<1>2. ASSUME handler'[p].pc = "test" PROVE TestReady(p)'
  <2>1. handler[p].pc = "test" /\ handler'[p].msg = handler[p].msg
    BY <1>2 DEF SameTask
  <2>2. handler[p].msg.id \in MsgIds /\ Known(p, handler[p].msg.id)
    BY <2>1, HandlerType DEF HandlerReady, TestReady
  <2>3. Known(p, handler[p].msg.id)'
    BY <2>1, <2>2, KnownStays DEF Known
  <2> QED BY <2>1, <2>3 DEF TestReady
<1> QED BY <1>1, <1>2 DEF HandlerReady, RelayReady, TestReady

\* A handler that has nothing more to send.
LEMMA EndsTask ==
  ASSUME TypeOK, NEW p \in Peers, NEW h, h.pc \notin {"relay", "test"},
         handler' = [handler EXCEPT ![p] = h]
  PROVE  \A q \in Peers : SameTask(q)
BY DEF SameTask, TypeOK

\* Raced changes a flag of the handler that does not matter here.
LEMMA RacedSameTask ==
  ASSUME TypeOK, NEW p \in Peers, NEW q \in Peers, handler' = Raced(p)
  PROVE  SameTask(q)
<1>1. handler[p] \in Handlers
  BY DEF TypeOK
<1> QED BY <1>1 DEF SameTask, Raced, Handlers, TypeOK

\* What a step has to respect: everything it puts somewhere is about a query that
\* those it concerns know.
LEMMA UpstreamStep ==
  ASSUME TypeOK, UpstreamInv, Remembers, UpstreamsCached',
         \A p \in Peers : \A item \in Range(m_broadcast_queue'[p]) :
           item \in Range(m_broadcast_queue[p]) \/ Broadcastable(p, item)',
         \A p, q \in Peers : \A msg \in Range(sock'[p][q]) :
           msg \in Range(sock[p][q]) \/ Deliverable(q, msg)',
         \A p \in Peers : \A msg \in Range(m_messages_queue'[p]) :
           msg \in Range(m_messages_queue[p]) \/ Deliverable(p, msg)',
         \A p \in Peers : HandlerReady(p)'
  PROVE  UpstreamInv'
<1>1. ASSUME NEW p \in Peers, NEW item \in Range(m_broadcast_queue'[p])
      PROVE  Broadcastable(p, item)'
  <2>1. Range(m_broadcast_queue[p]) \subseteq BroadcastItem
    BY RangeTyped DEF TypeOK
  <2> QED BY <2>1, BroadcastableStays DEF UpstreamInv
<1>2. ASSUME NEW p \in Peers, NEW q \in Peers, NEW msg \in Range(sock'[p][q])
      PROVE  Deliverable(q, msg)'
  <2>1. Range(sock[p][q]) \subseteq Message
    BY RangeTyped DEF TypeOK
  <2> QED BY <2>1, DeliverableStays DEF UpstreamInv
<1>3. ASSUME NEW p \in Peers, NEW msg \in Range(m_messages_queue'[p])
      PROVE  Deliverable(p, msg)'
  <2>1. Range(m_messages_queue[p]) \subseteq Message
    BY RangeTyped DEF TypeOK
  <2> QED BY <2>1, DeliverableStays DEF UpstreamInv
<1> QED BY <1>1, <1>2, <1>3 DEF UpstreamInv
-----------------------------------------------------------------------------
(* One lemma per kind of step.                                             *)

\* Steps that touch neither m_queries nor anything a message waits in.
LEMMA QuietStep ==
  ASSUME TypeOK, UpstreamInv,
         UNCHANGED <<m_queries, lost, m_broadcast_queue, sock, m_messages_queue>>,
         \A p \in Peers : SameTask(p)
  PROVE  Forgets /\ UpstreamInv'
<1>1. Forgets
  BY DEF Forgets
<1>2. Remembers /\ UpstreamsCached'
  BY <1>1, ForgetsRemembers, ForgetsUpstreams DEF UpstreamInv
<1>3. \A p \in Peers : HandlerReady(p)'
  BY <1>2, HandlerReadyStays DEF UpstreamInv
<1> QED BY <1>1, <1>2, <1>3, UpstreamStep

\* What is in the broadcast queues after BroadcastAll.
LEMMA BroadcastAllInv ==
  ASSUME TypeOK, NEW p \in Peers, NEW items \in Seq(BroadcastItem), BroadcastAll(p, items),
         \A item \in Range(items) : Broadcastable(p, item)'
  PROVE  \A q \in Peers : \A item \in Range(m_broadcast_queue'[q]) :
           item \in Range(m_broadcast_queue[q]) \/ Broadcastable(q, item)'
<1>1. m_broadcast_queue[p] \in Seq(BroadcastItem)
  BY DEF TypeOK
<1>2. Range(m_broadcast_queue[p] \o items) \subseteq Range(m_broadcast_queue[p]) \cup Range(items)
  BY <1>1, RangeConcat
<1> QED BY <1>2 DEF TypeOK, BroadcastAll

\* SendQuery and SendInvQuery: the originator caches its query, with upstream -1.
LEMMA IssueStep ==
  ASSUME TypeOK, UpstreamInv, NEW p \in Peers, NEW file \in Files,
         NEW type \in {"query", "inv_query"} \cup TestTypes,
         type = "inv_query" => ReplicationFactor > 1, Issue(p, type, file)
  PROVE  /\ UpstreamInv'
         /\ \E id \in MsgIds : Learns(p, id, NoPeer)
<1>1. PICK item \in BroadcastItem : item = [msg |-> QueryMessage(p, type, file), exclude |-> NoPeer]
  BY QueryMessageType DEF Issue
<1>2. PICK id \in MsgIds : id = item.msg.id
  BY <1>1 DEF BroadcastItem, Queries
<1>3. id.peer = p /\ item.msg.peer = p /\ id = QueryMessage(p, type, file).id
  BY <1>1, <1>2 DEF QueryMessage, NextId
<1>4. Learns(p, id, NoPeer)
  BY <1>3 DEF Issue, Learns
<1>5. Remembers /\ UpstreamsCached' /\ IsQueryCached(p, id)'
  BY <1>4, LearnsRemembers, LearnsUpstreams DEF UpstreamInv
<1>6. Broadcastable(p, item)'
  BY <1>2, <1>3, <1>5 DEF Broadcastable, Known
<1>7. \A q \in Peers : \A i \in Range(m_broadcast_queue'[q]) :
        i \in Range(m_broadcast_queue[q]) \/ Broadcastable(q, i)'
  <2>1. BroadcastAll(p, <<item>>)
    BY <1>1 DEF Issue
  <2>2. <<item>> \in Seq(BroadcastItem) /\ Range(<<item>>) = {item}
    BY DEF Range
  <2> QED BY <1>6, <2>1, <2>2, BroadcastAllInv
<1>8. ASSUME NEW q \in Peers PROVE HandlerReady(q)'
  BY <1>5, RacedSameTask, HandlerReadyStays DEF UpstreamInv, Issue
<1>9. UNCHANGED <<sock, m_messages_queue>>
  BY DEF Issue
<1> QED BY <1>4, <1>5, <1>7, <1>8, <1>9, UpstreamStep

\* What p may send to its neighbours: the message at the head of its queue.
LEMMA HeadDeliverable ==
  ASSUME TypeOK, UpstreamInv, NEW p \in Peers, m_broadcast_queue[p] # <<>>,
         NEW q \in BroadcastTargets(p)
  PROVE  q \in Peers /\ Deliverable(q, Head(m_broadcast_queue[p]).msg)
<1> DEFINE item == Head(m_broadcast_queue[p])
<1>1. item \in Range(m_broadcast_queue[p]) /\ item \in BroadcastItem
  BY RangeHeadTail, HeadTailProperties DEF TypeOK
<1>2. Broadcastable(p, item) /\ item.msg \in Queries
  BY <1>1 DEF UpstreamInv, BroadcastItem
<1>3. q \in Neighbors[p] /\ q \in Peers /\ p \in Neighbors[q]
  BY NeighborsAssumption DEF BroadcastTargets
<1> QED BY <1>2, <1>3 DEF Broadcastable, Deliverable

\* What is at the head of the broadcast queue is a message.
LEMMA HeadMessage ==
  ASSUME TypeOK, NEW p \in Peers, m_broadcast_queue[p] # <<>>
  PROVE  Head(m_broadcast_queue[p]).msg \in Message
<1>1. Head(m_broadcast_queue[p]) \in BroadcastItem
  BY HeadTailProperties DEF TypeOK
<1> QED BY <1>1 DEF BroadcastItem, Message

\* What is in the sockets after Send.
LEMMA SendInv ==
  ASSUME TypeOK, Remembers, NEW p \in Peers, NEW targets \in SUBSET Peers,
         NEW msg \in Message, Send(p, targets, msg),
         \A q \in targets : Deliverable(q, msg)'
  PROVE  \A r, q \in Peers : \A m \in Range(sock'[r][q]) :
           m \in Range(sock[r][q]) \/ Deliverable(q, m)'
<1> SUFFICES ASSUME NEW r \in Peers, NEW q \in Peers, NEW m \in Range(sock'[r][q])
             PROVE  m \in Range(sock[r][q]) \/ Deliverable(q, m)'
  OBVIOUS
<1>1. CASE r = p /\ q \in targets
  <2>1. sock'[r][q] = Append(sock[p][q], msg)
    BY <1>1 DEF Send, TypeOK
  <2>2. sock[p][q] \in Seq(Message)
    BY <1>1 DEF TypeOK
  <2>3. Range(Append(sock[p][q], msg)) \subseteq Range(sock[p][q]) \cup {msg}
    BY <2>2, RangeAppend
  <2> QED BY <1>1, <2>1, <2>3
<1>2. CASE ~(r = p /\ q \in targets)
  BY <1>2 DEF Send, TypeOK
<1> QED BY <1>1, <1>2

\* The broadcast thread sends under its own name what it has cached.
LEMMA BroadcastProcessThreadStep ==
  ASSUME TypeOK, UpstreamInv, NEW p \in Peers, BroadcastProcessThread(p)
  PROVE  Forgets /\ UpstreamInv'
<1>1. Forgets
  BY DEF Forgets, BroadcastProcessThread, historyVars
<1>2. Remembers /\ UpstreamsCached'
  BY <1>1, ForgetsRemembers, ForgetsUpstreams DEF UpstreamInv
<1>3. PICK msg \in Message : msg = Head(m_broadcast_queue[p]).msg
  BY HeadMessage DEF BroadcastProcessThread
<1>4. PICK targets \in SUBSET Peers : targets = BroadcastTargets(p)
  BY NeighborsAssumption DEF BroadcastTargets
<1>5. \A r, q \in Peers : \A m \in Range(sock'[r][q]) :
        m \in Range(sock[r][q]) \/ Deliverable(q, m)'
  <2>1. ASSUME NEW q \in targets PROVE Deliverable(q, msg)'
    BY <1>2, <1>3, <1>4, HeadDeliverable, DeliverableStays DEF BroadcastProcessThread
  <2>2. Send(p, targets, msg)
    BY <1>3, <1>4 DEF BroadcastProcessThread
  <2> QED BY <1>2, <2>1, <2>2, SendInv
<1>6. ASSUME NEW q \in Peers, NEW item \in Range(m_broadcast_queue'[q])
      PROVE  item \in Range(m_broadcast_queue[q])
  <2>1. Range(Tail(m_broadcast_queue[p])) \subseteq Range(m_broadcast_queue[p])
    BY RangeHeadTail DEF TypeOK, BroadcastProcessThread
  <2> QED BY <2>1 DEF TypeOK, BroadcastProcessThread
<1>7. ASSUME NEW q \in Peers PROVE HandlerReady(q)'
  BY <1>2, HandlerReadyStays DEF UpstreamInv, BroadcastProcessThread, SameTask
<1>8. UNCHANGED m_messages_queue
  BY DEF BroadcastProcessThread
<1> QED BY <1>1, <1>2, <1>5, <1>6, <1>7, <1>8, UpstreamStep

\* A sender that dies has sent to some of its neighbours.
LEMMA SigPipeStep ==
  ASSUME TypeOK, UpstreamInv, NEW p \in Peers, SigPipe(p)
  PROVE  Forgets /\ UpstreamInv'
<1>1. Forgets
  BY DEF Forgets, SigPipe, historyVars
<1>2. Remembers /\ UpstreamsCached'
  BY <1>1, ForgetsRemembers, ForgetsUpstreams DEF UpstreamInv
<1>3. \A r, q \in Peers : \A m \in Range(sock'[r][q]) :
        m \in Range(sock[r][q]) \/ Deliverable(q, m)'
  <2>1. CASE UNCHANGED sock
    BY <2>1
  <2>2. CASE /\ m_broadcast_queue[p] # <<>>
             /\ \E targets \in SUBSET {q \in BroadcastTargets(p) : alive[q]} :
                  Send(p, targets, Head(m_broadcast_queue[p]).msg)
    <3>1. PICK msg \in Message : msg = Head(m_broadcast_queue[p]).msg
      BY <2>2, HeadMessage
    <3>2. PICK targets \in SUBSET BroadcastTargets(p) : Send(p, targets, msg)
      BY <2>2, <3>1
    <3>3. targets \subseteq Peers
      BY NeighborsAssumption DEF BroadcastTargets
    <3>4. ASSUME NEW q \in targets PROVE Deliverable(q, msg)'
      BY <1>2, <2>2, <3>1, <3>2, <3>3, HeadDeliverable, DeliverableStays
    <3> QED BY <1>2, <3>2, <3>3, <3>4, SendInv
  <2> QED BY <2>1, <2>2 DEF SigPipe
<1>4. ASSUME NEW q \in Peers PROVE HandlerReady(q)'
  BY <1>2, HandlerReadyStays DEF UpstreamInv, SigPipe, SameTask
<1>5. UNCHANGED <<m_broadcast_queue, m_messages_queue>>
  BY DEF SigPipe
<1> QED BY <1>1, <1>2, <1>3, <1>4, <1>5, UpstreamStep

\* A message moves from a socket to m_messages_queue.
LEMMA DealWithRequestStep ==
  ASSUME TypeOK, UpstreamInv, NEW p \in Peers, NEW q \in Peers, DealWithRequest(p, q)
  PROVE  Forgets /\ UpstreamInv'
<1>1. Forgets
  BY DEF Forgets, DealWithRequest, historyVars
<1>2. Remembers /\ UpstreamsCached'
  BY <1>1, ForgetsRemembers, ForgetsUpstreams DEF UpstreamInv
<1>3. PICK msg \in Message :
        /\ msg = Head(sock[p][q])
        /\ msg \in Range(sock[p][q])
        /\ Range(Tail(sock[p][q])) \subseteq Range(sock[p][q])
  BY RangeHeadTail, HeadTailProperties DEF TypeOK, DealWithRequest
<1>4. Deliverable(q, msg)'
  BY <1>2, <1>3, DeliverableStays DEF UpstreamInv
<1>5. ASSUME NEW r \in Peers, NEW s \in Peers, NEW m \in Range(sock'[r][s])
      PROVE  m \in Range(sock[r][s])
  BY <1>3 DEF TypeOK, DealWithRequest
<1>6. ASSUME NEW r \in Peers, NEW m \in Range(m_messages_queue'[r])
      PROVE  m \in Range(m_messages_queue[r]) \/ Deliverable(r, m)'
  <2>1. m_messages_queue[q] \in Seq(Message)
    BY DEF TypeOK
  <2>2. Range(Append(m_messages_queue[q], msg)) \subseteq Range(m_messages_queue[q]) \cup {msg}
    BY <2>1, RangeAppend
  <2> QED BY <1>3, <1>4, <2>2 DEF TypeOK, DealWithRequest
<1>7. ASSUME NEW r \in Peers PROVE HandlerReady(r)'
  BY <1>2, HandlerReadyStays DEF UpstreamInv, DealWithRequest, SameTask
<1>8. UNCHANGED m_broadcast_queue
  BY DEF DealWithRequest
<1> QED BY <1>1, <1>2, <1>5, <1>6, <1>7, <1>8, UpstreamStep

\* What a handler takes was in m_messages_queue, and nothing is put there.
LEMMA TakesRange ==
  ASSUME TypeOK, NEW p \in Peers, NEW type, Takes(p, type)
  PROVE  /\ Head(m_messages_queue[p]) \in Range(m_messages_queue[p])
         /\ \A q \in Peers : Range(m_messages_queue'[q]) \subseteq Range(m_messages_queue[q])
BY RangeHeadTail DEF TypeOK, Takes

\* A query that p has not seen comes from a neighbour that knows it, and not from
\* p itself: the originator knows it too.
LEMMA NewQuery ==
  ASSUME TypeOK, UpstreamInv, NEW p \in Peers, NEW type \in {"query", "inv_query"} \cup TestTypes,
         Takes(p, type), ~IsQueryCached(p, Head(m_messages_queue[p]).id),
         CacheQuery(p, Head(m_messages_queue[p]).id, Head(m_messages_queue[p]).peer)
  PROVE  \E msg \in Queries :
           /\ msg = Head(m_messages_queue[p])
           /\ Learns(p, msg.id, msg.peer)
           /\ Known(p, msg.id)'
           /\ msg.id \in lost \/ msg.id.peer # p
<1>1. PICK msg \in Queries : msg = Head(m_messages_queue[p])
  BY TakesType
<1>2. msg \in Message /\ msg.id \in MsgIds /\ msg.peer \in Peers
  BY DEF Message, Queries
<1>3. msg.peer \in Neighbors[p] /\ Known(msg.peer, msg.id)
  BY <1>1, TakesRange DEF UpstreamInv, Deliverable
<1>4. msg.id \in lost \/ msg.id.peer # p
  BY <1>1, <1>3 DEF Known
<1>5. Learns(p, msg.id, msg.peer)
  BY <1>1, <1>3, <1>4 DEF Learns, Known, Takes, historyVars
<1>6. Remembers /\ IsQueryCached(p, msg.id)'
  BY <1>2, <1>5, LearnsRemembers
<1>7. Known(p, msg.id)'
  <2>1. msg.id.peer \in Peers
    BY <1>2 DEF MsgIds
  <2> QED BY <1>2, <1>3, <1>6, <2>1 DEF Known, Remembers
<1> QED BY <1>1, <1>4, <1>5, <1>7

\* RelayQuery puts the peer's own name into the message.
LEMMA RelayedQueryBroadcastable ==
  ASSUME NEW p \in Peers, NEW msg \in Queries, NEW factor, Known(p, msg.id)'
  PROVE  Broadcastable(p, RelayedQuery(p, msg, factor))'
<1> DEFINE relayed == [msg EXCEPT !.ttl = @ - 1, !.peer = p, !.factor = factor]
<1>1. relayed.peer = p /\ relayed.id = msg.id
  BY DEF Queries
<1> QED BY <1>1 DEF RelayedQuery, Broadcastable

\* The handler of p begins to relay a hit of a query it knows.
LEMMA BeginsRelay ==
  ASSUME TypeOK, UpstreamInv, Remembers, NEW p \in Peers, NEW hit \in Hits,
         NEW after \in Seq(BroadcastItem), handler' = [handler EXCEPT ![p] = Relaying(hit, after)],
         Known(p, hit.id)', hit.id \in lost \/ hit.id.peer # p,
         \A item \in Range(after) : Broadcastable(p, item)'
  PROVE  \A q \in Peers : HandlerReady(q)'
<1> SUFFICES ASSUME NEW q \in Peers PROVE HandlerReady(q)'
  OBVIOUS
<1>1. CASE q = p
  <2>1. handler'[p].pc = "relay" /\ handler'[p].msg = hit /\ handler'[p].after = after
    BY DEF TypeOK, Relaying
  <2> QED BY <1>1, <2>1 DEF HandlerReady, RelayReady, TestReady, Remembers
<1>2. CASE q # p
  BY <1>2, HandlerReadyStays DEF UpstreamInv, SameTask, TypeOK
<1> QED BY <1>1, <1>2

\* HandleQuery: the first copy of a query sets the upstream peer.
LEMMA HandleQueryStep ==
  ASSUME TypeOK, UpstreamInv, NEW p \in Peers, HandleQuery(p)
  PROVE  /\ UpstreamInv'
         /\ \E id \in MsgIds, upstream \in Peers : Learns(p, id, upstream)
<1>1. PICK msg \in Queries : /\ msg = Head(m_messages_queue[p])
                             /\ Learns(p, msg.id, msg.peer)
                             /\ Known(p, msg.id)'
                             /\ msg.id \in lost \/ msg.id.peer # p
  BY NewQuery DEF HandleQuery
<1>2. msg.id \in MsgIds /\ msg.peer \in Peers /\ msg.factor \in Nat /\ msg.ttl \in 1 .. TTL
  BY DEF Queries
<1>3. Remembers /\ UpstreamsCached'
  BY <1>1, <1>2, LearnsRemembers, LearnsUpstreams DEF UpstreamInv
<1>4. \A q \in Peers : \A item \in Range(m_broadcast_queue'[q]) :
        item \in Range(m_broadcast_queue[q]) \/ Broadcastable(q, item)'
  <2>1. CASE UNCHANGED m_broadcast_queue
    BY <2>1
  <2>2. CASE msg.ttl > 1 /\ BroadcastAll(p, <<RelayedQuery(p, msg, msg.factor)>>)
    <3>1. PICK item \in BroadcastItem : item = RelayedQuery(p, msg, msg.factor)
      BY <1>2, <2>2, RelayedQueryType
    <3>2. Broadcastable(p, item)'
      BY <1>1, <3>1, RelayedQueryBroadcastable
    <3>3. <<item>> \in Seq(BroadcastItem) /\ Range(<<item>>) = {item}
      BY DEF Range
    <3> QED BY <2>2, <3>1, <3>2, <3>3, BroadcastAllInv
  <2> QED BY <1>1, <2>1, <2>2 DEF HandleQuery
<1>5. \A q \in Peers : HandlerReady(q)'
  <2>1. CASE UNCHANGED handler
    BY <1>3, <2>1, HandlerReadyStays DEF UpstreamInv, SameTask
  <2>2. CASE handler' = [handler EXCEPT ![p] = Relaying(HitMessage(p, "query_hit", msg.id), <<>>)]
    <3>1. PICK hit \in Hits : hit = HitMessage(p, "query_hit", msg.id)
      BY <1>2, HitMessageType
    <3>2. hit.id = msg.id
      BY <3>1 DEF HitMessage
    <3> QED BY <1>1, <1>3, <2>2, <3>1, <3>2, BeginsRelay, EmptySeq, RangeEmpty
  <2> QED BY <1>1, <2>1, <2>2 DEF HandleQuery
<1>6. UNCHANGED sock
      /\ \A q \in Peers : Range(m_messages_queue'[q]) \subseteq Range(m_messages_queue[q])
  BY TakesRange DEF HandleQuery, Takes
<1> QED BY <1>1, <1>2, <1>3, <1>4, <1>5, <1>6, UpstreamStep

\* HandleInvQuery: likewise, and the relayed query waits for the hit to be sent.
LEMMA HandleInvQueryStep ==
  ASSUME TypeOK, UpstreamInv, NEW p \in Peers, HandleInvQuery(p)
  PROVE  /\ UpstreamInv'
         /\ \E id \in MsgIds, upstream \in Peers : Learns(p, id, upstream)
<1>1. PICK msg \in Queries : /\ msg = Head(m_messages_queue[p])
                             /\ Learns(p, msg.id, msg.peer)
                             /\ Known(p, msg.id)'
                             /\ msg.id \in lost \/ msg.id.peer # p
  BY NewQuery DEF HandleInvQuery
<1>2. msg.id \in MsgIds /\ msg.peer \in Peers /\ msg.factor \in Nat /\ msg.ttl \in 1 .. TTL
  BY DEF Queries
<1>3. Remembers /\ UpstreamsCached'
  BY <1>1, <1>2, LearnsRemembers, LearnsUpstreams DEF UpstreamInv
<1>4. PICK items \in Seq(BroadcastItem) :
        /\ items = InvQueriesToRelay(p, msg)
        /\ \A item \in Range(items) : Broadcastable(p, item)'
  <2>1. CASE msg.factor > 1 /\ msg.ttl > 1
    <3>1. PICK item \in BroadcastItem : item = RelayedQuery(p, msg, msg.factor - 1)
      BY <1>2, <2>1, RelayedQueryType
    <3>2. Broadcastable(p, item)'
      BY <1>1, <3>1, RelayedQueryBroadcastable
    <3>3. <<item>> \in Seq(BroadcastItem) /\ Range(<<item>>) = {item}
      BY DEF Range
    <3> QED BY <2>1, <3>1, <3>2, <3>3 DEF InvQueriesToRelay
  <2>2. CASE ~(msg.factor > 1 /\ msg.ttl > 1)
    BY <2>2, EmptySeq, RangeEmpty DEF InvQueriesToRelay
  <2> QED BY <2>1, <2>2
<1>5. \A q \in Peers : \A item \in Range(m_broadcast_queue'[q]) :
        item \in Range(m_broadcast_queue[q]) \/ Broadcastable(q, item)'
  <2>1. UNCHANGED m_broadcast_queue \/ BroadcastAll(p, items)
    BY <1>1, <1>4 DEF HandleInvQuery
  <2> QED BY <1>4, <2>1, BroadcastAllInv
<1>6. \A q \in Peers : HandlerReady(q)'
  <2>1. CASE UNCHANGED handler
    BY <1>3, <2>1, HandlerReadyStays DEF UpstreamInv, SameTask
  <2>2. CASE handler' = [handler EXCEPT ![p] = Relaying(HitMessage(p, "inv_query_hit", msg.id), items)]
    <3>1. PICK hit \in Hits : hit = HitMessage(p, "inv_query_hit", msg.id)
      BY <1>2, HitMessageType
    <3>2. hit.id = msg.id
      BY <3>1 DEF HitMessage
    <3> QED BY <1>1, <1>3, <1>4, <2>2, <3>1, <3>2, BeginsRelay
  <2> QED BY <1>1, <1>4, <2>1, <2>2 DEF HandleInvQuery
<1>7. UNCHANGED sock
      /\ \A q \in Peers : Range(m_messages_queue'[q]) \subseteq Range(m_messages_queue[q])
  BY TakesRange DEF HandleInvQuery, Takes
<1> QED BY <1>1, <1>2, <1>3, <1>5, <1>6, <1>7, UpstreamStep

\* A load test is cached like a query, and relayed when its calls are made.
LEMMA HandleLoadTestStep ==
  ASSUME TypeOK, UpstreamInv, NEW p \in Peers, HandleLoadTest(p)
  PROVE  /\ UpstreamInv'
         /\ \E id \in MsgIds, upstream \in Peers : Learns(p, id, upstream)
<1>1. PICK type \in TestTypes : Takes(p, type)
  BY DEF HandleLoadTest, TestTypes
<1>2. PICK msg \in Queries : /\ msg = Head(m_messages_queue[p])
                             /\ Learns(p, msg.id, msg.peer)
                             /\ Known(p, msg.id)'
  BY <1>1, NewQuery DEF HandleLoadTest
<1>3. msg.id \in MsgIds /\ msg.peer \in Peers
  BY DEF Queries
<1>4. Remembers /\ UpstreamsCached'
  BY <1>2, <1>3, LearnsRemembers, LearnsUpstreams DEF UpstreamInv
<1>5. ASSUME NEW q \in Peers PROVE HandlerReady(q)'
  <2>1. handler' = [handler EXCEPT ![p] = [pc |-> "test", msg |-> msg]]
    BY <1>2 DEF HandleLoadTest
  <2>2. CASE q = p
    <3>1. handler'[p].pc = "test" /\ handler'[p].msg = msg
      BY <2>1 DEF TypeOK
    <3> QED BY <1>2, <2>2, <3>1 DEF HandlerReady, RelayReady, TestReady
  <2>3. CASE q # p
    BY <1>4, <2>1, <2>3, HandlerReadyStays DEF UpstreamInv, SameTask, TypeOK
  <2> QED BY <2>2, <2>3
<1>6. UNCHANGED <<sock, m_broadcast_queue>>
      /\ \A q \in Peers : Range(m_messages_queue'[q]) \subseteq Range(m_messages_queue[q])
  BY <1>1, TakesRange DEF HandleLoadTest, Takes
<1> QED BY <1>2, <1>3, <1>4, <1>5, <1>6, UpstreamStep

\* The peers around hear of the load test from a peer that has it cached.
LEMMA RelayLoadTestStep ==
  ASSUME TypeOK, UpstreamInv, NEW p \in Peers, RelayLoadTest(p)
  PROVE  Forgets /\ UpstreamInv'
<1>1. Forgets
  BY DEF Forgets, RelayLoadTest, historyVars
<1>2. Remembers /\ UpstreamsCached'
  BY <1>1, ForgetsRemembers, ForgetsUpstreams DEF UpstreamInv
<1>3. PICK msg \in Queries : msg = handler[p].msg
  BY HandlerType DEF RelayLoadTest
<1>4. msg.id \in MsgIds /\ msg.factor \in Nat /\ Known(p, msg.id)
  BY <1>3 DEF RelayLoadTest, UpstreamInv, HandlerReady, TestReady, Queries
<1>5. Known(p, msg.id)'
  BY <1>2, <1>4, KnownStays
<1>6. \A q \in Peers : \A item \in Range(m_broadcast_queue'[q]) :
        item \in Range(m_broadcast_queue[q]) \/ Broadcastable(q, item)'
  <2>1. CASE UNCHANGED m_broadcast_queue
    BY <2>1
  <2>2. CASE msg.ttl > 1 /\ BroadcastAll(p, <<RelayedQuery(p, msg, msg.factor)>>)
    <3>1. PICK item \in BroadcastItem : item = RelayedQuery(p, msg, msg.factor)
      BY <1>4, <2>2, RelayedQueryType
    <3>2. Broadcastable(p, item)'
      BY <1>5, <3>1, RelayedQueryBroadcastable
    <3>3. <<item>> \in Seq(BroadcastItem) /\ Range(<<item>>) = {item}
      BY DEF Range
    <3> QED BY <2>2, <3>1, <3>2, <3>3, BroadcastAllInv
  <2> QED BY <1>3, <2>1, <2>2 DEF RelayLoadTest
<1>7. \A q \in Peers : HandlerReady(q)'
  <2>1. Idle.pc \notin {"relay", "test"} /\ handler' = [handler EXCEPT ![p] = Idle]
    BY DEF Idle, RelayLoadTest
  <2> QED BY <1>2, <2>1, EndsTask, HandlerReadyStays DEF UpstreamInv
<1>8. UNCHANGED <<sock, m_messages_queue>>
  BY DEF RelayLoadTest
<1> QED BY <1>1, <1>2, <1>6, <1>7, <1>8, UpstreamStep

\* A second copy of a query changes nothing.
LEMMA DropQueryStep ==
  ASSUME TypeOK, UpstreamInv, NEW p \in Peers, DropQuery(p)
  PROVE  Forgets /\ UpstreamInv'
<1>1. Forgets
  BY DEF Forgets, DropQuery, Takes, historyVars
<1>2. Remembers /\ UpstreamsCached'
  BY <1>1, ForgetsRemembers, ForgetsUpstreams DEF UpstreamInv
<1>3. UNCHANGED <<sock, m_broadcast_queue, handler>>
      /\ \A q \in Peers : Range(m_messages_queue'[q]) \subseteq Range(m_messages_queue[q])
  BY TakesRange DEF DropQuery, Takes
<1>4. \A q \in Peers : HandlerReady(q)'
  BY <1>2, <1>3, HandlerReadyStays DEF UpstreamInv, SameTask
<1> QED BY <1>1, <1>2, <1>3, <1>4, UpstreamStep

\* HandleQueryHit: a hit that arrived belongs to a query this peer knows.
LEMMA HandleQueryHitStep ==
  ASSUME TypeOK, UpstreamInv, NEW p \in Peers, HandleQueryHit(p)
  PROVE  Forgets /\ UpstreamInv'
<1>1. Forgets
  BY DEF Forgets, HandleQueryHit, Takes, historyVars
<1>2. Remembers /\ UpstreamsCached'
  BY <1>1, ForgetsRemembers, ForgetsUpstreams DEF UpstreamInv
<1>3. UNCHANGED <<sock, m_broadcast_queue>>
      /\ \A q \in Peers : Range(m_messages_queue'[q]) \subseteq Range(m_messages_queue[q])
  BY TakesRange DEF HandleQueryHit, Takes
<1>4. PICK hit \in Hits : hit = Head(m_messages_queue[p]) /\ hit \in Range(m_messages_queue[p])
  BY TakesType, TakesRange DEF HandleQueryHit
<1>5. hit \in Message /\ hit \notin Queries /\ hit.id \in MsgIds
  BY DEF Message, Queries, Hits, TestTypes
<1>6. Known(p, hit.id)'
  BY <1>2, <1>4, <1>5, KnownStays DEF UpstreamInv, Deliverable
<1>7. \A q \in Peers : HandlerReady(q)'
  <2>1. CASE hit.id.peer # p /\ handler' = [handler EXCEPT ![p] = Relaying(hit, <<>>)]
    BY <1>2, <1>6, <2>1, BeginsRelay, EmptySeq, RangeEmpty
  <2>2. CASE handler' = [handler EXCEPT ![p] = [pc |-> "record", msg |-> hit]]
    BY <1>2, <2>2, EndsTask, HandlerReadyStays DEF UpstreamInv
  <2>3. CASE UNCHANGED handler
    BY <1>2, <2>3, HandlerReadyStays DEF UpstreamInv, SameTask
  <2> QED BY <1>4, <2>1, <2>2, <2>3 DEF HandleQueryHit
<1> QED BY <1>1, <1>2, <1>3, <1>7, UpstreamStep

\* RelayQueryHit: the upstream peer knows the query too, unless a lookup missed.
LEMMA RelayQueryHitStep ==
  ASSUME TypeOK, UpstreamInv, NEW p \in Peers, RelayQueryHit(p)
  PROVE  Forgets /\ UpstreamInv'
<1>1. PICK hit \in Hits : hit = handler[p].msg
  BY HandlerType DEF RelayQueryHit
<1>2. PICK after \in Seq(BroadcastItem) : after = handler[p].after
  BY HandlerType DEF RelayQueryHit
<1>3. hit \in Message /\ hit \notin Queries /\ hit.id \in MsgIds /\ hit.id.peer \in Peers
  BY DEF Message, Queries, Hits, MsgIds, TestTypes
<1>4. PICK entry \in {m_queries[p][hit.id]} \cup (IF handler[p].racy THEN {Absent} ELSE {}) :
      \E upstream \in {IF entry = Absent THEN DefaultPeer ELSE entry} :
        /\ m_queries' = [m_queries EXCEPT ![p][hit.id] = upstream]
        /\ lost' = IF entry = Absent THEN lost \cup {hit.id} ELSE lost
        /\ \/ /\ upstream \in Neighbors[p]
              /\ Send(p, {upstream}, hit)
              /\ BroadcastAll(p, after)
              /\ handler' = [handler EXCEPT ![p] = Idle]
           \/ UNCHANGED <<sock, m_broadcast_queue, handler>>
  BY <1>1, <1>2 DEF RelayQueryHit
<1>5. PICK upstream \in {IF entry = Absent THEN DefaultPeer ELSE entry} :
        /\ m_queries' = [m_queries EXCEPT ![p][hit.id] = upstream]
        /\ lost' = IF entry = Absent THEN lost \cup {hit.id} ELSE lost
        /\ \/ /\ upstream \in Neighbors[p]
              /\ Send(p, {upstream}, hit)
              /\ BroadcastAll(p, after)
              /\ handler' = [handler EXCEPT ![p] = Idle]
           \/ UNCHANGED <<sock, m_broadcast_queue, handler>>
  BY <1>4
<1>6. Forgets
  BY <1>3, <1>5 DEF Forgets, TypeOK
<1>7. Remembers /\ UpstreamsCached'
  BY <1>6, ForgetsRemembers, ForgetsUpstreams DEF UpstreamInv
<1>8. /\ Known(p, hit.id)
      /\ hit.id \in lost \/ hit.id.peer # p
      /\ \A item \in Range(after) : Broadcastable(p, item)
  BY <1>1, <1>2 DEF RelayQueryHit, UpstreamInv, HandlerReady, RelayReady
<1>9. ASSUME upstream \in Neighbors[p] PROVE upstream \in Peers /\ Deliverable(upstream, hit)'
  <2>1. upstream \in Peers
    BY <1>9, NeighborsAssumption
  <2>2. CASE hit.id \in lost'
    BY <1>3, <2>1, <2>2 DEF Deliverable, Known
  <2>3. CASE hit.id \notin lost'
    <3>1. hit.id \notin lost /\ upstream = m_queries[p][hit.id]
      BY <1>5, <2>3
    <3>2. IsQueryCached(upstream, hit.id) /\ IsQueryCached(hit.id.peer, hit.id)
      BY <1>3, <1>8, <3>1 DEF Known, UpstreamInv, UpstreamsCached
    <3> QED BY <1>3, <1>7, <2>1, <2>3, <3>2 DEF Remembers, Deliverable, Known
  <2> QED BY <2>1, <2>2, <2>3
<1>10. \A r, q \in Peers : \A m \in Range(sock'[r][q]) :
        m \in Range(sock[r][q]) \/ Deliverable(q, m)'
  <2>1. CASE UNCHANGED sock
    BY <2>1
  <2>2. CASE upstream \in Neighbors[p] /\ Send(p, {upstream}, hit)
    <3>1. {upstream} \in SUBSET Peers /\ \A q \in {upstream} : Deliverable(q, hit)'
      BY <1>9, <2>2
    <3> QED BY <1>3, <1>7, <2>2, <3>1, SendInv
  <2> QED BY <1>5, <2>1, <2>2
<1>11. \A q \in Peers : \A item \in Range(m_broadcast_queue'[q]) :
         item \in Range(m_broadcast_queue[q]) \/ Broadcastable(q, item)'
  <2>1. \A item \in Range(after) : Broadcastable(p, item)'
    BY <1>7, <1>8, RangeTyped, BroadcastableStays
  <2>2. UNCHANGED m_broadcast_queue \/ BroadcastAll(p, after)
    BY <1>5
  <2> QED BY <2>1, <2>2, BroadcastAllInv
<1>12. \A q \in Peers : HandlerReady(q)'
  <2>1. Idle.pc \notin {"relay", "test"}
    BY DEF Idle
  <2>2. CASE handler' = [handler EXCEPT ![p] = Idle]
    BY <1>7, <2>1, <2>2, EndsTask, HandlerReadyStays DEF UpstreamInv
  <2>3. CASE UNCHANGED handler
    BY <1>7, <2>3, HandlerReadyStays DEF UpstreamInv, SameTask
  <2> QED BY <1>5, <2>2, <2>3
<1>13. UNCHANGED m_messages_queue
  BY DEF RelayQueryHit
<1> QED BY <1>6, <1>7, <1>10, <1>11, <1>12, <1>13, UpstreamStep

\* MantainQueryMapSize erases entries of ids that are lost from then on.
LEMMA EvictQueriesStep ==
  ASSUME TypeOK, UpstreamInv, NEW p \in Peers, EvictQueries(p)
  PROVE  Forgets /\ UpstreamInv'
<1>1. PICK old \in SUBSET MsgIds :
        /\ m_queries' = [m_queries EXCEPT ![p] = Without(old, @, Absent)]
        /\ lost' = lost \cup {id \in old : IsQueryCached(p, id)}
  <2>1. {msg.id : msg \in asked} \subseteq MsgIds
    BY DEF TypeOK, Queries
  <2> QED BY <2>1 DEF EvictQueries
<1>2. Forgets
  BY <1>1 DEF Forgets, Without, IsQueryCached, TypeOK
<1>3. Remembers /\ UpstreamsCached'
  BY <1>2, ForgetsRemembers, ForgetsUpstreams DEF UpstreamInv
<1>4. \A q \in Peers : HandlerReady(q)'
  BY <1>3, RacedSameTask, HandlerReadyStays DEF UpstreamInv, EvictQueries
<1>5. UNCHANGED <<sock, m_broadcast_queue, m_messages_queue>>
  BY DEF EvictQueries
<1> QED BY <1>2, <1>3, <1>4, <1>5, UpstreamStep

\* The steps that have nothing to do with what the peers know of a query.
LEMMA OtherSteps ==
  ASSUME TypeOK, UpstreamInv, NEW p \in Peers,
         \/ SelectFilesToReplicate(p)
         \/ \E thread \in Callers : SetWaitQueryHit(p, thread)
         \/ RecordQueryHit(p)
         \/ StartTransfers(p)
         \/ CrashInRelay(p)
         \/ \E q \in Neighbors[p] : TornMessage(q, p)
         \/ EvictQueryHitResults(p)
         \/ EvictWaits(p)
         \/ UNCHANGED vars
  PROVE  Forgets /\ UpstreamInv'
<1>1. UNCHANGED <<m_queries, lost, m_broadcast_queue, sock, m_messages_queue>>
  BY DEF SelectFilesToReplicate, SetWaitQueryHit, RecordQueryHit, StartTransfers, CrashInRelay,
         TornMessage, EvictQueryHitResults, EvictWaits, vars, historyVars
<1>2. ASSUME NEW q \in Peers PROVE SameTask(q)
  <2>1. CASE UNCHANGED handler
    BY <2>1 DEF SameTask
  <2>2. CASE RecordQueryHit(p)
    <3>1. handler' = [handler EXCEPT ![p] = handler'[p]] /\ handler'[p].pc \notin {"relay", "test"}
      BY <2>2 DEF RecordQueryHit, Idle, TypeOK
    <3> QED BY <3>1 DEF SameTask, TypeOK
  <2>3. CASE StartTransfers(p)
    <3>1. handler' = [handler EXCEPT ![p] = Idle]
      BY <2>3 DEF StartTransfers
    <3> QED BY <3>1 DEF SameTask, TypeOK, Idle
  <2> QED BY <2>1, <2>2, <2>3
          DEF SelectFilesToReplicate, SetWaitQueryHit, CrashInRelay, TornMessage, EvictQueryHitResults,
              EvictWaits, vars
<1> QED BY <1>1, <1>2, QuietStep
-----------------------------------------------------------------------------
(* All steps.                                                              *)

\* A step changes what the peers know of a query in one of two ways.
Step == Forgets \/ \E p \in Peers, id \in MsgIds, upstream \in Peers \cup {NoPeer} :
                    Learns(p, id, upstream)

\* Every step keeps UpstreamInv and is one of the two kinds.
LEMMA NextStep ==
  ASSUME TypeOK, UpstreamInv, [Next]_vars
  PROVE  UpstreamInv' /\ Step
<1>1. CASE UNCHANGED vars
  <2>1. PICK p : p \in Peers
    BY PeersAssumption
  <2> QED BY <1>1, <2>1, OtherSteps DEF Step
<1>2. ASSUME NEW p \in Peers, NEW file \in Files,
             NEW type \in {"query", "inv_query"} \cup TestTypes,
             type = "inv_query" => ReplicationFactor > 1, Issue(p, type, file)
      PROVE  UpstreamInv' /\ Step
  BY <1>2, IssueStep DEF Step
<1>3. ASSUME NEW p \in Peers, Command(p) PROVE UpstreamInv' /\ Step
  <2>1. PICK file \in Files : \/ QueryCommand(p, file) \/ ObtainFile(p, file)
                              \/ InvQueryCommand(p, file) \/ ReplicateCommand(p, file)
                              \/ LoadTestCommand(p, file)
    BY <1>3 DEF Command
  <2>2. CASE \E type \in {"query", "inv_query"} \cup TestTypes :
               Issue(p, type, file) /\ (type = "inv_query" => ReplicationFactor > 1)
    BY <1>2, <2>2
  <2>3. CASE UNCHANGED <<m_queries, lost, m_broadcast_queue, sock, m_messages_queue, handler>>
    BY <2>3, QuietStep DEF SameTask, Step
  <2>4. CASE LoadTestCommand(p, file)
    <3>1. PICK type \in TestTypes :
            \/ UNCHANGED <<m_queries, lost, m_broadcast_queue, sock, m_messages_queue, handler>>
            \/ Issue(p, type, file)
      BY <2>4 DEF LoadTestCommand, historyVars
    <3>2. type # "inv_query"
      BY DEF TestTypes
    <3> QED BY <2>2, <2>3, <3>1, <3>2
  <2>5. CASE ReplicateCommand(p, file)
    BY <2>2, <2>3, <2>5 DEF ReplicateCommand, historyVars
  <2> QED BY <2>1, <2>2, <2>4, <2>5
          DEF QueryCommand, ObtainFile, InvQueryCommand
<1>4. ASSUME NEW p \in Peers, StartReplicateAllFiles(p) PROVE UpstreamInv' /\ Step
  <2>1. CASE SelectFilesToReplicate(p)
    BY <2>1, OtherSteps DEF Step
  <2>2. CASE ReplicateNextFile(p)
    <3>1. PICK file \in replicate_filenames[p] \ NotStarted : Issue(p, "inv_query", file)
      BY <2>2 DEF ReplicateNextFile
    <3>2. file \in Files
      BY <3>1 DEF TypeOK, NotStarted
    <3> QED BY <1>2, <2>2, <3>1, <3>2 DEF ReplicateNextFile
  <2> QED BY <1>4, <2>1, <2>2 DEF StartReplicateAllFiles
<1>5. ASSUME NEW p \in Peers, HandleMessageThread(p) PROVE UpstreamInv' /\ Step
  BY <1>5, DropQueryStep, HandleQueryStep, HandleInvQueryStep, HandleLoadTestStep,
     RelayLoadTestStep, HandleQueryHitStep, RelayQueryHitStep, OtherSteps
  DEF HandleMessageThread, Step
<1>6. ASSUME NEW p \in Peers, NEW q \in Neighbors[p], DealWithRequest(q, p)
      PROVE  UpstreamInv' /\ Step
  BY <1>6, DealWithRequestStep, NeighborsAssumption DEF Step
<1>7. ASSUME NEW p \in Peers, MantainQueryMapSize(p) PROVE UpstreamInv' /\ Step
  BY <1>7, EvictQueriesStep, OtherSteps DEF MantainQueryMapSize, Step
<1>8. ASSUME NEW p \in Peers,
             \/ \E thread \in Callers : SetWaitQueryHit(p, thread)
             \/ \E q \in Neighbors[p] : TornMessage(q, p)
             \/ BroadcastProcessThread(p) \/ CrashInRelay(p) \/ SigPipe(p)
      PROVE  UpstreamInv' /\ Step
  BY <1>8, OtherSteps, BroadcastProcessThreadStep, SigPipeStep DEF Step
<1>9. ASSUME NEW p \in Peers, NEW thread \in Testers, LoadTestCall(p, thread)
      PROVE  UpstreamInv' /\ Step
  <2>1. Head(load_test[p][thread]) \in TestCalls
    BY <1>9, HeadTailProperties DEF LoadTestCall, TypeOK
  <2> QED BY <1>2, <1>9, <2>1 DEF LoadTestCall, TestCalls
<1> QED BY <1>1, <1>3, <1>4, <1>5, <1>6, <1>7, <1>8, <1>9 DEF Next

\* Nobody knows any query at the start.
LEMMA InitUpstream == Init => UpstreamInv /\ NoUpstreamCycle
<1> SUFFICES ASSUME Init PROVE UpstreamInv /\ NoUpstreamCycle
  OBVIOUS
<1>1. UpstreamsCached /\ NoUpstreamCycle
  BY DEF Init, UpstreamsCached, NoUpstreamCycle, IsQueryCached
<1>2. \A p \in Peers : HandlerReady(p)
  BY DEF Init, HandlerReady, RelayReady, TestReady, Idle
<1> QED BY <1>1, <1>2, RangeEmpty DEF Init, UpstreamInv

\* The invariant gives RelayQueryHit its upstream peer.
LEMMA RelayFound ==
  ASSUME TypeOK, UpstreamInv
  PROVE  RelayFindsUpstream
<1> SUFFICES ASSUME NEW p \in Peers, handler[p].pc = "relay", handler[p].msg.id \notin lost
             PROVE  m_queries[p][handler[p].msg.id] \in Neighbors[p]
  BY DEF RelayFindsUpstream
<1>1. handler[p].msg.id \in MsgIds
  BY HandlerType
<1>2. IsQueryCached(p, handler[p].msg.id) /\ handler[p].msg.id.peer # p
  BY DEF UpstreamInv, HandlerReady, RelayReady, Known
<1> QED BY <1>1, <1>2 DEF UpstreamInv, UpstreamsCached

\* CacheQuery changes one entry of one peer, and none that is there already.
LEMMA LearnsElsewhere ==
  ASSUME m_queries \in [Peers -> [MsgIds -> Peers \cup {NoPeer, Absent}]],
         NEW q \in Peers, NEW i \in MsgIds, NEW upstream \in Peers \cup {NoPeer},
         Learns(q, i, upstream),
         NEW p \in Peers, NEW id \in MsgIds,
         p # q \/ id # i \/ m_queries[p][id] # Absent
  PROVE  m_queries'[p][id] = m_queries[p][id]
<1>1. m_queries' = [m_queries EXCEPT ![q][i] = IF @ = Absent THEN upstream ELSE @]
  BY DEF Learns, CacheQuery
<1>2. CASE p # q
  BY <1>1, <1>2
<1>3. CASE p = q /\ id # i
  BY <1>1, <1>3
<1>4. CASE p = q /\ id = i /\ m_queries[p][id] # Absent
  BY <1>1, <1>4
<1> QED BY <1>2, <1>3, <1>4

\* A peer that learns of a query hangs itself under one that is in the tree already.
LEMMA CycleStep ==
  ASSUME TypeOK, UpstreamInv, NoUpstreamCycle, Step
  PROVE  NoUpstreamCycle'
<1> SUFFICES ASSUME NEW id \in MsgIds \ lost', NEW S \in SUBSET (Peers \ {id.peer}),
                    S # {}, \A p \in S : IsQueryCached(p, id)'
             PROVE  \E p \in S : m_queries'[p][id] \notin S
  BY DEF NoUpstreamCycle
<1>1. CASE Forgets
  <2>1. id \notin lost /\ \A p \in S : m_queries'[p][id] = m_queries[p][id]
    BY <1>1 DEF Forgets
  <2>2. \A p \in S : IsQueryCached(p, id)
    BY <2>1 DEF IsQueryCached
  <2> QED BY <2>1, <2>2 DEF NoUpstreamCycle
<1>2. ASSUME NEW q \in Peers, NEW i \in MsgIds, NEW upstream \in Peers \cup {NoPeer},
             Learns(q, i, upstream)
      PROVE  \E p \in S : m_queries'[p][id] \notin S
  <2>1. id \notin lost
    BY <1>2 DEF Learns
  <2>2. ASSUME NEW p \in S, p # q \/ id # i \/ IsQueryCached(p, id)
        PROVE  m_queries'[p][id] = m_queries[p][id] /\ IsQueryCached(p, id)
    <3>1. m_queries'[p][id] = m_queries[p][id]
      BY <1>2, <2>2, LearnsElsewhere DEF TypeOK, IsQueryCached
    <3> QED BY <2>2, <3>1 DEF IsQueryCached
  <2>3. CASE \A p \in S : IsQueryCached(p, id)
    BY <2>1, <2>2, <2>3 DEF NoUpstreamCycle
  <2>4. CASE q \in S /\ id = i /\ ~IsQueryCached(q, id)
    <3>1. m_queries'[q][id] = upstream
      BY <1>2, <2>4 DEF Learns, CacheQuery, IsQueryCached, TypeOK
    <3>2. IsQueryCached(upstream, id)
      BY <1>2, <2>1, <2>4 DEF Learns
    <3>3. CASE S = {q}
      BY <2>4, <3>1, <3>2, <3>3
    <3>4. CASE S # {q}
      <4>1. PICK p \in S \ {q} : m_queries[p][id] \notin S \ {q}
        <5>1. /\ S \ {q} \in SUBSET (Peers \ {id.peer}) /\ S \ {q} # {}
              /\ \A p \in S \ {q} : IsQueryCached(p, id)
          BY <2>2, <2>4, <3>4
        <5> QED BY <2>1, <5>1 DEF NoUpstreamCycle
      <4>2. IsQueryCached(m_queries[p][id], id)
        BY <2>1, <2>2 DEF UpstreamInv, UpstreamsCached
      <4> QED BY <2>2, <2>4, <4>1, <4>2
    <3> QED BY <3>3, <3>4
  <2> QED BY <2>2, <2>3, <2>4
<1> QED BY <1>1, <1>2 DEF Step
-----------------------------------------------------------------------------
\* What is under way for a query is about a query that both ends know, in every
\* overlay that satisfies the assumptions, as long as nobody has forgotten it.
THEOREM UpstreamInvariant == Spec => []UpstreamInv
<1>1. Init => TypeOK /\ UpstreamInv
  BY InitType, InitUpstream
<1>2. TypeOK /\ UpstreamInv /\ [Next]_vars => TypeOK' /\ UpstreamInv'
  BY NextType, NextStep
<1> QED BY <1>1, <1>2, PTL DEF Spec

\* The assertion of RelayQueryHit (peer_client.cpp:1035) holds for every query that
\* nobody has forgotten.
THEOREM RelayCorrect == Spec => []RelayFindsUpstream
<1>1. TypeOK /\ UpstreamInv => RelayFindsUpstream
  BY RelayFound
<1> QED BY <1>1, TypeCorrect, UpstreamInvariant, PTL

\* A hit cannot go round in a circle: the recorded upstream peers of a query that
\* nobody has forgotten form a tree.
THEOREM UpstreamTree == Spec => []NoUpstreamCycle
<1>1. Init => TypeOK /\ UpstreamInv /\ NoUpstreamCycle
  BY InitType, InitUpstream
<1>2. TypeOK /\ UpstreamInv /\ NoUpstreamCycle /\ [Next]_vars
        => TypeOK' /\ UpstreamInv' /\ NoUpstreamCycle'
  BY NextType, NextStep, CycleStep
<1> QED BY <1>1, <1>2, PTL DEF Spec
=============================================================================
