-------------------------- MODULE PeerClientTransfers --------------------------
(***************************************************************************)
(* Proofs about the transfers that answers start, for every overlay, every *)
(* set of files and every bound of PeerClient: that a query starts its     *)
(* transfers once (TransfersBounded), of the right files (TransfersSensible),*)
(* that no file is pushed to a peer twice (PushedOnce), and that the peers *)
(* together implement FileLookup (LookupCorrect). All but PushedOnce need  *)
(* IdsAssigned: without it TLC shows how they fail.                        *)
(***************************************************************************)
EXTENDS PeerClientNoDuplicates, FiniteSetTheorems

-----------------------------------------------------------------------------
(* The steps of the threads, as far as transfers are concerned.            *)

\* The handler does not begin to start transfers.
StartsOnly(p) == handler'[p].pc = "start" =>
  /\ handler[p].pc = "start"
  /\ handler'[p].msg = handler[p].msg /\ handler'[p].file = handler[p].file

\* Nothing is registered, taken or requested, but waits may be dropped.
Rests ==
  /\ UNCHANGED m_request_queue
  /\ \A p \in Peers, id \in MsgIds : m_wait_queryhit'[p][id] \in {m_wait_queryhit[p][id], NoFile}
  /\ \A p \in Peers : StartsOnly(p)

\* A thread asks, and is about to register its wait for the answers.
Promises(p, thread) ==
  \E type \in {"query", "inv_query"}, file \in Files :
    /\ type = "inv_query" => ReplicationFactor > 1
    /\ Issue(p, type, file)
    /\ pending[p][thread] = NoCall
    /\ pending' = [pending EXCEPT ![p][thread] = [id |-> NextId(p), file |-> file]]

TransferStep ==
  \/ Rests /\ (UNCHANGED pending \/ \E p \in Peers, thread \in Callers : Promises(p, thread))
  \/ \E p \in Peers, thread \in Callers : SetWaitQueryHit(p, thread)
  \/ \E p \in Peers : RecordQueryHit(p) \/ StartTransfers(p)

\* A handler with another task.
LEMMA OtherTask ==
  ASSUME TypeOK, NEW p \in Peers, NEW h, h.pc # "start", handler' = [handler EXCEPT ![p] = h]
  PROVE  \A q \in Peers : StartsOnly(q)
BY DEF StartsOnly, TypeOK

\* A handler that goes on with its task.
LEMMA SameStart ==
  ASSUME \A p \in Peers : KeepsTask(p)
  PROVE  \A p \in Peers : StartsOnly(p)
BY DEF KeepsTask, StartsOnly

\* SendQuery and SendInvQuery register nothing.
LEMMA IssueRests ==
  ASSUME TypeOK, NEW p \in Peers, NEW type, NEW file, Issue(p, type, file)
  PROVE  Rests
BY RacedKeepsTask, SameStart DEF Issue, Rests, hitVars

\* What the console does.
LEMMA CommandTransfers ==
  ASSUME TypeOK, IdsAssigned, NEW p \in Peers, Command(p)
  PROVE  TransferStep
<1>1. PICK file \in Files : \/ QueryCommand(p, file) \/ ObtainFile(p, file)
                            \/ InvQueryCommand(p, file) \/ ReplicateCommand(p, file)
                            \/ LoadTestCommand(p, file)
  BY DEF Command
<1>2. CASE ObtainFile(p, file)
  <2>1. Promises(p, "console")
    BY <1>2 DEF ObtainFile, Promises, Commanded
  <2> QED BY <1>2, <2>1, IssueRests DEF ObtainFile, TransferStep, Callers
<1>3. CASE ReplicateCommand(p, file)
  <2>1. ReplicationFactor > 1
    BY <1>3 DEF ReplicateCommand, Commanded, IdsAssigned
  <2>2. Issue(p, "inv_query", file) /\ Promises(p, "console")
    BY <1>3, <2>1, NumbersAssumption DEF ReplicateCommand, Promises, Commanded
  <2> QED BY <2>2, IssueRests DEF TransferStep, Callers
<1>4. CASE QueryCommand(p, file) \/ InvQueryCommand(p, file)
  BY <1>4, IssueRests DEF QueryCommand, InvQueryCommand, TransferStep
<1>5. CASE LoadTestCommand(p, file)
  <2>1. UNCHANGED pending /\ (UNCHANGED <<handler, hitVars>> \/ \E type : Issue(p, type, file))
    BY <1>5 DEF LoadTestCommand
  <2>2. CASE UNCHANGED <<handler, hitVars>>
    BY <2>1, <2>2 DEF TransferStep, Rests, StartsOnly, hitVars
  <2> QED BY <2>1, <2>2, IssueRests DEF TransferStep
<1> QED BY <1>1, <1>2, <1>3, <1>4, <1>5

\* What the other threads that ask do.
LEMMA CallersTransfers ==
  ASSUME TypeOK, NEW p \in Peers,
         ReplicateNextFile(p) \/ \E thread \in Testers : LoadTestCall(p, thread)
  PROVE  TransferStep
<1>1. CASE ReplicateNextFile(p)
  <2>1. PICK file \in Files :
          /\ Issue(p, "inv_query", file)
          /\ pending' = [pending EXCEPT ![p]["replicate"] = [id |-> NextId(p), file |-> file]]
    BY <1>1 DEF ReplicateNextFile, TypeOK, NotStarted
  <2>2. Promises(p, "replicate")
    BY <1>1, <2>1 DEF ReplicateNextFile, Promises
  <2> QED BY <2>1, <2>2, IssueRests DEF TransferStep, Callers
<1>2. ASSUME NEW thread \in Testers, LoadTestCall(p, thread) PROVE TransferStep
  <2>1. Head(load_test[p][thread]).file \in Files
    <3>1. Head(load_test[p][thread]) \in TestCalls
      BY <1>2, HeadTailProperties DEF LoadTestCall, TypeOK
    <3> QED BY <3>1 DEF TestCalls
  <2>2. Issue(p, "query", Head(load_test[p][thread]).file)
    BY <1>2 DEF LoadTestCall
  <2>3. UNCHANGED pending \/ Promises(p, thread)
    BY <1>2, <2>1, <2>2 DEF LoadTestCall, Promises
  <2>4. thread \in Callers
    BY DEF Testers, Callers
  <2> QED BY <2>2, <2>3, <2>4, IssueRests DEF TransferStep
<1> QED BY <1>1, <1>2

\* What HandleMessageThread does.
LEMMA HandlersTransfers ==
  ASSUME TypeOK, NEW p \in Peers, HandleMessageThread(p)
  PROVE  TransferStep
<1>1. CASE RecordQueryHit(p) \/ StartTransfers(p)
  BY <1>1 DEF TransferStep
<1>2. CASE DropQuery(p) \/ HandleQuery(p) \/ HandleInvQuery(p) \/ HandleLoadTest(p)
           \/ RelayLoadTest(p) \/ HandleQueryHit(p) \/ RelayQueryHit(p)
  <2>1. UNCHANGED <<pending, hitVars>>
    BY <1>2 DEF DropQuery, HandleQuery, HandleInvQuery, HandleLoadTest, RelayLoadTest,
                HandleQueryHit, RelayQueryHit, Takes, callerVars
  <2>2. UNCHANGED handler \/ \E h : h.pc # "start" /\ handler' = [handler EXCEPT ![p] = h]
    <3>1. CASE UNCHANGED handler
      BY <3>1
    <3>2. CASE handler' = [handler EXCEPT ![p] = Idle]
      <4>1. Idle.pc # "start"
        BY DEF Idle
      <4> QED BY <3>2, <4>1
    <3>3. ASSUME NEW hit, NEW after, handler' = [handler EXCEPT ![p] = Relaying(hit, after)]
          PROVE  \E h : h.pc # "start" /\ handler' = [handler EXCEPT ![p] = h]
      <4>1. Relaying(hit, after).pc # "start"
        BY DEF Relaying
      <4> QED BY <3>3, <4>1
    <3>4. ASSUME NEW pc \in {"record", "test"}, NEW msg,
                 handler' = [handler EXCEPT ![p] = [pc |-> pc, msg |-> msg]]
          PROVE  \E h : h.pc # "start" /\ handler' = [handler EXCEPT ![p] = h]
      <4>1. [pc |-> pc, msg |-> msg].pc # "start"
        OBVIOUS
      <4> QED BY <3>4, <4>1
    <3>5. \/ UNCHANGED handler
          \/ handler' = [handler EXCEPT ![p] = Idle]
          \/ \E hit, after : handler' = [handler EXCEPT ![p] = Relaying(hit, after)]
          \/ \E pc \in {"record", "test"} : \E msg :
               handler' = [handler EXCEPT ![p] = [pc |-> pc, msg |-> msg]]
      BY <1>2 DEF DropQuery, HandleQuery, HandleInvQuery, HandleLoadTest, RelayLoadTest,
                  HandleQueryHit, RelayQueryHit
    <3> QED BY <3>1, <3>2, <3>3, <3>4, <3>5
  <2>3. \A q \in Peers : StartsOnly(q)
    BY <2>2, OtherTask DEF StartsOnly
  <2> QED BY <2>1, <2>3 DEF TransferStep, Rests, hitVars
<1> QED BY <1>1, <1>2 DEF HandleMessageThread

\* Every step.
LEMMA NextTransfers ==
  ASSUME TypeOK, IdsAssigned, [Next]_vars
  PROVE  TransferStep
<1>1. CASE UNCHANGED vars
  BY <1>1 DEF vars, TransferStep, Rests, StartsOnly, callerVars, hitVars
<1>2. ASSUME NEW p \in Peers,
             \/ SelectFilesToReplicate(p) \/ BroadcastProcessThread(p)
             \/ \E q \in Neighbors[p] : DealWithRequest(q, p) \/ TornMessage(q, p)
             \/ CrashInRelay(p) \/ SigPipe(p) \/ EvictQueryHitResults(p)
      PROVE  TransferStep
  BY <1>2 DEF SelectFilesToReplicate, BroadcastProcessThread, DealWithRequest, TornMessage, CrashInRelay,
              SigPipe, EvictQueryHitResults, TransferStep, Rests, StartsOnly, callerVars, hitVars
<1>3. ASSUME NEW p \in Peers, EvictQueries(p) PROVE TransferStep
  BY <1>3, RacedKeepsTask, SameStart DEF EvictQueries, TransferStep, Rests, callerVars, hitVars
<1>4. ASSUME NEW p \in Peers, EvictWaits(p) PROVE TransferStep
  <2>1. \A q \in Peers, id \in MsgIds :
          m_wait_queryhit'[q][id] \in {m_wait_queryhit[q][id], NoFile}
    BY <1>4 DEF EvictWaits, Without, TypeOK
  <2> QED BY <1>4, <2>1 DEF EvictWaits, TransferStep, Rests, StartsOnly, callerVars
<1> QED BY <1>1, <1>2, <1>3, <1>4, CommandTransfers, CallersTransfers, HandlersTransfers
        DEF Next, StartReplicateAllFiles, MantainQueryMapSize, TransferStep

-----------------------------------------------------------------------------
(* The file name a query's transfers wait for.                             *)

\* All that is asked for once stays asked for.
LEMMA AskedForStays ==
  ASSUME asked \subseteq asked', NEW p, NEW id, NEW file, AskedFor(p, id, file)
  PROVE  AskedFor(p, id, file)'
BY DEF AskedFor

\* A request's query is one of those asked.
LEMMA RequestedAsked ==
  ASSUME NEW p \in Peers, \A req \in RequestsOf(p) : Requestable(p, req), NEW id, Requested(p, id)
  PROVE  \E query \in asked : query.id = id
BY DEF Requested, Requestable

\* Nobody waits for the next id, or has transferred anything for it.
LEMMA NextIdFree ==
  ASSUME TypeOK, IdsInv, RequestsInv, NEW p \in Peers
  PROVE  /\ ~Waiting(p, NextId(p)) \/ NextId(p) \notin MsgIds
         /\ ~Starting(p, NextId(p)) /\ ~Requested(p, NextId(p))
         /\ \A thread \in Callers : pending[p][thread].id = NextId(p) => pending[p][thread] = NoCall
<1>1. \A query \in asked : query.id # NextId(p)
  BY NextIdNew
<1>2. ~Requested(p, NextId(p))
  BY <1>1, RequestedAsked DEF RequestsInv
<1> QED BY <1>1, <1>2 DEF RequestsInv, WaitsInv, AskedFor, Starting

\* The ids that threads are about to register a wait for are message ids.
LEMMA CallType ==
  ASSUME TypeOK, WaitsInv, NEW p \in Peers, NEW thread \in Callers, pending[p][thread] # NoCall
  PROVE  pending[p][thread].id \in MsgIds /\ pending[p][thread].id # Unset
         /\ pending[p][thread].file \in Files
<1>1. pending[p][thread] \in Calls
  BY DEF TypeOK
<1>2. pending[p][thread].id.peer = p
  BY DEF WaitsInv, AskedFor
<1>3. NoPeer \notin Peers
  BY PeersAssumption DEF NoPeer
<1> QED BY <1>1, <1>2, <1>3 DEF Calls, Unset

\* What a step that registers, takes and requests nothing has to respect.
LEMMA WaitsStay ==
  ASSUME WaitsInv, asked \subseteq asked', Rests,
         \A p \in Peers, thread \in Callers : \E call :
           /\ call = pending'[p][thread]
           /\ \/ call = NoCall \/ call = pending[p][thread]
              \/ /\ AskedFor(p, call.id, call.file)' /\ call.id \in MsgIds
                 /\ ~Waiting(p, call.id) /\ ~Starting(p, call.id) /\ ~Requested(p, call.id),
         \A p \in Peers, thread \in Callers : pending'[p][thread] # NoCall =>
           \A other \in Callers \ {thread} : pending'[p][other].id # pending'[p][thread].id,
         \A p \in Peers, thread \in Callers : pending[p][thread] # NoCall =>
           pending[p][thread].id \in MsgIds
  PROVE  WaitsInv'
<1>1. ASSUME NEW p \in Peers, NEW id \in MsgIds, Waiting(p, id)'
      PROVE  Waiting(p, id) /\ m_wait_queryhit'[p][id] = m_wait_queryhit[p][id]
  BY <1>1 DEF Rests, Waiting
<1>2. ASSUME NEW p \in Peers, NEW id, Starting(p, id)' PROVE Starting(p, id)
  BY <1>2 DEF Rests, StartsOnly, Starting
<1>3. ASSUME NEW p \in Peers, NEW id, Requested(p, id)' PROVE Requested(p, id)
  BY <1>3 DEF Rests, Requested, RequestsOf
<1>4. ASSUME NEW p \in Peers, NEW thread \in Callers, pending'[p][thread] # NoCall
      PROVE  LET call == pending[p][thread] IN
             (/\ AskedFor(p, call.id, call.file)
              /\ ~Waiting(p, call.id) /\ ~Starting(p, call.id) /\ ~Requested(p, call.id))'
  <2>1. PICK call :
          /\ call = pending'[p][thread]
          /\ \/ call = NoCall \/ call = pending[p][thread]
             \/ /\ AskedFor(p, call.id, call.file)' /\ call.id \in MsgIds
                /\ ~Waiting(p, call.id) /\ ~Starting(p, call.id) /\ ~Requested(p, call.id)
    OBVIOUS
  <2>2. /\ AskedFor(p, call.id, call.file)' /\ call.id \in MsgIds
        /\ ~Waiting(p, call.id) /\ ~Starting(p, call.id) /\ ~Requested(p, call.id)
    <3>1. CASE call = pending[p][thread]
      <4>1. /\ AskedFor(p, call.id, call.file) /\ call.id \in MsgIds
            /\ ~Waiting(p, call.id) /\ ~Starting(p, call.id) /\ ~Requested(p, call.id)
        BY <1>4, <2>1, <3>1 DEF WaitsInv
      <4> QED BY <4>1, AskedForStays
    <3> QED BY <1>4, <2>1, <3>1
  <2>3. ~Waiting(p, call.id)' /\ ~Starting(p, call.id)' /\ ~Requested(p, call.id)'
    BY <1>1, <1>2, <1>3, <2>2
  <2> QED BY <2>1, <2>2, <2>3 DEF AskedFor, Waiting, Starting, Requested, RequestsOf
<1>5. ASSUME NEW p \in Peers, NEW id \in MsgIds, Waiting(p, id)'
      PROVE  /\ AskedFor(p, id, m_wait_queryhit[p][id])'
             /\ ~Starting(p, id)' /\ ~Requested(p, id)'
  <2>1. PICK file : file = m_wait_queryhit[p][id]
    OBVIOUS
  <2>2. AskedFor(p, id, file) /\ ~Starting(p, id) /\ ~Requested(p, id)
    BY <1>1, <1>5, <2>1 DEF WaitsInv
  <2>3. AskedFor(p, id, file)' /\ m_wait_queryhit'[p][id] = file
    BY <1>1, <1>5, <2>1, <2>2, AskedForStays
  <2> QED BY <1>2, <1>3, <2>2, <2>3 DEF AskedFor
<1>6. ASSUME NEW p \in Peers, handler'[p].pc = "start"
      PROVE  /\ AskedFor(p, handler[p].msg.id, handler[p].file)'
             /\ ~Requested(p, handler[p].msg.id)'
  <2>1. PICK id, file : id = handler[p].msg.id /\ file = handler[p].file
    OBVIOUS
  <2>2. handler[p].pc = "start" /\ handler'[p].msg.id = id /\ handler'[p].file = file
    BY <1>6, <2>1 DEF Rests, StartsOnly
  <2>3. AskedFor(p, id, file)' /\ ~Requested(p, id)'
    BY <1>3, <2>1, <2>2, AskedForStays DEF WaitsInv
  <2> QED BY <2>2, <2>3 DEF AskedFor, Requested, RequestsOf
<1>7. ASSUME NEW p \in Peers, NEW thread \in Callers, pending'[p][thread] # NoCall,
             NEW other \in Callers \ {thread}
      PROVE  pending'[p][other].id # pending'[p][thread].id
  BY <1>7
<1> QED BY <1>4, <1>5, <1>6, <1>7 DEF WaitsInv

\* Steps of threads that promise nothing.
LEMMA WaitsRest ==
  ASSUME TypeOK, WaitsInv, asked \subseteq asked', Rests, UNCHANGED pending
  PROVE  WaitsInv'
<1>1. \A p \in Peers, thread \in Callers : pending[p][thread] # NoCall =>
        pending[p][thread].id \in MsgIds
  BY CallType
<1>2. \A p \in Peers, thread \in Callers : pending'[p][thread] # NoCall =>
        \A other \in Callers \ {thread} : pending'[p][other].id # pending'[p][thread].id
  BY DEF WaitsInv
<1> QED BY <1>1, <1>2, WaitsStay

\* A thread that has asked promises to register its wait under a new id.
LEMMA WaitsPromised ==
  ASSUME TypeOK, IdsInv, RequestsInv, Rests, NEW p \in Peers, NEW thread \in Callers,
         Promises(p, thread)
  PROVE  WaitsInv'
<1>1. PICK type \in {"query", "inv_query"}, file \in Files :
        /\ type = "inv_query" => ReplicationFactor > 1
        /\ Issue(p, type, file)
        /\ pending' = [pending EXCEPT ![p][thread] = [id |-> NextId(p), file |-> file]]
  BY DEF Promises
<1>2. PICK msg \in Queries : Asks(p, type, file, msg)
  BY <1>1, IssueAsks
<1>3. PICK id \in MsgIds : id = NextId(p) /\ id = msg.id /\ id.peer = p
  BY <1>2 DEF Asks
<1>4. PICK new : new = [id |-> id, file |-> file]
  OBVIOUS
<1>5. pending' = [pending EXCEPT ![p][thread] = new] /\ new.id = id /\ new.file = file
  BY <1>1, <1>3, <1>4
<1>6. asked \subseteq asked' /\ AskedFor(p, id, file)'
  BY <1>2, <1>3 DEF Asks, AskedFor
<1>7. /\ ~Waiting(p, id) /\ ~Starting(p, id) /\ ~Requested(p, id)
      /\ \A other \in Callers : pending[p][other].id = id => pending[p][other] = NoCall
  BY <1>3, NextIdFree
<1>8. \A q \in Peers, other \in Callers : pending[q][other] # NoCall =>
        pending[q][other].id \in MsgIds /\ pending[q][other].id # Unset
  BY CallType DEF RequestsInv
<1>9. NoCall.id = Unset /\ Unset \notin MsgIds
  <2>1. NoPeer \notin Peers
    BY PeersAssumption DEF NoPeer
  <2> QED BY <2>1 DEF NoCall, Unset, MsgIds
<1>10. \A q \in Peers, other \in Callers :
         pending'[q][other] = IF q = p /\ other = thread THEN new ELSE pending[q][other]
  BY <1>5 DEF TypeOK
<1>11. \A q \in Peers, other \in Callers : \E call :
         /\ call = pending'[q][other]
         /\ \/ call = NoCall \/ call = pending[q][other]
            \/ /\ AskedFor(q, call.id, call.file)' /\ call.id \in MsgIds
               /\ ~Waiting(q, call.id) /\ ~Starting(q, call.id) /\ ~Requested(q, call.id)
  BY <1>5, <1>6, <1>7, <1>10
<1>12. ASSUME NEW q \in Peers, NEW one \in Callers, pending'[q][one] # NoCall,
              NEW other \in Callers \ {one}
       PROVE  pending'[q][other].id # pending'[q][one].id
  <2>1. CASE q # p \/ (one # thread /\ other # thread)
    BY <1>10, <1>12, <2>1 DEF RequestsInv, WaitsInv
  <2>2. CASE q = p /\ one = thread
    BY <1>5, <1>7, <1>9, <1>10, <2>2
  <2>3. CASE q = p /\ other = thread
    BY <1>5, <1>7, <1>10, <1>12, <2>3
  <2> QED BY <2>1, <2>2, <2>3
<1> QED BY <1>6, <1>8, <1>11, <1>12, WaitsStay DEF RequestsInv

\* SetWaitQueryHit: the file name goes from the thread to m_wait_queryhit.
LEMMA WaitsRegistered ==
  ASSUME TypeOK, WaitsInv, NEW p \in Peers, NEW thread \in Callers, SetWaitQueryHit(p, thread)
  PROVE  WaitsInv'
<1>1. PICK call : call = pending[p][thread] /\ call # NoCall
  BY DEF SetWaitQueryHit
<1>2. PICK id \in MsgIds : id = call.id /\ id # Unset
  BY <1>1, CallType
<1>3. call.file \in Files
  BY <1>1, CallType
<1>4. /\ m_wait_queryhit' = [m_wait_queryhit EXCEPT ![p][id] = call.file]
      /\ pending' = [pending EXCEPT ![p][thread] = NoCall]
      /\ UNCHANGED <<handler, m_request_queue, asked>>
  BY <1>1, <1>2 DEF SetWaitQueryHit, historyVars
<1>5. /\ AskedFor(p, id, call.file)
      /\ ~Starting(p, id) /\ ~Requested(p, id)
      /\ \A other \in Callers \ {thread} : pending[p][other].id # id
  BY <1>1, <1>2 DEF WaitsInv
<1>6. /\ \A q \in Peers : \A i : AskedFor(q, i, m_wait_queryhit[q][i])' = AskedFor(q, i, m_wait_queryhit'[q][i])
      /\ \A q \in Peers : \A i : Starting(q, i)' = Starting(q, i) /\ Requested(q, i)' = Requested(q, i)
      /\ \A q \in Peers : \A i, file : AskedFor(q, i, file)' = AskedFor(q, i, file)
  BY <1>4 DEF AskedFor, Starting, Requested, RequestsOf
<1>7. \A q \in Peers, i \in MsgIds :
        m_wait_queryhit'[q][i] = IF q = p /\ i = id THEN call.file ELSE m_wait_queryhit[q][i]
  BY <1>4 DEF TypeOK
<1>8. ASSUME NEW q \in Peers, NEW i \in MsgIds, Waiting(q, i)'
      PROVE  (AskedFor(q, i, m_wait_queryhit[q][i]) /\ ~Starting(q, i) /\ ~Requested(q, i))'
  <2>1. AskedFor(q, i, m_wait_queryhit'[q][i]) /\ ~Starting(q, i) /\ ~Requested(q, i)
    BY <1>5, <1>7, <1>8 DEF WaitsInv, Waiting
  <2> QED BY <1>6, <2>1
<1>9. ASSUME NEW q \in Peers, NEW one \in Callers, pending'[q][one] # NoCall
      PROVE  LET now == pending[q][one] IN
             (/\ AskedFor(q, now.id, now.file)
              /\ ~Waiting(q, now.id) /\ ~Starting(q, now.id) /\ ~Requested(q, now.id)
              /\ \A other \in Callers \ {one} : pending[q][other].id # now.id)'
  <2>1. PICK now : now = pending'[q][one]
    OBVIOUS
  <2>2. now = pending[q][one] /\ now # NoCall /\ (q # p \/ one # thread)
    BY <1>4, <1>9, <2>1 DEF TypeOK
  <2>3. /\ AskedFor(q, now.id, now.file)
        /\ ~Waiting(q, now.id) /\ ~Starting(q, now.id) /\ ~Requested(q, now.id)
        /\ \A other \in Callers \ {one} : pending[q][other].id # now.id
        /\ now.id \in MsgIds
    BY <2>2, CallType DEF WaitsInv
  <2>4. q # p \/ now.id # id
    BY <1>5, <2>2
  <2>5. ~Waiting(q, now.id)'
    BY <1>7, <2>3, <2>4 DEF Waiting
  <2>6. ASSUME NEW other \in Callers \ {one} PROVE pending'[q][other].id # now.id
    <3>1. pending'[q][other] = pending[q][other] \/ pending'[q][other] = NoCall
      BY <1>4 DEF TypeOK
    <3>2. NoCall.id = Unset /\ now.id # Unset
      BY <2>2, CallType DEF NoCall
    <3> QED BY <2>3, <3>1, <3>2
  <2>7. AskedFor(q, now.id, now.file)' /\ ~Starting(q, now.id)' /\ ~Requested(q, now.id)'
    BY <1>6, <2>3
  <2> QED BY <2>1, <2>5, <2>6, <2>7 DEF AskedFor, Waiting, Starting, Requested, RequestsOf
<1>10. ASSUME NEW q \in Peers, handler'[q].pc = "start"
       PROVE  (AskedFor(q, handler[q].msg.id, handler[q].file) /\ ~Requested(q, handler[q].msg.id))'
  BY <1>4, <1>10 DEF WaitsInv, AskedFor, Requested, RequestsOf
<1> QED BY <1>8, <1>9, <1>10 DEF WaitsInv

\* RecordQueryHit: the handler takes the file name.
LEMMA WaitsTaken ==
  ASSUME TypeOK, GenuineInv, WaitsInv, NEW p \in Peers, RecordQueryHit(p)
  PROVE  WaitsInv'
<1>1. PICK hit \in Hits : hit = handler[p].msg /\ hit.id.peer = p
  BY HandlerType DEF RecordQueryHit, GenuineInv, HandlerGenuine
<1>2. PICK id, filename : id \in MsgIds /\ id = hit.id /\ filename = m_wait_queryhit[p][id]
  BY DEF Hits
<1>3. /\ handler[p].pc = "record"
      /\ m_wait_queryhit' = [m_wait_queryhit EXCEPT ![p][id] = NoFile]
      /\ UNCHANGED <<pending, m_request_queue, asked>>
  BY <1>1, <1>2 DEF RecordQueryHit, EraseWait, callerVars, historyVars
<1>4. \A q \in Peers, i \in MsgIds :
        m_wait_queryhit'[q][i] = IF q = p /\ i = id THEN NoFile ELSE m_wait_queryhit[q][i]
  BY <1>3 DEF TypeOK
<1>5. CASE filename = NoFile
  <2>1. handler' = [handler EXCEPT ![p] = Idle]
    BY <1>1, <1>2, <1>5 DEF RecordQueryHit
  <2>2. \A q \in Peers, i \in MsgIds : m_wait_queryhit'[q][i] \in {m_wait_queryhit[q][i], NoFile}
    BY <1>4
  <2>3. \A q \in Peers : StartsOnly(q)
    BY <2>1, IdleKeepsTask, SameStart
  <2>4. Rests
    BY <1>3, <2>2, <2>3 DEF Rests
  <2> QED BY <1>3, <2>4, WaitsRest
<1>6. CASE filename # NoFile
  <2>1. PICK task : /\ task = [pc |-> "start", msg |-> hit, file |-> filename]
                    /\ task.pc = "start" /\ task.msg = hit /\ task.file = filename
    <3>1. /\ [pc |-> "start", msg |-> hit, file |-> filename].pc = "start"
          /\ [pc |-> "start", msg |-> hit, file |-> filename].msg = hit
          /\ [pc |-> "start", msg |-> hit, file |-> filename].file = filename
      OBVIOUS
    <3> QED BY <3>1
  <2>2. handler' = [handler EXCEPT ![p] = task]
    BY <1>1, <1>2, <1>6, <2>1 DEF RecordQueryHit
  <2>3. \A q \in Peers : handler'[q] = IF q = p THEN task ELSE handler[q]
    BY <2>2 DEF TypeOK
  <2>4. AskedFor(p, id, filename) /\ ~Requested(p, id) /\ Waiting(p, id)
    BY <1>2, <1>6 DEF WaitsInv, Waiting
  <2>5. \A q \in Peers : \A i, file :
          AskedFor(q, i, file)' = AskedFor(q, i, file) /\ Requested(q, i)' = Requested(q, i)
    BY <1>3 DEF AskedFor, Requested, RequestsOf
  <2>6. \A q \in Peers, i \in MsgIds : Waiting(q, i)' =>
          Waiting(q, i) /\ ~(q = p /\ i = id) /\ m_wait_queryhit'[q][i] = m_wait_queryhit[q][i]
    BY <1>4 DEF Waiting
  <2>7. \A q \in Peers : \A i : Starting(q, i)' => Starting(q, i) \/ (q = p /\ i = id)
    BY <1>2, <2>1, <2>3 DEF Starting
  <2>8. ASSUME NEW q \in Peers, NEW i \in MsgIds, Waiting(q, i)'
        PROVE  (AskedFor(q, i, m_wait_queryhit[q][i]) /\ ~Starting(q, i) /\ ~Requested(q, i))'
    <3>1. AskedFor(q, i, m_wait_queryhit'[q][i]) /\ ~Starting(q, i)' /\ ~Requested(q, i)
      BY <2>6, <2>7, <2>8 DEF WaitsInv
    <3> QED BY <2>5, <3>1
  <2>9. ASSUME NEW q \in Peers, NEW one \in Callers, pending'[q][one] # NoCall
        PROVE  LET now == pending[q][one] IN
               (/\ AskedFor(q, now.id, now.file)
                /\ ~Waiting(q, now.id) /\ ~Starting(q, now.id) /\ ~Requested(q, now.id)
                /\ \A other \in Callers \ {one} : pending[q][other].id # now.id)'
    <3>1. PICK now : now = pending[q][one]
      OBVIOUS
    <3>2. /\ AskedFor(q, now.id, now.file)
          /\ ~Waiting(q, now.id) /\ ~Starting(q, now.id) /\ ~Requested(q, now.id)
          /\ \A other \in Callers \ {one} : pending[q][other].id # now.id
          /\ now.id \in MsgIds
      BY <1>3, <2>9, <3>1, CallType DEF WaitsInv
    <3>3. /\ AskedFor(q, now.id, now.file)'
          /\ ~Waiting(q, now.id)' /\ ~Starting(q, now.id)' /\ ~Requested(q, now.id)'
      BY <2>4, <2>5, <2>6, <2>7, <3>2
    <3> QED BY <1>3, <3>1, <3>2, <3>3 DEF AskedFor, Waiting, Starting, Requested, RequestsOf
  <2>10. ASSUME NEW q \in Peers, handler'[q].pc = "start"
         PROVE  (AskedFor(q, handler[q].msg.id, handler[q].file) /\ ~Requested(q, handler[q].msg.id))'
    <3>1. AskedFor(q, handler'[q].msg.id, handler'[q].file) /\ ~Requested(q, handler'[q].msg.id)
      BY <1>2, <2>1, <2>3, <2>4, <2>10 DEF WaitsInv
    <3> QED BY <1>3, <3>1 DEF AskedFor, Requested, RequestsOf
  <2> QED BY <2>8, <2>9, <2>10 DEF WaitsInv
<1> QED BY <1>5, <1>6
-----------------------------------------------------------------------------
(* The requests of a query.                                                *)

\* The handler is about to request transfers from or to those who answered query.
Starts(p, query, requests) ==
  LET results == m_query_hit_result[p][query.id] IN
  /\ handler[p].pc = "start" /\ handler[p].msg.id = query.id /\ handler[p].file = query.file
  /\ query.id.peer = p
  /\ requests \in Seq(Requests)
  /\ Len(requests) <= Len(results)
  /\ query.type \in {"query", "inv_query"}
  /\ requests # <<>> => Len(requests) <= IF query.type = "query" THEN 1 ELSE ReplicationFactor - 1
  /\ \A i \in 1 .. Len(requests) : requests[i] =
       [type |-> IF query.type = "query" THEN "download" ELSE "push",
        file |-> query.file, server |-> results[i], id |-> query.id]

\* The hit says which query was answered, and the results by whom.
LEMMA StartsAre ==
  ASSUME TypeOK, GenuineInv, WaitsInv, NEW p \in Peers, StartTransfers(p)
  PROVE  \E query \in asked, requests \in Seq(Requests) :
           /\ Starts(p, query, requests)
           /\ requests = TransferRequests(p, handler[p].msg, handler[p].file)
           /\ m_request_queue' = [m_request_queue EXCEPT ![p] = @ \o requests]
<1>1. PICK hit \in Hits : hit = handler[p].msg /\ hit.id.peer = p /\ Genuine(hit)
  BY HandlerType DEF StartTransfers, GenuineInv, HandlerGenuine
<1>2. PICK id \in MsgIds, file \in Files : id = hit.id /\ file = handler[p].file
  BY <1>1, HandlerType DEF StartTransfers
<1>3. PICK query \in asked : query.id = id /\ query.file = file
  BY <1>1, <1>2 DEF StartTransfers, WaitsInv, AskedFor
<1>4. query.type = IF hit.type = "query_hit" THEN "query" ELSE "inv_query"
  <2>1. PICK other \in asked : Traces(hit, other)
    BY <1>1 DEF Genuine
  <2>2. hit \notin Queries
    BY DEF Hits, Queries, TestTypes
  <2> QED BY <1>2, <1>3, <2>1, <2>2 DEF Traces, GenuineInv, IdsInv
<1>5. PICK requests \in Seq(Requests) : requests = TransferRequests(p, hit, file)
  BY TransferRequestsType
<1>6. m_request_queue' = [m_request_queue EXCEPT ![p] = @ \o requests]
  BY <1>1, <1>2, <1>5 DEF StartTransfers
<1>7. PICK results \in Seq(Peers) : results = m_query_hit_result[p][id] /\ Len(results) \in Nat
  BY ResultsType, LenProperties
<1>8. PICK wanted \in Int : wanted = IF hit.type = "query_hit" THEN 1
                                    ELSE IF HasFile(p, file) THEN ReplicationFactor - 1 ELSE 0
  BY NumbersAssumption
<1>9. PICK count \in Int : count = IF wanted < Len(results) THEN wanted ELSE Len(results)
  BY <1>7
<1>10. requests = [i \in 1 .. count |->
         [type |-> IF hit.type = "query_hit" THEN "download" ELSE "push",
          file |-> file, server |-> results[i], id |-> id]]
  BY <1>2, <1>5, <1>7, <1>8, <1>9 DEF TransferRequests
<1>11. Len(requests) \in Nat /\ DOMAIN requests = 1 .. Len(requests) /\ DOMAIN requests = 1 .. count
  BY <1>10, LenProperties
<1>12. Len(requests) <= Len(results) /\ (requests # <<>> => Len(requests) <= wanted)
  <2>1. CASE count <= 0
    <3>1. Len(requests) = 0
      BY <1>11, <2>1
    <3>2. requests = <<>>
      BY <3>1, EmptySeq
    <3> QED BY <1>7, <3>1, <3>2
  <2>2. CASE count > 0
    <3>1. 1 \in DOMAIN requests /\ count \in DOMAIN requests
      BY <1>11, <2>2
    <3>2. 1 <= Len(requests) /\ count <= Len(requests)
      BY <1>11, <3>1
    <3>3. Len(requests) <= count
      <4>1. Len(requests) \in 1 .. Len(requests)
        BY <1>11, <3>2
      <4>2. Len(requests) \in 1 .. count
        BY <1>11, <4>1
      <4> QED BY <4>2
    <3>4. Len(requests) = count
      <4>1. Len(requests) \in Int
        BY <1>11
      <4> QED BY <3>2, <3>3, <4>1
    <3> QED BY <1>7, <1>8, <1>9, <3>4
  <2> QED BY <2>1, <2>2
<1>13. requests # <<>> => Len(requests) <= IF query.type = "query" THEN 1 ELSE ReplicationFactor - 1
  <2>1. CASE hit.type = "query_hit"
    BY <1>4, <1>8, <1>12, <2>1
  <2>2. CASE hit.type # "query_hit" /\ HasFile(p, file)
    BY <1>4, <1>8, <1>12, <2>2
  <2>3. CASE hit.type # "query_hit" /\ ~HasFile(p, file)
    <3>1. Len(requests) = 0
      BY <1>7, <1>8, <1>9, <1>11, <2>3
    <3> QED BY <3>1, EmptySeq
  <2> QED BY <2>1, <2>2, <2>3
<1>14. ASSUME NEW i \in 1 .. Len(requests)
       PROVE  requests[i] = [type |-> IF query.type = "query" THEN "download" ELSE "push",
                             file |-> query.file, server |-> results[i], id |-> query.id]
  BY <1>3, <1>4, <1>10, <1>11
<1>15. Starts(p, query, requests)
  BY <1>1, <1>2, <1>3, <1>4, <1>7, <1>12, <1>13, <1>14 DEF Starts, StartTransfers
<1> QED BY <1>1, <1>2, <1>5, <1>6, <1>15

\* What a peer requests comes behind what it has requested before.
Adds(p, requests) ==
  \A q \in Peers :
    /\ q # p => m_request_queue'[q] = m_request_queue[q]
    /\ q = p => m_request_queue'[q] = m_request_queue[q] \o requests

\* The requests after a step that adds some.
LEMMA AddsAre ==
  ASSUME TypeOK, NEW p \in Peers, NEW requests \in Seq(Requests),
         m_request_queue' = [m_request_queue EXCEPT ![p] = @ \o requests]
  PROVE  /\ Adds(p, requests)
         /\ \A q \in Peers : RequestsOf(q) \subseteq RequestsOf(q)'
         /\ \A q \in Peers : \A req \in RequestsOf(q)' :
              req \in RequestsOf(q) \/ (q = p /\ req \in Range(requests))
<1>1. Adds(p, requests)
  BY DEF Adds, TypeOK
<1>2. m_request_queue[p] \in Seq(Requests)
  BY DEF TypeOK
<1>3. Range(m_request_queue[p] \o requests) = Range(m_request_queue[p]) \cup Range(requests)
  BY <1>2, RangeConcatenation
<1> QED BY <1>1, <1>3 DEF Adds, RequestsOf

\* The requests are all of the query that was answered.
LEMMA StartsRange ==
  ASSUME NEW p \in Peers, NEW query, NEW requests, Starts(p, query, requests),
         NEW req \in Range(requests)
  PROVE  \E i \in 1 .. Len(requests) :
           /\ req = requests[i] /\ req.id = query.id /\ req.file = query.file
           /\ req.type = IF query.type = "query" THEN "download" ELSE "push"
           /\ req.server = m_query_hit_result[p][query.id][i]
           /\ i \in 1 .. Len(m_query_hit_result[p][query.id])
<1>1. requests \in Seq(Requests)
  BY DEF Starts
<1>2. PICK i \in DOMAIN requests : req = requests[i]
  BY DEF Range
<1>3. i \in 1 .. Len(requests)
  BY <1>1, <1>2, LenProperties
<1>4. /\ Len(requests) \in Nat
      /\ Len(requests) <= Len(m_query_hit_result[p][query.id])
  BY <1>1, LenProperties DEF Starts
<1>5. requests[i] = [type |-> IF query.type = "query" THEN "download" ELSE "push",
                     file |-> query.file, server |-> m_query_hit_result[p][query.id][i],
                     id |-> query.id]
  BY <1>3 DEF Starts
<1> QED BY <1>2, <1>3, <1>4, <1>5

\* StartTransfers: the requests take the place of the name.
LEMMA WaitsStarted ==
  ASSUME TypeOK, GenuineInv, WaitsInv, NEW p \in Peers, StartTransfers(p)
  PROVE  WaitsInv'
<1>1. PICK query \in asked, requests \in Seq(Requests) :
        /\ Starts(p, query, requests)
        /\ m_request_queue' = [m_request_queue EXCEPT ![p] = @ \o requests]
  BY StartsAre
<1>2. PICK id : id = query.id /\ handler[p].pc = "start" /\ handler[p].msg.id = id
  BY <1>1 DEF Starts
<1>3. UNCHANGED <<pending, m_wait_queryhit, asked>>
  BY DEF StartTransfers, callerVars, historyVars
<1>4. handler' = [handler EXCEPT ![p] = Idle] /\ Idle.pc # "start"
  BY DEF StartTransfers, Idle
<1>5. \A q \in Peers : \A req \in RequestsOf(q)' :
        req \in RequestsOf(q) \/ (q = p /\ req \in Range(requests))
  BY <1>1, AddsAre
<1>6. \A req \in Range(requests) : req.id = id
  BY <1>1, <1>2, StartsRange
<1>7. \A q \in Peers : \A i : Requested(q, i)' => Requested(q, i) \/ (q = p /\ i = id)
  BY <1>5, <1>6 DEF Requested
<1>8. /\ \A q \in Peers : \A i, file : AskedFor(q, i, file)' = AskedFor(q, i, file)
      /\ \A q \in Peers : \A i : Waiting(q, i)' = Waiting(q, i)
      /\ \A q \in Peers : \A i : Starting(q, i)' => Starting(q, i) /\ q # p
  BY <1>3, <1>4 DEF AskedFor, Waiting, Starting, TypeOK
<1>9. ASSUME NEW q \in Peers, NEW i \in MsgIds, Waiting(q, i)'
      PROVE  (AskedFor(q, i, m_wait_queryhit[q][i]) /\ ~Starting(q, i) /\ ~Requested(q, i))'
  <2>1. PICK file : file = m_wait_queryhit[q][i]
    OBVIOUS
  <2>2. AskedFor(q, i, file) /\ ~Starting(q, i) /\ ~Requested(q, i)
    BY <1>8, <1>9, <2>1 DEF WaitsInv
  <2>3. ~(q = p /\ i = id)
    BY <1>2, <2>2 DEF Starting
  <2>4. AskedFor(q, i, file)' /\ ~Starting(q, i)' /\ ~Requested(q, i)'
    BY <1>7, <1>8, <2>2, <2>3
  <2> QED BY <1>3, <2>1, <2>4 DEF AskedFor
<1>10. ASSUME NEW q \in Peers, NEW one \in Callers, pending'[q][one] # NoCall
       PROVE  LET now == pending[q][one] IN
              (/\ AskedFor(q, now.id, now.file)
               /\ ~Waiting(q, now.id) /\ ~Starting(q, now.id) /\ ~Requested(q, now.id)
               /\ \A other \in Callers \ {one} : pending[q][other].id # now.id)'
  <2>1. PICK now : now = pending[q][one]
    OBVIOUS
  <2>2. /\ AskedFor(q, now.id, now.file)
        /\ ~Waiting(q, now.id) /\ ~Starting(q, now.id) /\ ~Requested(q, now.id)
        /\ \A other \in Callers \ {one} : pending[q][other].id # now.id
    BY <1>3, <1>10, <2>1 DEF WaitsInv
  <2>3. ~(q = p /\ now.id = id)
    BY <1>2, <2>2 DEF Starting
  <2>4. /\ AskedFor(q, now.id, now.file)'
        /\ ~Waiting(q, now.id)' /\ ~Starting(q, now.id)' /\ ~Requested(q, now.id)'
    BY <1>7, <1>8, <2>2, <2>3
  <2> QED BY <1>3, <2>1, <2>2, <2>4 DEF AskedFor, Waiting, Starting, Requested, RequestsOf
<1>11. ASSUME NEW q \in Peers, handler'[q].pc = "start"
       PROVE  (AskedFor(q, handler[q].msg.id, handler[q].file) /\ ~Requested(q, handler[q].msg.id))'
  <2>1. q # p /\ handler'[q] = handler[q]
    BY <1>4, <1>11 DEF TypeOK
  <2>2. PICK i, file : i = handler[q].msg.id /\ file = handler[q].file
    OBVIOUS
  <2>3. AskedFor(q, i, file) /\ ~Requested(q, i)
    BY <1>11, <2>1, <2>2 DEF WaitsInv
  <2>4. AskedFor(q, i, file)' /\ ~Requested(q, i)'
    BY <1>7, <1>8, <2>1, <2>3
  <2> QED BY <2>1, <2>2, <2>4 DEF AskedFor, Requested, RequestsOf
<1> QED BY <1>9, <1>10, <1>11 DEF WaitsInv

\* Every step keeps WaitsInv.
LEMMA WaitsNext ==
  ASSUME TypeOK, IdsAssigned, GenuineInv, RequestsInv, [Next]_vars
  PROVE  WaitsInv'
<1>1. asked \subseteq asked' /\ IdsInv /\ WaitsInv
  BY AskedGrows DEF GenuineInv, RequestsInv
<1> QED BY <1>1, NextTransfers, WaitsRest, WaitsPromised, WaitsRegistered, WaitsTaken, WaitsStarted
        DEF TransferStep

\* Only StartTransfers requests something.
LEMMA RequestStep ==
  ASSUME TypeOK, [Next]_vars
  PROVE  UNCHANGED m_request_queue \/ \E p \in Peers : StartTransfers(p)
<1>1. CASE UNCHANGED vars
  BY <1>1 DEF vars, hitVars
<1>2. ASSUME NEW p \in Peers, HandleMessageThread(p), ~StartTransfers(p)
      PROVE  UNCHANGED m_request_queue
  BY <1>2 DEF HandleMessageThread, DropQuery, HandleQuery, HandleInvQuery, HandleLoadTest,
              RelayLoadTest, HandleQueryHit, RelayQueryHit, RecordQueryHit, Takes, hitVars
<1>3. ASSUME NEW p \in Peers, Command(p) \/ StartReplicateAllFiles(p)
                              \/ \E thread \in Testers : LoadTestCall(p, thread)
      PROVE  UNCHANGED m_request_queue
  BY <1>3 DEF Command, QueryCommand, ObtainFile, InvQueryCommand, ReplicateCommand,
              LoadTestCommand, StartReplicateAllFiles, SelectFilesToReplicate,
              ReplicateNextFile, LoadTestCall, Issue, hitVars
<1>4. ASSUME NEW p \in Peers,
             \/ \E thread \in Callers : SetWaitQueryHit(p, thread)
             \/ BroadcastProcessThread(p)
             \/ \E q \in Neighbors[p] : DealWithRequest(q, p) \/ TornMessage(q, p)
             \/ CrashInRelay(p) \/ SigPipe(p) \/ MantainQueryMapSize(p)
      PROVE  UNCHANGED m_request_queue
  BY <1>4 DEF SetWaitQueryHit, BroadcastProcessThread, DealWithRequest, TornMessage, CrashInRelay, SigPipe,
              MantainQueryMapSize, EvictQueries, EvictQueryHitResults, EvictWaits, hitVars
<1> QED BY <1>1, <1>2, <1>3, <1>4 DEF Next

\* A request goes to a peer that gave an answer to the query.
LEMMA RequestableNext ==
  ASSUME TypeOK, IdsAssigned, GenuineInv, RequestsInv, [Next]_vars
  PROVE  \A q \in Peers : \A req \in RequestsOf(q)' : Requestable(q, req)'
<1>1. \A q \in Peers : \A req : Requestable(q, req) => Requestable(q, req)'
  BY AskedGrows DEF Requestable, Answers
<1>2. CASE UNCHANGED m_request_queue
  BY <1>1, <1>2 DEF RequestsOf, RequestsInv
<1>3. ASSUME NEW p \in Peers, StartTransfers(p)
      PROVE  \A q \in Peers : \A req \in RequestsOf(q)' : Requestable(q, req)'
  <2>1. PICK query \in asked, requests \in Seq(Requests) :
          /\ Starts(p, query, requests)
          /\ m_request_queue' = [m_request_queue EXCEPT ![p] = @ \o requests]
    BY <1>3, StartsAre DEF RequestsInv
  <2>2. ASSUME NEW req \in Range(requests) PROVE Requestable(p, req)
    <3>1. PICK id \in MsgIds, results \in Seq(Peers) :
            id = query.id /\ results = m_query_hit_result[p][id] /\ id.peer = p
      BY <2>1, ResultsType DEF Starts, TypeOK, Queries
    <3>2. PICK i \in 1 .. Len(results) : req.server = results[i]
      BY <2>1, <2>2, <3>1, StartsRange
    <3>3. results[i] \in Range(results)
      BY <3>1, <3>2, LenProperties DEF Range
    <3>4. PICK other \in asked : other.id = id /\ Answers(req.server, other)
      BY <3>1, <3>2, <3>3 DEF GenuineInv, Recorded
    <3>5. other = query
      BY <3>1, <3>4 DEF GenuineInv, IdsInv
    <3>6. /\ req.id = id /\ req.file = query.file
          /\ req.type = IF query.type = "query" THEN "download" ELSE "push"
      BY <2>1, <2>2, <3>1, StartsRange
    <3>7. query.type \in {"query", "inv_query"}
      BY <2>1 DEF Starts
    <3> QED BY <3>1, <3>4, <3>5, <3>6, <3>7 DEF Requestable
  <2>3. ASSUME NEW q \in Peers, NEW req \in RequestsOf(q)' PROVE Requestable(q, req)
    <3>1. req \in RequestsOf(q) \/ (q = p /\ req \in Range(requests))
      BY <2>1, AddsAre
    <3> QED BY <2>2, <3>1 DEF RequestsInv
  <2> QED BY <1>1, <2>3
<1> QED BY <1>2, <1>3, RequestStep

\* The places of the requests of a query.
PlacesOf(s, id) == {i \in DOMAIN s : s[i].id = id}

LEMMA CountIs ==
  ASSUME NEW p, NEW id
  PROVE  /\ RequestCount(p, id) = Cardinality(PlacesOf(m_request_queue[p], id))
         /\ RequestCount(p, id)' = Cardinality(PlacesOf(m_request_queue'[p], id))
BY DEF RequestCount, PlacesOf

\* Requests are counted where they are, and only those of the id.
LEMMA CountConcat ==
  ASSUME NEW s \in Seq(Requests), NEW r \in Seq(Requests), NEW id
  PROVE  /\ (\A req \in Range(r) : req.id # id) =>
              PlacesOf(s \o r, id) = PlacesOf(s, id)
         /\ (\A req \in Range(s) : req.id # id) =>
              Cardinality(PlacesOf(s \o r, id)) \in 0 .. Len(r)
<1>1. Len(s) \in Nat /\ Len(r) \in Nat /\ DOMAIN s = 1 .. Len(s) /\ DOMAIN r = 1 .. Len(r)
  BY LenProperties
<1>2. DOMAIN (s \o r) = 1 .. (Len(s) + Len(r))
  BY <1>1, ConcatProperties, LenProperties
<1>3. \A i \in 1 .. Len(s) : (s \o r)[i] = s[i] /\ s[i] \in Range(s)
  BY <1>1, ConcatProperties DEF Range
<1>4. ASSUME NEW i \in 1 .. (Len(s) + Len(r)), i > Len(s)
      PROVE  (s \o r)[i] \in Range(r)
  <2>1. (s \o r)[i] = r[i - Len(s)]
    BY <1>1, <1>4, ConcatProperties
  <2>2. i - Len(s) \in 1 .. Len(r)
    BY <1>1, <1>4
  <2> QED BY <1>1, <2>1, <2>2 DEF Range
<1>5. \A i \in 1 .. (Len(s) + Len(r)) : i \in 1 .. Len(s) \/ i > Len(s)
  BY <1>1
<1>6. 1 .. Len(s) \subseteq 1 .. (Len(s) + Len(r))
  BY <1>1
<1>7. ASSUME \A req \in Range(r) : req.id # id
      PROVE  PlacesOf(s \o r, id) = PlacesOf(s, id)
  BY <1>1, <1>2, <1>3, <1>4, <1>5, <1>6, <1>7 DEF PlacesOf
<1>8. ASSUME \A req \in Range(s) : req.id # id
      PROVE  Cardinality(PlacesOf(s \o r, id)) \in 0 .. Len(r)
  <2>1. PICK last \in Int : last = Len(s) + Len(r)
    BY <1>1
  <2>2. PlacesOf(s \o r, id) \subseteq (Len(s) + 1) .. last
    BY <1>1, <1>2, <1>3, <1>5, <1>8, <2>1 DEF PlacesOf
  <2>3. /\ IsFiniteSet((Len(s) + 1) .. last)
        /\ Cardinality((Len(s) + 1) .. last) = Len(r)
    <3>1. Len(s) + 1 \in Int
      BY <1>1
    <3>2. /\ IsFiniteSet((Len(s) + 1) .. last)
          /\ Cardinality((Len(s) + 1) .. last) =
               IF Len(s) + 1 > last THEN 0 ELSE last - (Len(s) + 1) + 1
      BY <2>1, <3>1, FS_Interval
    <3> QED BY <1>1, <2>1, <3>2
  <2>4. Cardinality(PlacesOf(s \o r, id)) \in Nat /\ Cardinality(PlacesOf(s \o r, id)) <= Len(r)
    BY <2>2, <2>3, FS_Subset, FS_CardinalityType
  <2> QED BY <1>1, <2>4
<1> QED BY <1>7, <1>8

\* TransfersBounded, of one query.
Bounded(msg) ==
  RequestCount(msg.id.peer, msg.id) <=
    CASE msg.type = "query" -> 1
      [] msg.type = "inv_query" -> ReplicationFactor - 1
      [] OTHER -> 0

LEMMA BoundedIs == TransfersBounded <=> \A msg \in asked : Bounded(msg)
BY DEF TransfersBounded, Bounded

\* A new query has no requests yet.
LEMMA BoundedIssue ==
  ASSUME TypeOK, IdsInv, RequestsInv, Issues, UNCHANGED m_request_queue, NEW msg \in asked'
  PROVE  Bounded(msg)'
<1>1. CASE msg \in asked
  BY <1>1, BoundedIs DEF RequestsInv, Bounded, RequestCount
<1>2. CASE msg \notin asked
  <2>1. PICK p \in Peers, file \in Files, type \in {"query", "inv_query"} \cup TestTypes :
          (type = "inv_query" => ReplicationFactor > 1) /\ Issue(p, type, file)
    BY DEF Issues
  <2>2. PICK new \in Queries : Asks(p, type, file, new)
    BY <2>1, IssueAsks
  <2>3. msg = new /\ msg.type = type /\ msg.id = NextId(p) /\ msg.id.peer = p
    BY <1>2, <2>2 DEF Asks
  <2>4. ~Requested(p, msg.id)
    BY <2>3, NextIdFree
  <2>5. PlacesOf(m_request_queue[p], msg.id) = {}
    BY <2>4 DEF Requested, RequestsOf, Range, PlacesOf
  <2>6. RequestCount(msg.id.peer, msg.id)' = 0
    BY <2>3, <2>5, FS_EmptySet, CountIs
  <2> QED BY <2>1, <2>3, <2>6, NumbersAssumption DEF Bounded, TestTypes
<1> QED BY <1>1, <1>2

\* The transfers of a query are requested at once, and are not more than its bound.
LEMMA BoundedStart ==
  ASSUME TypeOK, GenuineInv, RequestsInv, NEW p \in Peers, StartTransfers(p), NEW msg \in asked
  PROVE  Bounded(msg)'
<1>1. PICK query \in asked, requests \in Seq(Requests) :
        /\ Starts(p, query, requests)
        /\ m_request_queue' = [m_request_queue EXCEPT ![p] = @ \o requests]
  BY StartsAre DEF RequestsInv
<1>2. PICK q, id : q \in Peers /\ id = msg.id /\ q = id.peer
  BY DEF TypeOK, Queries, MsgIds
<1>3. PICK s \in Seq(Requests) : s = m_request_queue[p] /\ Adds(p, requests)
  BY <1>1, AddsAre DEF TypeOK
<1>4. \A req \in Range(requests) : req.id = query.id
  BY <1>1, StartsRange
<1>5. CASE id # query.id \/ q # p
  <2>1. PlacesOf(m_request_queue'[q], id) = PlacesOf(m_request_queue[q], id)
    <3>1. CASE q # p
      BY <1>2, <1>3, <3>1 DEF Adds
    <3>2. CASE q = p
      <4>1. \A req \in Range(requests) : req.id # id
        BY <1>4, <1>5, <3>2
      <4>2. PlacesOf(s \o requests, id) = PlacesOf(s, id)
        BY <4>1, CountConcat
      <4> QED BY <1>3, <3>2, <4>2 DEF Adds
    <3> QED BY <3>1, <3>2
  <2>2. RequestCount(q, id)' = RequestCount(q, id)
    BY <2>1, CountIs
  <2> QED BY <1>2, <2>2, BoundedIs DEF RequestsInv, Bounded
<1>6. CASE id = query.id /\ q = p
  <2>1. msg = query
    BY <1>2, <1>6 DEF GenuineInv, IdsInv
  <2>2. CASE requests = <<>>
    <3>1. m_request_queue'[q] = m_request_queue[q]
      BY <1>3, <1>6, <2>2, ConcatEmptySeq DEF Adds
    <3> QED BY <1>2, <3>1, BoundedIs DEF RequestsInv, Bounded, RequestCount
  <2>3. CASE requests # <<>>
    <3>1. ~Requested(p, id)
      BY <1>1, <1>6 DEF Starts, RequestsInv, WaitsInv
    <3>2. \A req \in Range(s) : req.id # id
      BY <1>3, <3>1 DEF Requested, RequestsOf
    <3>3. RequestCount(q, id)' \in 0 .. Len(requests)
      <4>1. Cardinality(PlacesOf(s \o requests, id)) \in 0 .. Len(requests)
        BY <3>2, CountConcat
      <4>2. m_request_queue'[q] = s \o requests
        BY <1>3, <1>6 DEF Adds
      <4> QED BY <4>1, <4>2, CountIs
    <3>4. /\ Len(requests) <= IF msg.type = "query" THEN 1 ELSE ReplicationFactor - 1
          /\ msg.type \in {"query", "inv_query"} /\ Len(requests) \in Nat
      BY <1>1, <2>1, <2>3, LenProperties DEF Starts
    <3> QED BY <1>2, <3>3, <3>4, NumbersAssumption DEF Bounded
  <2> QED BY <2>2, <2>3
<1> QED BY <1>5, <1>6

\* Every step keeps the bound.
LEMMA BoundedNext ==
  ASSUME TypeOK, IdsAssigned, GenuineInv, RequestsInv, [Next]_vars
  PROVE  TransfersBounded'
<1>1. IdsInv /\ TransfersBounded
  BY DEF GenuineInv, RequestsInv
<1>2. ASSUME NEW msg \in asked' PROVE Bounded(msg)'
  <2>1. CASE UNCHANGED m_request_queue /\ UNCHANGED asked
    BY <1>1, <1>2, <2>1, BoundedIs DEF Bounded, RequestCount
  <2>2. CASE UNCHANGED m_request_queue /\ Issues
    BY <1>1, <1>2, <2>2, BoundedIssue
  <2>3. ASSUME NEW p \in Peers, StartTransfers(p) PROVE Bounded(msg)'
    <3>1. UNCHANGED asked
      BY <2>3 DEF StartTransfers, historyVars
    <3> QED BY <1>2, <2>3, <3>1, BoundedStart
  <2>4. UNCHANGED m_request_queue \/ \E p \in Peers : StartTransfers(p)
    BY RequestStep
  <2>5. UNCHANGED asked \/ Issues
    BY NextIssues
  <2> QED BY <2>1, <2>2, <2>3, <2>4, <2>5
<1>3. (\A msg \in asked : Bounded(msg))'
  BY <1>2
<1> QED BY <1>3, BoundedIs, PTL

\* Every step keeps RequestsInv.
LEMMA RequestsNext ==
  ASSUME TypeOK, IdsAssigned, GenuineInv, RequestsInv, [Next]_vars
  PROVE  RequestsInv'
BY WaitsNext, RequestableNext, BoundedNext DEF RequestsInv

\* Nothing is asked, waited for or requested at the start.
LEMMA InitRequests == Init => RequestsInv
<1> SUFFICES ASSUME Init PROVE RequestsInv
  OBVIOUS
<1>1. \A p \in Peers : RequestsOf(p) = {}
  BY RangeEmpty DEF Init, RequestsOf
<1>2. TransfersBounded
  BY DEF Init, TransfersBounded
<1>3. WaitsInv
  BY DEF Init, WaitsInv, Waiting, Idle
<1> QED BY <1>1, <1>2, <1>3 DEF RequestsInv

\* A download goes to a peer that answered a query, a push to one that answered an inverse
\* query.
LEMMA RequestsSensible ==
  ASSUME TypeOK, RequestsInv
  PROVE  TransfersSensible
<1> SUFFICES ASSUME NEW p \in Peers, NEW req \in RequestsOf(p)
             PROVE  req.type = "download" <=> req.file \in m_files[req.server]
  BY DEF TransfersSensible
<1>1. PICK query \in asked : /\ query.id = req.id /\ query.file = req.file
                             /\ query.type = IF req.type = "download" THEN "query" ELSE "inv_query"
                             /\ Answers(req.server, query)
  BY DEF RequestsInv, Requestable
<1> QED BY <1>1 DEF Answers
-----------------------------------------------------------------------------
\* The name of the file that a query's transfers wait for is in one place at most, and its
\* transfers are requested once, from or to peers that answered.
THEOREM RequestsInvariant ==
  ASSUME IdsAssigned
  PROVE  Spec => []RequestsInv
<1>1. Init => TypeOK /\ UpstreamInv /\ GenuineInv /\ RequestsInv
  BY InitType, InitUpstream, InitGenuine, InitRequests
<1>2. TypeOK /\ UpstreamInv /\ GenuineInv /\ RequestsInv /\ [Next]_vars
        => TypeOK' /\ UpstreamInv' /\ GenuineInv' /\ RequestsInv'
  BY NextType, NextStep, GenuineNext, RequestsNext
<1> QED BY <1>1, <1>2, PTL DEF Spec

\* A query starts one download at most, an inverse query one push for each missing replica,
\* and the message that spreads a load test nothing.
THEOREM TransfersOnce ==
  ASSUME IdsAssigned
  PROVE  Spec => []TransfersBounded
<1>1. RequestsInv => TransfersBounded
  BY DEF RequestsInv
<1> QED BY <1>1, RequestsInvariant, PTL

\* Files are downloaded from peers that share them, and pushed to peers that do not.
THEOREM TransfersCorrect ==
  ASSUME IdsAssigned
  PROVE  Spec => []TransfersSensible
<1>1. TypeOK /\ RequestsInv => TransfersSensible
  BY RequestsSensible
<1> QED BY <1>1, TypeCorrect, RequestsInvariant, PTL

-----------------------------------------------------------------------------
(* The pushes.                                                             *)

\* Where nobody replicates, no push is requested, whatever was registered for whom.
NoPushes == ReplicationFactor <= 1 =>
  \A p \in Peers : \A req \in RequestsOf(p) : req.type = "download"

\* TransferRequests returns no push where nobody replicates.
LEMMA NoPushRequested ==
  ASSUME TypeOK, NEW p \in Peers, StartTransfers(p), ReplicationFactor <= 1
  PROVE  \E requests \in Seq(Requests) :
           /\ m_request_queue' = [m_request_queue EXCEPT ![p] = @ \o requests]
           /\ \A req \in Range(requests) : req.type = "download"
<1>1. PICK hit \in Hits, file \in Files : hit = handler[p].msg /\ file = handler[p].file
  BY HandlerType DEF StartTransfers
<1>2. PICK requests \in Seq(Requests) : requests = TransferRequests(p, hit, file)
  BY TransferRequestsType
<1>3. m_request_queue' = [m_request_queue EXCEPT ![p] = @ \o requests]
  BY <1>1, <1>2 DEF StartTransfers
<1>4. PICK id \in MsgIds, results \in Seq(Peers) :
        id = hit.id /\ results = m_query_hit_result[p][id] /\ Len(results) \in Nat
  BY ResultsType, LenProperties DEF Hits
<1>5. PICK wanted \in Int : /\ wanted = IF hit.type = "query_hit" THEN 1
                                        ELSE IF HasFile(p, file) THEN ReplicationFactor - 1 ELSE 0
                            /\ hit.type = "query_hit" \/ wanted <= 0
  BY NumbersAssumption
<1>6. PICK count \in Int : /\ count = IF wanted < Len(results) THEN wanted ELSE Len(results)
                           /\ count <= wanted
  BY <1>4
<1>7. requests = [i \in 1 .. count |->
        [type |-> IF hit.type = "query_hit" THEN "download" ELSE "push",
         file |-> file, server |-> results[i], id |-> id]]
  BY <1>2, <1>4, <1>5, <1>6 DEF TransferRequests
<1>8. ASSUME NEW i \in DOMAIN requests PROVE requests[i].type = "download"
  <2>1. i \in 1 .. count
    BY <1>7
  <2>2. hit.type = "query_hit"
    BY <1>5, <1>6, <2>1
  <2> QED BY <1>7, <2>1, <2>2
<1> QED BY <1>3, <1>8 DEF Range

\* Every step keeps NoPushes.
LEMMA NoPushesNext ==
  ASSUME TypeOK, NoPushes, [Next]_vars
  PROVE  NoPushes'
<1>1. CASE UNCHANGED m_request_queue
  BY <1>1 DEF NoPushes, RequestsOf
<1>2. ASSUME NEW p \in Peers, StartTransfers(p), ReplicationFactor <= 1,
             NEW q \in Peers, NEW req \in RequestsOf(q)'
      PROVE  req.type = "download"
  <2>1. PICK requests \in Seq(Requests) :
          /\ m_request_queue' = [m_request_queue EXCEPT ![p] = @ \o requests]
          /\ \A r \in Range(requests) : r.type = "download"
    BY <1>2, NoPushRequested
  <2>2. req \in RequestsOf(q) \/ req \in Range(requests)
    BY <2>1, AddsAre
  <2> QED BY <1>2, <2>1, <2>2 DEF NoPushes
<1> QED BY <1>1, <1>2, RequestStep DEF NoPushes

\* A recorded answer is among those there are.
LEMMA RecordedPresent ==
  ASSUME TypeOK, NEW p \in Peers, NEW id \in MsgIds, NEW i \in 1 .. Len(m_query_hit_result[p][id])
  PROVE  /\ [id |-> id, peer |-> m_query_hit_result[p][id][i]] \in Present(Contents)
         /\ [id |-> id, peer |-> m_query_hit_result[p][id][i]] \in Answer
         /\ i \in DOMAIN Contents[ResultsAt(p, id)]
         /\ Contents[ResultsAt(p, id)][i] = [id |-> id, peer |-> m_query_hit_result[p][id][i]]
<1>1. PICK results \in Seq(Peers) : results = m_query_hit_result[p][id]
  BY ResultsType
<1>2. i \in DOMAIN results /\ results[i] \in Peers
  BY <1>1, LenProperties, ElementOfSeq
<1>3. PICK a \in Answer : a = [id |-> id, peer |-> results[i]] /\ a # NoAnswer
  <2>1. [id |-> id, peer |-> results[i]] \in Answer
    BY <1>2 DEF Answer
  <2> QED BY <2>1, NoAnswerIsNone
<1>4. PICK k \in Places : k = ResultsAt(p, id) /\ Contents[k] = RecordedAnswers(p, id)
  BY PlacesAre, ContentsHere DEF ContentsAre
<1>5. i \in DOMAIN Contents[k] /\ Contents[k][i] = a
  BY <1>1, <1>2, <1>3, <1>4 DEF RecordedAnswers
<1>6. a \in Range(Contents[k]) /\ k \in DOMAIN Contents
  BY <1>5 DEF Range, Contents
<1>7. a \in Present(Contents)
  BY <1>3, <1>6 DEF Present
<1> QED BY <1>1, <1>3, <1>4, <1>5, <1>7

\* Where the requests are after a step that adds some.
LEMMA AddsAt ==
  ASSUME TypeOK, NEW p \in Peers, NEW requests \in Seq(Requests), Adds(p, requests),
         NEW q \in Peers, NEW i \in DOMAIN m_request_queue'[q]
  PROVE  \/ i \in DOMAIN m_request_queue[q] /\ m_request_queue'[q][i] = m_request_queue[q][i]
         \/ /\ q = p
            /\ \E k \in 1 .. Len(requests) :
                 i = Len(m_request_queue[q]) + k /\ m_request_queue'[q][i] = requests[k]
<1>1. CASE q # p
  BY <1>1 DEF Adds
<1>2. CASE q = p
  <2>1. PICK s \in Seq(Requests) : s = m_request_queue[p] /\ m_request_queue'[p] = s \o requests
    BY DEF TypeOK, Adds
  <2>2. Len(s) \in Nat /\ Len(requests) \in Nat /\ DOMAIN s = 1 .. Len(s)
    BY LenProperties
  <2>3. i \in 1 .. (Len(s) + Len(requests))
    BY <1>2, <2>1, ConcatProperties, LenProperties
  <2>4. CASE i <= Len(s)
    <3>1. i \in DOMAIN s /\ (s \o requests)[i] = s[i]
      BY <2>2, <2>3, <2>4, ConcatProperties
    <3> QED BY <1>2, <2>1, <3>1
  <2>5. CASE i > Len(s)
    <3>1. PICK k \in 1 .. Len(requests) : k = i - Len(s) /\ i = Len(s) + k
      BY <2>2, <2>3, <2>5
    <3>2. (s \o requests)[i] = requests[k]
      BY <2>2, <2>3, <2>5, <3>1, ConcatProperties
    <3> QED BY <1>2, <2>1, <3>1, <3>2
  <2> QED BY <2>2, <2>3, <2>4, <2>5
<1> QED BY <1>1, <1>2

\* What a peer has had pushed stays on record, and it answers no more inverse queries for it.
LEMMA PushRecorded ==
  ASSUME TypeOK, GenuineInv, AnswersInv, PushesInv, AnswerStep, IdsInv', asked \subseteq asked',
         \A p \in Peers : m_replicate_query_filename[p] \subseteq m_replicate_query_filename'[p],
         NEW p \in Peers, NEW req \in RequestsOf(p), req.type = "push"
  PROVE  /\ req.file \in m_replicate_query_filename'[req.server]
         /\ \A a \in Present(Contents') :
              a.peer = req.server /\ InverseOf(a.id, req.file)' => a.id = req.id
<1>1. req \in Requests /\ req.file \in Files /\ req.server \in Peers
  <2>1. m_request_queue[p] \in Seq(Requests)
    BY DEF TypeOK
  <2>2. req \in Requests
    BY <2>1, RangeTyped DEF RequestsOf
  <2> QED BY <2>2 DEF Requests
<1>2. req.file \in m_replicate_query_filename[req.server]
  BY DEF PushesInv
<1>3. ASSUME NEW a \in Present(Contents), a.peer = req.server, InverseOf(a.id, req.file)'
      PROVE  a.id = req.id
  <2>1. InverseOf(a.id, req.file)
    BY <1>3, PresentAsked, InverseStays
  <2> QED BY <1>3, <2>1 DEF PushesInv
<1>4. ASSUME NEW q \in Peers, NEW msg \in Queries, Answering(q, msg),
             NEW a \in Present(Contents'), a.peer = req.server, InverseOf(a.id, req.file)'
      PROVE  a.id = req.id
  <2>1. CASE a \in Present(Contents)
    BY <1>3, <1>4, <2>1
  <2>2. CASE a = [id |-> msg.id, peer |-> q]
    <3>1. a.id = msg.id /\ a.peer = q
      BY <2>2
    <3>2. InverseOf(msg.id, req.file)
      BY <1>4, <3>1, AnsweringIs, InverseStays
    <3> QED BY <1>1, <1>2, <1>4, <3>1, <3>2, AnsweringIs
  <2> QED BY <1>4, <2>1, <2>2 DEF Answering, AddsAnswer
<1> QED BY <1>1, <1>2, <1>3, <1>4 DEF AnswerStep, SameAnswers

\* Steps that request nothing.
LEMMA PushesQuiet ==
  ASSUME TypeOK, GenuineInv, AnswersInv, PushesInv, AnswerStep, IdsInv', asked \subseteq asked',
         \A p \in Peers : m_replicate_query_filename[p] \subseteq m_replicate_query_filename'[p],
         UNCHANGED m_request_queue
  PROVE  PushesInv'
<1>1. PushedOnce'
  BY DEF PushesInv, PushedOnce
<1>2. \A p \in Peers : RequestsOf(p)' = RequestsOf(p)
  BY DEF RequestsOf
<1> QED BY <1>1, <1>2, PushRecorded DEF PushesInv

\* The pushes of an inverse query go to peers that were pushed the file for no other.
LEMMA PushesStart ==
  ASSUME TypeOK, TypeOK', GenuineInv, AnswersInv, RequestsInv, PushesInv, IdsInv',
         NEW p \in Peers, StartTransfers(p)
  PROVE  PushesInv'
<1>1. PICK query \in asked, requests \in Seq(Requests) :
        /\ Starts(p, query, requests)
        /\ m_request_queue' = [m_request_queue EXCEPT ![p] = @ \o requests]
  BY StartsAre DEF RequestsInv
<1>2. PICK id \in MsgIds, results \in Seq(Peers), file \in Files :
        /\ id = query.id /\ results = m_query_hit_result[p][id] /\ file = query.file
        /\ Len(requests) <= Len(results) /\ Len(requests) \in Nat /\ Len(results) \in Nat
        /\ ~Requested(p, id) /\ id.peer = p
  <2>1. query.id \in MsgIds /\ query.file \in Files
    BY DEF TypeOK, Queries
  <2> QED BY <1>1, <2>1, ResultsType, LenProperties DEF Starts, RequestsInv, WaitsInv
<1>3. UNCHANGED <<asked, m_replicate_query_filename>> /\ SameAnswers
  BY OtherHandlersAnswers DEF StartTransfers, historyVars
<1>4. Adds(p, requests)
  BY <1>1, AddsAre
<1>5. ASSUME NEW k \in 1 .. Len(requests), requests[k].type = "push"
      PROVE  /\ k \in 1 .. Len(results)
             /\ requests[k].id = id /\ requests[k].file = file /\ requests[k].server = results[k]
             /\ InverseOf(id, file)
             /\ file \in m_replicate_query_filename[results[k]]
             /\ \A b \in Present(Contents) : InverseOf(b.id, file) /\ b.peer = results[k] => b.id = id
             /\ [id |-> id, peer |-> results[k]] \in Present(Contents)
  <2>1. requests[k] = [type |-> IF query.type = "query" THEN "download" ELSE "push",
                       file |-> file, server |-> results[k], id |-> id]
    BY <1>1, <1>2 DEF Starts
  <2>2. query.type = "inv_query"
    BY <1>1, <1>5, <2>1 DEF Starts
  <2>3. InverseOf(id, file)
    BY <1>2, <2>2 DEF InverseOf, Asked
  <2>4. k \in 1 .. Len(results)
    BY <1>2
  <2>5. PICK a \in Present(Contents) : a = [id |-> id, peer |-> results[k]]
    BY <1>2, <2>4, RecordedPresent
  <2>6. a.id = id /\ a.peer = results[k]
    BY <2>5
  <2>7. \A b \in Present(Contents) : InverseOf(b.id, file) /\ a.peer = b.peer => a = b
    BY <2>3, <2>6 DEF AnswersInv
  <2>8. file \in m_replicate_query_filename[results[k]]
    BY <2>3, <2>6 DEF AnswersInv
  <2> QED BY <2>1, <2>3, <2>4, <2>5, <2>6, <2>7, <2>8
<1>6. ASSUME NEW q \in Peers, NEW req \in RequestsOf(q)', req.type = "push"
      PROVE  /\ req.file \in m_replicate_query_filename'[req.server]
             /\ \A a \in Present(Contents') :
                  a.peer = req.server /\ InverseOf(a.id, req.file)' => a.id = req.id
  <2>1. CASE req \in RequestsOf(q)
    BY <1>3, <1>6, <2>1, PushRecorded DEF AnswerStep
  <2>2. CASE req \in Range(requests)
    <3>1. PICK k \in 1 .. Len(requests) : req = requests[k]
      BY <2>2, LenProperties DEF Range
    <3>2. \A i, f : InverseOf(i, f)' = InverseOf(i, f)
      BY <1>3 DEF InverseOf, Asked
    <3> QED BY <1>3, <1>5, <1>6, <3>1, <3>2 DEF SameAnswers
  <2>3. req \in RequestsOf(q) \/ req \in Range(requests)
    BY <1>1, AddsAre
  <2> QED BY <2>1, <2>2, <2>3
<1>7. ASSUME NEW q \in Peers, NEW i \in DOMAIN m_request_queue[q], NEW k \in 1 .. Len(requests),
             m_request_queue[q][i].type = "push", requests[k].type = "push",
             m_request_queue[q][i].file = requests[k].file,
             m_request_queue[q][i].server = requests[k].server
      PROVE  FALSE
  <2>1. PICK req \in RequestsOf(q) : req = m_request_queue[q][i]
    BY DEF RequestsOf, Range
  <2>2. req.type = "push" /\ req.file = file /\ req.server = results[k]
    BY <1>5, <1>7, <2>1
  <2>3. PICK a \in Present(Contents) : a.id = id /\ a.peer = results[k] /\ InverseOf(a.id, file)
    BY <1>5, <1>7
  <2>4. req.id = id
    BY <2>2, <2>3 DEF PushesInv
  <2>5. q = p
    BY <1>2, <2>4 DEF RequestsInv, Requestable
  <2> QED BY <1>2, <2>4, <2>5 DEF Requested
<1>8. ASSUME NEW k \in 1 .. Len(requests), NEW l \in 1 .. Len(requests),
             requests[k].type = "push", requests[l].type = "push",
             requests[k].server = requests[l].server
      PROVE  k = l
  <2>1. k \in 1 .. Len(results) /\ l \in 1 .. Len(results) /\ results[k] = results[l]
    BY <1>5, <1>8
  <2>2. PICK place \in Places : place = ResultsAt(p, id)
    BY PlacesAre
  <2>3. /\ k \in DOMAIN Contents[place] /\ l \in DOMAIN Contents[place]
        /\ Contents[place][k] = Contents[place][l]
        /\ Contents[place][k] \in Answer /\ Contents[place][k].id = id
    <3>1. PICK a, b \in Answer : a = [id |-> id, peer |-> results[k]] /\ b = [id |-> id, peer |-> results[l]]
      BY <1>2, <2>1, RecordedPresent
    <3>2. /\ k \in DOMAIN Contents[place] /\ l \in DOMAIN Contents[place]
          /\ Contents[place][k] = a /\ Contents[place][l] = b
      BY <1>2, <2>1, <2>2, <3>1, RecordedPresent
    <3>3. a = b /\ a.id = id
      BY <2>1, <3>1
    <3> QED BY <3>2, <3>3
  <2>4. Contents[place][k] \in Single
    BY <1>2, <1>5, <1>8, <2>3 DEF Single
  <2>5. DOMAIN Contents = Places
    BY DEF Contents
  <2> QED BY <2>3, <2>4, <2>5 DEF AnswersInv, Distinct
<1>9. PushedOnce'
  <2> SUFFICES ASSUME NEW q1 \in Peers, NEW q2 \in Peers,
                      NEW i \in DOMAIN m_request_queue'[q1], NEW j \in DOMAIN m_request_queue'[q2],
                      m_request_queue'[q1][i].type = "push", m_request_queue'[q2][j].type = "push",
                      m_request_queue'[q1][i].file = m_request_queue'[q2][j].file,
                      m_request_queue'[q1][i].server = m_request_queue'[q2][j].server
               PROVE  q1 = q2 /\ i = j
    BY DEF PushedOnce
  <2>1. \/ i \in DOMAIN m_request_queue[q1] /\ m_request_queue'[q1][i] = m_request_queue[q1][i]
        \/ /\ q1 = p
           /\ \E k \in 1 .. Len(requests) :
                i = Len(m_request_queue[q1]) + k /\ m_request_queue'[q1][i] = requests[k]
    BY <1>4, AddsAt
  <2>2. \/ j \in DOMAIN m_request_queue[q2] /\ m_request_queue'[q2][j] = m_request_queue[q2][j]
        \/ /\ q2 = p
           /\ \E k \in 1 .. Len(requests) :
                j = Len(m_request_queue[q2]) + k /\ m_request_queue'[q2][j] = requests[k]
    BY <1>4, AddsAt
  <2>3. CASE /\ i \in DOMAIN m_request_queue[q1] /\ m_request_queue'[q1][i] = m_request_queue[q1][i]
             /\ j \in DOMAIN m_request_queue[q2] /\ m_request_queue'[q2][j] = m_request_queue[q2][j]
    BY <2>3 DEF PushesInv, PushedOnce
  <2> QED BY <1>7, <1>8, <2>1, <2>2, <2>3
<1> QED BY <1>6, <1>9 DEF PushesInv

\* Every step keeps PushesInv.
LEMMA PushesNext ==
  ASSUME TypeOK, TypeOK', UpstreamInv, GenuineInv, GenuineInv', AnswersInv, RequestsInv, PushesInv,
         [Next]_vars
  PROVE  PushesInv'
<1>1. IdsInv' /\ asked \subseteq asked' /\ AnswerStep
  BY AskedGrows, NextAnswers DEF GenuineInv
<1> QED BY <1>1, ReplicatedGrows, PushesQuiet, PushesStart, RequestStep

\* There are no pushes at the start.
LEMMA InitPushes == Init => PushesInv /\ NoPushes
BY RangeEmpty DEF Init, PushesInv, PushedOnce, NoPushes, RequestsOf

\* Without pushes none is made twice.
LEMMA NoPushesOnce ==
  ASSUME NoPushes, ReplicationFactor <= 1
  PROVE  PushedOnce
BY DEF NoPushes, PushedOnce, RequestsOf, Range
-----------------------------------------------------------------------------
\* Who was pushed a file has recorded its inverse query for good, and answers no other one.
THEOREM PushesInvariant ==
  ASSUME IdsAssigned
  PROVE  Spec => []PushesInv
<1>1. Init => /\ TypeOK /\ UpstreamInv /\ GenuineInv /\ AnswersInv
              /\ RequestsInv /\ PushesInv
  BY InitType, InitUpstream, InitGenuine, InitAnswers, InitRequests, InitPushes
<1>2. /\ TypeOK /\ UpstreamInv /\ GenuineInv /\ AnswersInv /\ RequestsInv /\ PushesInv
      /\ [Next]_vars
      => /\ TypeOK' /\ UpstreamInv' /\ GenuineInv' /\ AnswersInv' /\ RequestsInv' /\ PushesInv'
  BY NextType, NextStep, GenuineNext, AnswersNext, RequestsNext, PushesNext
<1> QED BY <1>1, <1>2, PTL DEF Spec

\* No file is pushed to a peer twice, however many peers replicate it and whatever they
\* forget: with one replica or less there are no pushes, with more PushesInv tells.
THEOREM PushedOnceOnly == Spec => []PushedOnce
<1>1. CASE ReplicationFactor > 1
  <2>1. IdsAssigned
    BY <1>1 DEF IdsAssigned
  <2>2. PushesInv => PushedOnce
    BY DEF PushesInv
  <2> QED BY <2>1, <2>2, PushesInvariant, PTL
<1>2. CASE ReplicationFactor <= 1
  <2>1. Init => TypeOK /\ NoPushes
    BY InitType, InitPushes
  <2>2. TypeOK /\ NoPushes /\ [Next]_vars => TypeOK' /\ NoPushes'
    BY NextType, NoPushesNext
  <2>3. NoPushes => PushedOnce
    BY <1>2, NoPushesOnce
  <2> QED BY <2>1, <2>2, <2>3, PTL DEF Spec
<1> QED BY <1>1, <1>2, NumbersAssumption

-----------------------------------------------------------------------------
(* The refinement of FileLookup.                                           *)

\* Ids stay lost.
LEMMA LostGrows ==
  ASSUME TypeOK, UpstreamInv, [Next]_vars
  PROVE  lost \subseteq lost'
BY StepRemembers DEF Remembers

\* An originator has cached, or lost, what is timed out at it.
LEMMA OldForgottenNext ==
  ASSUME TypeOK, UpstreamInv, IdsInv, OldForgotten, [Next]_vars
  PROVE  OldForgotten'
<1>1. CASE UNCHANGED maintenance
  BY <1>1, LostGrows DEF OldForgotten
<1>2. ASSUME NEW p \in Peers, EvictQueries(p) PROVE OldForgotten'
  <2>1. PICK old \in SUBSET {msg.id : msg \in asked} :
          /\ maintenance' = [maintenance EXCEPT ![p] = [pc |-> "results", old |-> old]]
          /\ lost' = lost \cup {id \in old : IsQueryCached(p, id)}
    BY <1>2 DEF EvictQueries
  <2>2. ASSUME NEW id \in old, id.peer = p PROVE id \in lost'
    BY <2>1, <2>2 DEF IdsInv, Known
  <2>3. maintenance'[p].old = old /\ \A q \in Peers \ {p} : maintenance'[q] = maintenance[q]
    BY <2>1 DEF TypeOK
  <2> QED BY <2>2, <2>3, LostGrows DEF OldForgotten
<1>3. ASSUME NEW p \in Peers, EvictQueryHitResults(p) \/ EvictWaits(p) PROVE OldForgotten'
  <2>1. /\ maintenance'[p].pc # "results"
        /\ \A q \in Peers \ {p} : maintenance'[q] = maintenance[q]
    BY <1>3 DEF EvictQueryHitResults, EvictWaits, TypeOK, Maintenance
  <2> QED BY <2>1, LostGrows DEF OldForgotten
<1>4. \/ UNCHANGED maintenance
      \/ \E p \in Peers : EvictQueries(p) \/ EvictQueryHitResults(p) \/ EvictWaits(p)
  <2>1. CASE UNCHANGED vars
    BY <2>1 DEF vars
  <2>2. ASSUME NEW p \in Peers, HandleMessageThread(p) PROVE UNCHANGED maintenance
    BY <2>2 DEF HandleMessageThread, DropQuery, HandleQuery, HandleInvQuery, HandleLoadTest,
                RelayLoadTest, HandleQueryHit, RelayQueryHit, RecordQueryHit, StartTransfers, Takes
  <2>3. ASSUME NEW p \in Peers, Command(p) \/ StartReplicateAllFiles(p)
                                \/ \E thread \in Testers : LoadTestCall(p, thread)
        PROVE  UNCHANGED maintenance
    BY <2>3 DEF Command, QueryCommand, ObtainFile, InvQueryCommand, ReplicateCommand,
                LoadTestCommand, StartReplicateAllFiles, SelectFilesToReplicate,
                ReplicateNextFile, LoadTestCall, Issue
  <2>4. ASSUME NEW p \in Peers,
               \/ \E thread \in Callers : SetWaitQueryHit(p, thread)
               \/ BroadcastProcessThread(p)
               \/ \E q \in Neighbors[p] : DealWithRequest(q, p) \/ TornMessage(q, p)
               \/ CrashInRelay(p) \/ SigPipe(p)
        PROVE  UNCHANGED maintenance
    BY <2>4 DEF SetWaitQueryHit, BroadcastProcessThread, DealWithRequest, TornMessage, CrashInRelay, SigPipe
  <2> QED BY <2>1, <2>2, <2>3, <2>4 DEF Next, MantainQueryMapSize
<1> QED BY <1>1, <1>2, <1>3, <1>4

\* The state of FileLookup.
Queried == {[id |-> msg.id, type |-> msg.type, file |-> msg.file] :
              msg \in {q \in asked : q.type \notin TestTypes}}
Answered == [id \in MsgIds |-> QueryResults(id)]
Unseen == UNCHANGED <<Queried, Answered, m_request_queue, lost>>

\* A step that FileLookup sees is one of these.
LEMMA NextSeen ==
  ASSUME TypeOK, [Next]_vars
  PROVE  \/ UNCHANGED <<asked, m_query_hit_result, m_request_queue, lost>>
         \/ Issues
         \/ \E p \in Peers : \/ RecordQueryHit(p) \/ StartTransfers(p) \/ RelayQueryHit(p)
                             \/ EvictQueries(p) \/ EvictQueryHitResults(p)
<1>1. CASE Issues
  BY <1>1
<1>2. CASE UNCHANGED <<asked, m_msg_id_counter>>
  <2>1. CASE UNCHANGED vars
    BY <2>1 DEF vars, hitVars, historyVars
  <2>2. ASSUME NEW p \in Peers, HandleMessageThread(p),
               ~RecordQueryHit(p), ~StartTransfers(p), ~RelayQueryHit(p)
        PROVE  UNCHANGED <<asked, m_query_hit_result, m_request_queue, lost>>
    BY <2>2 DEF HandleMessageThread, DropQuery, HandleQuery, HandleInvQuery, HandleLoadTest,
                RelayLoadTest, HandleQueryHit, Takes, hitVars, historyVars
  <2>3. ASSUME NEW p \in Peers, Command(p) \/ StartReplicateAllFiles(p)
                                \/ \E thread \in Testers : LoadTestCall(p, thread)
        PROVE  UNCHANGED <<asked, m_query_hit_result, m_request_queue, lost>>
    BY <1>2, <2>3 DEF Command, QueryCommand, ObtainFile, InvQueryCommand, ReplicateCommand,
                LoadTestCommand, StartReplicateAllFiles, SelectFilesToReplicate,
                ReplicateNextFile, LoadTestCall, Issue, hitVars, historyVars
  <2>4. ASSUME NEW p \in Peers,
               \/ \E thread \in Callers : SetWaitQueryHit(p, thread)
               \/ BroadcastProcessThread(p)
               \/ \E q \in Neighbors[p] : DealWithRequest(q, p) \/ TornMessage(q, p)
               \/ CrashInRelay(p) \/ SigPipe(p) \/ EvictWaits(p)
        PROVE  UNCHANGED <<asked, m_query_hit_result, m_request_queue, lost>>
    BY <2>4 DEF SetWaitQueryHit, BroadcastProcessThread, DealWithRequest, TornMessage, CrashInRelay, SigPipe,
                EvictWaits, hitVars, historyVars
  <2> QED BY <2>1, <2>2, <2>3, <2>4 DEF Next, MantainQueryMapSize
<1> QED BY <1>1, <1>2, NextIssues

\* What FileLookup sees of the asked queries.
LEMMA QueriedIs ==
  ASSUME NEW query \in asked, query.type \notin TestTypes
  PROVE  \E q \in Queried : q.id = query.id /\ q.type = query.type /\ q.file = query.file
<1>1. PICK q : q = [id |-> query.id, type |-> query.type, file |-> query.file]
  OBVIOUS
<1> QED BY <1>1 DEF Queried

\* Issuing a query asks it, unless it is a message that spreads a load test.
LEMMA IssueSeen ==
  ASSUME TypeOK, IdsInv, Issues
  PROVE  Unseen \/ \E id \in MsgIds, type \in Lookup!Types, file \in Files : Lookup!Ask(id, type, file)
<1>1. PICK p \in Peers, file \in Files, type \in {"query", "inv_query"} \cup TestTypes :
        (type = "inv_query" => ReplicationFactor > 1) /\ Issue(p, type, file)
  BY DEF Issues
<1>2. PICK msg \in Queries : Asks(p, type, file, msg)
  BY <1>1, IssueAsks
<1>3. PICK id \in MsgIds : id = msg.id /\ id = NextId(p) /\ msg.type = type /\ msg.file = file
                           /\ asked' = asked \cup {msg}
  BY <1>2 DEF Asks
<1>4. UNCHANGED <<m_query_hit_result, m_request_queue, lost>>
  BY <1>1 DEF Issue, hitVars
<1>5. UNCHANGED Answered
  BY <1>4 DEF Answered, QueryResults
<1>6. CASE type \in TestTypes
  <2>1. {q \in asked' : q.type \notin TestTypes} = {q \in asked : q.type \notin TestTypes}
    BY <1>3, <1>6
  <2>2. UNCHANGED Queried
    BY <2>1 DEF Queried
  <2> QED BY <1>4, <1>5, <2>2 DEF Unseen
<1>7. CASE type \notin TestTypes
  <2>1. PICK new : new = [id |-> id, type |-> type, file |-> file]
    OBVIOUS
  <2>2. Queried' = Queried \cup {new}
    BY <1>3, <1>7, <2>1 DEF Queried
  <2>3. \A q \in Queried : q.id # id
    BY <1>3, NextIdNew DEF Queried
  <2>4. Lookup!Ask(id, type, file)
    BY <1>4, <1>5, <2>1, <2>2, <2>3 DEF Lookup!Ask, Queried, Answered
  <2> QED BY <1>7, <2>4 DEF Lookup!Types
<1> QED BY <1>6, <1>7

\* The hit that an originator records is an answer that it has not got yet.
LEMMA RecordSeen ==
  ASSUME TypeOK, GenuineInv, AnswersInv, NEW p \in Peers, RecordQueryHit(p)
  PROVE  \E query \in Queried, server \in Peers : Lookup!Answer(query, server)
<1>1. PICK hit \in Hits : hit = handler[p].msg /\ hit.id.peer = p /\ Genuine(hit)
  BY HandlerType DEF RecordQueryHit, GenuineInv, HandlerGenuine
<1>2. PICK id \in MsgIds, server \in Peers : id = hit.id /\ server = hit.peer /\ id.peer = p
  BY <1>1 DEF Hits
<1>3. PICK other \in asked : other.id = id /\ other.type \notin TestTypes /\ Answers(server, other)
  <2>1. hit \notin Queries
    BY DEF Hits, Queries, TestTypes
  <2> QED BY <1>1, <1>2, <2>1 DEF Genuine, Traces, TestTypes
<1>4. PICK query \in Queried : query.id = id /\ query.type = other.type /\ query.file = other.file
  BY <1>3, QueriedIs
<1>5. ASSUME id \notin lost, NEW i \in DOMAIN QueryResults(id) PROVE QueryResults(id)[i] # server
  <2> SUFFICES ASSUME QueryResults(id)[i] = server PROVE FALSE
    OBVIOUS
  <2>1. i \in 1 .. Len(m_query_hit_result[p][id]) /\ m_query_hit_result[p][id][i] = server
    BY <1>2, <1>5, ResultsType, LenProperties DEF QueryResults
  <2>2. PICK a \in Answer : a = [id |-> id, peer |-> server]
    BY DEF Answer
  <2>3. PICK k \in Places : /\ k = ResultsAt(p, id)
                            /\ i \in DOMAIN Contents[k] /\ Contents[k][i] = a
    BY <2>1, <2>2, RecordedPresent, PlacesAre
  <2>4. PICK l \in Places : l = HandlerAt(p) /\ Contents[l] = HandlerAnswers(p)
    BY PlacesAre, ContentsHere DEF ContentsAre
  <2>5. HandlerAnswers(p) = <<a>>
    BY <1>1, <1>2, <2>2 DEF HandlerAnswers, AnswerOf, RecordQueryHit
  <2>6. 1 \in DOMAIN Contents[l] /\ Contents[l][1] = a
    BY <2>4, <2>5
  <2>7. a \in Single
    BY <1>5, <2>2 DEF Single
  <2>8. k = l
    BY <2>3, <2>4, <2>6, <2>7 DEF AnswersInv, Distinct, Contents
  <2> QED BY <2>3, <2>4, <2>8, PlacesDiffer
<1>6. m_query_hit_result' = [m_query_hit_result EXCEPT ![p][id] = Append(@, server)]
  BY <1>1, <1>2 DEF RecordQueryHit
<1>7. Answered' = [Answered EXCEPT ![id] = Append(@, server)]
  BY <1>2, <1>6 DEF Answered, QueryResults, TypeOK, MsgIds
<1>8. UNCHANGED <<Queried, m_request_queue, lost>>
  BY DEF RecordQueryHit, Queried, historyVars
<1>9. IF query.type = "query" THEN query.file \in m_files[server]
                              ELSE query.file \notin m_files[server]
  BY <1>3, <1>4 DEF Answers
<1>10. query.id \in lost \/ \A i \in DOMAIN Answered[query.id] : Answered[query.id][i] # server
  BY <1>4, <1>5 DEF Answered
<1>11. Lookup!Answer(query, server)
  BY <1>4, <1>7, <1>8, <1>9, <1>10 DEF Lookup!Answer, Queried, Answered
<1> QED BY <1>11

\* The first answers of a query start its transfers, once.
LEMMA StartSeen ==
  ASSUME TypeOK, GenuineInv, RequestsInv, NEW p \in Peers, StartTransfers(p)
  PROVE  Unseen \/ \E query \in Queried : \E n \in DOMAIN Answered[query.id] : Lookup!Transfer(query, n)
<1>1. PICK other \in asked, requests \in Seq(Requests) :
        /\ Starts(p, other, requests)
        /\ m_request_queue' = [m_request_queue EXCEPT ![p] = @ \o requests]
  BY StartsAre DEF RequestsInv
<1>2. PICK id \in MsgIds, results \in Seq(Peers) :
        /\ id = other.id /\ id.peer = p /\ results = m_query_hit_result[p][id]
        /\ Len(requests) <= Len(results) /\ Len(requests) \in Nat /\ Len(results) \in Nat
        /\ ~Requested(p, id) /\ other.type \notin TestTypes
  <2>1. other.id \in MsgIds
    BY DEF TypeOK, Queries
  <2> QED BY <1>1, <2>1, ResultsType, LenProperties DEF Starts, RequestsInv, WaitsInv, TestTypes
<1>3. PICK query \in Queried : query.id = id /\ query.type = other.type /\ query.file = other.file
  BY <1>2, QueriedIs
<1>4. UNCHANGED <<Queried, Answered, lost>>
  BY DEF StartTransfers, Queried, Answered, QueryResults, historyVars
<1>5. CASE requests = <<>>
  <2>1. m_request_queue[p] \in Seq(Requests)
    BY DEF TypeOK
  <2>2. m_request_queue[p] \o requests = m_request_queue[p]
    BY <1>5, <2>1, ConcatEmptySeq
  <2>3. UNCHANGED m_request_queue
    BY <1>1, <2>2 DEF TypeOK
  <2> QED BY <1>4, <2>3 DEF Unseen
<1>6. CASE requests # <<>>
  <2>1. PICK n \in Nat : n = Len(requests) /\ n # 0
    BY <1>2, <1>6, EmptySeq
  <2>2. Answered[id] = results /\ DOMAIN results = 1 .. Len(results)
    BY <1>2, LenProperties DEF Answered, QueryResults
  <2>3. n \in DOMAIN Answered[query.id]
    BY <1>2, <1>3, <2>1, <2>2
  <2>4. n \in 1 .. (IF query.type = "query" THEN 1 ELSE ReplicationFactor - 1)
    BY <1>1, <1>3, <1>6, <2>1, NumbersAssumption DEF Starts
  <2>5. requests = [i \in 1 .. n |->
                      [type |-> IF query.type = "query" THEN "download" ELSE "push",
                       file |-> query.file, server |-> Answered[query.id][i], id |-> query.id]]
    <3>1. requests = [i \in 1 .. n |-> requests[i]]
      BY <2>1, LenProperties
    <3>2. \A i \in 1 .. n : requests[i] =
            [type |-> IF query.type = "query" THEN "download" ELSE "push",
             file |-> query.file, server |-> Answered[query.id][i], id |-> query.id]
      BY <1>1, <1>2, <1>3, <2>1, <2>2 DEF Starts
    <3> QED BY <3>1, <3>2
  <2>6. \A i \in DOMAIN m_request_queue[p] : m_request_queue[p][i].id # query.id
    BY <1>2, <1>3 DEF Requested, RequestsOf, Range
  <2>7. query.id.peer = p
    BY <1>2, <1>3
  <2>8. Lookup!Transfer(query, n)
    BY <1>1, <1>4, <2>4, <2>5, <2>6, <2>7 DEF Lookup!Transfer, Queried, Answered
  <2> QED BY <2>3, <2>8
<1> QED BY <1>5, <1>6

\* A peer forgets queries; the answers that an originator drops are to queries it forgot.
LEMMA ForgetSeen ==
  ASSUME TypeOK, OldForgotten, NEW p \in Peers,
         RelayQueryHit(p) \/ EvictQueries(p) \/ EvictQueryHitResults(p)
  PROVE  \E ids \in SUBSET MsgIds : Lookup!Forget(ids) \/ Lookup!DropAnswers(ids)
<1>1. CASE RelayQueryHit(p)
  <2>1. handler[p].msg.id \in MsgIds
    BY <1>1, HandlerType DEF RelayQueryHit
  <2>2. lost' = lost \cup {handler[p].msg.id} \/ lost' = lost \cup {}
    BY <1>1 DEF RelayQueryHit
  <2>3. PICK ids \in SUBSET MsgIds : lost' = lost \cup ids
    BY <2>1, <2>2
  <2>4. UNCHANGED <<Queried, Answered, m_request_queue>>
    BY <1>1 DEF RelayQueryHit, Queried, Answered, QueryResults, hitVars
  <2> QED BY <2>3, <2>4 DEF Lookup!Forget, Queried, Answered
<1>2. CASE EvictQueries(p)
  <2>1. PICK old \in SUBSET {msg.id : msg \in asked} :
          lost' = lost \cup {id \in old : IsQueryCached(p, id)}
    BY <1>2 DEF EvictQueries
  <2>2. old \subseteq MsgIds
    BY DEF TypeOK, Queries
  <2>3. PICK ids \in SUBSET MsgIds : lost' = lost \cup ids
    BY <2>1, <2>2
  <2>4. UNCHANGED <<Queried, Answered, m_request_queue>>
    BY <1>2 DEF EvictQueries, Queried, Answered, QueryResults, hitVars
  <2> QED BY <2>3, <2>4 DEF Lookup!Forget, Queried, Answered
<1>3. CASE EvictQueryHitResults(p)
  <2>1. maintenance[p].old \in SUBSET MsgIds /\ maintenance[p].pc = "results"
    BY <1>3 DEF EvictQueryHitResults, TypeOK, Maintenance
  <2>2. PICK ids \in SUBSET MsgIds : ids = {id \in maintenance[p].old : id.peer = p}
    BY <2>1
  <2>3. ids \subseteq lost
    BY <2>1, <2>2 DEF OldForgotten
  <2>4. ASSUME NEW id \in MsgIds
        PROVE  QueryResults(id)' = IF id \in ids THEN <<>> ELSE QueryResults(id)
    <3>1. id.peer \in Peers
      BY DEF MsgIds
    <3>2. CASE id.peer = p
      BY <1>3, <2>2, <3>2 DEF EvictQueryHitResults, Without, QueryResults, TypeOK
    <3>3. CASE id.peer # p
      BY <1>3, <2>2, <3>1, <3>3 DEF EvictQueryHitResults, QueryResults, TypeOK
    <3> QED BY <3>2, <3>3
  <2>5. Answered' = [id \in MsgIds |-> IF id \in ids THEN <<>> ELSE Answered[id]]
    BY <2>4 DEF Answered
  <2>6. UNCHANGED <<Queried, m_request_queue, lost>>
    BY <1>3 DEF EvictQueryHitResults, Queried, historyVars
  <2> QED BY <2>3, <2>5, <2>6 DEF Lookup!DropAnswers, Queried, Answered
<1> QED BY <1>1, <1>2, <1>3

\* Every step is one of FileLookup, or changes nothing that it sees.
LEMMA LookupNext ==
  ASSUME TypeOK, GenuineInv, AnswersInv, RequestsInv, OldForgotten, [Next]_vars
  PROVE  [Lookup!Next]_Lookup!vars
<1>1. ASSUME Unseen PROVE UNCHANGED Lookup!vars
  BY <1>1 DEF Unseen, Queried, Answered, Lookup!vars
<1>2. CASE UNCHANGED <<asked, m_query_hit_result, m_request_queue, lost>>
  <2>1. Unseen
    BY <1>2 DEF Unseen, Queried, Answered, QueryResults
  <2> QED BY <1>1, <2>1
<1>3. CASE Issues
  BY <1>1, <1>3, IssueSeen DEF GenuineInv, Lookup!Next
<1>4. ASSUME NEW p \in Peers, RecordQueryHit(p) PROVE Lookup!Next
  BY <1>4, RecordSeen DEF Lookup!Next, Queried
<1>5. ASSUME NEW p \in Peers, StartTransfers(p) PROVE Lookup!Next \/ UNCHANGED Lookup!vars
  BY <1>1, <1>5, StartSeen DEF Lookup!Next, Queried, Answered
<1>6. ASSUME NEW p \in Peers, RelayQueryHit(p) \/ EvictQueries(p) \/ EvictQueryHitResults(p)
      PROVE  Lookup!Next
  BY <1>6, ForgetSeen DEF Lookup!Next
<1> QED BY <1>2, <1>3, <1>4, <1>5, <1>6, NextSeen

\* The peers start where FileLookup does.
LEMMA InitLookup == Init => Lookup!Init /\ OldForgotten
<1> SUFFICES ASSUME Init PROVE Lookup!Init /\ OldForgotten
  OBVIOUS
<1>1. \A id \in MsgIds : QueryResults(id) = <<>>
  BY DEF Init, QueryResults, MsgIds
<1>2. OldForgotten
  BY DEF Init, OldForgotten, Rested
<1> QED BY <1>1, <1>2 DEF Init, Lookup!Init
-----------------------------------------------------------------------------
\* The peers, their caches and all their threads implement FileLookup: no answer is lost,
\* changed or doubled until somebody forgets the query, and each query starts its transfers
\* once, from or to the first that answered.
THEOREM LookupImplemented ==
  ASSUME IdsAssigned
  PROVE  Spec => LookupCorrect
<1>1. Init => /\ TypeOK /\ UpstreamInv /\ GenuineInv /\ AnswersInv /\ RequestsInv
              /\ OldForgotten /\ Lookup!Init
  BY InitType, InitUpstream, InitGenuine, InitAnswers, InitRequests, InitLookup
<1>2. /\ TypeOK /\ UpstreamInv /\ GenuineInv /\ AnswersInv /\ RequestsInv /\ OldForgotten
      /\ [Next]_vars
      => /\ TypeOK' /\ UpstreamInv' /\ GenuineInv' /\ AnswersInv' /\ RequestsInv'
         /\ OldForgotten'
  BY NextType, NextStep, GenuineNext, AnswersNext, RequestsNext, OldForgottenNext DEF GenuineInv
<1>3. /\ TypeOK /\ GenuineInv /\ AnswersInv /\ RequestsInv /\ OldForgotten
      /\ [Next]_vars
      => [Lookup!Next]_Lookup!vars
  BY LookupNext
<1> QED BY <1>1, <1>2, <1>3, PTL DEF Spec, LookupCorrect, Lookup!Spec
=============================================================================
