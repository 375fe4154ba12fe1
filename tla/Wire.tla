-------------------------------- MODULE Wire --------------------------------
(***************************************************************************)
(* How a message gets from the threads of one peer to its neighbours:      *)
(* BroadcastProcessThread and RelayQueryHit (peer_client.cpp) send blocks  *)
(* of MSG_BUF_SIZE bytes in as many pieces as the sockets take, under      *)
(* m_send_buffer_mutex; HandleRequest (tcp_server.cpp) puts them together. *)
(*                                                                         *)
(* A block is Size units, <<message, 1>> to <<message, Size>>. A socket    *)
(* holds Room units; what else a sender has for it blocks. The receiver's  *)
(* process may end, and so may the sender's: it is killed, or by SIGPIPE   *)
(* when it sends to a receiver that has gone. A process that ends before   *)
(* it has read what it was sent resets the connection, and what the other  *)
(* end has not received then may be lost.                                  *)
(***************************************************************************)
EXTENDS Integers, Sequences, FiniteSets, Functions

CONSTANTS
  Messages,   \* the messages
  Threads,    \* the threads that send, BroadcastProcessThread and HandleMessageThread
  Receivers,  \* m_peer_id_to_sockfd: the neighbours
  Jobs,       \* what each thread sends: a message, and the receivers in their order
  Size,       \* MSG_BUF_SIZE and m_buffer_size
  Room,       \* what the sockets of a connection hold
  Torn        \* a block that is no message

Job == [msg : Messages, to : Seq(Receivers)]
Unit == Messages \X (1 .. Size)
None == "none"

ASSUME JobsAssumption ==
  /\ Jobs \in [Threads -> Seq(Job)]
  /\ \A t \in Threads : \A i \in DOMAIN Jobs[t] :
       Jobs[t][i].to # <<>> /\ IsInjective(Jobs[t][i].to)
  /\ Torn \notin Messages
ASSUME ThreadsAssumption == None \notin Threads
ASSUME NumbersAssumption == Size \in Nat \ {0} /\ Room \in Nat \ {0}

VARIABLES
  todo,                \* what each thread has left to send
  m_send_buffer_mutex, \* the thread that holds it, or None
  sentBytes,           \* how much of the block to the next receiver has been sent
  sock,                \* sock[q]: what was sent to q and is not received
  buffer,              \* buffer[q]: the block that q's HandleRequest receives
  handled,             \* handled[q]: what q's HandleMessage was passed
  ended,               \* the sender's process has ended
  reset,               \* the receivers whose connection was reset by that
  broken,              \* the receivers a send() to whom has failed
  gone                 \* the receivers that have ended or left HandleRequest

vars == <<todo, m_send_buffer_mutex, sentBytes, sock, buffer, handled, ended, reset, broken, gone>>
senderVars == <<todo, m_send_buffer_mutex, sentBytes>>

TypeOK ==
  /\ todo \in [Threads -> Seq(Job)]
  /\ m_send_buffer_mutex \in Threads \cup {None}
  /\ sentBytes \in [Threads -> 0 .. Size - 1]
  /\ sock \in [Receivers -> Seq(Unit)]
  /\ \A q \in Receivers : Len(sock[q]) <= Room
  /\ buffer \in [Receivers -> Seq(Unit)]
  /\ \A q \in Receivers : Len(buffer[q]) <= Size
  /\ handled \in [Receivers -> Seq(Messages \cup {Torn})]
  /\ ended \in BOOLEAN
  /\ reset \subseteq Receivers
  /\ broken \subseteq gone
  /\ gone \subseteq Receivers

Init ==
  /\ todo = Jobs
  /\ m_send_buffer_mutex = None
  /\ sentBytes = [t \in Threads |-> 0]
  /\ sock = [q \in Receivers |-> <<>>]
  /\ buffer = [q \in Receivers |-> <<>>]
  /\ handled = [q \in Receivers |-> <<>>]
  /\ ended = FALSE
  /\ reset = {}
  /\ broken = {}
  /\ gone = {}
-----------------------------------------------------------------------------
(* The sender.                                                             *)

\* MUTANT of Lock: a mutex for each thread.
LockOwn(t) ==
  /\ ~ended
  /\ todo[t] # <<>>
  /\ m_send_buffer_mutex # t
  /\ m_send_buffer_mutex' = t
  /\ UNCHANGED <<todo, sentBytes, sock, buffer, handled, ended, reset, broken, gone>>

Lock(t) ==
  /\ ~ended
  /\ todo[t] # <<>>
  /\ m_send_buffer_mutex = None
  /\ m_send_buffer_mutex' = t
  /\ UNCHANGED <<todo, sentBytes, sock, buffer, handled, ended, reset, broken, gone>>

Sending(t) == ~ended /\ m_send_buffer_mutex = t
Message(t) == Head(todo[t]).msg
Receiver(t) == Head(Head(todo[t]).to)

\* What is left of the job of thread t: the receivers after the present one.
Rest(t) == [Head(todo[t]) EXCEPT !.to = Tail(@)]

\* MUTANTS of NextReceiver: the count of the bytes goes on; the loop ends too soon.
NextReceiverCounts(t) ==
  /\ UNCHANGED sentBytes
  /\ IF Len(Head(todo[t]).to) > 1
     THEN /\ todo' = [todo EXCEPT ![t] = <<Rest(t)>> \o Tail(@)]
          /\ UNCHANGED m_send_buffer_mutex
     ELSE /\ todo' = [todo EXCEPT ![t] = Tail(@)]
          /\ m_send_buffer_mutex' = None
NoNextReceiver(t) ==
  /\ sentBytes' = [sentBytes EXCEPT ![t] = 0]
  /\ todo' = [todo EXCEPT ![t] = Tail(@)]
  /\ m_send_buffer_mutex' = None

\* The next receiver of the message, or the end of the critical section.
NextReceiver(t) ==
  /\ sentBytes' = [sentBytes EXCEPT ![t] = 0]
  /\ IF Len(Head(todo[t]).to) > 1
     THEN /\ todo' = [todo EXCEPT ![t] = <<Rest(t)>> \o Tail(@)]
          /\ UNCHANGED m_send_buffer_mutex
     ELSE /\ todo' = [todo EXCEPT ![t] = Tail(@)]
          /\ m_send_buffer_mutex' = None

\* The units that are left of the block, up to n of them.
Piece(t, n) == [i \in 1 .. n |-> <<Message(t), sentBytes[t] + i>>]

\* One call of send(), which takes what there is room for. What is sent to a receiver
\* that has gone is lost.
SendPiece(t) ==
  LET q == Receiver(t) IN
  /\ Sending(t)
  /\ q \notin broken
  /\ \E n \in 1 .. (Size - sentBytes[t]) :
       /\ IF q \in gone THEN UNCHANGED sock
          ELSE /\ Len(sock[q]) + n <= Room
               /\ sock' = [sock EXCEPT ![q] = @ \o Piece(t, n)]
       /\ IF sentBytes[t] + n = Size THEN NextReceiver(t)
          ELSE /\ sentBytes' = [sentBytes EXCEPT ![t] = @ + n]
               /\ UNCHANGED <<todo, m_send_buffer_mutex>>
  /\ UNCHANGED <<buffer, handled, ended, reset, broken, gone>>

\* send() fails, and the rest of the block is left out.
SendFails(t) ==
  /\ Sending(t)
  /\ Receiver(t) \in gone \ broken
  /\ broken' = broken \cup {Receiver(t)}
  /\ NextReceiver(t)
  /\ UNCHANGED <<sock, buffer, handled, ended, reset, gone>>

\* The process ends, and resets any of its connections.
End ==
  /\ ~ended
  /\ ended' = TRUE
  /\ reset' \in SUBSET Receivers
  /\ UNCHANGED <<senderVars, sock, buffer, handled, broken, gone>>

\* send() raises SIGPIPE, at the latest when it is called once more after an error.
SigPipe(t) ==
  /\ Sending(t)
  /\ Receiver(t) \in gone
  /\ End

-----------------------------------------------------------------------------
(* The receivers.                                                          *)

\* MUTANT of Recv: the length passed to recv() is the one of the whole buffer.
RecvWhole(q) ==
  /\ q \notin gone
  /\ \E n \in 1 .. Len(sock[q]) :
       /\ n <= Size
       /\ Len(buffer[q]) < Size
       /\ buffer' = [buffer EXCEPT ![q] = @ \o SubSeq(sock[q], 1, n)]
       /\ sock' = [sock EXCEPT ![q] = SubSeq(@, n + 1, Len(@))]
  /\ UNCHANGED <<senderVars, handled, ended, reset, broken, gone>>

\* recv(). At the end of the connection it returns 0, and the loop goes on for ever.
Recv(q) ==
  /\ q \notin gone
  /\ \E n \in 1 .. Len(sock[q]) :
       /\ Len(buffer[q]) + n <= Size
       /\ buffer' = [buffer EXCEPT ![q] = @ \o SubSeq(sock[q], 1, n)]
       /\ sock' = [sock EXCEPT ![q] = SubSeq(@, n + 1, Len(@))]
  /\ UNCHANGED <<senderVars, handled, ended, reset, broken, gone>>

Block(m) == [i \in 1 .. Size |-> <<m, i>>]
Handled(units) ==
  IF \E m \in Messages : units = Block(m) THEN units[1][1] ELSE Torn

\* The block is full: DealWithRequest.
DealWithRequest(q) ==
  /\ q \notin gone
  /\ Len(buffer[q]) = Size
  /\ handled' = [handled EXCEPT ![q] = Append(@, Handled(buffer[q]))]
  /\ buffer' = [buffer EXCEPT ![q] = <<>>]
  /\ UNCHANGED <<senderVars, sock, ended, reset, broken, gone>>

\* MUTANT of RecvFails: errorRecv is forgotten, and the loop goes on.
RecvFailsGoesOn(q) ==
  /\ q \notin gone
  /\ q \in reset
  /\ Len(buffer[q]) < Size
  /\ handled' = IF buffer[q] = <<>> THEN handled
                ELSE [handled EXCEPT ![q] = Append(@, Handled(buffer[q]))]
  /\ buffer' = [buffer EXCEPT ![q] = <<>>]
  /\ UNCHANGED <<senderVars, sock, ended, reset, broken, gone>>

\* recv() fails: DealWithRequest once more, with what the buffer holds, and the end of
\* HandleRequest. An empty message is dropped.
RecvFails(q) ==
  /\ q \notin gone
  /\ q \in reset
  /\ Len(buffer[q]) < Size
  /\ handled' = IF buffer[q] = <<>> THEN handled
                ELSE [handled EXCEPT ![q] = Append(@, Handled(buffer[q]))]
  /\ gone' = gone \cup {q}
  /\ sock' = [sock EXCEPT ![q] = <<>>]
  /\ buffer' = [buffer EXCEPT ![q] = <<>>]
  /\ UNCHANGED <<senderVars, ended, reset, broken>>

EndReceiver(q) ==
  /\ q \notin gone
  /\ gone' = gone \cup {q}
  /\ sock' = [sock EXCEPT ![q] = <<>>]
  /\ buffer' = [buffer EXCEPT ![q] = <<>>]
  /\ UNCHANGED <<senderVars, handled, ended, reset, broken>>

SenderStep(t) == Lock(t) \/ SendPiece(t) \/ SendFails(t) \/ SigPipe(t)
ReceiverStep(q) == Recv(q) \/ DealWithRequest(q) \/ RecvFails(q)

Next ==
  \/ \E t \in Threads : SenderStep(t)
  \/ \E q \in Receivers : ReceiverStep(q) \/ EndReceiver(q)
  \/ End

Spec == Init /\ [][Next]_vars

\* The threads are scheduled; nobody makes a process end.
Fairness ==
  /\ \A t \in Threads : WF_vars(SenderStep(t))
  /\ \A q \in Receivers : WF_vars(ReceiverStep(q))
FairSpec == Spec /\ Fairness
-----------------------------------------------------------------------------
(* Properties.                                                             *)

\* What a receiver has not handled yet is a sequence of whole blocks, unit by unit, with
\* one block at the end that is as incomplete as the holder of the mutex left it: pieces
\* of two threads, or of two messages, are never mixed.
Stream(q) == buffer[q] \o sock[q]
Begun(q) ==
  IF m_send_buffer_mutex # None /\ Receiver(m_send_buffer_mutex) = q
  THEN sentBytes[m_send_buffer_mutex] ELSE 0
StreamFramed == \A q \in Receivers \ gone :
  LET s == Stream(q) IN
  /\ s # <<>> => s[1][2] = 1
  /\ \A i \in 1 .. Len(s) - 1 :
       \/ s[i][2] = Size /\ s[i + 1][2] = 1
       \/ s[i + 1] = <<s[i][1], s[i][2] + 1>>
  /\ ~ended => (IF s = <<>> THEN 0 ELSE s[Len(s)][2] % Size) = Begun(q)

\* The promise of module Links. A message counts as sent when its thread gets the mutex:
\* from then on nothing can come before it.
Whole(units) == [k \in 1 .. Len(units) \div Size |-> units[k * Size][1]]
InSending(q) ==
  LET t == m_send_buffer_mutex IN
  IF ~ended /\ t # None /\ q \in Range(Head(todo[t]).to) THEN <<Message(t)>> ELSE <<>>
Unsent == [t \in Threads |-> IF m_send_buffer_mutex = t THEN Tail(todo[t]) ELSE todo[t]]
Sent == [q \in Receivers |-> IF q \in gone THEN <<>> ELSE Whole(Stream(q)) \o InSending(q)]
Promise == INSTANCE Links WITH todo <- Unsent, chan <- Sent

\* The threads of a peer and of its neighbours together, whatever pieces the sockets take
\* and give, keep that promise.
KeepsPromise == Promise!Spec

\* A torn block is the last thing that a receiver handles of the connection, and only
\* when the sender's process has ended: HandleRequest passes what its buffer holds when
\* recv() fails to DealWithRequest once, and never takes the pieces that follow for a
\* block.
TornLast == \A q \in Receivers : \A i \in DOMAIN handled[q] :
  handled[q][i] = Torn => ended /\ q \in gone /\ i = Len(handled[q])

\* As long as no process ends, all that is sent is handled in the end, although a thread
\* that waits for room in one socket keeps the other thread from all of them.
Expected(q) == Cardinality({job \in UNION {{t} \X DOMAIN Jobs[t] : t \in Threads} :
                              q \in Range(Jobs[job[1]][job[2]].to)})
EverythingArrives ==
  [](~ended /\ gone = {}) => <>(\A q \in Receivers : Len(handled[q]) = Expected(q))
-----------------------------------------------------------------------------
(* Why the blocks stay whole: an inductive invariant.                      *)

\* The j-th unit of the k-th block of a stream belongs to the message of the block's
\* first one. Blocks are counted from 0.
Framed(s) == \A k \in 0 .. Len(s), j \in 1 .. Size :
  k * Size + j <= Len(s) => s[k * Size + j] = <<s[k * Size + 1][1], j>>

\* A block that has been begun ends the stream of the receiver it is being sent to.
StreamInv(q) == LET s == Stream(q) IN
  /\ Framed(s)
  /\ ~ended => /\ Len(s) % Size = Begun(q)
               /\ Begun(q) > 0 => s[Len(s)][1] = Message(m_send_buffer_mutex)

\* Only the holder of the mutex has begun a block, and it has a receiver left; a connection
\* is reset only when the sender has ended.
MutexInv ==
  /\ \A t \in Threads :
       /\ m_send_buffer_mutex = t => todo[t] # <<>>
       /\ m_send_buffer_mutex # t => sentBytes[t] = 0
  /\ \A t \in Threads : \A i \in 1 .. Len(todo[t]) :
       todo[t][i].to # <<>> /\ IsInjective(todo[t][i].to)
  /\ reset # {} => ended

WireInv == MutexInv /\ \A q \in Receivers \ gone : StreamInv(q)
=============================================================================
