------------------------------- MODULE Links --------------------------------
(***************************************************************************)
(* What a peer's sending threads promise its neighbours: a message goes to *)
(* all its receivers in one step, and every receiver gets whole messages,  *)
(* each once, in the order in which they were sent. When the sender's      *)
(* process has ended, receivers may miss the last messages, and the very   *)
(* last thing that a receiver handles may be one torn message.             *)
(* Module PeerClient takes this for granted: its Send is the one here, any *)
(* step by which a process ends the End, and its TornMessage a GiveUp.     *)
(***************************************************************************)
EXTENDS Naturals, Sequences

\* As in module Wire: a job is a message and its receivers; Torn is no message.
CONSTANTS Messages, Threads, Receivers, Jobs, Torn

VARIABLES
  todo,    \* what each thread has left to send
  chan,    \* chan[q]: sent to q, and not handled there yet
  handled, \* handled[q]: what q has handled
  ended,   \* the sender's process has ended
  gone     \* receivers that handle nothing any more

vars == <<todo, chan, handled, ended, gone>>

Init ==
  /\ todo = Jobs
  /\ chan = [q \in Receivers |-> <<>>]
  /\ handled = [q \in Receivers |-> <<>>]
  /\ ended = FALSE
  /\ gone = {}

Send(t) ==
  /\ ~ended
  /\ todo[t] # <<>>
  /\ todo' = [todo EXCEPT ![t] = Tail(@)]
  /\ chan' = [q \in Receivers |->
                IF \E i \in DOMAIN Head(todo[t]).to : q = Head(todo[t]).to[i] /\ q \notin gone
                THEN Append(chan[q], Head(todo[t]).msg) ELSE chan[q]]
  /\ UNCHANGED <<handled, ended, gone>>

Handle(q) ==
  /\ q \notin gone
  /\ chan[q] # <<>>
  /\ chan' = [chan EXCEPT ![q] = Tail(@)]
  /\ handled' = [handled EXCEPT ![q] = Append(@, Head(chan[q]))]
  /\ UNCHANGED <<todo, ended, gone>>

End ==
  /\ ~ended
  /\ ended' = TRUE
  /\ \A q \in Receivers : \E n \in 0 .. Len(chan[q]) : chan'[q] = SubSeq(chan[q], 1, n)
  /\ DOMAIN chan' = Receivers
  /\ UNCHANGED <<todo, handled, gone>>

\* q gives the connection up, once: the last message may be torn. Or q has ended.
GiveUp(q) ==
  /\ ended
  /\ q \notin gone
  /\ handled' = [handled EXCEPT ![q] = Append(@, Torn)] \/ UNCHANGED handled
  /\ chan' = [chan EXCEPT ![q] = <<>>]
  /\ gone' = gone \cup {q}
  /\ UNCHANGED <<todo, ended>>
EndReceiver(q) ==
  /\ q \notin gone
  /\ chan' = [chan EXCEPT ![q] = <<>>]
  /\ gone' = gone \cup {q}
  /\ UNCHANGED <<todo, handled, ended>>

Next ==
  \/ \E t \in Threads : Send(t)
  \/ \E q \in Receivers : Handle(q) \/ GiveUp(q) \/ EndReceiver(q)
  \/ End

Spec == Init /\ [][Next]_vars
=============================================================================
