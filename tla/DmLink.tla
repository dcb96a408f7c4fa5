------------------------------- MODULE DmLink -------------------------------
(***************************************************************************)
(* What a direct-message conversation promises its two front ends, apart   *)
(* from rings, outboxes, pushes and crashes: in each direction the messages*)
(* accepted for sending arrive once each and in order, at most a window of *)
(* them is unacknowledged, and a sender's acknowledgement never runs ahead *)
(* of what its correspondent holds.  A reply may carry an acknowledgement. *)
(***************************************************************************)
EXTENDS Integers, Sequences

CONSTANTS
  Alice, Bob,
  Window,    \* how many messages may be unacknowledged
  Payload,   \* what a message may be
  Start      \* what each party has sent, received and acknowledged at first

Party   == {Alice, Bob}
Peer(p) == IF p = Alice THEN Bob ELSE Alice

VARIABLES
  sent,   \* sent[p]: the messages accepted from p
  got,    \* got[p]: the messages p received
  acked   \* acked[p]: how many of its messages p knows to be received

vars == <<sent, got, acked>>

Init ==
  /\ sent = [p \in Party |-> Start]
  /\ got = [p \in Party |-> Start]
  /\ acked = [p \in Party |-> Len(Start)]

Send(p) ==
  /\ Len(sent[p]) - acked[p] < Window
  /\ \E m \in Payload : sent' = [sent EXCEPT ![p] = Append(@, m)]
  /\ UNCHANGED <<got, acked>>

(* An acknowledgement of p's messages, not beyond what is received. *)
Acks(p) == acked[p] .. Len(got[Peer(p)])

Receive(p) ==
  /\ Len(got[p]) < Len(sent[Peer(p)])
  /\ got' = [got EXCEPT ![p] = Append(@, sent[Peer(p)][Len(@) + 1])]
  /\ \E n \in Acks(p) : acked' = [acked EXCEPT ![p] = n]
  /\ UNCHANGED sent

Learn(p) ==
  /\ \E n \in Acks(p) \ {acked[p]} : acked' = [acked EXCEPT ![p] = n]
  /\ UNCHANGED <<sent, got>>

Next == \E p \in Party : Send(p) \/ Receive(p) \/ Learn(p)

Safe == Init /\ [][Next]_vars

(* Everything accepted arrives, and its sender comes to know it. *)
Spec == Safe /\ \A p \in Party : WF_vars(Receive(p)) /\ WF_vars(Learn(p))
=============================================================================
