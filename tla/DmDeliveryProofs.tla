-------------------------- MODULE DmDeliveryProofs --------------------------
(***************************************************************************)
(* What is proved of DmDelivery, for every ring size, every number of      *)
(* messages and every choice of faults, in four parts that rest on each    *)
(* other in this order.                                                    *)
(*                                                                         *)
(* Types.  TypeOK alone is not inductive: it lets a task hold Absent where *)
(* a step is about to store or record a message.  TaskType adds that a     *)
(* task past the load that found a message holds one.                      *)
(*                                                                         *)
(* Order.  CursorOrder is not inductive: it says nothing of the cursors    *)
(* that are under way.  OrderInv adds that every message a party sealed -  *)
(* in its outbox, in its ring, pushed, or held by a task of either party - *)
(* names a sequence it has given out and a cursor it has reached, and that *)
(* every cursor it published or is about to publish is one it has reached. *)
(* A cursor that is read late, or read twice, is then old but never too    *)
(* high, and advance_peer_collected ignores an old one.                    *)
(*                                                                         *)
(* Content.  ContentInv follows a message from its seal: what leaves a     *)
(* party or is held to leave was committed; an outbox entry is a committed *)
(* message or the one the lane is about to commit; what a task trims, the  *)
(* correspondent recorded; and a reader recorded what its writer           *)
(* committed.  OutstandingKept, OnlyCommittedLeaves, RecordedIsCommitted   *)
(* and the refinement of DmLink follow from it.                            *)
(*                                                                         *)
(* Ends.  What a delete leaves behind, and what a report of Sent means.    *)
(***************************************************************************)
EXTENDS DmDelivery, TLAPS

-----------------------------------------------------------------------------
(* Types.                                                                  *)

(* What the live lane and the runner hold between two of their steps. *)
LaneTyped(p) == lane[p].pc \in {"sealed", "stored"} => lane[p].msg \in Message
RunTyped(p)  == run[p].pc \in {"write", "collect"} => run[p].msg \in Message

(* The tasks that RepairLoad and SendLoad start. *)
RepairTask(p, pc, lost) ==
  [RunIdle EXCEPT !.pc = pc, !.val = peerCol[p], !.boot = run[p].boot,
                  !.todo = Outstanding(p), !.lost = lost]

SealedMessage(p, att) == [seq |-> sendSeq[p], att |-> att, cursor |-> myCol[p]]
SealTask(p, att) ==
  [LaneIdle EXCEPT !.pc = "sealed", !.loaded = Record(p), !.msg = SealedMessage(p, att)]

TaskType == \A p \in Party : LaneTyped(p) /\ RunTyped(p)

USE DEF Party

(* The correspondent of a party is the other party. *)
LEMMA PeerType == \A p \in Party : Peer(p) \in Party /\ Peer(p) # p /\ Peer(Peer(p)) = p
  BY PartiesDiffer DEF Peer

(* slot_for: every sequence has a place in the ring. *)
LEMMA SlotForType == \A s \in Nat : SlotFor(s) \in Slots
  BY RingAssumption DEF SlotFor, Slots

(* A slot holds a message or nothing, and its sequence tells which. *)
LEMMA MessageType ==
  /\ Absent \in OptMessage /\ Message \subseteq OptMessage
  /\ \A m \in Message : m.seq \in Nat /\ m.cursor \in Nat
  /\ \A m \in OptMessage : /\ m.seq \in Int /\ m.cursor \in Nat
                           /\ m.seq >= 0 => m \in Message
  BY DEF Absent, OptMessage, Message

(* The parts of what the live lane holds. *)
LEMMA LaneFields ==
  \A r \in LaneType : /\ r.msg \in OptMessage /\ r.loaded \in RecordType /\ r.through \in Nat
                      /\ \A pc \in {"sealed", "stored", "idle", "trim"} :
                           [r EXCEPT !.pc = pc] \in LaneType
  BY DEF LaneType

(* The parts of what the runner holds. *)
LEMMA RunFields ==
  \A r \in RunType :
    /\ r.pc \in RunPc /\ r.val \in Nat /\ r.msg \in OptMessage /\ r.todo \subseteq Message
    /\ r.lost \subseteq Slots /\ r.missed \subseteq Nat /\ r.boot \in BOOLEAN
    /\ \A pc \in RunPc : [r EXCEPT !.pc = pc] \in RunType
  BY DEF RunType

(* An idle lane, an idle runner and a runner that relaunches are typed. *)
LEMMA IdleType ==
  /\ LaneIdle \in LaneType /\ LaneIdle.pc = "idle"
  /\ RunIdle \in RunType /\ RunIdle.pc = "idle" /\ RunBoot \in RunType /\ RunBoot.pc = "boot"
  BY MessageType DEF LaneIdle, LaneType, NoRecord, RecordType, RunIdle, RunType, RunBoot, RunPc

(* A task that carries a cursor is typed. *)
LEMMA RunStartVal ==
  ASSUME NEW pc \in RunPc, NEW val \in Nat
  PROVE  /\ [RunIdle EXCEPT !.pc = pc, !.val = val] \in RunType
         /\ [RunIdle EXCEPT !.pc = pc, !.val = val].pc = pc
  BY MessageType DEF RunIdle, RunType

(* A task that carries a message is typed. *)
LEMMA RunStartMsg ==
  ASSUME NEW pc \in RunPc, NEW msg \in OptMessage
  PROVE  /\ [RunIdle EXCEPT !.pc = pc, !.msg = msg] \in RunType
         /\ [RunIdle EXCEPT !.pc = pc, !.msg = msg].pc = pc
         /\ [RunIdle EXCEPT !.pc = pc, !.msg = msg].msg = msg
  BY MessageType DEF RunIdle, RunType

(* A task that carries nothing is typed. *)
LEMMA RunStartPc ==
  ASSUME NEW pc \in RunPc
  PROVE  [RunIdle EXCEPT !.pc = pc] \in RunType /\ [RunIdle EXCEPT !.pc = pc].pc = pc
  BY MessageType DEF RunIdle, RunType

(* Appending keeps a sequence's type. *)
LEMMA AppendType == \A S : \A s \in Seq(S), e \in S : Append(s, e) \in Seq(S)
  OBVIOUS

(* Store::load lists messages only, never an empty place. *)
LEMMA OutstandingType ==
  ASSUME StoreType, NEW p \in Party PROVE Outstanding(p) \subseteq Message
  BY MessageType DEF StoreType, Outstanding

(* advance_peer_collected leaves a cursor. *)
LEMMA AdvancedType ==
  ASSUME StoreType, NEW p \in Party, NEW c \in Nat PROVE Advanced(p, c) \in Nat
  BY DEF StoreType, Advanced

(* delete_outbox_through keeps the outbox a table. *)
LEMMA TrimmedType ==
  ASSUME NEW table \in [Slots -> OptMessage], NEW c
  PROVE  Trimmed(table, c) \in [Slots -> OptMessage]
  BY MessageType DEF Trimmed

(* The empty ring and the ring of the first contact are tables. *)
LEMMA NothingType == Nothing \in [Slots -> OptMessage] /\ OnlyFirst \in [Slots -> OptMessage]
  BY MessageType DEF Nothing, OnlyFirst, First, Message

(* An established conversation at rest is typed. *)
LEMMA TypeInit == Init => TypeOK /\ TaskType
<1> SUFFICES ASSUME Init PROVE TypeOK /\ TaskType
  OBVIOUS
<1> USE DEF Init, ForBoth
<1>1. StoreType
  BY NothingType DEF StoreType
<1>2. NetworkType
  BY NothingType DEF NetworkType
<1>3. VolatileType /\ TaskType
  BY IdleType DEF VolatileType, TaskType, LaneTyped, RunTyped
<1>4. First \in Message
  BY DEF First, Message
<1>5. HistoryType
  BY <1>4 DEF HistoryType
<1> QED
  BY <1>1, <1>2, <1>3, <1>5 DEF TypeOK

(* The faults that happened stay a sequence of them. *)
LEMMA FaultType == ASSUME TypeOK PROVE /\ NoFault => faults' \in Seq(FaultKinds)
                                       /\ \A kind : Fault(kind) => faults' \in Seq(FaultKinds)
<1>1. faults \in Seq(FaultKinds)
  BY DEF TypeOK, HistoryType
<1>2. NoFault => faults' \in Seq(FaultKinds)
  BY <1>1 DEF NoFault
<1>3. ASSUME NEW kind, Fault(kind) PROVE faults' \in Seq(FaultKinds)
  <2>1. kind \in FaultKinds /\ faults' = Append(faults, kind)
    BY <1>3 DEF Fault
  <2> QED
    BY <1>1, <2>1
<1> QED
  BY <1>2, <1>3

(* The outbox deletion, done or refused, keeps the outbox's type. *)
LEMMA TrimOutboxType ==
  ASSUME TypeOK, NEW p \in Party, NEW c, TrimOutbox(p, c)
  PROVE  outbox' \in [Party -> [Slots -> OptMessage]] /\ faults' \in Seq(FaultKinds)
<1>1. outbox \in [Party -> [Slots -> OptMessage]]
  BY DEF TypeOK, StoreType
<1>2. Trimmed(outbox[p], c) \in [Slots -> OptMessage]
  BY <1>1, TrimmedType
<1>3. faults' \in Seq(FaultKinds)
  BY FaultType DEF TrimOutbox
<1>4. outbox' \in [Party -> [Slots -> OptMessage]]
  BY <1>1, <1>2 DEF TrimOutbox
<1> QED
  BY <1>3, <1>4

(* A control write, done or failed, keeps the control subkey's type. *)
LEMMA WriteControlType ==
  ASSUME TypeOK, NEW p \in Party, NEW c \in Nat, WriteControl(p, c)
  PROVE  /\ ctl' \in [Party -> Nat \cup {NoCursor}]
         /\ ctlCopy' \in [Party -> Nat \cup {NoCursor}]
         /\ pub' \in [Party -> SUBSET Nat] /\ faults' \in Seq(FaultKinds)
<1>1. faults' \in Seq(FaultKinds)
  BY FaultType DEF WriteControl
<1>2. ctl' \in [Party -> Nat \cup {NoCursor}] /\ ctlCopy' \in [Party -> Nat \cup {NoCursor}]
  BY DEF TypeOK, NetworkType, WriteControl
<1>3. pub' \in [Party -> SUBSET Nat]
  <2>1. pub \in [Party -> SUBSET Nat]
    BY DEF TypeOK, HistoryType
  <2>2. pub' = pub \/ pub' = [pub EXCEPT ![p] = pub[p] \cup {c}]
    BY DEF WriteControl
  <2> QED
    BY <2>1, <2>2
<1> QED
  BY <1>1, <1>2, <1>3

(* A slot write keeps the ring's type and its history's. *)
LEMMA SlotWrittenType ==
  ASSUME TypeOK, NEW p \in Party, NEW m \in Message, SlotWritten(p, m)
  PROVE  /\ ring' \in [Party -> [Slots -> OptMessage]]
         /\ copy' \in [Party -> [Slots -> OptMessage]]
         /\ out' \in [Party -> SUBSET Message] /\ written' \in [Party -> SUBSET Nat]
         /\ faults' \in Seq(FaultKinds)
<1>1. faults' \in Seq(FaultKinds)
  BY FaultType DEF SlotWritten
<1>2. m \in OptMessage /\ m.seq \in Nat
  BY MessageType
<1>3. ring' \in [Party -> [Slots -> OptMessage]]
  BY <1>2 DEF TypeOK, NetworkType, SlotWritten
<1>4. copy' \in [Party -> [Slots -> OptMessage]]
  BY <1>2 DEF TypeOK, NetworkType, SlotWritten
<1>5. out' \in [Party -> SUBSET Message] /\ written' \in [Party -> SUBSET Nat]
  BY <1>2 DEF TypeOK, HistoryType, SlotWritten
<1> QED
  BY <1>1, <1>3, <1>4, <1>5

(* A slot write that is not made keeps them too. *)
LEMMA SlotNotWrittenType ==
  ASSUME TypeOK, SlotNotWritten
  PROVE  /\ ring' \in [Party -> [Slots -> OptMessage]]
         /\ copy' \in [Party -> [Slots -> OptMessage]]
         /\ out' \in [Party -> SUBSET Message] /\ written' \in [Party -> SUBSET Nat]
  BY DEF TypeOK, NetworkType, HistoryType, SlotNotWritten

(* Reporting Sent keeps the reports' type. *)
LEMMA TellSentType ==
  ASSUME TypeOK, NEW p \in Party, NEW S \in SUBSET Nat, TellSent(p, S)
  PROVE  told' \in [Party -> SUBSET Nat]
  BY DEF TypeOK, HistoryType, TellSent

(* Recording a message keeps the record's type. *)
LEMMA RecordMessageType ==
  ASSUME TypeOK, NEW p \in Party, NEW m \in Message, RecordMessage(p, m)
  PROVE  /\ myCol' \in [Party -> Nat] /\ peerCol' \in [Party -> Nat]
         /\ recv' \in [Party -> Seq(Message)]
<1>1. m.seq \in Nat /\ Advanced(p, m.cursor) \in Nat
  BY MessageType, AdvancedType DEF TypeOK
<1>2. myCol' \in [Party -> Nat] /\ peerCol' \in [Party -> Nat]
  BY <1>1 DEF TypeOK, StoreType, RecordMessage
<1>3. recv' \in [Party -> Seq(Message)]
  BY DEF TypeOK, HistoryType, RecordMessage
<1> QED
  BY <1>2, <1>3

(* A lane step by p gives p a typed state and leaves the other lane be. *)
LEMMA LaneStep ==
  ASSUME TypeOK, NEW p \in Party, NEW r \in LaneType, lane' = [lane EXCEPT ![p] = r]
  PROVE  /\ lane' \in [Party -> LaneType] /\ lane'[p] = r
         /\ \A q \in Party : q # p => lane'[q] = lane[q]
  BY DEF TypeOK, VolatileType

(* A runner step by p gives p a typed state and leaves the other be. *)
LEMMA RunStep ==
  ASSUME TypeOK, NEW p \in Party, NEW r \in RunType, run' = [run EXCEPT ![p] = r]
  PROVE  /\ run' \in [Party -> RunType] /\ run'[p] = r
         /\ \A q \in Party : q # p => run'[q] = run[q]
  BY DEF TypeOK, VolatileType

(* A step of p's tasks keeps TaskType where it keeps p's part of it. *)
LEMMA TaskRest ==
  ASSUME TaskType, NEW p \in Party,
         \A q \in Party : q # p => lane'[q] = lane[q] /\ run'[q] = run[q],
         LaneTyped(p)', RunTyped(p)'
  PROVE  TaskType'
  BY DEF TaskType, LaneTyped, RunTyped

(* Every step of either party, and every fault, keeps every type. *)
LEMMA TypeStep == TypeOK /\ TaskType /\ [Next]_vars => (TypeOK /\ TaskType)'
<1> SUFFICES ASSUME TypeOK, TaskType, [Next]_vars PROVE (TypeOK /\ TaskType)'
  OBVIOUS
<1>0. StoreType /\ NetworkType /\ VolatileType /\ HistoryType /\ TaskType
  BY DEF TypeOK
<1>1. CASE UNCHANGED vars
  BY <1>0, <1>1 DEF vars, store, network, volatile, events, history, TypeOK, StoreType,
     NetworkType,
    VolatileType, HistoryType, TaskType, LaneTyped, RunTyped
<1>2. ASSUME NEW p \in Party, Lane(p) \/ Runner(p) \/ Chance(p) PROVE (TypeOK /\ TaskType)'
  <2>1. CASE SendPersist(p)
    <3>1. lane[p] \in LaneType /\ lane[p].msg \in Message
      BY <2>1, <1>0 DEF SendPersist, VolatileType, TaskType, LaneTyped
    <3>2. outbox' = outbox \/ \E i : outbox' = [outbox EXCEPT ![p][i] = lane[p].msg]
      BY <2>1 DEF SendPersist
    <3>3. \E r \in LaneType :
            /\ lane' = [lane EXCEPT ![p] = r]
            /\ (r.pc = "stored" => r.msg \in Message)
            /\ r.pc # "sealed"
      BY <2>1, <3>1, IdleType DEF SendPersist, LaneType
    <3>4. /\ lane' \in [Party -> LaneType]
          /\ LaneTyped(p)'
          /\ \A q \in Party : q # p => lane'[q] = lane[q]
      BY <2>1, <3>3, LaneStep DEF LaneTyped
    <3>5. StoreType'
      BY <2>1, <1>0, <3>1, <3>2, MessageType DEF SendPersist, StoreType
    <3>6. NetworkType'
      BY <2>1, <1>0 DEF SendPersist, NetworkType, network
    <3>7. VolatileType'
      BY <2>1, <1>0, <3>4 DEF SendPersist, VolatileType
    <3>8. HistoryType'
      BY <2>1, <1>0 DEF SendPersist, HistoryType, history, events
    <3>9. TaskType'
      BY <2>1, <1>0, <3>4, TaskRest DEF SendPersist, TaskType, RunTyped
    <3> QED
      BY <3>5, <3>6, <3>7, <3>8, <3>9 DEF TypeOK
  <2>2. CASE SendCommit(p)
    <3>1. lane[p].msg \in Message /\ lane[p].msg.seq \in Nat
      BY <2>2, <1>0, MessageType DEF SendCommit, VolatileType, TaskType, LaneTyped
    <3>2. /\ lane' \in [Party -> LaneType]
          /\ LaneTyped(p)'
          /\ \A q \in Party : q # p => lane'[q] = lane[q]
      BY <2>2, IdleType, LaneStep DEF SendCommit, LaneTyped
    <3>3. sendSeq' = sendSeq \/ sendSeq' = [sendSeq EXCEPT ![p] = sendSeq[p] + 1]
      BY <2>2 DEF SendCommit
    <3>4. notes' = notes \/ notes' = [notes EXCEPT ![p] = Append(notes[p], lane[p].msg.seq)]
      BY <2>2 DEF SendCommit
    <3>5. notes[p] \in Seq(Nat) /\ Append(notes[p], lane[p].msg.seq) \in Seq(Nat)
      BY <2>2, <1>0, <3>1, AppendType DEF VolatileType
    <3>6. notes' \in [Party -> Seq(Nat)]
      BY <2>2, <1>0, <3>4, <3>5 DEF VolatileType
    <3>7. log' = log \/ log' = [log EXCEPT ![p] = Append(log[p], lane[p].msg)]
      BY <2>2 DEF SendCommit
    <3>8. log[p] \in Seq(Message) /\ Append(log[p], lane[p].msg) \in Seq(Message)
      BY <2>2, <1>0, <3>1, AppendType DEF HistoryType
    <3>9. log' \in [Party -> Seq(Message)]
      BY <2>2, <1>0, <3>7, <3>8 DEF HistoryType
    <3>10. out' = out \/ out' = [out EXCEPT ![p] = out[p] \cup {lane[p].msg}]
      BY <2>2 DEF SendCommit
    <3>11. out' \in [Party -> SUBSET Message]
      BY <2>2, <1>0, <3>1, <3>10 DEF HistoryType
    <3>12. StoreType'
      BY <2>2, <1>0, <3>3 DEF SendCommit, StoreType
    <3>13. NetworkType'
      BY <2>2, <1>0 DEF SendCommit, NetworkType, network
    <3>14. VolatileType'
      BY <2>2, <1>0, <3>2, <3>6 DEF SendCommit, VolatileType
    <3>15. HistoryType'
      BY <2>2, <1>0, <3>9, <3>11 DEF SendCommit, HistoryType, events
    <3>16. TaskType'
      BY <2>2, <1>0, <3>2, TaskRest DEF SendCommit, TaskType, RunTyped
    <3> QED
      BY <3>12, <3>13, <3>14, <3>15, <3>16 DEF TypeOK
  <2>3. CASE LaneTrim(p)
    <3>1. outbox' \in [Party -> [Slots -> OptMessage]] /\ faults' \in Seq(FaultKinds)
      BY <2>3, TrimOutboxType DEF LaneTrim
    <3>2. /\ lane' \in [Party -> LaneType]
          /\ LaneTyped(p)'
          /\ \A q \in Party : q # p => lane'[q] = lane[q]
      BY <2>3, IdleType, LaneStep DEF LaneTrim, LaneTyped
    <3>3. StoreType'
      BY <2>3, <1>0, <3>1 DEF LaneTrim, StoreType
    <3>4. NetworkType'
      BY <2>3, <1>0 DEF LaneTrim, NetworkType, network
    <3>5. VolatileType'
      BY <2>3, <1>0, <3>2 DEF LaneTrim, VolatileType
    <3>6. HistoryType'
      BY <2>3, <1>0, <3>1 DEF LaneTrim, HistoryType, events
    <3>7. TaskType'
      BY <2>3, <1>0, <3>2, TaskRest DEF LaneTrim, TaskType, RunTyped
    <3> QED
      BY <3>3, <3>4, <3>5, <3>6, <3>7 DEF TypeOK
  <2>4. CASE WriteLoad(p)
    <3>1. /\ notes[p] # <<>>
          /\ notes[p] \in Seq(Nat)
          /\ notes' = [notes EXCEPT ![p] = Tail(notes[p])]
      BY <2>4, <1>0 DEF WriteLoad, VolatileType
    <3>2. Tail(notes[p]) \in Seq(Nat) /\ Head(notes[p]) \in Nat
      BY <2>4, <3>1
    <3>3. notes' \in [Party -> Seq(Nat)]
      BY <2>4, <1>0, <3>1, <3>2 DEF VolatileType
    <3>4. told' = told \/ TellSent(p, {Head(notes[p])})
      BY <2>4 DEF WriteLoad
    <3>5. told' \in [Party -> SUBSET Nat]
      BY <2>4, <1>0, <3>2, <3>4, TellSentType DEF HistoryType
    <3>6. \/ run' = run
          \/ \E m \in Message :
               run' = [run EXCEPT ![p] = [RunIdle EXCEPT !.pc = "write", !.msg = m]]
      BY <2>4, <1>0, OutstandingType DEF WriteLoad, Starts
    <3>7. \A m \in Message :
            /\ [RunIdle EXCEPT !.pc = "write", !.msg = m] \in RunType
            /\ [RunIdle EXCEPT !.pc = "write", !.msg = m].msg = m
      BY <2>4, RunStartMsg, MessageType DEF RunPc
    <3>8. /\ run' \in [Party -> RunType]
          /\ RunTyped(p)'
          /\ \A q \in Party : q # p => run'[q] = run[q]
      <4>1. CASE run' = run
        BY <4>1, <1>0 DEF TaskType, RunTyped, VolatileType
      <4>2. CASE run' # run
        <5>1. PICK m \in Message :
                run' = [run EXCEPT ![p] = [RunIdle EXCEPT !.pc = "write", !.msg = m]]
          BY <4>2, <3>6
        <5> DEFINE r == [RunIdle EXCEPT !.pc = "write", !.msg = m]
        <5>2. r \in RunType /\ r.msg \in Message
          BY <3>7
        <5> HIDE DEF r
        <5> QED
          BY <1>0, <5>1, <5>2, RunStep DEF RunTyped, r
      <4> QED
        BY <4>1, <4>2
    <3>9. StoreType'
      BY <2>4, <1>0 DEF WriteLoad, StoreType, store
    <3>10. NetworkType'
      BY <2>4, <1>0 DEF WriteLoad, NetworkType, network
    <3>11. VolatileType'
      BY <2>4, <1>0, <3>8, <3>3 DEF WriteLoad, VolatileType
    <3>12. HistoryType'
      BY <2>4, <1>0, <3>5 DEF WriteLoad, HistoryType
    <3>13. TaskType'
      BY <2>4, <1>0, <3>8, TaskRest DEF WriteLoad, TaskType, LaneTyped
    <3> QED
      BY <3>9, <3>10, <3>11, <3>12, <3>13 DEF TypeOK
  <2>5. CASE WriteCommitted(p)
    <3>1. run[p].msg \in Message /\ run[p].msg.seq \in Nat
      BY <2>5, <1>0, MessageType DEF WriteCommitted, TaskType, RunTyped
    <3>2. SlotWritten(p, run[p].msg) \/ SlotNotWritten
      BY <2>5 DEF WriteCommitted
    <3>3. /\ ring' \in [Party -> [Slots -> OptMessage]]
          /\ copy' \in [Party -> [Slots -> OptMessage]]
      BY <2>5, <3>1, <3>2, SlotWrittenType, SlotNotWrittenType
    <3>4. out' \in [Party -> SUBSET Message] /\ written' \in [Party -> SUBSET Nat]
      BY <2>5, <3>1, <3>2, SlotWrittenType, SlotNotWrittenType
    <3>5. faults' \in Seq(FaultKinds)
      BY <2>5, FaultType DEF WriteCommitted, SlotWritten
    <3>6. told' = told \/ TellSent(p, {run[p].msg.seq})
      BY <2>5 DEF WriteCommitted
    <3>7. told' \in [Party -> SUBSET Nat]
      BY <2>5, <1>0, <3>1, <3>6, TellSentType DEF HistoryType
    <3>8. \/ unwritten' = unwritten
          \/ unwritten' = [unwritten EXCEPT ![p] = unwritten[p] \cup {run[p].msg.seq}]
      BY <2>5 DEF WriteCommitted
    <3>9. unwritten' \in [Party -> SUBSET Nat]
      <4>1. unwritten \in [Party -> SUBSET Nat]
        BY <1>0 DEF VolatileType
      <4>2. unwritten[p] \cup {run[p].msg.seq} \in SUBSET Nat
        BY <1>0, <3>1, <4>1
      <4> QED
        BY <1>0, <3>8, <4>1, <4>2
    <3>10. /\ run' \in [Party -> RunType]
           /\ RunTyped(p)'
           /\ \A q \in Party : q # p => run'[q] = run[q]
      BY <2>5, IdleType, RunStep DEF WriteCommitted, Ends, RunTyped
    <3>11. StoreType'
      BY <2>5, <1>0 DEF WriteCommitted, StoreType, store
    <3>12. NetworkType'
      BY <2>5, <1>0, <3>3 DEF WriteCommitted, NetworkType
    <3>13. VolatileType'
      BY <2>5, <1>0, <3>10, <3>9 DEF WriteCommitted, VolatileType
    <3>14. HistoryType'
      BY <2>5, <1>0, <3>4, <3>5, <3>7 DEF WriteCommitted, HistoryType
    <3>15. TaskType'
      BY <2>5, <1>0, <3>10, TaskRest DEF WriteCommitted, TaskType, LaneTyped
    <3> QED
      BY <3>11, <3>12, <3>13, <3>14, <3>15 DEF TypeOK
  <2>6. CASE RepairLoad(p)
    <3>1. Outstanding(p) \subseteq Message /\ peerCol[p] \in Nat /\ run[p].boot \in BOOLEAN
      BY <2>6, <1>0, OutstandingType, RunFields DEF StoreType, VolatileType
    <3>2. PICK pc \in {"repair", "repairControl"}, lost \in SUBSET Slots :
                 \/ run' = [run EXCEPT ![p] = RunIdle]
                 \/ run' = [run EXCEPT ![p] = RepairTask(p, pc, lost)]
      BY <2>6 DEF RepairLoad, RepairTask
    <3>3. RepairTask(p, pc, lost) \in RunType /\ RepairTask(p, pc, lost).pc = pc
      BY <2>6, <3>1, MessageType DEF RepairTask, RunIdle, RunType, RunPc
    <3>4. /\ run' \in [Party -> RunType]
          /\ RunTyped(p)'
          /\ \A q \in Party : q # p => run'[q] = run[q]
      BY <2>6, <3>2, <3>3, IdleType, RunStep DEF RunTyped
    <3>5. StoreType'
      BY <2>6, <1>0 DEF RepairLoad, StoreType, store
    <3>6. NetworkType'
      BY <2>6, <1>0 DEF RepairLoad, NetworkType, network
    <3>7. VolatileType'
      BY <2>6, <1>0, <3>4 DEF RepairLoad, VolatileType
    <3>8. HistoryType'
      BY <2>6, <1>0 DEF RepairLoad, HistoryType, history, events
    <3>9. TaskType'
      BY <2>6, <1>0, <3>4, TaskRest DEF RepairLoad, TaskType, LaneTyped
    <3> QED
      BY <3>5, <3>6, <3>7, <3>8, <3>9 DEF TypeOK
  <2>7. CASE RepairControl(p)
    <3>1. curPub[p] \in Nat /\ run[p] \in RunType
      BY <2>7, <1>0 DEF StoreType, VolatileType
    <3>2. ctl' \in [Party -> Nat \cup {NoCursor}] /\ ctlCopy' \in [Party -> Nat \cup {NoCursor}]
      BY <2>7, <3>1, WriteControlType DEF RepairControl
    <3>3. pub' \in [Party -> SUBSET Nat] /\ faults' \in Seq(FaultKinds)
      BY <2>7, <3>1, WriteControlType DEF RepairControl
    <3>4. LET r == [run[p] EXCEPT !.pc = "repair"] IN r \in RunType /\ r.pc = "repair"
      BY <2>7, <3>1 DEF RunPc, RunType
    <3>5. run' = [run EXCEPT ![p] = [run[p] EXCEPT !.pc = "repair"]]
      BY <2>7 DEF RepairControl
    <3>6. /\ run' \in [Party -> RunType]
          /\ RunTyped(p)'
          /\ \A q \in Party : q # p => run'[q] = run[q]
      BY <2>7, <3>4, <3>5, RunStep DEF RunTyped
    <3>7. StoreType'
      BY <2>7, <1>0 DEF RepairControl, StoreType, store
    <3>8. NetworkType'
      BY <2>7, <1>0, <3>2 DEF RepairControl, NetworkType
    <3>9. VolatileType'
      BY <2>7, <1>0, <3>6 DEF RepairControl, VolatileType
    <3>10. HistoryType'
      BY <2>7, <1>0, <3>3 DEF RepairControl, HistoryType, events
    <3>11. TaskType'
      BY <2>7, <1>0, <3>6, TaskRest DEF RepairControl, TaskType, LaneTyped
    <3> QED
      BY <3>7, <3>8, <3>9, <3>10, <3>11 DEF TypeOK
  <2>8. CASE RepairEntry(p)
    <3>1. run[p] \in RunType /\ run[p].todo \subseteq Message
      BY <2>8, <1>0, RunFields DEF VolatileType
    <3>2. PICK m \in run[p].todo :
            LET rest == [run[p] EXCEPT !.todo = run[p].todo \ {m}]
            IN \/ SlotWritten(p, m) /\ run' = [run EXCEPT ![p] = rest]
               \/ SlotNotWritten /\ NoFault /\ run' = [run EXCEPT ![p] = rest]
               \/ /\ SlotNotWritten /\ Fault("writeFails")
                  /\ run' = [run EXCEPT ![p] = [rest EXCEPT !.missed = rest.missed \cup {m.seq}]]
      BY <2>8 DEF RepairEntry
    <3> DEFINE rest == [run[p] EXCEPT !.todo = run[p].todo \ {m}]
               miss == [rest EXCEPT !.missed = rest.missed \cup {m.seq}]
    <3>3. m \in Message /\ m.seq \in Nat
      BY <3>1, <3>2, MessageType
    <3>4. \/ SlotWritten(p, m) /\ run' = [run EXCEPT ![p] = rest]
          \/ SlotNotWritten /\ NoFault /\ run' = [run EXCEPT ![p] = rest]
          \/ SlotNotWritten /\ Fault("writeFails") /\ run' = [run EXCEPT ![p] = miss]
      BY <3>2
    <3>5. run[p].pc = "repair"
      BY <2>8 DEF RepairEntry
    <3>6. rest \in RunType /\ rest.pc = "repair" /\ miss \in RunType /\ miss.pc = "repair"
      BY <3>1, <3>3, <3>5 DEF RunType
    <3> HIDE DEF rest, miss
    <3>7. /\ ring' \in [Party -> [Slots -> OptMessage]]
          /\ copy' \in [Party -> [Slots -> OptMessage]]
      BY <3>3, <3>4, SlotWrittenType, SlotNotWrittenType
    <3>8. out' \in [Party -> SUBSET Message] /\ written' \in [Party -> SUBSET Nat]
      BY <3>3, <3>4, SlotWrittenType, SlotNotWrittenType
    <3>9. faults' \in Seq(FaultKinds)
      BY <3>4, FaultType DEF SlotWritten
    <3>10. /\ run' \in [Party -> RunType]
           /\ RunTyped(p)'
           /\ \A q \in Party : q # p => run'[q] = run[q]
      BY <3>4, <3>6, RunStep DEF RunTyped
    <3>11. StoreType'
      BY <2>8, <1>0 DEF RepairEntry, StoreType, store
    <3>12. NetworkType'
      BY <2>8, <1>0, <3>7 DEF RepairEntry, NetworkType
    <3>13. VolatileType'
      BY <2>8, <1>0, <3>10 DEF RepairEntry, VolatileType
    <3>14. HistoryType'
      BY <2>8, <1>0, <3>8, <3>9 DEF RepairEntry, HistoryType
    <3>15. TaskType'
      BY <2>8, <1>0, <3>10, TaskRest DEF RepairEntry, TaskType, LaneTyped
    <3> QED
      BY <3>11, <3>12, <3>13, <3>14, <3>15 DEF TypeOK
  <2>9. CASE RepairEnd(p)
    <3>1. unwritten[p] \subseteq Nat /\ told[p] \subseteq Nat
      BY <2>9, <1>0 DEF VolatileType, HistoryType
    <3>2. told' \in [Party -> SUBSET Nat]
      BY <2>9, <3>1, TellSentType DEF RepairEnd
    <3>3. unwritten' \in [Party -> SUBSET Nat]
      BY <2>9, <1>0, <3>1 DEF RepairEnd, VolatileType
    <3>4. /\ run' \in [Party -> RunType]
          /\ RunTyped(p)'
          /\ \A q \in Party : q # p => run'[q] = run[q]
      BY <2>9, IdleType, RunStep DEF RepairEnd, Ends, RunTyped
    <3>5. StoreType'
      BY <2>9, <1>0 DEF RepairEnd, StoreType, store
    <3>6. NetworkType'
      BY <2>9, <1>0 DEF RepairEnd, NetworkType, network
    <3>7. VolatileType'
      BY <2>9, <1>0, <3>4, <3>3 DEF RepairEnd, VolatileType
    <3>8. HistoryType'
      BY <2>9, <1>0, <3>2 DEF RepairEnd, HistoryType
    <3>9. TaskType'
      BY <2>9, <1>0, <3>4, TaskRest DEF RepairEnd, TaskType, LaneTyped
    <3> QED
      BY <3>5, <3>6, <3>7, <3>8, <3>9 DEF TypeOK
  <2>10. CASE CollectRead(p)
    <3>1. ring[Peer(p)][SlotFor(myCol[p])] \in OptMessage /\ myCol[p] \in Nat
      BY <2>10, <1>0, PeerType, SlotForType DEF NetworkType, StoreType
    <3>2. ring[Peer(p)][SlotFor(myCol[p])] \in Message
      BY <2>10, <3>1, MessageType DEF CollectRead
    <3>3. run' = [run EXCEPT ![p] = [RunIdle EXCEPT !.pc = "collect",
              !.msg = ring[Peer(p)][SlotFor(myCol[p])]]]
      BY <2>10 DEF CollectRead, Starts
    <3>4. \A m \in Message :
            /\ [RunIdle EXCEPT !.pc = "collect", !.msg = m] \in RunType
            /\ [RunIdle EXCEPT !.pc = "collect", !.msg = m].msg = m
      BY <2>10, RunStartMsg, MessageType DEF RunPc
    <3>5. /\ run' \in [Party -> RunType]
          /\ RunTyped(p)'
          /\ \A q \in Party : q # p => run'[q] = run[q]
      BY <2>10, <3>2, <3>3, <3>4, RunStep DEF RunTyped
    <3>6. StoreType'
      BY <2>10, <1>0 DEF CollectRead, StoreType, store
    <3>7. NetworkType'
      BY <2>10, <1>0 DEF CollectRead, NetworkType, network
    <3>8. VolatileType'
      BY <2>10, <1>0, <3>5 DEF CollectRead, VolatileType
    <3>9. HistoryType'
      BY <2>10, <1>0 DEF CollectRead, HistoryType, history, events
    <3>10. TaskType'
      BY <2>10, <1>0, <3>5, TaskRest DEF CollectRead, TaskType, LaneTyped
    <3> QED
      BY <3>6, <3>7, <3>8, <3>9, <3>10 DEF TypeOK
  <2>11. CASE CollectCommit(p)
    <3>1. run[p].msg \in Message /\ run[p].msg.cursor \in Nat
      BY <2>11, <1>0, MessageType DEF CollectCommit, TaskType, RunTyped
    <3>2. /\ myCol' \in [Party -> Nat]
          /\ peerCol' \in [Party -> Nat]
          /\ recv' \in [Party -> Seq(Message)]
      BY <2>11, <1>0, <3>1, RecordMessageType DEF CollectCommit, StoreType, HistoryType
    <3>3. Advanced(p, run[p].msg.cursor) \in Nat
      BY <2>11, <1>0, <3>1, AdvancedType
    <3>4. /\ [RunIdle EXCEPT !.pc = "trim", !.val = Advanced(p, run[p].msg.cursor)] \in RunType
          /\ [RunIdle EXCEPT !.pc = "trim", !.val = Advanced(p, run[p].msg.cursor)].pc = "trim"
      BY <2>11, <3>3, RunStartVal DEF RunPc
    <3>5. \/ run' = [run EXCEPT ![p] = RunIdle]
          \/ run' = [run EXCEPT ![p] = [RunIdle EXCEPT !.pc = "trim",
                 !.val = Advanced(p, run[p].msg.cursor)]]
      BY <2>11 DEF CollectCommit, Ends
    <3>6. /\ run' \in [Party -> RunType]
          /\ RunTyped(p)'
          /\ \A q \in Party : q # p => run'[q] = run[q]
      BY <2>11, <3>4, <3>5, IdleType, RunStep DEF RunTyped
    <3>7. StoreType'
      BY <2>11, <1>0, <3>2 DEF CollectCommit, StoreType
    <3>8. NetworkType'
      BY <2>11, <1>0 DEF CollectCommit, NetworkType, network
    <3>9. VolatileType'
      BY <2>11, <1>0, <3>6 DEF CollectCommit, VolatileType
    <3>10. HistoryType'
      BY <2>11, <1>0, <3>2 DEF CollectCommit, HistoryType, events
    <3>11. TaskType'
      BY <2>11, <1>0, <3>6, TaskRest DEF CollectCommit, TaskType, LaneTyped
    <3> QED
      BY <3>7, <3>8, <3>9, <3>10, <3>11 DEF TypeOK
  <2>12. CASE CollectTrim(p)
    <3>1. outbox' \in [Party -> [Slots -> OptMessage]] /\ faults' \in Seq(FaultKinds)
      BY <2>12, TrimOutboxType DEF CollectTrim
    <3>2. /\ run' \in [Party -> RunType]
          /\ RunTyped(p)'
          /\ \A q \in Party : q # p => run'[q] = run[q]
      BY <2>12, IdleType, RunStep DEF CollectTrim, Ends, RunTyped
    <3>3. StoreType'
      BY <2>12, <1>0, <3>1 DEF CollectTrim, StoreType
    <3>4. NetworkType'
      BY <2>12, <1>0 DEF CollectTrim, NetworkType, network
    <3>5. VolatileType'
      BY <2>12, <1>0, <3>2 DEF CollectTrim, VolatileType
    <3>6. HistoryType'
      BY <2>12, <1>0, <3>1 DEF CollectTrim, HistoryType, events
    <3>7. TaskType'
      BY <2>12, <1>0, <3>2, TaskRest DEF CollectTrim, TaskType, LaneTyped
    <3> QED
      BY <3>3, <3>4, <3>5, <3>6, <3>7 DEF TypeOK
  <2>13. CASE PublishLoad(p)
    <3>1. myCol[p] \in Nat
      BY <2>13, <1>0 DEF StoreType
    <3>2. /\ [RunIdle EXCEPT !.pc = "publish", !.val = myCol[p]] \in RunType
          /\ [RunIdle EXCEPT !.pc = "publish", !.val = myCol[p]].pc = "publish"
      BY <2>13, <3>1, RunStartVal DEF RunPc
    <3>3. /\ run' \in [Party -> RunType]
          /\ RunTyped(p)'
          /\ \A q \in Party : q # p => run'[q] = run[q]
      BY <2>13, <3>2, RunStep DEF PublishLoad, Starts, RunTyped
    <3>4. StoreType'
      BY <2>13, <1>0 DEF PublishLoad, StoreType, store
    <3>5. NetworkType'
      BY <2>13, <1>0 DEF PublishLoad, NetworkType, network
    <3>6. VolatileType'
      BY <2>13, <1>0, <3>3 DEF PublishLoad, VolatileType
    <3>7. HistoryType'
      BY <2>13, <1>0 DEF PublishLoad, HistoryType, history, events
    <3>8. TaskType'
      BY <2>13, <1>0, <3>3, TaskRest DEF PublishLoad, TaskType, LaneTyped
    <3> QED
      BY <3>4, <3>5, <3>6, <3>7, <3>8 DEF TypeOK
  <2>14. CASE PublishWrite(p)
    <3>1. run[p] \in RunType /\ run[p].val \in Nat
      BY <2>14, <1>0, RunFields DEF VolatileType
    <3>2. ctl' \in [Party -> Nat \cup {NoCursor}] /\ ctlCopy' \in [Party -> Nat \cup {NoCursor}]
      BY <2>14, <3>1, WriteControlType DEF PublishWrite
    <3>3. pub' \in [Party -> SUBSET Nat] /\ faults' \in Seq(FaultKinds)
      BY <2>14, <3>1, WriteControlType DEF PublishWrite
    <3>4. LET r == [run[p] EXCEPT !.pc = "published"] IN r \in RunType /\ r.pc = "published"
      BY <2>14, <3>1 DEF RunPc, RunType
    <3>5. \/ run' = [run EXCEPT ![p] = RunIdle]
          \/ run' = [run EXCEPT ![p] = [run[p] EXCEPT !.pc = "published"]]
      BY <2>14 DEF PublishWrite, Ends
    <3>6. /\ run' \in [Party -> RunType]
          /\ RunTyped(p)'
          /\ \A q \in Party : q # p => run'[q] = run[q]
      BY <2>14, <3>4, <3>5, IdleType, RunStep DEF RunTyped
    <3>7. StoreType'
      BY <2>14, <1>0 DEF PublishWrite, StoreType, store
    <3>8. NetworkType'
      BY <2>14, <1>0, <3>2 DEF PublishWrite, NetworkType
    <3>9. VolatileType'
      BY <2>14, <1>0, <3>6 DEF PublishWrite, VolatileType
    <3>10. HistoryType'
      BY <2>14, <1>0, <3>3 DEF PublishWrite, HistoryType, events
    <3>11. TaskType'
      BY <2>14, <1>0, <3>6, TaskRest DEF PublishWrite, TaskType, LaneTyped
    <3> QED
      BY <3>7, <3>8, <3>9, <3>10, <3>11 DEF TypeOK
  <2>15. CASE PublishRecord(p)
    <3>1. run[p].val \in Nat /\ curPub[p] \in Nat
      BY <2>15, <1>0, RunFields DEF VolatileType, StoreType
    <3>2. /\ run' \in [Party -> RunType]
          /\ RunTyped(p)'
          /\ \A q \in Party : q # p => run'[q] = run[q]
      BY <2>15, IdleType, RunStep DEF PublishRecord, Ends, RunTyped
    <3>3. StoreType'
      BY <2>15, <1>0, <3>1 DEF PublishRecord, StoreType
    <3>4. NetworkType'
      BY <2>15, <1>0 DEF PublishRecord, NetworkType, network
    <3>5. VolatileType'
      BY <2>15, <1>0, <3>2 DEF PublishRecord, VolatileType
    <3>6. HistoryType'
      BY <2>15, <1>0 DEF PublishRecord, HistoryType, history, events
    <3>7. TaskType'
      BY <2>15, <1>0, <3>2, TaskRest DEF PublishRecord, TaskType, LaneTyped
    <3> QED
      BY <3>3, <3>4, <3>5, <3>6, <3>7 DEF TypeOK
  <2>16. CASE CatchUp(p)
    <3>1. ctl[Peer(p)] \in Nat
      BY <2>16, <1>0, PeerType DEF CatchUp, StoreType, NetworkType, NoCursor
    <3>2. /\ [RunIdle EXCEPT !.pc = "cursor", !.val = ctl[Peer(p)]] \in RunType
          /\ [RunIdle EXCEPT !.pc = "cursor", !.val = ctl[Peer(p)]].pc = "cursor"
      BY <2>16, <3>1, RunStartVal DEF RunPc
    <3>3. /\ run' \in [Party -> RunType]
          /\ RunTyped(p)'
          /\ \A q \in Party : q # p => run'[q] = run[q]
      BY <2>16, <3>2, RunStep DEF CatchUp, Starts, RunTyped
    <3>4. StoreType'
      BY <2>16, <1>0 DEF CatchUp, StoreType, store
    <3>5. NetworkType'
      BY <2>16, <1>0 DEF CatchUp, NetworkType, network
    <3>6. VolatileType'
      BY <2>16, <1>0, <3>3 DEF CatchUp, VolatileType
    <3>7. HistoryType'
      BY <2>16, <1>0 DEF CatchUp, HistoryType, history, events
    <3>8. TaskType'
      BY <2>16, <1>0, <3>3, TaskRest DEF CatchUp, TaskType, LaneTyped
    <3> QED
      BY <3>4, <3>5, <3>6, <3>7, <3>8 DEF TypeOK
  <2>17. CASE TakePeerCursor(p)
    <3>1. Advanced(p, run[p].val) \in Nat
      BY <2>17, <1>0, AdvancedType, RunFields DEF VolatileType
    <3>2. /\ run' \in [Party -> RunType]
          /\ RunTyped(p)'
          /\ \A q \in Party : q # p => run'[q] = run[q]
      BY <2>17, IdleType, RunStep DEF TakePeerCursor, Ends, RunTyped
    <3>3. StoreType'
      BY <2>17, <1>0, <3>1 DEF TakePeerCursor, TakesCursor, StoreType
    <3>4. NetworkType'
      BY <2>17, <1>0 DEF TakePeerCursor, TakesCursor, NetworkType, network
    <3>5. VolatileType'
      BY <2>17, <1>0, <3>2 DEF TakePeerCursor, TakesCursor, VolatileType
    <3>6. HistoryType'
      BY <2>17, <1>0 DEF TakePeerCursor, TakesCursor, HistoryType, history, events
    <3>7. TaskType'
      BY <2>17, <1>0, <3>2, TaskRest DEF TakePeerCursor, TakesCursor, TaskType, LaneTyped
    <3> QED
      BY <3>3, <3>4, <3>5, <3>6, <3>7 DEF TypeOK
  <2>18. CASE ReportDelivery(p)
    <3>1. outbox' \in [Party -> [Slots -> OptMessage]] /\ faults' \in Seq(FaultKinds)
      BY <2>18, TrimOutboxType DEF ReportDelivery
    <3>2. StoreType'
      BY <2>18, <1>0, <3>1 DEF ReportDelivery, StoreType
    <3>3. NetworkType'
      BY <2>18, <1>0 DEF ReportDelivery, NetworkType, network
    <3>4. VolatileType'
      BY <2>18, <1>0 DEF ReportDelivery, VolatileType, StoreType
    <3>5. HistoryType'
      BY <2>18, <1>0, <3>1 DEF ReportDelivery, HistoryType, events
    <3>6. TaskType'
      BY <2>18, <1>0 DEF ReportDelivery, TaskType, LaneTyped, RunTyped, volatile
    <3> QED
      BY <3>2, <3>3, <3>4, <3>5, <3>6 DEF TypeOK
  <2>19. CASE CloseControl(p)
    <3>1. myCol[p] \in Nat /\ run[p] \in RunType
      BY <2>19, <1>0 DEF StoreType, VolatileType
    <3>2. ctl' \in [Party -> Nat \cup {NoCursor}] /\ ctlCopy' \in [Party -> Nat \cup {NoCursor}]
      BY <2>19, <3>1, WriteControlType DEF CloseControl
    <3>3. pub' \in [Party -> SUBSET Nat] /\ faults' \in Seq(FaultKinds)
      BY <2>19, <3>1, WriteControlType DEF CloseControl
    <3>4. LET r == [run[p] EXCEPT !.pc = "closing"] IN r \in RunType /\ r.pc = "closing"
      BY <2>19, <3>1 DEF RunPc, RunType
    <3>5. run' = run \/ run' = [run EXCEPT ![p] = [run[p] EXCEPT !.pc = "closing"]]
      BY <2>19 DEF CloseControl
    <3>6. /\ run' \in [Party -> RunType]
          /\ RunTyped(p)'
          /\ \A q \in Party : q # p => run'[q] = run[q]
      BY <2>19, <1>0, <3>4, <3>5, RunStep DEF RunTyped, TaskType, VolatileType
    <3>7. StoreType'
      BY <2>19, <1>0 DEF CloseControl, StoreType, store
    <3>8. NetworkType'
      BY <2>19, <1>0, <3>2 DEF CloseControl, NetworkType
    <3>9. VolatileType'
      BY <2>19, <1>0, <3>6 DEF CloseControl, VolatileType
    <3>10. HistoryType'
      BY <2>19, <1>0, <3>3 DEF CloseControl, HistoryType, events
    <3>11. TaskType'
      BY <2>19, <1>0, <3>6, TaskRest DEF CloseControl, TaskType, LaneTyped
    <3> QED
      BY <3>7, <3>8, <3>9, <3>10, <3>11 DEF TypeOK
  <2>20. CASE EraseChannel(p)
    <3>1. /\ [RunIdle EXCEPT !.pc = "erased"] \in RunType
          /\ [RunIdle EXCEPT !.pc = "erased"].pc = "erased"
      BY <2>20, RunStartPc DEF RunPc
    <3>2. \/ run' = [run EXCEPT ![p] = RunIdle]
          \/ run' = [run EXCEPT ![p] = [RunIdle EXCEPT !.pc = "erased"]]
      BY <2>20 DEF EraseChannel, Erase, Ends
    <3>3. faults' \in Seq(FaultKinds)
      BY <2>20, FaultType DEF EraseChannel, Erase
    <3>4. ring' = ring /\ ctl' = ctl
      BY <2>20 DEF EraseChannel, Erase
    <3>5. copy' = copy \/ copy' = [copy EXCEPT ![p] = Nothing]
      BY <2>20 DEF EraseChannel, Erase
    <3>7. ctlCopy' = ctlCopy \/ ctlCopy' = [ctlCopy EXCEPT ![p] = NoCursor]
      BY <2>20 DEF EraseChannel, Erase
    <3>8. /\ run' \in [Party -> RunType]
          /\ RunTyped(p)'
          /\ \A q \in Party : q # p => run'[q] = run[q]
      BY <2>20, <3>1, <3>2, IdleType, RunStep DEF RunTyped
    <3>9. StoreType'
      BY <2>20, <1>0 DEF EraseChannel, Erase, StoreType, store
    <3>10. NetworkType'
      BY <2>20, <1>0, <3>4, <3>5, <3>7, NothingType DEF NetworkType
    <3>11. VolatileType'
      BY <2>20, <1>0, <3>8 DEF EraseChannel, Erase, VolatileType
    <3>12. HistoryType'
      BY <2>20, <1>0, <3>3 DEF EraseChannel, Erase, HistoryType, events
    <3>13. TaskType'
      BY <2>20, <1>0, <3>8, TaskRest DEF EraseChannel, Erase, TaskType, LaneTyped
    <3> QED
      BY <3>9, <3>10, <3>11, <3>12, <3>13 DEF TypeOK
  <2>21. CASE DropRecords(p)
    <3>1. /\ run' \in [Party -> RunType]
          /\ RunTyped(p)'
          /\ \A q \in Party : q # p => run'[q] = run[q]
      BY <2>21, IdleType, RunStep DEF DropRecords, Ends, RunTyped
    <3>2. StoreType'
      BY <2>21, <1>0, NothingType DEF DropRecords, StoreType
    <3>3. NetworkType'
      BY <2>21, <1>0 DEF DropRecords, NetworkType, network
    <3>4. VolatileType'
      BY <2>21, <1>0, <3>1 DEF DropRecords, VolatileType
    <3>5. HistoryType'
      BY <2>21, <1>0 DEF DropRecords, HistoryType, history, events
    <3>6. TaskType'
      BY <2>21, <1>0, <3>1, TaskRest DEF DropRecords, TaskType, LaneTyped
    <3> QED
      BY <3>2, <3>3, <3>4, <3>5, <3>6 DEF TypeOK
  <2>22. CASE SendLoad(p)
    <3>1. /\ sendSeq[p] \in Nat
          /\ peerCol[p] \in Nat
          /\ myCol[p] \in Nat
          /\ SlotFor(sendSeq[p]) \in Slots
      BY <2>22, <1>0, SlotForType DEF StoreType
    <3>2. outbox[p][SlotFor(sendSeq[p])] \in OptMessage
      BY <2>22, <1>0, <3>1 DEF StoreType
    <3>3. Record(p) \in RecordType
      BY <2>22, <3>1 DEF Record, RecordType
    <3>4. \A k \in OptMessage : k.att \in {0, 1} /\ 1 - k.att \in {0, 1}
      BY <2>22 DEF OptMessage, Message, Absent
    <3>5. PICK att \in {0, 1} : lane' = [lane EXCEPT ![p] = SealTask(p, att)]
      BY <2>22, <3>2, <3>4 DEF SendLoad, SealTask, SealedMessage
    <3>6. SealedMessage(p, att) \in Message
      BY <3>1 DEF SealedMessage, Message
    <3>66. SealTask(p, att) \in LaneType /\ SealTask(p, att).msg = SealedMessage(p, att)
      BY <3>3, <3>6, MessageType DEF SealTask, LaneIdle, LaneType
    <3>7. /\ lane' \in [Party -> LaneType]
          /\ LaneTyped(p)'
          /\ \A q \in Party : q # p => lane'[q] = lane[q]
      BY <2>22, <3>5, <3>6, <3>66, LaneStep DEF LaneTyped
    <3>8. StoreType'
      BY <2>22, <1>0 DEF SendLoad, StoreType, store
    <3>9. NetworkType'
      BY <2>22, <1>0 DEF SendLoad, NetworkType, network
    <3>10. VolatileType'
      BY <2>22, <1>0, <3>7 DEF SendLoad, VolatileType
    <3>11. HistoryType'
      BY <2>22, <1>0 DEF SendLoad, HistoryType, history, events
    <3>12. TaskType'
      BY <2>22, <1>0, <3>7, TaskRest DEF SendLoad, TaskType, RunTyped
    <3> QED
      BY <3>8, <3>9, <3>10, <3>11, <3>12 DEF TypeOK
  <2>23. CASE TakePush(p)
    <3>1. PICK m \in out[Peer(p)] :
                 /\ m.seq = myCol[p]
                 /\ RecordMessage(p, m)
                 /\ lane' = [lane EXCEPT ![p] = [LaneIdle EXCEPT !.pc = "trim",
                        !.through = Advanced(p, m.cursor)]]
      BY <2>23 DEF TakePush
    <3>2. m \in Message /\ Advanced(p, m.cursor) \in Nat
      BY <2>23, <1>0, <3>1, PeerType, MessageType, AdvancedType DEF HistoryType
    <3>3. LET r == [LaneIdle EXCEPT !.pc = "trim", !.through = Advanced(p, m.cursor)]
          IN r \in LaneType /\ r.pc = "trim"
      BY <2>23, <3>2, IdleType DEF LaneIdle, LaneType
    <3>4. /\ lane' \in [Party -> LaneType]
          /\ LaneTyped(p)'
          /\ \A q \in Party : q # p => lane'[q] = lane[q]
      BY <2>23, <3>1, <3>3, LaneStep DEF LaneTyped
    <3>5. /\ myCol' \in [Party -> Nat]
          /\ peerCol' \in [Party -> Nat]
          /\ recv' \in [Party -> Seq(Message)]
      BY <2>23, <3>1, <3>2, RecordMessageType
    <3>6. StoreType'
      BY <2>23, <1>0, <3>5 DEF TakePush, StoreType
    <3>7. NetworkType'
      BY <2>23, <1>0 DEF TakePush, NetworkType, network
    <3>8. VolatileType'
      BY <2>23, <1>0, <3>4 DEF TakePush, VolatileType
    <3>9. HistoryType'
      BY <2>23, <1>0, <3>5 DEF TakePush, HistoryType, events
    <3>10. TaskType'
      BY <2>23, <1>0, <3>4, TaskRest DEF TakePush, TaskType, RunTyped
    <3> QED
      BY <3>6, <3>7, <3>8, <3>9, <3>10 DEF TypeOK
  <2>24. CASE HearCursor(p)
    <3>1. \A c \in pub[Peer(p)] : Advanced(p, c) \in Nat
      BY <2>24, <1>0, PeerType, AdvancedType DEF HistoryType
    <3>2. StoreType'
      BY <2>24, <1>0, <3>1 DEF HearCursor, TakesCursor, StoreType
    <3>3. NetworkType'
      BY <2>24, <1>0 DEF HearCursor, TakesCursor, NetworkType, network
    <3>4. VolatileType'
      BY <2>24, <1>0 DEF HearCursor, TakesCursor, VolatileType
    <3>5. HistoryType'
      BY <2>24, <1>0 DEF HearCursor, TakesCursor, HistoryType, history, events
    <3>6. TaskType'
      BY <2>24, <1>0 DEF HearCursor, TakesCursor, TaskType, LaneTyped, RunTyped
    <3> QED
      BY <3>2, <3>3, <3>4, <3>5, <3>6 DEF TypeOK
  <2>25. CASE MarkDelete(p)
    <3>1. StoreType'
      BY <2>25, <1>0 DEF MarkDelete, StoreType
    <3>2. NetworkType'
      BY <2>25, <1>0 DEF MarkDelete, NetworkType, network
    <3>3. VolatileType'
      BY <2>25, <1>0 DEF MarkDelete, VolatileType, volatile
    <3>4. HistoryType'
      BY <2>25, <1>0 DEF MarkDelete, HistoryType, history, events
    <3>5. TaskType'
      BY <2>25, <1>0 DEF MarkDelete, TaskType, LaneTyped, RunTyped, volatile
    <3> QED
      BY <3>1, <3>2, <3>3, <3>4, <3>5 DEF TypeOK
  <2>26. CASE RepublishControl(p)
    <3>1. curPub[p] \in Nat
      BY <2>26, <1>0 DEF StoreType
    <3>2. ctl' \in [Party -> Nat \cup {NoCursor}] /\ ctlCopy' \in [Party -> Nat \cup {NoCursor}]
      BY <2>26, <3>1, WriteControlType DEF RepublishControl
    <3>3. pub' \in [Party -> SUBSET Nat] /\ faults' \in Seq(FaultKinds)
      BY <2>26, <3>1, WriteControlType DEF RepublishControl
    <3>4. StoreType'
      BY <2>26, <1>0 DEF RepublishControl, StoreType, store
    <3>5. NetworkType'
      BY <2>26, <1>0, <3>2 DEF RepublishControl, NetworkType
    <3>6. VolatileType'
      BY <2>26, <1>0 DEF RepublishControl, VolatileType, volatile
    <3>7. HistoryType'
      BY <2>26, <1>0, <3>3 DEF RepublishControl, HistoryType, events
    <3>8. TaskType'
      BY <2>26, <1>0 DEF RepublishControl, TaskType, LaneTyped, RunTyped, volatile
    <3> QED
      BY <3>4, <3>5, <3>6, <3>7, <3>8 DEF TypeOK
  <2>27. CASE Crash(p)
    <3>1. /\ lane' \in [Party -> LaneType]
          /\ LaneTyped(p)'
          /\ \A q \in Party : q # p => lane'[q] = lane[q]
      BY <2>27, IdleType, LaneStep DEF Crash, LaneTyped
    <3>2. /\ run' \in [Party -> RunType]
          /\ RunTyped(p)'
          /\ \A q \in Party : q # p => run'[q] = run[q]
      BY <2>27, IdleType, RunStep DEF Crash, RunTyped
    <3>3. faults' \in Seq(FaultKinds)
      BY <2>27, FaultType DEF Crash
    <3>4. notes' = [notes EXCEPT ![p] = <<>>] /\ unwritten' = [unwritten EXCEPT ![p] = {}]
      BY <2>27 DEF Crash
    <3>5. notes' \in [Party -> Seq(Nat)] /\ unwritten' \in [Party -> SUBSET Nat]
      BY <2>27, <1>0, <3>4 DEF VolatileType
    <3>6. delivered' \in [Party -> Nat]
      BY <2>27, <1>0 DEF Crash, VolatileType, StoreType
    <3>7. StoreType'
      BY <2>27, <1>0 DEF Crash, StoreType, store
    <3>8. NetworkType'
      BY <2>27, <1>0 DEF Crash, NetworkType, network
    <3>9. VolatileType'
      BY <2>27, <3>1, <3>2, <3>5, <3>6 DEF VolatileType
    <3>10. HistoryType'
      BY <2>27, <1>0, <3>3 DEF Crash, HistoryType, events
    <3>11. TaskType'
      BY <2>27, <1>0, <3>1, <3>2, TaskRest
    <3> QED
      BY <3>7, <3>8, <3>9, <3>10, <3>11 DEF TypeOK
  <2>28. CASE EvictSlot(p)
    <3>1. faults' \in Seq(FaultKinds)
      BY <2>28, FaultType DEF EvictSlot
    <3>2. \E i \in Slots, old \in OptMessage : ring' = [ring EXCEPT ![p][i] = old]
      BY <2>28, <1>0, MessageType DEF EvictSlot, HistoryType
    <3>3. ring' \in [Party -> [Slots -> OptMessage]]
      BY <2>28, <1>0, <3>2 DEF NetworkType
    <3>4. StoreType'
      BY <2>28, <1>0 DEF EvictSlot, StoreType, store
    <3>5. NetworkType'
      BY <2>28, <1>0, <3>3 DEF EvictSlot, NetworkType
    <3>6. VolatileType'
      BY <2>28, <1>0 DEF EvictSlot, VolatileType, volatile
    <3>7. HistoryType'
      BY <2>28, <1>0, <3>1 DEF EvictSlot, HistoryType, events
    <3>8. TaskType'
      BY <2>28, <1>0 DEF EvictSlot, TaskType, LaneTyped, RunTyped, volatile
    <3> QED
      BY <3>4, <3>5, <3>6, <3>7, <3>8 DEF TypeOK
  <2>29. CASE EvictControl(p)
    <3>1. faults' \in Seq(FaultKinds)
      BY <2>29, FaultType DEF EvictControl
    <3>2. \E old \in Nat \cup {NoCursor} : ctl' = [ctl EXCEPT ![p] = old]
      BY <2>29, <1>0 DEF EvictControl, HistoryType
    <3>3. ctl' \in [Party -> Nat \cup {NoCursor}]
      BY <2>29, <1>0, <3>2 DEF NetworkType
    <3>4. StoreType'
      BY <2>29, <1>0 DEF EvictControl, StoreType, store
    <3>5. NetworkType'
      BY <2>29, <1>0, <3>3 DEF EvictControl, NetworkType
    <3>6. VolatileType'
      BY <2>29, <1>0 DEF EvictControl, VolatileType, volatile
    <3>7. HistoryType'
      BY <2>29, <1>0, <3>1 DEF EvictControl, HistoryType, events
    <3>8. TaskType'
      BY <2>29, <1>0 DEF EvictControl, TaskType, LaneTyped, RunTyped, volatile
    <3> QED
      BY <3>4, <3>5, <3>6, <3>7, <3>8 DEF TypeOK
  <2>30. CASE Fade(p)
    <3>1. StoreType'
      BY <2>30, <1>0 DEF Fade, StoreType, store
    <3>2. NetworkType'
      BY <2>30, <1>0, NothingType DEF Fade, NetworkType
    <3>3. VolatileType'
      BY <2>30, <1>0 DEF Fade, VolatileType, volatile
    <3>4. HistoryType'
      BY <2>30, <1>0 DEF Fade, HistoryType, history, events
    <3>5. TaskType'
      BY <2>30, <1>0 DEF Fade, TaskType, LaneTyped, RunTyped, volatile
    <3> QED
      BY <3>1, <3>2, <3>3, <3>4, <3>5 DEF TypeOK
  <2> QED
    BY <1>2, <2>1, <2>2, <2>3, <2>4, <2>5, <2>6, <2>7, <2>8, <2>9, <2>10, <2>11, <2>12, <2>13,
       <2>14, <2>15, <2>16, <2>17, <2>18, <2>19, <2>20, <2>21, <2>22, <2>23, <2>24, <2>25,
       <2>26, <2>27, <2>28, <2>29, <2>30 DEF Lane, Runner, Chance
<1> QED
  BY <1>1, <1>2 DEF Next

(* What a task is about to seal, write or record is a message, and never an *)
(* empty slot, whatever fails and whenever a party crashes.                *)
THEOREM TasksTyped == Spec => [](TypeOK /\ TaskType)
<1>1. TypeOK /\ TaskType /\ [Next]_vars => (TypeOK /\ TaskType)'
  BY TypeStep
<1> QED
  BY TypeInit, <1>1, PTL DEF Spec

(* Every variable of the store, the channel, the two tasks and the history *)
(* keeps its type over every send, collection, repair, delete and crash.   *)
THEOREM TypeCorrect == Spec => []TypeOK
  BY TasksTyped, PTL

-----------------------------------------------------------------------------
(* Order.                                                                  *)

(* A sequence p has given out, with a cursor p has reached. *)
Bounded(p, m) == m.seq < sendSeq[p] /\ m.cursor <= myCol[p]

(* What p wrote or is keeping to write. *)
InFlight(p) ==
  /\ \A m \in out[p] : Bounded(p, m)
  /\ \A i \in Slots : Bounded(p, ring[p][i])
  /\ \A i \in Slots : outbox[p][i].cursor <= myCol[p]
  /\ ctl[p] <= myCol[p] /\ curPub[p] <= myCol[p]
  /\ \A c \in pub[p] : c <= myCol[p]

(* A sealed message was given a sequence that had room when it was loaded. *)
LaneSound(p) ==
  lane[p].pc \in {"sealed", "stored"} =>
    /\ lane[p].msg.cursor <= myCol[p]
    /\ lane[p].msg.seq = lane[p].loaded.sendSeq
    /\ lane[p].loaded.sendSeq < lane[p].loaded.peerCol + RingSlots

(* What the runner read earlier is stale at worst. *)
RunSound(p) ==
  /\ \A m \in run[p].todo : Bounded(p, m)
  /\ run[p].pc = "write" => Bounded(p, run[p].msg)
  /\ run[p].pc = "collect" => Bounded(Peer(p), run[p].msg)
  /\ run[p].pc \in {"publish", "published"} => run[p].val <= myCol[p]
  /\ run[p].pc = "cursor" => run[p].val <= myCol[Peer(p)]

(* The runner's task once RepairEntry is done with m. *)
RestOf(p, m)   == [run[p] EXCEPT !.todo = run[p].todo \ {m}]
MissedOf(p, m) == [RestOf(p, m) EXCEPT !.missed = RestOf(p, m).missed \cup {m.seq}]

(* The inductive strengthening of CursorOrder: the cursors held by messages  *)
(* in flight, by the lane's plan and by the outbox run obey the same order.  *)
OrderInv == CursorOrder /\ \A p \in Party : InFlight(p) /\ LaneSound(p) /\ RunSound(p)

(* A party's next sequence and its cursor only grow. *)
Grows == \A p \in Party : sendSeq'[p] >= sendSeq[p] /\ myCol'[p] >= myCol[p]

(* The record's counters and the control subkey are numbers. *)
LEMMA Counters ==
  ASSUME TypeOK, NEW p \in Party
  PROVE  /\ sendSeq[p] \in Nat /\ peerCol[p] \in Nat /\ myCol[p] \in Nat /\ curPub[p] \in Nat
         /\ ctl[p] \in Int /\ pub[p] \subseteq Nat
  BY DEF TypeOK, StoreType, NetworkType, HistoryType, NoCursor

(* And so they are after a step. *)
LEMMA CountersNext ==
  ASSUME TypeOK', NEW p \in Party
  PROVE  sendSeq'[p] \in Nat /\ peerCol'[p] \in Nat /\ myCol'[p] \in Nat
  BY DEF TypeOK, StoreType

(* Whatever a party keeps or sent is a message or an empty place. *)
LEMMA Places ==
  ASSUME TypeOK, NEW p \in Party
  PROVE  /\ \A i \in Slots : ring[p][i] \in OptMessage /\ outbox[p][i] \in OptMessage
         /\ out[p] \subseteq Message /\ out[p] \subseteq OptMessage
  BY MessageType DEF TypeOK, StoreType, NetworkType, HistoryType

(* What the tasks of a party hold. *)
LEMMA TaskParts ==
  ASSUME TypeOK, NEW p \in Party
  PROVE  /\ lane[p] \in LaneType /\ lane[p].msg \in OptMessage
         /\ run[p] \in RunType /\ run[p].msg \in OptMessage /\ run[p].val \in Nat
         /\ run[p].todo \subseteq OptMessage
  BY LaneFields, RunFields, MessageType DEF TypeOK, VolatileType

(* What a step makes of p's tasks. *)
LEMMA TasksMoved ==
  ASSUME TypeOK, NEW p \in Party
  PROVE  /\ \A r : lane' = [lane EXCEPT ![p] = r] =>
                  lane'[p] = r /\ \A q \in Party : q # p => lane'[q] = lane[q]
         /\ \A r : run' = [run EXCEPT ![p] = r] =>
                  run'[p] = r /\ \A q \in Party : q # p => run'[q] = run[q]
  BY DEF TypeOK, VolatileType

(* A repair that is done with an entry keeps the others it loaded. *)
LEMMA RestMissed ==
  ASSUME NEW p, run[p] \in RunType, NEW m
  PROVE  \A r \in {RestOf(p, m), MissedOf(p, m)} :
           r.pc = run[p].pc /\ r.todo \subseteq run[p].todo
  <1>1. RestOf(p, m).pc = run[p].pc /\ RestOf(p, m).todo = run[p].todo \ {m}
    BY DEF RestOf, RunType
  <1>2. MissedOf(p, m).pc = RestOf(p, m).pc /\ MissedOf(p, m).todo = RestOf(p, m).todo
    BY DEF MissedOf, RestOf, RunType
  <1> QED
    BY <1>1, <1>2

(* What a runner task that has just started holds. *)
LEMMA Started ==
  /\ RunIdle.todo = {} /\ RunBoot.todo = {} /\ RunIdle.pc = "idle" /\ RunBoot.pc = "boot"
  BY DEF RunIdle, RunBoot

(* An idle task claims nothing. *)
LEMMA IdleSound ==
  ASSUME NEW p \in Party
  PROVE  /\ lane'[p] = LaneIdle => LaneSound(p)'
         /\ run'[p] \in {RunIdle, RunBoot} => RunSound(p)'
<1>1. lane'[p] = LaneIdle => LaneSound(p)'
  BY IdleType DEF LaneSound
<1>2. run'[p] \in {RunIdle, RunBoot} => RunSound(p)'
  BY Started DEF RunSound
<1> QED
  BY <1>1, <1>2

(* A slot write just started carries a bounded entry. *)
LEMMA WriteSound ==
  ASSUME NEW p \in Party, NEW v, Bounded(p, v)',
         run'[p] = [RunIdle EXCEPT !.pc = "write", !.msg = v]
  PROVE  RunSound(p)'
<1>1. run'[p].pc = "write" /\ run'[p].msg = v /\ run'[p].todo = {}
  BY DEF RunIdle
<1> QED
  BY <1>1 DEF RunSound, Bounded

(* A collection just started carries a message its sender gave out. *)
LEMMA CollectSound ==
  ASSUME NEW p \in Party, NEW v, Bounded(Peer(p), v)',
         run'[p] = [RunIdle EXCEPT !.pc = "collect", !.msg = v]
  PROVE  RunSound(p)'
<1>1. run'[p].pc = "collect" /\ run'[p].msg = v /\ run'[p].todo = {}
  BY DEF RunIdle
<1> QED
  BY <1>1 DEF RunSound, Bounded, Peer

(* A publication just started carries a cursor p has reached. *)
LEMMA PublishSound ==
  ASSUME NEW p \in Party, NEW v, v <= myCol'[p],
         run'[p] = [RunIdle EXCEPT !.pc = "publish", !.val = v]
  PROVE  RunSound(p)'
<1>1. run'[p].pc = "publish" /\ run'[p].val = v /\ run'[p].todo = {}
  BY DEF RunIdle
<1> QED
  BY <1>1 DEF RunSound

(* A cursor just read is one its correspondent has reached. *)
LEMMA CursorSound ==
  ASSUME NEW p \in Party, NEW v, v <= myCol'[Peer(p)],
         run'[p] = [RunIdle EXCEPT !.pc = "cursor", !.val = v]
  PROVE  RunSound(p)'
<1>1. run'[p].pc = "cursor" /\ run'[p].val = v /\ run'[p].todo = {}
  BY DEF RunIdle
<1> QED
  BY <1>1 DEF RunSound, Peer

(* A task just started that carries neither claims nothing. *)
LEMMA TrimSound ==
  ASSUME NEW p \in Party, NEW v,
         run'[p] = [RunIdle EXCEPT !.pc = "trim", !.val = v]
  PROVE  RunSound(p)'
<1>1. run'[p].pc = "trim" /\ run'[p].todo = {}
  BY DEF RunIdle
<1> QED
  BY <1>1 DEF RunSound

(* What Record keeps. *)
LEMMA RecordFields ==
  ASSUME NEW p \in Party
  PROVE  Record(p).sendSeq = sendSeq[p] /\ Record(p).peerCol = peerCol[p]
  BY DEF Record

(* A bounded message stays bounded as the counters grow. *)
LEMMA StaysBounded ==
  ASSUME TypeOK, TypeOK', Grows, NEW p \in Party, NEW m \in OptMessage, Bounded(p, m)
  PROVE  Bounded(p, m)'
<1>1. m.seq \in Int /\ m.cursor \in Int
  BY MessageType
<1>2. sendSeq[p] \in Int /\ myCol[p] \in Int
  BY Counters
<1>3. sendSeq'[p] \in Int /\ myCol'[p] \in Int
  BY CountersNext
<1> QED
  BY <1>1, <1>2, <1>3 DEF Grows, Bounded

(* An empty place is bounded. *)
LEMMA AbsentBounded ==
  ASSUME TypeOK, NEW p \in Party PROVE Bounded(p, Absent)
  BY Counters DEF Bounded, Absent

(* advance_peer_collected, given a cursor its correspondent has reached,   *)
(* moves up to it at most and never back.                                  *)
LEMMA AdvancedBounds ==
  ASSUME TypeOK, CursorOrder, NEW p \in Party, NEW c \in Nat, c <= myCol[Peer(p)]
  PROVE  peerCol[p] <= Advanced(p, c) /\ Advanced(p, c) <= myCol[Peer(p)]
  BY Counters, PeerType DEF Advanced, CursorOrder

(* What p alone changed in its channel, its outbox and its published       *)
(* cursors stays in flight soundly where each new part of it is bounded.   *)
LEMMA KeepInFlight ==
  ASSUME TypeOK, TypeOK', Grows, \A q \in Party : InFlight(q), NEW p \in Party,
         \A q \in Party : q # p => /\ out'[q] = out[q] /\ ring'[q] = ring[q]
                                  /\ outbox'[q] = outbox[q] /\ ctl'[q] = ctl[q]
                                  /\ curPub'[q] = curPub[q] /\ pub'[q] = pub[q],
         \A m \in out'[p] : m \in out[p] \/ Bounded(p, m)',
         \A i \in Slots : ring'[p][i] = ring[p][i] \/ Bounded(p, ring[p][i])',
         \A i \in Slots : outbox'[p][i] = outbox[p][i] \/ outbox'[p][i].cursor <= myCol'[p],
         ctl'[p] = ctl[p] \/ ctl'[p] <= myCol'[p],
         curPub'[p] = curPub[p] \/ curPub'[p] <= myCol'[p],
         \A c \in pub'[p] : c \in pub[p] \/ c <= myCol'[p]
  PROVE  \A q \in Party : InFlight(q)'
<1> SUFFICES ASSUME NEW q \in Party PROVE InFlight(q)'
  OBVIOUS
<1>0. InFlight(q)
  OBVIOUS
<1>1. \A n \in Int : n <= myCol[q] => n <= myCol'[q]
  BY Counters, CountersNext DEF Grows
<1>2. \A m \in OptMessage : Bounded(q, m) => m.seq < sendSeq'[q] /\ m.cursor <= myCol'[q]
  BY StaysBounded DEF Bounded
<1>3. \A m \in out'[q] : Bounded(q, m)'
  BY <1>0, <1>2, Places DEF InFlight, Bounded
<1>4. \A i \in Slots : Bounded(q, ring[q][i])'
  BY <1>0, <1>2, Places DEF InFlight, Bounded
<1>5. \A i \in Slots : outbox'[q][i].cursor <= myCol'[q]
  <2> SUFFICES ASSUME NEW i \in Slots PROVE outbox'[q][i].cursor <= myCol'[q]
    OBVIOUS
  <2>1. outbox[q][i].cursor \in Int /\ outbox[q][i].cursor <= myCol[q]
    BY <1>0, Places, MessageType DEF InFlight
  <2>2. outbox'[q][i] = outbox[q][i] \/ outbox'[q][i].cursor <= myCol'[q]
    OBVIOUS
  <2> QED
    BY <1>1, <2>1, <2>2
<1>6. ctl'[q] <= myCol'[q]
  BY <1>0, <1>1, Counters DEF InFlight
<1>7. curPub'[q] <= myCol'[q]
  BY <1>0, <1>1, Counters DEF InFlight
<1>8. \A c \in pub'[q] : c <= myCol'[q]
  BY <1>0, <1>1, Counters DEF InFlight
<1> QED
  BY <1>3, <1>4, <1>5, <1>6, <1>7, <1>8 DEF InFlight

(* A step of p's lane leaves both lanes sound where it leaves p's sound. *)
LEMMA KeepLane ==
  ASSUME TypeOK, TypeOK', Grows, \A q \in Party : LaneSound(q), NEW p \in Party,
         \A q \in Party : q # p => lane'[q] = lane[q],
         lane'[p] = lane[p] \/ LaneSound(p)'
  PROVE  \A q \in Party : LaneSound(q)'
<1> SUFFICES ASSUME NEW q \in Party, lane'[q] = lane[q] PROVE LaneSound(q)'
  OBVIOUS
<1>1. lane[q].msg.cursor \in Int
  BY TaskParts, MessageType
<1>2. myCol[q] \in Int /\ myCol'[q] \in Int /\ myCol'[q] >= myCol[q]
  BY Counters, CountersNext DEF Grows
<1>3. LaneSound(q)
  OBVIOUS
<1> QED
  BY <1>1, <1>2, <1>3 DEF LaneSound

(* A step of p's runner leaves both sound where it leaves p's sound. *)
LEMMA KeepRun ==
  ASSUME TypeOK, TypeOK', Grows, \A q \in Party : RunSound(q), NEW p \in Party,
         \A q \in Party : q # p => run'[q] = run[q],
         run'[p] = run[p] \/ RunSound(p)'
  PROVE  \A q \in Party : RunSound(q)'
<1> SUFFICES ASSUME NEW q \in Party, run'[q] = run[q] PROVE RunSound(q)'
  OBVIOUS
<1>1. run[q].msg \in OptMessage /\ run[q].val \in Int /\ run[q].todo \subseteq OptMessage
  BY TaskParts
<1>2. Peer(q) \in Party
  BY PeerType
<1>3. \A r \in Party : myCol[r] \in Int /\ myCol'[r] \in Int /\ myCol'[r] >= myCol[r]
  BY Counters, CountersNext DEF Grows
<1>4. \A r \in Party : \A m \in OptMessage :
        Bounded(r, m) => m.seq < sendSeq'[r] /\ m.cursor <= myCol'[r]
  BY StaysBounded DEF Bounded
<1>5. RunSound(q)
  OBVIOUS
<1>6. \A m \in run'[q].todo : Bounded(q, m)'
  BY <1>1, <1>4, <1>5 DEF RunSound, Bounded
<1>7. /\ run'[q].pc = "write" => Bounded(q, run[q].msg)'
      /\ run'[q].pc = "collect" => Bounded(Peer(q), run[q].msg)'
  BY <1>1, <1>2, <1>4, <1>5 DEF RunSound, Bounded, Peer
<1>8. /\ run'[q].pc \in {"publish", "published"} => run'[q].val <= myCol'[q]
      /\ run'[q].pc = "cursor" => run'[q].val <= myCol'[Peer(q)]
  BY <1>1, <1>2, <1>3, <1>5 DEF RunSound
<1> QED
  BY <1>6, <1>7, <1>8 DEF RunSound, Peer

(* load: a listed entry has been given a sequence. *)
LEMMA OutstandingBounded ==
  ASSUME TypeOK, NEW p \in Party, InFlight(p)
  PROVE  /\ Outstanding(p) \subseteq Message
         /\ \A m \in Outstanding(p) : Bounded(p, m)
<1>1. Outstanding(p) \subseteq Message
  BY OutstandingType DEF TypeOK
<1>2. \A m \in Outstanding(p) : Bounded(p, m)
  BY DEF Outstanding, InFlight, Bounded
<1> QED
  BY <1>1, <1>2

(* commit_message seals the next sequence with the cursor as loaded. *)
LEMMA SealStarts ==
  ASSUME TypeOK, NEW p \in Party, SendLoad(p)
  PROVE  \E att \in {0, 1} : lane' = [lane EXCEPT ![p] = SealTask(p, att)]
<1>1. \A k \in OptMessage : k.att \in {0, 1} /\ 1 - k.att \in {0, 1}
  BY DEF OptMessage, Message, Absent
<1>2. outbox[p][SlotFor(sendSeq[p])] \in OptMessage
  BY Counters, SlotForType DEF TypeOK, StoreType
<1> QED
  BY <1>1, <1>2 DEF SendLoad, SealTask, SealedMessage

(* Taking a cursor its correspondent has reached keeps the order. *)
LEMMA TakesOrder ==
  ASSUME TypeOK, CursorOrder, NEW p \in Party, NEW c \in Nat, c <= myCol[Peer(p)],
         TakesCursor(p, c)
  PROVE  CursorOrder'
<1>1. sendSeq' = sendSeq /\ myCol' = myCol
  BY DEF TakesCursor
<1>2. /\ peerCol[p] <= peerCol'[p] /\ peerCol'[p] <= myCol[Peer(p)]
      /\ \A q \in Party : q # p => peerCol'[q] = peerCol[q]
  BY AdvancedBounds, Counters DEF TakesCursor, TypeOK, StoreType, CursorOrder
<1>3. peerCol'[p] \in Int
  BY Counters, AdvancedType DEF TakesCursor, TypeOK, StoreType
<1> QED
  BY <1>1, <1>2, <1>3, Counters, PeerType, RingAssumption DEF CursorOrder, Peer

(* Recording the next message its correspondent committed keeps the order, *)
(* and moves only the reader's cursor and its knowledge of the other's.    *)
LEMMA RecordOrder ==
  ASSUME TypeOK, CursorOrder, NEW p \in Party, NEW m \in Message,
         m.seq = myCol[p], m.seq < sendSeq[Peer(p)], m.cursor <= myCol[Peer(p)],
         RecordMessage(p, m), sendSeq' = sendSeq
  PROVE  Grows /\ CursorOrder'
<1>1. m.seq \in Nat /\ m.cursor \in Nat
  BY MessageType
<1>2. /\ myCol'[p] = myCol[p] + 1
      /\ \A q \in Party : q # p => myCol'[q] = myCol[q]
  BY DEF RecordMessage, TypeOK, StoreType
<1>3. /\ peerCol'[p] = Advanced(p, m.cursor)
      /\ \A q \in Party : q # p => peerCol'[q] = peerCol[q]
  BY DEF RecordMessage, TypeOK, StoreType
<1>4. /\ peerCol[p] <= peerCol'[p] /\ peerCol'[p] <= myCol[Peer(p)]
      /\ peerCol'[p] \in Int
  BY <1>1, <1>3, AdvancedBounds, AdvancedType DEF TypeOK
<1>5. Grows
  BY <1>2, Counters DEF Grows
<1>6. Peer(p) \in Party /\ Peer(p) # p /\ \A q \in Party : q # p => q = Peer(p) /\ Peer(q) = p
  BY PartiesDiffer DEF Peer, Party
<1>7. \A q \in Party : sendSeq[q] \in Int /\ myCol[q] \in Int /\ peerCol[q] \in Int
  BY Counters
<1>8. /\ peerCol'[p] <= myCol'[Peer(p)] /\ myCol'[Peer(p)] <= sendSeq'[p]
      /\ sendSeq'[p] <= peerCol'[p] + RingSlots
  BY <1>2, <1>4, <1>6, <1>7, RingAssumption DEF CursorOrder
<1>9. \A q \in Party : q # p =>
        /\ peerCol'[q] <= myCol'[Peer(q)] /\ myCol'[Peer(q)] <= sendSeq'[q]
        /\ sendSeq'[q] <= peerCol'[q] + RingSlots
  BY <1>2, <1>3, <1>6, <1>7, RingAssumption DEF CursorOrder
<1>10. CursorOrder'
  BY <1>8, <1>9, <1>6 DEF CursorOrder, Peer
<1> QED
  BY <1>5, <1>10

(* Every step of either party, and every fault, keeps the order. *)
LEMMA OrderStep ==
  TypeOK /\ TaskType /\ (TypeOK /\ TaskType)' /\ OrderInv /\ [Next]_vars => OrderInv'
<1> SUFFICES ASSUME TypeOK, TaskType, TypeOK', TaskType', OrderInv, [Next]_vars PROVE OrderInv'
  OBVIOUS
<1>0. /\ TypeOK /\ TypeOK' /\ TaskType /\ CursorOrder
      /\ \A q \in Party : InFlight(q) /\ LaneSound(q) /\ RunSound(q)
  BY DEF OrderInv
<1>1. CASE UNCHANGED vars
  BY <1>0, <1>1 DEF vars, store, network, volatile, events, history, OrderInv, CursorOrder,
    InFlight, LaneSound, RunSound, Bounded
<1>2. ASSUME NEW p \in Party, Lane(p) \/ Runner(p) \/ Chance(p) PROVE OrderInv'
  <2>1. CASE SendPersist(p)
    <3>1. lane[p].msg \in Message /\ lane[p].msg.cursor <= myCol[p]
      BY <2>1, <1>0 DEF SendPersist, LaneSound, TaskType, LaneTyped
    <3>2. \A q \in Party : q # p => outbox'[q] = outbox[q]
      BY <2>1, <1>0 DEF SendPersist, TypeOK, StoreType
    <3>3. \A i \in Slots : outbox'[p][i] = outbox[p][i] \/ outbox'[p][i] = lane[p].msg
      BY <2>1, <1>0 DEF SendPersist, TypeOK, StoreType
    <3>4. lane'[p] = LaneIdle \/ lane'[p] = [lane[p] EXCEPT !.pc = "stored"]
      BY <2>1, <1>0, TasksMoved DEF SendPersist
    <3>5. \A q \in Party : q # p => lane'[q] = lane[q]
      BY <2>1, <1>0, TasksMoved DEF SendPersist
    <3>6. Grows
      BY <2>1, <1>0, Counters DEF SendPersist, Grows, store
    <3>7. lane'[p] = [lane[p] EXCEPT !.pc = "stored"] => LaneSound(p)'
      BY <2>1, <1>0, TaskParts DEF SendPersist, LaneSound, LaneType
    <3>8. LaneSound(p)' /\ \A q \in Party : q # p => lane'[q] = lane[q]
      BY <3>4, <3>5, <3>7, IdleSound
    <3>9. \A i \in Slots : outbox'[p][i] = outbox[p][i] \/ outbox'[p][i].cursor <= myCol'[p]
      BY <2>1, <3>1, <3>3 DEF SendPersist
    <3>10. \A q \in Party : InFlight(q)'
      BY <2>1, <1>0, <3>6, <3>2, <3>9, KeepInFlight DEF SendPersist, network, history
    <3>11. CursorOrder'
      BY <2>1, <1>0 DEF SendPersist, CursorOrder
    <3>12. \A q \in Party : LaneSound(q)'
      BY <1>0, <3>6, <3>8, KeepLane
    <3>13. \A q \in Party : RunSound(q)'
      BY <2>1, <1>0, <3>6, KeepRun DEF SendPersist, volatile
    <3> QED
      BY <3>10, <3>12, <3>13, <3>11 DEF OrderInv
  <2>2. CASE SendCommit(p)
    <3>1. lane[p].msg \in Message /\ lane[p].msg.cursor <= myCol[p]
      BY <2>2, <1>0 DEF SendCommit, LaneSound, TaskType, LaneTyped
    <3>2. \/ sendSeq' = sendSeq
          \/ (lane[p].loaded = Record(p) /\ sendSeq' = [sendSeq EXCEPT ![p] = sendSeq[p] + 1])
      BY <2>2 DEF SendCommit
    <3>3. lane[p].pc = "stored" /\ LaneSound(p) /\ myCol' = myCol /\ peerCol' = peerCol
      BY <2>2, <1>0 DEF SendCommit
    <3>4. sendSeq \in [Party -> Nat]
      BY <1>0 DEF TypeOK, StoreType
    <3>5. sendSeq' = [sendSeq EXCEPT ![p] = sendSeq[p] + 1] =>
            sendSeq'[p] = sendSeq[p] + 1 /\ \A q \in Party : q # p => sendSeq'[q] = sendSeq[q]
      BY <3>4
    <3>6. /\ (sendSeq'[p] = sendSeq[p] \/ (lane[p].loaded = Record(p) /\ sendSeq'[p] = sendSeq[p] + 1))
          /\ \A q \in Party : q # p => sendSeq'[q] = sendSeq[q]
      BY <3>2, <3>5
    <3>7. lane[p].loaded = Record(p) =>
            lane[p].loaded.sendSeq = sendSeq[p] /\ lane[p].loaded.peerCol = peerCol[p]
      BY RecordFields
    <3>8. lane[p].loaded = Record(p) =>
            lane[p].msg.seq = sendSeq[p] /\ sendSeq[p] < peerCol[p] + RingSlots
      BY <3>3, <3>7 DEF LaneSound
    <3>9. Grows
      BY <1>0, <3>3, <3>6, Counters DEF Grows
    <3>10. CursorOrder'
      BY <1>0, <3>3, <3>6, <3>8, Counters, PeerType, RingAssumption DEF CursorOrder
    <3>11. \A q \in Party : q # p => out'[q] = out[q]
      BY <2>2, <1>0 DEF SendCommit, TypeOK, HistoryType
    <3>12. \A m \in out'[p] :
             \/ m \in out[p]
             \/ m = lane[p].msg /\ sendSeq'[p] = sendSeq[p] + 1 /\ lane[p].loaded = Record(p)
      BY <2>2, <1>0 DEF SendCommit, TypeOK, HistoryType, StoreType
    <3>13. \A m \in out'[p] : m \in out[p] \/ Bounded(p, m)'
      BY <2>2, <1>0, <3>12, <3>1, <3>8, Counters DEF SendCommit, Bounded
    <3>14. \A q \in Party : InFlight(q)'
      BY <2>2, <1>0, <3>9, <3>11, <3>13, KeepInFlight DEF SendCommit, network
    <3>15. LaneSound(p)' /\ \A q \in Party : q # p => lane'[q] = lane[q]
      BY <2>2, <1>0, IdleSound, TasksMoved DEF SendCommit
    <3>16. \A q \in Party : LaneSound(q)'
      BY <1>0, <3>9, <3>15, KeepLane
    <3>17. \A q \in Party : RunSound(q)'
      BY <2>2, <1>0, <3>9, KeepRun DEF SendCommit, volatile
    <3> QED
      BY <3>14, <3>16, <3>17, <3>10 DEF OrderInv
  <2>3. CASE LaneTrim(p)
    <3>1. TrimOutbox(p, lane[p].through)
      BY <2>3 DEF LaneTrim
    <3>2. \A q \in Party : q # p => outbox'[q] = outbox[q]
      BY <1>0, <3>1 DEF TrimOutbox, TypeOK, StoreType
    <3>3. \A i \in Slots : outbox'[p][i] = outbox[p][i] \/ outbox'[p][i] = Absent
      BY <1>0, <3>1 DEF TrimOutbox, Trimmed, TypeOK, StoreType
    <3>4. Grows
      BY <2>3, <1>0, Counters DEF LaneTrim, Grows, store
    <3>5. \A i \in Slots : outbox'[p][i] = outbox[p][i] \/ outbox'[p][i].cursor <= myCol'[p]
      BY <3>3, CountersNext DEF Absent
    <3>6. \A q \in Party : InFlight(q)'
      BY <2>3, <1>0, <3>4, <3>2, <3>5, KeepInFlight DEF LaneTrim, network, history
    <3>7. LaneSound(p)' /\ \A q \in Party : q # p => lane'[q] = lane[q]
      BY <2>3, <1>0, IdleSound, TasksMoved DEF LaneTrim
    <3>8. \A q \in Party : LaneSound(q)'
      BY <1>0, <3>4, <3>7, KeepLane
    <3>9. \A q \in Party : RunSound(q)'
      BY <2>3, <1>0, <3>4, KeepRun DEF LaneTrim, volatile
    <3>10. CursorOrder'
      BY <2>3, <1>0 DEF LaneTrim, CursorOrder, store
    <3> QED
      BY <3>6, <3>8, <3>9, <3>10 DEF OrderInv
  <2>4. CASE WriteLoad(p)
    <3>1. sendSeq' = sendSeq /\ myCol' = myCol
      BY <2>4 DEF WriteLoad, store
    <3>2. Grows
      BY <1>0, <3>1, Counters DEF Grows
    <3>3. \/ run' = run
          \/ \E m \in Outstanding(p) :
               run' = [run EXCEPT ![p] = [RunIdle EXCEPT !.pc = "write", !.msg = m]]
      BY <2>4 DEF WriteLoad, Starts
    <3>4. \A m \in Outstanding(p) : Bounded(p, m)'
      BY <1>0, OutstandingBounded, <3>2, StaysBounded, MessageType
    <3>5. \A m \in Outstanding(p) :
            run'[p] = [RunIdle EXCEPT !.pc = "write", !.msg = m] => RunSound(p)'
      BY <3>4, WriteSound
    <3>6. (run'[p] = run[p] \/ RunSound(p)') /\ \A q \in Party : q # p => run'[q] = run[q]
      BY <1>0, <3>3, <3>4, <3>5, TasksMoved
    <3>7. \A q \in Party : InFlight(q)'
      BY <2>4, <1>0, <3>2, KeepInFlight DEF WriteLoad, store, network, history
    <3>8. \A q \in Party : LaneSound(q)'
      BY <2>4, <1>0, <3>2, KeepLane DEF WriteLoad, volatile
    <3>9. \A q \in Party : RunSound(q)'
      BY <1>0, <3>2, <3>6, KeepRun
    <3>10. CursorOrder'
      BY <2>4, <1>0 DEF WriteLoad, CursorOrder, store
    <3> QED
      BY <3>7, <3>8, <3>9, <3>10 DEF OrderInv
  <2>5. CASE WriteCommitted(p)
    <3>1. SlotWritten(p, run[p].msg) \/ SlotNotWritten
      BY <2>5 DEF WriteCommitted
    <3>2. run[p].msg \in Message /\ Bounded(p, run[p].msg)
      BY <2>5, <1>0 DEF WriteCommitted, RunSound, TaskType, RunTyped
    <3>3. Grows
      BY <2>5, <1>0, Counters DEF WriteCommitted, Grows, store
    <3>4. \A n : n = run[p].msg => Bounded(p, n)'
      BY <1>0, <3>2, <3>3, StaysBounded, MessageType
    <3>5. \A q \in Party : q # p => ring'[q] = ring[q] /\ out'[q] = out[q]
      BY <1>0, <3>1 DEF SlotWritten, SlotNotWritten, TypeOK, NetworkType, HistoryType
    <3>6. \A n \in out'[p] : n \in out[p] \/ n = run[p].msg
      BY <1>0, <3>1 DEF SlotWritten, SlotNotWritten, TypeOK, HistoryType
    <3>7. \A i \in Slots : ring'[p][i] = ring[p][i] \/ ring'[p][i] = run[p].msg
      BY <1>0, <3>1 DEF SlotWritten, SlotNotWritten, TypeOK, NetworkType
    <3>8. \A i \in Slots : ring'[p][i] = ring[p][i] \/ Bounded(p, ring[p][i])'
      BY <3>7, <3>4 DEF Bounded
    <3>9. \A n \in out'[p] : n \in out[p] \/ Bounded(p, n)'
      BY <3>6, <3>4
    <3>10. \A q \in Party : InFlight(q)'
      BY <2>5, <1>0, <3>3, <3>5, <3>8, <3>9, KeepInFlight DEF WriteCommitted, store
    <3>11. RunSound(p)' /\ \A q \in Party : q # p => run'[q] = run[q]
      BY <2>5, <1>0, IdleSound, TasksMoved DEF WriteCommitted, Ends
    <3>12. \A q \in Party : LaneSound(q)'
      BY <2>5, <1>0, <3>3, KeepLane DEF WriteCommitted, volatile
    <3>13. \A q \in Party : RunSound(q)'
      BY <1>0, <3>3, <3>11, KeepRun
    <3>14. CursorOrder'
      BY <2>5, <1>0 DEF WriteCommitted, CursorOrder, store
    <3> QED
      BY <3>10, <3>12, <3>13, <3>14 DEF OrderInv
  <2>6. CASE RepairLoad(p)
    <3>1. Grows
      BY <2>6, <1>0, Counters DEF RepairLoad, Grows, store
    <3>2. \/ run' = [run EXCEPT ![p] = RunIdle]
          \/ \E pc \in {"repair", "repairControl"}, lost \in SUBSET Slots :
               run' = [run EXCEPT ![p] = RepairTask(p, pc, lost)]
      BY <2>6 DEF RepairLoad, RepairTask
    <3>3. \A m \in Outstanding(p) : Bounded(p, m)'
      BY <1>0, OutstandingBounded, <3>1, StaysBounded, MessageType
    <3>4. \A pc \in {"repair", "repairControl"}, lost \in SUBSET Slots :
            run'[p] = RepairTask(p, pc, lost) => RunSound(p)'
      BY <3>3 DEF RepairTask, RunIdle, RunSound, Bounded
    <3>5. RunSound(p)' /\ \A q \in Party : q # p => run'[q] = run[q]
      BY <1>0, <3>2, <3>4, IdleSound, TasksMoved
    <3>6. \A q \in Party : InFlight(q)'
      BY <2>6, <1>0, <3>1, KeepInFlight DEF RepairLoad, store, network, history
    <3>7. \A q \in Party : LaneSound(q)'
      BY <2>6, <1>0, <3>1, KeepLane DEF RepairLoad, volatile
    <3>8. \A q \in Party : RunSound(q)'
      BY <1>0, <3>1, <3>5, KeepRun
    <3>9. CursorOrder'
      BY <2>6, <1>0 DEF RepairLoad, CursorOrder, store
    <3> QED
      BY <3>6, <3>7, <3>8, <3>9 DEF OrderInv
  <2>7. CASE RepairControl(p)
    <3>1. WriteControl(p, curPub[p])
      BY <2>7 DEF RepairControl
    <3>2. curPub[p] <= myCol[p]
      BY <1>0 DEF InFlight
    <3>3. Grows
      BY <2>7, <1>0, Counters DEF RepairControl, Grows, store
    <3>4. curPub[p] <= myCol'[p]
      BY <2>7, <3>2 DEF RepairControl, store
    <3>5. \A q \in Party : q # p => ctl'[q] = ctl[q] /\ pub'[q] = pub[q]
      BY <1>0, <3>1 DEF WriteControl, TypeOK, NetworkType, HistoryType
    <3>6. ctl'[p] = ctl[p] \/ ctl'[p] = curPub[p]
      BY <1>0, <3>1 DEF WriteControl, TypeOK, NetworkType
    <3>7. \A d \in pub'[p] : d \in pub[p] \/ d = curPub[p]
      BY <1>0, <3>1 DEF WriteControl, TypeOK, HistoryType
    <3>8. \A q \in Party : InFlight(q)'
      BY <2>7, <1>0, <3>3, <3>5, <3>6, <3>7, <3>4, KeepInFlight DEF RepairControl, store
    <3>9. run'[p] = run[p] \/ run'[p] = [run[p] EXCEPT !.pc = "repair"]
      BY <2>7, <1>0, TasksMoved DEF RepairControl
    <3>10. \A q \in Party : q # p => run'[q] = run[q]
      BY <2>7, <1>0, TasksMoved DEF RepairControl
    <3>11. \A m \in run[p].todo : Bounded(p, m)'
      BY <1>0, <3>3, TaskParts, StaysBounded DEF RunSound
    <3>12. run'[p] = [run[p] EXCEPT !.pc = "repair"] => RunSound(p)'
      BY <1>0, <3>11, TaskParts DEF RunSound, RunType, Bounded
    <3>13. (run'[p] = run[p] \/ RunSound(p)') /\ \A q \in Party : q # p => run'[q] = run[q]
      BY <3>9, <3>10, <3>12
    <3>14. \A q \in Party : LaneSound(q)'
      BY <2>7, <1>0, <3>3, KeepLane DEF RepairControl, volatile
    <3>15. \A q \in Party : RunSound(q)'
      BY <1>0, <3>3, <3>13, KeepRun
    <3>16. CursorOrder'
      BY <2>7, <1>0 DEF RepairControl, CursorOrder, store
    <3> QED
      BY <3>8, <3>14, <3>15, <3>16 DEF OrderInv
  <2>8. CASE RepairEntry(p)
    <3>1. PICK m \in run[p].todo :
                 /\ (SlotWritten(p, m) \/ SlotNotWritten)
                 /\ (run' = [run EXCEPT ![p] = RestOf(p, m)] \/ run' = [run EXCEPT ![p] = MissedOf(p, m)])
      BY <2>8 DEF RepairEntry, RestOf, MissedOf
    <3>2. run[p] \in RunType /\ run[p].pc = "repair"
      BY <2>8, <1>0, TaskParts DEF RepairEntry
    <3>3. \A r \in {RestOf(p, m), MissedOf(p, m)} :
            r.pc = "repair" /\ r.todo \subseteq run[p].todo
      BY <3>2, RestMissed
    <3>4. run'[p] \in {RestOf(p, m), MissedOf(p, m)}
      BY <1>0, <3>1, TasksMoved
    <3>5. SlotWritten(p, m) \/ SlotNotWritten
      BY <3>1
    <3>6. m \in Message /\ Bounded(p, m)
      BY <1>0, <3>1, RunFields DEF RunSound, TypeOK, VolatileType
    <3>7. Grows
      BY <2>8, <1>0, Counters DEF RepairEntry, Grows, store
    <3>8. \A n : n = m => Bounded(p, n)'
      BY <1>0, <3>6, <3>7, StaysBounded, MessageType
    <3>9. \A q \in Party : q # p => ring'[q] = ring[q] /\ out'[q] = out[q]
      BY <1>0, <3>5 DEF SlotWritten, SlotNotWritten, TypeOK, NetworkType, HistoryType
    <3>10. \A n \in out'[p] : n \in out[p] \/ n = m
      BY <1>0, <3>5 DEF SlotWritten, SlotNotWritten, TypeOK, HistoryType
    <3>11. \A i \in Slots : ring'[p][i] = ring[p][i] \/ ring'[p][i] = m
      BY <1>0, <3>5 DEF SlotWritten, SlotNotWritten, TypeOK, NetworkType
    <3>12. \A i \in Slots : ring'[p][i] = ring[p][i] \/ Bounded(p, ring[p][i])'
      BY <3>11, <3>8 DEF Bounded
    <3>13. \A n \in out'[p] : n \in out[p] \/ Bounded(p, n)'
      BY <3>10, <3>8
    <3>14. \A q \in Party : InFlight(q)'
      BY <2>8, <1>0, <3>7, <3>9, <3>12, <3>13, KeepInFlight DEF RepairEntry, store
    <3>15. \A n \in run[p].todo : Bounded(p, n)'
      BY <1>0, <3>7, TaskParts, StaysBounded DEF RunSound
    <3>16. \A q \in Party : q # p => run'[q] = run[q]
      BY <2>8, <1>0, TasksMoved DEF RepairEntry
    <3>17. RunSound(p)' /\ \A q \in Party : q # p => run'[q] = run[q]
      BY <3>3, <3>4, <3>15, <3>16 DEF RunSound, Bounded
    <3>18. \A q \in Party : LaneSound(q)'
      BY <2>8, <1>0, <3>7, KeepLane DEF RepairEntry, volatile
    <3>19. \A q \in Party : RunSound(q)'
      BY <1>0, <3>7, <3>17, KeepRun
    <3>20. CursorOrder'
      BY <2>8, <1>0 DEF RepairEntry, CursorOrder, store
    <3> QED
      BY <3>14, <3>18, <3>19, <3>20 DEF OrderInv
  <2>9. CASE RepairEnd(p)
    <3>1. Grows
      BY <2>9, <1>0, Counters DEF RepairEnd, Grows, store
    <3>2. RunSound(p)' /\ \A q \in Party : q # p => run'[q] = run[q]
      BY <2>9, <1>0, IdleSound, TasksMoved DEF RepairEnd, Ends
    <3>3. \A q \in Party : InFlight(q)'
      BY <2>9, <1>0, <3>1, KeepInFlight DEF RepairEnd, store, network, history
    <3>4. \A q \in Party : LaneSound(q)'
      BY <2>9, <1>0, <3>1, KeepLane DEF RepairEnd, volatile
    <3>5. \A q \in Party : RunSound(q)'
      BY <1>0, <3>1, <3>2, KeepRun
    <3>6. CursorOrder'
      BY <2>9, <1>0 DEF RepairEnd, CursorOrder, store
    <3> QED
      BY <3>3, <3>4, <3>5, <3>6 DEF OrderInv
  <2>10. CASE CollectRead(p)
    <3>1. Grows
      BY <2>10, <1>0, Counters DEF CollectRead, Grows, store
    <3>2. /\ ring[Peer(p)][SlotFor(myCol[p])] \in OptMessage
          /\ Bounded(Peer(p), ring[Peer(p)][SlotFor(myCol[p])])
      BY <1>0, Counters, PeerType, SlotForType, Places DEF InFlight
    <3>3. \A m : m = ring[Peer(p)][SlotFor(myCol[p])] => Bounded(Peer(p), m)'
      BY <1>0, <3>2, <3>1, PeerType, StaysBounded
    <3>4. run'[p] = [RunIdle EXCEPT !.pc = "collect", !.msg = ring[Peer(p)][SlotFor(myCol[p])]]
      BY <2>10, <1>0, TasksMoved DEF CollectRead, Starts
    <3>5. \A q \in Party : q # p => run'[q] = run[q]
      BY <2>10, <1>0, TasksMoved DEF CollectRead, Starts
    <3>6. RunSound(p)' /\ \A q \in Party : q # p => run'[q] = run[q]
      BY <3>4, <3>5, <3>3, CollectSound
    <3>7. \A q \in Party : InFlight(q)'
      BY <2>10, <1>0, <3>1, KeepInFlight DEF CollectRead, store, network, history
    <3>8. \A q \in Party : LaneSound(q)'
      BY <2>10, <1>0, <3>1, KeepLane DEF CollectRead, volatile
    <3>9. \A q \in Party : RunSound(q)'
      BY <1>0, <3>1, <3>6, KeepRun
    <3>10. CursorOrder'
      BY <2>10, <1>0 DEF CollectRead, CursorOrder, store
    <3> QED
      BY <3>7, <3>8, <3>9, <3>10 DEF OrderInv
  <2>11. CASE CollectCommit(p)
    <3>1. /\ run[p].msg \in Message
          /\ run[p].msg.seq \in Nat
          /\ run[p].msg.cursor \in Nat
          /\ run[p].msg.seq < sendSeq[Peer(p)]
          /\ run[p].msg.cursor <= myCol[Peer(p)]
      BY <2>11, <1>0, MessageType DEF CollectCommit, TaskType, RunTyped, RunSound, Bounded
    <3>2. \/ UNCHANGED <<myCol, peerCol>>
          \/ RecordMessage(p, run[p].msg) /\ myCol[p] = run[p].msg.seq
      BY <2>11 DEF CollectCommit
    <3>3. RecordMessage(p, run[p].msg) /\ myCol[p] = run[p].msg.seq => Grows /\ CursorOrder'
      BY <2>11, <1>0, <3>1, RecordOrder DEF CollectCommit
    <3>4. Grows
      BY <2>11, <1>0, <3>2, <3>3, Counters DEF CollectCommit, Grows
    <3>5. CursorOrder'
      BY <2>11, <1>0, <3>2, <3>3 DEF CollectCommit, CursorOrder
    <3>6. \/ run' = [run EXCEPT ![p] = RunIdle]
          \/ run' = [run EXCEPT ![p] = [RunIdle EXCEPT !.pc = "trim",
                 !.val = Advanced(p, run[p].msg.cursor)]]
      BY <2>11 DEF CollectCommit, Ends
    <3>7. \A v : run'[p] = [RunIdle EXCEPT !.pc = "trim", !.val = v] => RunSound(p)'
      BY TrimSound
    <3>8. \/ run'[p] = RunIdle
          \/ run'[p] = [RunIdle EXCEPT !.pc = "trim", !.val = Advanced(p, run[p].msg.cursor)]
      BY <1>0, <3>6, TasksMoved
    <3>9. \A q \in Party : q # p => run'[q] = run[q]
      BY <1>0, <3>6, TasksMoved
    <3>10. RunSound(p)' /\ \A q \in Party : q # p => run'[q] = run[q]
      BY <3>8, <3>9, <3>7, IdleSound
    <3>11. \A q \in Party : InFlight(q)'
      BY <2>11, <1>0, <3>4, KeepInFlight DEF CollectCommit, network
    <3>12. \A q \in Party : LaneSound(q)'
      BY <2>11, <1>0, <3>4, KeepLane DEF CollectCommit, volatile
    <3>13. \A q \in Party : RunSound(q)'
      BY <1>0, <3>4, <3>10, KeepRun
    <3> QED
      BY <3>11, <3>12, <3>13, <3>5 DEF OrderInv
  <2>12. CASE CollectTrim(p)
    <3>1. TrimOutbox(p, run[p].val)
      BY <2>12 DEF CollectTrim
    <3>2. \A q \in Party : q # p => outbox'[q] = outbox[q]
      BY <1>0, <3>1 DEF TrimOutbox, TypeOK, StoreType
    <3>3. \A i \in Slots : outbox'[p][i] = outbox[p][i] \/ outbox'[p][i] = Absent
      BY <1>0, <3>1 DEF TrimOutbox, Trimmed, TypeOK, StoreType
    <3>4. Grows
      BY <2>12, <1>0, Counters DEF CollectTrim, Grows, store
    <3>5. \A i \in Slots : outbox'[p][i] = outbox[p][i] \/ outbox'[p][i].cursor <= myCol'[p]
      BY <3>3, CountersNext DEF Absent
    <3>6. \A q \in Party : InFlight(q)'
      BY <2>12, <1>0, <3>4, <3>2, <3>5, KeepInFlight DEF CollectTrim, network, history
    <3>7. RunSound(p)' /\ \A q \in Party : q # p => run'[q] = run[q]
      BY <2>12, <1>0, IdleSound, TasksMoved DEF CollectTrim, Ends
    <3>8. \A q \in Party : LaneSound(q)'
      BY <2>12, <1>0, <3>4, KeepLane DEF CollectTrim, volatile
    <3>9. \A q \in Party : RunSound(q)'
      BY <1>0, <3>4, <3>7, KeepRun
    <3>10. CursorOrder'
      BY <2>12, <1>0 DEF CollectTrim, CursorOrder, store
    <3> QED
      BY <3>6, <3>8, <3>9, <3>10 DEF OrderInv
  <2>13. CASE PublishLoad(p)
    <3>1. Grows
      BY <2>13, <1>0, Counters DEF PublishLoad, Grows, store
    <3>2. /\ run' = [run EXCEPT ![p] = [RunIdle EXCEPT !.pc = "publish", !.val = myCol[p]]]
          /\ myCol' = myCol
      BY <2>13 DEF PublishLoad, Starts, store
    <3>3. run'[p] = [RunIdle EXCEPT !.pc = "publish", !.val = myCol[p]]
      BY <1>0, <3>2, TasksMoved
    <3>4. \A q \in Party : q # p => run'[q] = run[q]
      BY <1>0, <3>2, TasksMoved
    <3>5. myCol[p] <= myCol'[p]
      BY <1>0, <3>1, Counters DEF Grows
    <3>6. \A v :
            v = myCol[p] /\ run'[p] = [RunIdle EXCEPT !.pc = "publish", !.val = v] =>
              RunSound(p)'
      BY <3>5, PublishSound
    <3>7. RunSound(p)' /\ \A q \in Party : q # p => run'[q] = run[q]
      BY <3>3, <3>4, <3>6
    <3>8. \A q \in Party : InFlight(q)'
      BY <2>13, <1>0, <3>1, KeepInFlight DEF PublishLoad, store, network, history
    <3>9. \A q \in Party : LaneSound(q)'
      BY <2>13, <1>0, <3>1, KeepLane DEF PublishLoad, volatile
    <3>10. \A q \in Party : RunSound(q)'
      BY <1>0, <3>1, <3>7, KeepRun
    <3>11. CursorOrder'
      BY <2>13, <1>0 DEF PublishLoad, CursorOrder, store
    <3> QED
      BY <3>8, <3>9, <3>10, <3>11 DEF OrderInv
  <2>14. CASE PublishWrite(p)
    <3>1. WriteControl(p, run[p].val)
      BY <2>14 DEF PublishWrite
    <3>2. run[p].val <= myCol[p]
      BY <2>14, <1>0 DEF PublishWrite, RunSound
    <3>3. Grows
      BY <2>14, <1>0, Counters DEF PublishWrite, Grows, store
    <3>4. run[p].val <= myCol'[p]
      BY <2>14, <3>2 DEF PublishWrite, store
    <3>5. \A q \in Party : q # p => ctl'[q] = ctl[q] /\ pub'[q] = pub[q]
      BY <1>0, <3>1 DEF WriteControl, TypeOK, NetworkType, HistoryType
    <3>6. ctl'[p] = ctl[p] \/ ctl'[p] = run[p].val
      BY <1>0, <3>1 DEF WriteControl, TypeOK, NetworkType
    <3>7. \A d \in pub'[p] : d \in pub[p] \/ d = run[p].val
      BY <1>0, <3>1 DEF WriteControl, TypeOK, HistoryType
    <3>8. \A q \in Party : InFlight(q)'
      BY <2>14, <1>0, <3>3, <3>5, <3>6, <3>7, <3>4, KeepInFlight DEF PublishWrite, store
    <3>9. run'[p] = RunIdle \/ run'[p] = [run[p] EXCEPT !.pc = "published"]
      BY <2>14, <1>0, TasksMoved DEF PublishWrite, Ends
    <3>10. \A q \in Party : q # p => run'[q] = run[q]
      BY <2>14, <1>0, TasksMoved DEF PublishWrite, Ends
    <3>11. \A m \in run[p].todo : Bounded(p, m)'
      BY <1>0, <3>3, TaskParts, StaysBounded DEF RunSound
    <3>12. run'[p] = [run[p] EXCEPT !.pc = "published"] => RunSound(p)'
      BY <1>0, <3>4, <3>11, TaskParts DEF RunSound, RunType, Bounded
    <3>13. RunSound(p)' /\ \A q \in Party : q # p => run'[q] = run[q]
      BY <3>9, <3>10, <3>12, IdleSound
    <3>14. \A q \in Party : LaneSound(q)'
      BY <2>14, <1>0, <3>3, KeepLane DEF PublishWrite, volatile
    <3>15. \A q \in Party : RunSound(q)'
      BY <1>0, <3>3, <3>13, KeepRun
    <3>16. CursorOrder'
      BY <2>14, <1>0 DEF PublishWrite, CursorOrder, store
    <3> QED
      BY <3>8, <3>14, <3>15, <3>16 DEF OrderInv
  <2>15. CASE PublishRecord(p)
    <3>1. Grows
      BY <2>15, <1>0, Counters DEF PublishRecord, Grows, store
    <3>2. run[p].val <= myCol[p] /\ curPub[p] <= myCol[p] /\ myCol' = myCol
      BY <2>15, <1>0 DEF PublishRecord, RunSound, InFlight
    <3>3. \A q \in Party : q # p => curPub'[q] = curPub[q]
      BY <2>15, <1>0 DEF PublishRecord, TypeOK, StoreType
    <3>4. curPub'[p] \in {curPub[p], run[p].val}
      BY <2>15, <1>0 DEF PublishRecord, TypeOK, StoreType
    <3>5. \A q \in Party : InFlight(q)'
      BY <2>15, <1>0, <3>1, <3>2, <3>3, <3>4, KeepInFlight DEF PublishRecord, network, history
    <3>6. RunSound(p)' /\ \A q \in Party : q # p => run'[q] = run[q]
      BY <2>15, <1>0, IdleSound, TasksMoved DEF PublishRecord, Ends
    <3>7. \A q \in Party : LaneSound(q)'
      BY <2>15, <1>0, <3>1, KeepLane DEF PublishRecord, volatile
    <3>8. \A q \in Party : RunSound(q)'
      BY <1>0, <3>1, <3>6, KeepRun
    <3>9. CursorOrder'
      BY <2>15, <1>0 DEF PublishRecord, CursorOrder, store
    <3> QED
      BY <3>5, <3>7, <3>8, <3>9 DEF OrderInv
  <2>16. CASE CatchUp(p)
    <3>1. Grows
      BY <2>16, <1>0, Counters DEF CatchUp, Grows, store
    <3>2. ctl[Peer(p)] <= myCol[Peer(p)] /\ ctl[Peer(p)] \in Int /\ myCol' = myCol
      BY <2>16, <1>0, PeerType, Counters DEF CatchUp, InFlight, store
    <3>3. run' = [run EXCEPT ![p] = [RunIdle EXCEPT !.pc = "cursor", !.val = ctl[Peer(p)]]]
      BY <2>16 DEF CatchUp, Starts
    <3>4. run'[p] = [RunIdle EXCEPT !.pc = "cursor", !.val = ctl[Peer(p)]]
      BY <1>0, <3>3, TasksMoved
    <3>5. \A q \in Party : q # p => run'[q] = run[q]
      BY <1>0, <3>3, TasksMoved
    <3>6. \A v :
            v = ctl[Peer(p)] /\ run'[p] = [RunIdle EXCEPT !.pc = "cursor", !.val = v] =>
              RunSound(p)'
      BY <3>2, CursorSound
    <3>7. RunSound(p)' /\ \A q \in Party : q # p => run'[q] = run[q]
      BY <3>4, <3>5, <3>6
    <3>8. \A q \in Party : InFlight(q)'
      BY <2>16, <1>0, <3>1, KeepInFlight DEF CatchUp, store, network, history
    <3>9. \A q \in Party : LaneSound(q)'
      BY <2>16, <1>0, <3>1, KeepLane DEF CatchUp, volatile
    <3>10. \A q \in Party : RunSound(q)'
      BY <1>0, <3>1, <3>7, KeepRun
    <3>11. CursorOrder'
      BY <2>16, <1>0 DEF CatchUp, CursorOrder, store
    <3> QED
      BY <3>8, <3>9, <3>10, <3>11 DEF OrderInv
  <2>17. CASE TakePeerCursor(p)
    <3>1. TakesCursor(p, run[p].val)
      BY <2>17 DEF TakePeerCursor
    <3>2. run[p].val \in Nat /\ run[p].val <= myCol[Peer(p)]
      BY <2>17, <1>0, TaskParts DEF TakePeerCursor, RunSound
    <3>3. Grows
      BY <2>17, <1>0, Counters DEF TakePeerCursor, TakesCursor, Grows
    <3>4. CursorOrder'
      BY <1>0, <3>1, <3>2, TakesOrder
    <3>5. \A q \in Party : InFlight(q)'
      BY <2>17, <1>0, <3>3, KeepInFlight DEF TakePeerCursor, TakesCursor, network, history
    <3>6. \A q \in Party : LaneSound(q)'
      BY <2>17, <1>0, <3>3, KeepLane DEF TakePeerCursor, TakesCursor
    <3>7. RunSound(p)' /\ \A q \in Party : q # p => run'[q] = run[q]
      BY <2>17, <1>0, IdleSound, TasksMoved DEF TakePeerCursor, Ends
    <3>8. \A q \in Party : RunSound(q)'
      BY <1>0, <3>3, <3>7, KeepRun
    <3> QED
      BY <3>5, <3>6, <3>8, <3>4 DEF OrderInv
  <2>18. CASE ReportDelivery(p)
    <3>1. TrimOutbox(p, peerCol[p])
      BY <2>18 DEF ReportDelivery
    <3>2. \A q \in Party : q # p => outbox'[q] = outbox[q]
      BY <1>0, <3>1 DEF TrimOutbox, TypeOK, StoreType
    <3>3. \A i \in Slots : outbox'[p][i] = outbox[p][i] \/ outbox'[p][i] = Absent
      BY <1>0, <3>1 DEF TrimOutbox, Trimmed, TypeOK, StoreType
    <3>4. Grows
      BY <2>18, <1>0, Counters DEF ReportDelivery, Grows, store
    <3>5. \A i \in Slots : outbox'[p][i] = outbox[p][i] \/ outbox'[p][i].cursor <= myCol'[p]
      BY <3>3, CountersNext DEF Absent
    <3>6. \A q \in Party : InFlight(q)'
      BY <2>18, <1>0, <3>4, <3>2, <3>5, KeepInFlight DEF ReportDelivery, network, history
    <3>7. \A q \in Party : LaneSound(q)'
      BY <2>18, <1>0, <3>4, KeepLane DEF ReportDelivery, volatile
    <3>8. \A q \in Party : RunSound(q)'
      BY <2>18, <1>0, <3>4, KeepRun DEF ReportDelivery, volatile
    <3>9. CursorOrder'
      BY <2>18, <1>0 DEF ReportDelivery, CursorOrder, store
    <3> QED
      BY <3>6, <3>7, <3>8, <3>9 DEF OrderInv
  <2>19. CASE CloseControl(p)
    <3>1. WriteControl(p, myCol[p])
      BY <2>19 DEF CloseControl
    <3>2. myCol[p] <= myCol[p]
      BY <1>0, Counters
    <3>3. Grows
      BY <2>19, <1>0, Counters DEF CloseControl, Grows, store
    <3>4. myCol[p] <= myCol'[p]
      BY <2>19, <3>2 DEF CloseControl, store
    <3>5. \A q \in Party : q # p => ctl'[q] = ctl[q] /\ pub'[q] = pub[q]
      BY <1>0, <3>1 DEF WriteControl, TypeOK, NetworkType, HistoryType
    <3>6. ctl'[p] = ctl[p] \/ ctl'[p] = myCol[p]
      BY <1>0, <3>1 DEF WriteControl, TypeOK, NetworkType
    <3>7. \A d \in pub'[p] : d \in pub[p] \/ d = myCol[p]
      BY <1>0, <3>1 DEF WriteControl, TypeOK, HistoryType
    <3>8. \A q \in Party : InFlight(q)'
      BY <2>19, <1>0, <3>3, <3>5, <3>6, <3>7, <3>4, KeepInFlight DEF CloseControl, store
    <3>9. run'[p] = run[p] \/ run'[p] = [run[p] EXCEPT !.pc = "closing"]
      BY <2>19, <1>0, TasksMoved DEF CloseControl
    <3>10. \A q \in Party : q # p => run'[q] = run[q]
      BY <2>19, <1>0, TasksMoved DEF CloseControl
    <3>11. \A m \in run[p].todo : Bounded(p, m)'
      BY <1>0, <3>3, TaskParts, StaysBounded DEF RunSound
    <3>12. run'[p] = [run[p] EXCEPT !.pc = "closing"] => RunSound(p)'
      BY <1>0, <3>11, TaskParts DEF RunSound, RunType, Bounded
    <3>13. (run'[p] = run[p] \/ RunSound(p)') /\ \A q \in Party : q # p => run'[q] = run[q]
      BY <3>9, <3>10, <3>12
    <3>14. \A q \in Party : LaneSound(q)'
      BY <2>19, <1>0, <3>3, KeepLane DEF CloseControl, volatile
    <3>15. \A q \in Party : RunSound(q)'
      BY <1>0, <3>3, <3>13, KeepRun
    <3>16. CursorOrder'
      BY <2>19, <1>0 DEF CloseControl, CursorOrder, store
    <3> QED
      BY <3>8, <3>14, <3>15, <3>16 DEF OrderInv
  <2>20. CASE EraseChannel(p)
    <3>1. Grows
      BY <2>20, <1>0, Counters DEF EraseChannel, Erase, Grows, store
    <3>2. \/ run' = [run EXCEPT ![p] = RunIdle]
          \/ run' = [run EXCEPT ![p] = [RunIdle EXCEPT !.pc = "erased"]]
      BY <2>20 DEF EraseChannel, Erase, Ends
    <3>3. run'[p] = [RunIdle EXCEPT !.pc = "erased"] => RunSound(p)'
      BY Started DEF RunSound
    <3>4. RunSound(p)' /\ \A q \in Party : q # p => run'[q] = run[q]
      BY <1>0, <3>2, <3>3, IdleSound, TasksMoved
    <3>10. \A q \in Party : InFlight(q)'
      BY <2>20, <1>0, <3>1, KeepInFlight DEF EraseChannel, Erase, store
    <3>11. \A q \in Party : LaneSound(q)'
      BY <2>20, <1>0, <3>1, KeepLane DEF EraseChannel, Erase
    <3>12. CursorOrder'
      BY <2>20, <1>0 DEF EraseChannel, Erase, CursorOrder, store
    <3>13. \A q \in Party : RunSound(q)'
      BY <1>0, <3>1, <3>4, KeepRun
    <3> QED
      BY <3>10, <3>11, <3>13, <3>12 DEF OrderInv
  <2>21. CASE DropRecords(p)
    <3>1. Grows
      BY <2>21, <1>0, Counters DEF DropRecords, Grows, store
    <3>2. \A q \in Party : q # p => outbox'[q] = outbox[q]
      BY <2>21, <1>0 DEF DropRecords, TypeOK, StoreType
    <3>3. \A i \in Slots : outbox'[p][i] = Absent
      BY <2>21, <1>0 DEF DropRecords, Nothing, TypeOK, StoreType
    <3>4. \A i \in Slots : outbox'[p][i] = outbox[p][i] \/ outbox'[p][i].cursor <= myCol'[p]
      BY <3>3, CountersNext DEF Absent
    <3>5. \A q \in Party : InFlight(q)'
      BY <2>21, <1>0, <3>1, <3>2, <3>4, KeepInFlight DEF DropRecords, network, history
    <3>6. RunSound(p)' /\ \A q \in Party : q # p => run'[q] = run[q]
      BY <2>21, <1>0, IdleSound, TasksMoved DEF DropRecords, Ends
    <3>7. \A q \in Party : LaneSound(q)'
      BY <2>21, <1>0, <3>1, KeepLane DEF DropRecords, volatile
    <3>8. \A q \in Party : RunSound(q)'
      BY <1>0, <3>1, <3>6, KeepRun
    <3>9. CursorOrder'
      BY <2>21, <1>0 DEF DropRecords, CursorOrder, store
    <3> QED
      BY <3>5, <3>7, <3>8, <3>9 DEF OrderInv
  <2>22. CASE SendLoad(p)
    <3>1. Grows
      BY <2>22, <1>0, Counters DEF SendLoad, Grows, store
    <3>2. PICK att \in {0, 1} : lane' = [lane EXCEPT ![p] = SealTask(p, att)]
      BY <2>22, <1>0, SealStarts
    <3>3. sendSeq[p] < peerCol[p] + RingSlots /\ myCol' = myCol
      BY <2>22, <1>0, Counters, RingAssumption DEF SendLoad, HasRoom, store
    <3>4. lane'[p] = SealTask(p, att) => LaneSound(p)'
      BY <1>0, <3>3, Counters DEF SealTask, SealedMessage, LaneIdle, LaneSound, Record
    <3>5. LaneSound(p)' /\ \A q \in Party : q # p => lane'[q] = lane[q]
      BY <1>0, <3>2, <3>4, TasksMoved
    <3>6. \A q \in Party : InFlight(q)'
      BY <2>22, <1>0, <3>1, KeepInFlight DEF SendLoad, store, network, history
    <3>7. \A q \in Party : LaneSound(q)'
      BY <1>0, <3>1, <3>5, KeepLane
    <3>8. \A q \in Party : RunSound(q)'
      BY <2>22, <1>0, <3>1, KeepRun DEF SendLoad, volatile
    <3>9. CursorOrder'
      BY <2>22, <1>0 DEF SendLoad, CursorOrder, store
    <3> QED
      BY <3>6, <3>7, <3>8, <3>9 DEF OrderInv
  <2>23. CASE TakePush(p)
    <3>1. PICK m \in out[Peer(p)] :
                 /\ RecordMessage(p, m)
                 /\ m.seq = myCol[p]
                 /\ lane' = [lane EXCEPT ![p] = [LaneIdle EXCEPT !.pc = "trim",
                        !.through = Advanced(p, m.cursor)]]
      BY <2>23 DEF TakePush
    <3>2. /\ m \in Message
          /\ m.seq \in Nat
          /\ m.cursor \in Nat
          /\ m.seq < sendSeq[Peer(p)]
          /\ m.cursor <= myCol[Peer(p)]
      BY <1>0, <3>1, PeerType, Places, MessageType DEF InFlight, Bounded
    <3>3. Grows /\ CursorOrder'
      BY <2>23, <1>0, <3>1, <3>2, RecordOrder DEF TakePush
    <3>4. Grows
      BY <3>3
    <3>5. CursorOrder'
      BY <3>3
    <3>6. \A v : lane'[p] = [LaneIdle EXCEPT !.pc = "trim", !.through = v] => LaneSound(p)'
      BY DEF LaneIdle, LaneSound
    <3>7. lane'[p] = [LaneIdle EXCEPT !.pc = "trim", !.through = Advanced(p, m.cursor)]
      BY <1>0, <3>1, TasksMoved
    <3>8. \A q \in Party : q # p => lane'[q] = lane[q]
      BY <1>0, <3>1, TasksMoved
    <3>9. LaneSound(p)' /\ \A q \in Party : q # p => lane'[q] = lane[q]
      BY <3>7, <3>8, <3>6
    <3>10. \A q \in Party : InFlight(q)'
      BY <2>23, <1>0, <3>4, KeepInFlight DEF TakePush, network
    <3>11. \A q \in Party : LaneSound(q)'
      BY <1>0, <3>4, <3>9, KeepLane
    <3>12. \A q \in Party : RunSound(q)'
      BY <2>23, <1>0, <3>4, KeepRun DEF TakePush, volatile
    <3> QED
      BY <3>10, <3>11, <3>12, <3>5 DEF OrderInv
  <2>24. CASE HearCursor(p)
    <3>1. PICK c \in pub[Peer(p)] : TakesCursor(p, c)
      BY <2>24 DEF HearCursor
    <3>2. TakesCursor(p, c)
      BY <3>1
    <3>3. c \in Nat /\ c <= myCol[Peer(p)]
      BY <1>0, <3>1, PeerType, Counters DEF InFlight
    <3>4. Grows
      BY <2>24, <1>0, Counters DEF HearCursor, TakesCursor, Grows
    <3>5. CursorOrder'
      BY <1>0, <3>2, <3>3, TakesOrder
    <3>6. \A q \in Party : InFlight(q)'
      BY <2>24, <1>0, <3>4, KeepInFlight DEF HearCursor, TakesCursor, network, history
    <3>7. \A q \in Party : LaneSound(q)'
      BY <2>24, <1>0, <3>4, KeepLane DEF HearCursor, TakesCursor
    <3>8. \A q \in Party : RunSound(q)'
      BY <2>24, <1>0, <3>4, KeepRun DEF HearCursor
    <3> QED
      BY <3>6, <3>7, <3>8, <3>5 DEF OrderInv
  <2>25. CASE MarkDelete(p)
    <3>1. Grows
      BY <2>25, <1>0, Counters DEF MarkDelete, Grows, store
    <3>2. \A q \in Party : InFlight(q)'
      BY <2>25, <1>0, <3>1, KeepInFlight DEF MarkDelete, network, history
    <3>3. \A q \in Party : LaneSound(q)'
      BY <2>25, <1>0, <3>1, KeepLane DEF MarkDelete, volatile
    <3>4. \A q \in Party : RunSound(q)'
      BY <2>25, <1>0, <3>1, KeepRun DEF MarkDelete, volatile
    <3>5. CursorOrder'
      BY <2>25, <1>0 DEF MarkDelete, CursorOrder, store
    <3> QED
      BY <3>2, <3>3, <3>4, <3>5 DEF OrderInv
  <2>26. CASE RepublishControl(p)
    <3>1. WriteControl(p, curPub[p])
      BY <2>26 DEF RepublishControl
    <3>2. curPub[p] <= myCol[p]
      BY <1>0 DEF InFlight
    <3>3. Grows
      BY <2>26, <1>0, Counters DEF RepublishControl, Grows, store
    <3>4. curPub[p] <= myCol'[p]
      BY <2>26, <3>2 DEF RepublishControl, store
    <3>5. \A q \in Party : q # p => ctl'[q] = ctl[q] /\ pub'[q] = pub[q]
      BY <1>0, <3>1 DEF WriteControl, TypeOK, NetworkType, HistoryType
    <3>6. ctl'[p] = ctl[p] \/ ctl'[p] = curPub[p]
      BY <1>0, <3>1 DEF WriteControl, TypeOK, NetworkType
    <3>7. \A d \in pub'[p] : d \in pub[p] \/ d = curPub[p]
      BY <1>0, <3>1 DEF WriteControl, TypeOK, HistoryType
    <3>8. \A q \in Party : InFlight(q)'
      BY <2>26, <1>0, <3>3, <3>5, <3>6, <3>7, <3>4, KeepInFlight DEF RepublishControl, store
    <3>9. \A q \in Party : LaneSound(q)'
      BY <2>26, <1>0, <3>3, KeepLane DEF RepublishControl, volatile
    <3>10. \A q \in Party : RunSound(q)'
      BY <2>26, <1>0, <3>3, KeepRun DEF RepublishControl, volatile
    <3>11. CursorOrder'
      BY <2>26, <1>0 DEF RepublishControl, CursorOrder, store
    <3> QED
      BY <3>8, <3>9, <3>10, <3>11 DEF OrderInv
  <2>27. CASE Crash(p)
    <3>1. Grows
      BY <2>27, <1>0, Counters DEF Crash, Grows, store
    <3>2. LaneSound(p)' /\ \A q \in Party : q # p => lane'[q] = lane[q]
      BY <2>27, <1>0, IdleSound, TasksMoved DEF Crash
    <3>3. RunSound(p)' /\ \A q \in Party : q # p => run'[q] = run[q]
      BY <2>27, <1>0, IdleSound, TasksMoved DEF Crash, Ends
    <3>4. \A q \in Party : InFlight(q)'
      BY <2>27, <1>0, <3>1, KeepInFlight DEF Crash, store, network, history
    <3>5. \A q \in Party : LaneSound(q)'
      BY <1>0, <3>1, <3>2, KeepLane
    <3>6. \A q \in Party : RunSound(q)'
      BY <1>0, <3>1, <3>3, KeepRun
    <3>7. CursorOrder'
      BY <2>27, <1>0 DEF Crash, CursorOrder, store
    <3> QED
      BY <3>4, <3>5, <3>6, <3>7 DEF OrderInv
  <2>28. CASE EvictSlot(p)
    <3>1. Grows
      BY <2>28, <1>0, Counters DEF EvictSlot, Grows, store
    <3>2. \A q \in Party : q # p => ring'[q] = ring[q]
      BY <2>28, <1>0 DEF EvictSlot, TypeOK, NetworkType
    <3>3. \A i \in Slots : ring'[p][i] = ring[p][i] \/ ring'[p][i] \in {Absent} \cup out[p]
      BY <2>28, <1>0 DEF EvictSlot, TypeOK, NetworkType
    <3>4. \A m \in {Absent} \cup out[p] : Bounded(p, m)'
      BY <1>0, <3>1, AbsentBounded, StaysBounded, Places, MessageType DEF InFlight
    <3>5. \A i \in Slots : ring'[p][i] = ring[p][i] \/ Bounded(p, ring[p][i])'
      BY <3>3, <3>4 DEF Bounded
    <3>6. \A q \in Party : InFlight(q)'
      BY <2>28, <1>0, <3>1, <3>2, <3>5, KeepInFlight DEF EvictSlot, store
    <3>7. \A q \in Party : LaneSound(q)'
      BY <2>28, <1>0, <3>1, KeepLane DEF EvictSlot, volatile
    <3>8. \A q \in Party : RunSound(q)'
      BY <2>28, <1>0, <3>1, KeepRun DEF EvictSlot, volatile
    <3>9. CursorOrder'
      BY <2>28, <1>0 DEF EvictSlot, CursorOrder, store
    <3> QED
      BY <3>6, <3>7, <3>8, <3>9 DEF OrderInv
  <2>29. CASE EvictControl(p)
    <3>1. Grows
      BY <2>29, <1>0, Counters DEF EvictControl, Grows, store
    <3>2. \A q \in Party : q # p => ctl'[q] = ctl[q]
      BY <2>29, <1>0 DEF EvictControl, TypeOK, NetworkType
    <3>3. ctl'[p] \in {NoCursor} \cup pub[p]
      BY <2>29, <1>0 DEF EvictControl, TypeOK, NetworkType
    <3>4. ctl'[p] <= myCol'[p]
      BY <2>29, <1>0, <3>3, Counters DEF EvictControl, InFlight, NoCursor, store
    <3>5. \A q \in Party : InFlight(q)'
      BY <2>29, <1>0, <3>1, <3>2, <3>4, KeepInFlight DEF EvictControl, store
    <3>6. \A q \in Party : LaneSound(q)'
      BY <2>29, <1>0, <3>1, KeepLane DEF EvictControl, volatile
    <3>7. \A q \in Party : RunSound(q)'
      BY <2>29, <1>0, <3>1, KeepRun DEF EvictControl, volatile
    <3>8. CursorOrder'
      BY <2>29, <1>0 DEF EvictControl, CursorOrder, store
    <3> QED
      BY <3>5, <3>6, <3>7, <3>8 DEF OrderInv
  <2>30. CASE Fade(p)
    <3>1. Grows
      BY <2>30, <1>0, Counters DEF Fade, Grows, store
    <3>2. \A q \in Party : q # p => ring'[q] = ring[q] /\ ctl'[q] = ctl[q]
      BY <2>30, <1>0 DEF Fade, TypeOK, NetworkType
    <3>3. ctl'[p] = NoCursor /\ \A i \in Slots : ring'[p][i] = Absent
      BY <2>30, <1>0 DEF Fade, TypeOK, NetworkType, Nothing
    <3>4. \A m : m = Absent => Bounded(p, m)'
      BY <1>0, CountersNext DEF Bounded, Absent
    <3>5. \A i \in Slots : Bounded(p, ring[p][i])'
      BY <3>3, <3>4 DEF Bounded
    <3>6. ctl'[p] <= myCol'[p]
      BY <1>0, <3>3, CountersNext DEF NoCursor
    <3>7. \A q \in Party : InFlight(q)'
      BY <2>30, <1>0, <3>1, <3>2, <3>5, <3>6, KeepInFlight DEF Fade, store, history
    <3>8. \A q \in Party : LaneSound(q)'
      BY <2>30, <1>0, <3>1, KeepLane DEF Fade, volatile
    <3>9. \A q \in Party : RunSound(q)'
      BY <2>30, <1>0, <3>1, KeepRun DEF Fade, volatile
    <3>10. CursorOrder'
      BY <2>30, <1>0 DEF Fade, CursorOrder, store
    <3> QED
      BY <3>7, <3>8, <3>9, <3>10 DEF OrderInv
  <2> QED
    BY <1>2, <2>1, <2>2, <2>3, <2>4, <2>5, <2>6, <2>7, <2>8, <2>9, <2>10, <2>11, <2>12, <2>13,
       <2>14, <2>15, <2>16, <2>17, <2>18, <2>19, <2>20, <2>21, <2>22, <2>23, <2>24, <2>25,
       <2>26, <2>27, <2>28, <2>29, <2>30 DEF Lane, Runner, Chance
<1> QED
  BY <1>1, <1>2 DEF Next

(* The conversation at rest. *)
LEMMA OrderInit == Init => OrderInv
<1> SUFFICES ASSUME Init PROVE OrderInv
  OBVIOUS
<1>1. CursorOrder
  BY PeerType, RingAssumption DEF Init, ForBoth, CursorOrder
<1>2. ASSUME NEW p \in Party PROVE InFlight(p)
  BY <1>2 DEF Init, ForBoth, InFlight, Bounded, First, OnlyFirst, Nothing, Absent
<1>3. ASSUME NEW p \in Party PROVE LaneSound(p) /\ RunSound(p)
  BY <1>3 DEF Init, ForBoth, LaneSound, RunSound, LaneIdle, RunIdle
<1> QED
  BY <1>1, <1>2, <1>3 DEF OrderInv

(* What a sender counts as collected was recorded, what a reader recorded  *)
(* was committed, and never more than a ring is outstanding, so that no    *)
(* slot is reused before its message is recorded: reserve, collect_step,   *)
(* take_message and advance_peer_collected keep this together, whichever   *)
(* cursor arrives late and whatever is lost.                               *)
THEOREM CursorsOrdered == Spec => []CursorOrder
<1>1. Spec => [](TypeOK /\ TaskType)
  BY TasksTyped
<1>2. Init => OrderInv
  BY OrderInit
<1>3. (TypeOK /\ TaskType) /\ (TypeOK /\ TaskType)' /\ OrderInv /\ [Next]_vars => OrderInv'
  BY OrderStep
<1>4. OrderInv => CursorOrder
  BY DEF OrderInv
<1> QED
  BY <1>1, <1>2, <1>3, <1>4, PTL DEF Spec

-----------------------------------------------------------------------------
(* Content.                                                                *)

(* m is the message p committed at its sequence. *)
Was(p, m) == m \in Message /\ m.seq < sendSeq[p] /\ log[p][m.seq + 1] = m

(* The sequence numbers the messages p committed, from 0 and without gaps. *)
LogSound(p) ==
  /\ Len(log[p]) = sendSeq[p]
  /\ \A i \in 1 .. sendSeq[p] : log[p][i].seq = i - 1

(* What left p was committed. *)
NetSound(p) ==
  /\ \A m \in out[p] : Was(p, m)
  /\ \A i \in Slots : ring[p][i] = Absent \/ Was(p, ring[p][i])

(* An entry at position i is committed, or the next one to be. *)
Entry(p, i, m) ==
  \/ m = Absent
  \/ /\ m \in Message /\ SlotFor(m.seq) = i /\ m.seq <= sendSeq[p]
     /\ m.seq < sendSeq[p] => Was(p, m)

BoxSound(p) == \A i \in Slots : Entry(p, i, outbox[p][i])

(* What the correspondent is not known to have is kept. *)
Keeps(p) ==
  life[p] # "gone" =>
    \A s \in peerCol[p] .. sendSeq[p] - 1 : outbox[p][SlotFor(s)] = log[p][s + 1]

(* The lane commits what it stored, and trims what was collected. *)
LaneContent(p) ==
  /\ lane[p].pc \in {"sealed", "stored"} =>
       lane[p].msg.seq = sendSeq[p] /\ lane[p].msg.seq < MaxSend[p]
  /\ lane[p].pc = "stored" /\ life[p] # "gone" =>
       outbox[p][SlotFor(lane[p].msg.seq)] = lane[p].msg
  /\ lane[p].pc = "trim" => lane[p].through <= peerCol[p]

(* The runner writes and records what was committed, and trims what was    *)
(* collected.                                                              *)
RunContent(p) ==
  /\ \A m \in run[p].todo : Was(p, m)
  /\ run[p].pc = "write" => Was(p, run[p].msg)
  /\ run[p].pc = "collect" => Was(Peer(p), run[p].msg)
  /\ run[p].pc = "trim" => run[p].val <= peerCol[p]

(* p recorded what its correspondent committed, in order. *)
RecvSound(p) ==
  /\ Len(recv[p]) = myCol[p]
  /\ \A i \in 1 .. myCol[p] : recv[p][i] = log[Peer(p)][i]

SendBound(p) == sendSeq[p] <= 1 \/ sendSeq[p] <= MaxSend[p]

Content(p) ==
  /\ LogSound(p) /\ NetSound(p) /\ BoxSound(p) /\ Keeps(p)
  /\ LaneContent(p) /\ RunContent(p) /\ RecvSound(p) /\ SendBound(p)

ContentInv == \A p \in Party : Content(p)

-----------------------------------------------------------------------------
(* Frames: what a step that leaves a part alone keeps of it.               *)

(* A log only grows. *)
LogGrows ==
  \A q \in Party : /\ sendSeq'[q] >= sendSeq[q]
                   /\ \A i \in 1 .. sendSeq[q] : log'[q][i] = log[q][i]

(* A step that commits nothing lets it grow by nothing. *)
LEMMA SameLogGrows ==
  ASSUME TypeOK, sendSeq' = sendSeq, log' = log PROVE LogGrows
  BY Counters DEF LogGrows

(* What was committed stays committed. *)
LEMMA WasStays ==
  ASSUME TypeOK, TypeOK', LogGrows, NEW p \in Party, NEW m, Was(p, m)
  PROVE  Was(p, m)'
<1>1. m.seq \in Nat /\ m.seq < sendSeq[p]
  BY MessageType DEF Was
<1>2. m.seq + 1 \in 1 .. sendSeq[p]
  BY <1>1, Counters
<1>3. sendSeq'[p] >= sendSeq[p] /\ log'[p][m.seq + 1] = log[p][m.seq + 1]
  BY <1>2 DEF LogGrows
<1> QED
  BY <1>1, <1>3, Counters, CountersNext DEF Was

(* A step that leaves p's channel alone keeps what left p. *)
LEMMA NetStays ==
  ASSUME TypeOK, TypeOK', LogGrows, NEW p \in Party, NetSound(p),
         out'[p] = out[p], ring'[p] = ring[p]
  PROVE  NetSound(p)'
  BY WasStays DEF NetSound

(* What p added to its channel was committed. *)
LEMMA NetAdds ==
  ASSUME TypeOK, TypeOK', LogGrows, NEW p \in Party, NetSound(p),
         \A m \in out'[p] : m \in out[p] \/ Was(p, m)',
         \A i \in Slots : ring'[p][i] \in {ring[p][i], Absent} \/ Was(p, ring[p][i])'
  PROVE  NetSound(p)'
  BY WasStays DEF NetSound, Was

(* A step that leaves p's runner alone keeps what it holds. *)
LEMMA RunStays ==
  ASSUME TypeOK, TypeOK', LogGrows, NEW p \in Party, RunContent(p),
         peerCol'[p] >= peerCol[p], run'[p] = run[p]
  PROVE  RunContent(p)'
<1>1. \A m : Was(p, m) => Was(p, m)'
  BY WasStays
<1>2. \A m : Was(Peer(p), m) => Was(Peer(p), m)'
  BY WasStays, PeerType
<1>3. run[p].val \in Nat /\ peerCol[p] \in Nat /\ peerCol'[p] \in Nat
  BY TaskParts, Counters, CountersNext
<1>4. (\A m \in run[p].todo : Was(p, m)) => \A m \in run'[p].todo : Was(p, m)'
  BY <1>1
<1>5. (run[p].pc = "write" => Was(p, run[p].msg))
        => (run'[p].pc = "write" => Was(p, run[p].msg)')
  BY <1>1 DEF Was
<1>6. (run[p].pc = "collect" => Was(Peer(p), run[p].msg))
        => (run'[p].pc = "collect" => Was(Peer(p), run[p].msg)')
  BY <1>2 DEF Was, Peer
<1>7. run'[p].pc = "trim" => run'[p].val <= peerCol'[p]
  BY <1>3 DEF RunContent
<1> QED
  BY <1>4, <1>5, <1>6, <1>7 DEF RunContent

(* A step that records nothing at p keeps what p recorded. *)
LEMMA RecvStays ==
  ASSUME TypeOK, TypeOK', CursorOrder, LogGrows, NEW p \in Party, RecvSound(p),
         recv'[p] = recv[p], myCol'[p] = myCol[p]
  PROVE  RecvSound(p)'
<1>1. myCol[p] <= sendSeq[Peer(p)] /\ myCol[p] \in Nat /\ sendSeq[Peer(p)] \in Nat
  BY PeerType, Counters DEF CursorOrder
<1>2. \A i \in 1 .. myCol[p] : i \in 1 .. sendSeq[Peer(p)]
  BY <1>1
<1>3. \A i \in 1 .. myCol[p] : log'[Peer(p)][i] = log[Peer(p)][i]
  BY <1>2, PeerType DEF LogGrows
<1> QED
  BY <1>3 DEF RecvSound, Peer

(* A step that leaves p's outbox alone keeps it. *)
LEMMA BoxStays ==
  ASSUME sendSeq' = sendSeq, log' = log, NEW p \in Party, BoxSound(p), outbox'[p] = outbox[p]
  PROVE  BoxSound(p)'
  BY DEF BoxSound, Entry, Was

(* What is owed stays kept while the cursor only grows. *)
LEMMA KeepsStays ==
  ASSUME TypeOK, TypeOK', sendSeq' = sendSeq, log' = log, NEW p \in Party, Keeps(p),
         outbox'[p] = outbox[p], peerCol'[p] >= peerCol[p],
         life'[p] # "gone" => life[p] # "gone"
  PROVE  Keeps(p)'
<1>1. peerCol[p] \in Nat /\ peerCol'[p] \in Nat /\ sendSeq[p] \in Nat
  BY Counters, CountersNext
<1>2. \A s \in peerCol'[p] .. sendSeq[p] - 1 : s \in peerCol[p] .. sendSeq[p] - 1
  BY <1>1
<1> QED
  BY <1>2 DEF Keeps

(* What the lane holds stays sound beside a cursor that only grows. *)
LEMMA LaneStays ==
  ASSUME TypeOK, TypeOK', sendSeq' = sendSeq, NEW p \in Party, LaneContent(p),
         outbox'[p] = outbox[p], lane'[p] = lane[p], peerCol'[p] >= peerCol[p],
         life'[p] # "gone" => life[p] # "gone"
  PROVE  LaneContent(p)'
<1>1. peerCol[p] \in Nat /\ peerCol'[p] \in Nat /\ lane[p].through \in Nat
  BY Counters, CountersNext, TaskParts, LaneFields
<1> QED
  BY <1>1 DEF LaneContent

(* What a step by p that commits nothing has to keep. *)
LEMMA KeepContent ==
  ASSUME TypeOK, TypeOK', CursorOrder, ContentInv, sendSeq' = sendSeq, log' = log,
         NEW p \in Party,
         \A q \in Party : q # p => /\ out'[q] = out[q] /\ ring'[q] = ring[q]
                                  /\ outbox'[q] = outbox[q] /\ life'[q] = life[q]
                                  /\ lane'[q] = lane[q] /\ run'[q] = run[q]
                                  /\ recv'[q] = recv[q] /\ myCol'[q] = myCol[q]
                                  /\ peerCol'[q] = peerCol[q],
         NetSound(p)', BoxSound(p)', Keeps(p)', LaneContent(p)', RunContent(p)', RecvSound(p)'
  PROVE  ContentInv'
<1>1. LogGrows
  BY SameLogGrows
<1>2. \A q \in Party : LogSound(q)' /\ SendBound(q)'
  BY DEF ContentInv, Content, LogSound, SendBound
<1>3. ASSUME NEW q \in Party, q # p PROVE Content(q)'
  <2>1. Content(q) /\ peerCol[q] \in Nat
    BY Counters DEF ContentInv
  <2>2. NetSound(q)'
    BY <1>1, <1>3, <2>1, NetStays DEF Content
  <2>3. BoxSound(q)'
    BY <1>3, <2>1, BoxStays DEF Content
  <2>4. Keeps(q)'
    BY <1>3, <2>1, KeepsStays DEF Content
  <2>5. LaneContent(q)'
    BY <1>3, <2>1, LaneStays DEF Content
  <2>6. RunContent(q)'
    BY <1>1, <1>3, <2>1, RunStays DEF Content
  <2>7. RecvSound(q)'
    BY <1>1, <1>3, <2>1, RecvStays DEF Content
  <2> QED
    BY <1>2, <2>2, <2>3, <2>4, <2>5, <2>6, <2>7 DEF Content
<1> QED
  BY <1>2, <1>3 DEF ContentInv, Content

(* A step of the runner or the network that leaves the store to the lane. *)
LEMMA KeepStore ==
  ASSUME TypeOK, TypeOK', CursorOrder, ContentInv, NEW p \in Party,
         UNCHANGED <<sendSeq, log, outbox, lane, recv, myCol, peerCol, life>>,
         \A q \in Party : q # p => out'[q] = out[q] /\ ring'[q] = ring[q] /\ run'[q] = run[q],
         NetSound(p)', run'[p] = run[p] \/ RunContent(p)'
  PROVE  ContentInv'
<1>1. LogGrows /\ peerCol'[p] >= peerCol[p]
  BY SameLogGrows, Counters
<1>2. Content(p)
  BY DEF ContentInv
<1>3. BoxSound(p)' /\ Keeps(p)' /\ LaneContent(p)'
  BY <1>1, <1>2, BoxStays, KeepsStays, LaneStays DEF Content
<1>4. RecvSound(p)'
  BY <1>1, <1>2, RecvStays DEF Content
<1>5. RunContent(p)'
  BY <1>1, <1>2, RunStays DEF Content
<1> QED
  BY <1>3, <1>4, <1>5, KeepContent

(* A step that writes to no channel. *)
LEMMA KeepNet ==
  ASSUME TypeOK, TypeOK', sendSeq' = sendSeq, log' = log, ContentInv, NEW p \in Party,
         out' = out, ring' = ring
  PROVE  NetSound(p)'
  BY SameLogGrows, NetStays DEF ContentInv, Content

(* delete_outbox_through, given a cursor the correspondent has reached,    *)
(* deletes nothing that is still owed.                                     *)
LEMMA TrimKeeps ==
  ASSUME TypeOK, NEW p \in Party, NEW c \in Nat, c <= peerCol[p], TrimOutbox(p, c)
  PROVE  /\ \A q \in Party : q # p => outbox'[q] = outbox[q]
         /\ \A i \in Slots : outbox'[p][i] = outbox[p][i] \/ outbox'[p][i] = Absent
         /\ \A i \in Slots : outbox[p][i].seq >= peerCol[p] => outbox'[p][i] = outbox[p][i]
<1>1. outbox \in [Party -> [Slots -> OptMessage]]
  BY DEF TypeOK, StoreType
<1>2. outbox' = outbox \/ outbox' = [outbox EXCEPT ![p] = Trimmed(outbox[p], c)]
  BY DEF TrimOutbox
<1>3. \A q \in Party : q # p => outbox'[q] = outbox[q]
  BY <1>1, <1>2
<1>4. outbox'[p] = outbox[p] \/ outbox'[p] = Trimmed(outbox[p], c)
  BY <1>1, <1>2
<1>5. ASSUME NEW i \in Slots
      PROVE  /\ outbox'[p][i] = outbox[p][i] \/ outbox'[p][i] = Absent
             /\ outbox[p][i].seq >= peerCol[p] => outbox'[p][i] = outbox[p][i]
  <2>1. outbox[p][i].seq \in Int /\ peerCol[p] \in Nat
    BY <1>1, MessageType, Counters
  <2> QED
    BY <1>4, <2>1 DEF Trimmed, Collected
<1> QED
  BY <1>3, <1>5

(* The three steps that trim: the lane's, the runner's and the report.     *)
LEMMA KeepTrim ==
  ASSUME TypeOK, TypeOK', CursorOrder, ContentInv, NEW p \in Party, NEW c \in Nat,
         c <= peerCol[p], TrimOutbox(p, c),
         UNCHANGED <<sendSeq, log, recv, myCol, peerCol, life, out, ring>>,
         \A q \in Party : q # p => lane'[q] = lane[q] /\ run'[q] = run[q],
         lane'[p] \in {lane[p], LaneIdle}, run'[p] = run[p] \/ RunContent(p)'
  PROVE  ContentInv'
<1>1. LogGrows /\ peerCol'[p] >= peerCol[p] /\ peerCol[p] \in Nat /\ sendSeq[p] \in Nat
  BY SameLogGrows, Counters
<1>2. Content(p)
  BY DEF ContentInv
<1>3. \A q \in Party : q # p => outbox'[q] = outbox[q]
  BY TrimKeeps
<1>9. \A i \in Slots : outbox'[p][i] = outbox[p][i] \/ outbox'[p][i] = Absent
  BY TrimKeeps
<1>10. \A i \in Slots : outbox[p][i].seq >= peerCol[p] => outbox'[p][i] = outbox[p][i]
  BY TrimKeeps
<1>4. NetSound(p)'
  BY <1>1, <1>2, NetStays DEF Content
<1>5. BoxSound(p)'
  <2> SUFFICES ASSUME NEW i \in Slots PROVE Entry(p, i, outbox[p][i])'
    BY DEF BoxSound
  <2>1. Entry(p, i, outbox[p][i])
    BY <1>2 DEF Content, BoxSound
  <2>2. CASE outbox'[p][i] = outbox[p][i]
    BY <2>1, <2>2 DEF Entry, Was
  <2>3. CASE outbox'[p][i] = Absent
    BY <2>3 DEF Entry
  <2> QED
    BY <1>9, <2>2, <2>3
<1>6. Keeps(p)'
  <2> SUFFICES ASSUME life[p] # "gone", NEW s \in peerCol[p] .. sendSeq[p] - 1
               PROVE  outbox'[p][SlotFor(s)] = log[p][s + 1]
    BY DEF Keeps
  <2>1. outbox[p][SlotFor(s)] = log[p][s + 1]
    BY <1>2 DEF Content, Keeps
  <2>2. s + 1 \in 1 .. sendSeq[p] /\ s \in Nat /\ s >= peerCol[p]
    BY <1>1
  <2>3. log[p][s + 1].seq = s
    BY <1>1, <1>2, <2>2 DEF Content, LogSound
  <2>4. SlotFor(s) \in Slots
    BY <2>2, SlotForType
  <2>5. outbox[p][SlotFor(s)].seq >= peerCol[p]
    BY <2>1, <2>2, <2>3
  <2> QED
    BY <1>10, <2>1, <2>4, <2>5
<1>7. LaneContent(p)'
  <2>1. CASE lane'[p] = LaneIdle
    BY <2>1, IdleType DEF LaneContent
  <2>2. CASE lane'[p] = lane[p]
    <3>1. lane[p].pc = "stored" /\ life[p] # "gone" =>
            /\ lane[p].msg.seq = sendSeq[p]
            /\ outbox[p][SlotFor(lane[p].msg.seq)] = lane[p].msg
      BY <1>2 DEF Content, LaneContent
    <3>2. sendSeq[p] >= peerCol[p]
      BY <1>1, PeerType, Counters DEF CursorOrder
    <3>3. lane[p].pc = "stored" /\ life[p] # "gone" =>
            outbox'[p][SlotFor(lane[p].msg.seq)] = lane[p].msg
      <4> SUFFICES ASSUME lane[p].pc = "stored", life[p] # "gone"
                   PROVE  outbox'[p][SlotFor(lane[p].msg.seq)] = lane[p].msg
        OBVIOUS
      <4>1. SlotFor(lane[p].msg.seq) \in Slots
        BY <1>1, <3>1, SlotForType
      <4>2. outbox[p][SlotFor(lane[p].msg.seq)].seq >= peerCol[p]
        BY <3>1, <3>2
      <4> QED
        BY <1>10, <3>1, <4>1, <4>2
    <3> QED
      BY <1>2, <2>2, <3>3 DEF Content, LaneContent
  <2> QED
    BY <2>1, <2>2
<1>8. RunContent(p)' /\ RecvSound(p)'
  BY <1>1, <1>2, RunStays, RecvStays DEF Content
<1> QED
  BY <1>3, <1>4, <1>5, <1>6, <1>7, <1>8, KeepContent

(* collect_step and take_message: a message recorded at the cursor is the  *)
(* next one its sender committed.                                          *)
LEMMA KeepRecord ==
  ASSUME TypeOK, TypeOK', CursorOrder, ContentInv, NEW p \in Party, NEW m,
         Was(Peer(p), m), m.seq = myCol[p], RecordMessage(p, m),
         UNCHANGED <<sendSeq, log, outbox, life, out, ring>>,
         \A q \in Party : q # p => lane'[q] = lane[q] /\ run'[q] = run[q],
         lane'[p] = lane[p] \/ LaneContent(p)', run'[p] = run[p] \/ RunContent(p)'
  PROVE  ContentInv'
<1>1. Content(p) /\ LogGrows
  BY SameLogGrows DEF ContentInv
<1>2. /\ m \in Message /\ m.cursor \in Nat /\ m.seq \in Nat
      /\ myCol[p] \in Nat /\ peerCol[p] \in Nat /\ sendSeq[p] \in Nat
  BY MessageType, Counters DEF Was
<1>3. /\ \A q \in Party : q # p => /\ myCol'[q] = myCol[q] /\ peerCol'[q] = peerCol[q]
                                  /\ recv'[q] = recv[q]
      /\ myCol'[p] = myCol[p] + 1 /\ peerCol'[p] = Advanced(p, m.cursor)
      /\ recv'[p] = Append(recv[p], m)
  BY DEF RecordMessage, TypeOK, StoreType, HistoryType
<1>4. peerCol'[p] >= peerCol[p]
  BY <1>2, <1>3 DEF Advanced
<1>5. NetSound(p)' /\ BoxSound(p)'
  BY <1>1, NetStays, BoxStays DEF Content
<1>6. Keeps(p)' /\ LaneContent(p)'
  BY <1>1, <1>4, KeepsStays, LaneStays DEF Content
<1>7. RunContent(p)'
  BY <1>1, <1>4, RunStays DEF Content
<1>8. RecvSound(p)'
  <2>1. recv[p] \in Seq(Message) /\ Len(recv[p]) = myCol[p]
    BY <1>1 DEF Content, RecvSound, TypeOK, HistoryType
  <2>2. Len(recv'[p]) = myCol'[p]
    BY <1>2, <1>3, <2>1
  <2>3. ASSUME NEW i \in 1 .. myCol'[p] PROVE recv'[p][i] = log[Peer(p)][i]
    <3>1. CASE i = myCol[p] + 1
      <4>1. recv'[p][i] = m
        BY <1>2, <1>3, <2>1, <3>1
      <4>2. log[Peer(p)][m.seq + 1] = m
        BY DEF Was
      <4>3. m.seq + 1 = i
        BY <1>2, <3>1
      <4> QED
        BY <4>1, <4>2, <4>3
    <3>2. CASE i \in 1 .. myCol[p]
      <4>1. recv'[p][i] = recv[p][i]
        BY <1>3, <2>1, <3>2
      <4> QED
        BY <1>1, <3>2, <4>1 DEF Content, RecvSound
    <3>3. i = myCol[p] + 1 \/ i \in 1 .. myCol[p]
      BY <1>2, <1>3
    <3> QED
      BY <3>1, <3>2, <3>3
  <2> QED
    BY <2>2, <2>3 DEF RecvSound, Peer
<1> QED
  BY <1>3, <1>5, <1>6, <1>7, <1>8, KeepContent

(* A cursor learnt moves the count of what was collected, and nothing else. *)
LEMMA KeepCursor ==
  ASSUME TypeOK, TypeOK', CursorOrder, ContentInv, NEW p \in Party, NEW c \in Nat,
         TakesCursor(p, c), \A q \in Party : q # p => run'[q] = run[q],
         run'[p] = run[p] \/ RunContent(p)'
  PROVE  ContentInv'
<1>1. Content(p) /\ LogGrows
  BY SameLogGrows DEF ContentInv, TakesCursor, history
<1>2. peerCol[p] \in Nat /\ sendSeq[p] \in Nat
  BY Counters
<1>3. /\ \A q \in Party : q # p => peerCol'[q] = peerCol[q]
      /\ peerCol'[p] \in {peerCol[p], Advanced(p, c)}
  BY DEF TakesCursor, TypeOK, StoreType
<1>4. peerCol'[p] >= peerCol[p]
  BY <1>2, <1>3 DEF Advanced
<1>5. UNCHANGED <<sendSeq, log, outbox, life, lane, out, ring, myCol, recv>>
  BY DEF TakesCursor, network, history
<1>6. NetSound(p)' /\ BoxSound(p)'
  BY <1>1, <1>5, NetStays, BoxStays DEF Content
<1>7. Keeps(p)' /\ LaneContent(p)'
  BY <1>1, <1>4, <1>5, KeepsStays, LaneStays DEF Content
<1>8. RunContent(p)' /\ RecvSound(p)'
  BY <1>1, <1>4, <1>5, RunStays, RecvStays DEF Content
<1> QED
  BY <1>3, <1>5, <1>6, <1>7, <1>8, KeepContent

(* commit_message's commit: the stored entry becomes the committed one.    *)
LEMMA KeepCommit ==
  ASSUME TypeOK, TypeOK', TaskType, CursorOrder, ContentInv, NEW p \in Party,
         SendCommit(p), life[p] = "live", lane[p].loaded = Record(p),
         NEW m, m = lane[p].msg
  PROVE  ContentInv'
<1>1. Content(p) /\ lane[p].pc = "stored" /\ lane[p].pc \in {"sealed", "stored"}
  BY DEF ContentInv, SendCommit
<1>2. /\ m \in Message /\ m.seq = sendSeq[p] /\ m.seq < MaxSend[p]
      /\ outbox[p][SlotFor(m.seq)] = m
  BY <1>1 DEF Content, LaneContent, TaskType, LaneTyped
<1>3. /\ sendSeq[p] \in Nat /\ peerCol[p] \in Nat /\ MaxSend[p] \in Nat
      /\ log[p] \in Seq(Message) /\ Len(log[p]) = sendSeq[p]
  BY <1>1, Counters, BoundAssumption DEF Content, LogSound, TypeOK, HistoryType
<1>4. /\ sendSeq'[p] = sendSeq[p] + 1 /\ log'[p] = Append(log[p], m)
      /\ out'[p] = out[p] \cup {m} /\ lane'[p] = LaneIdle
      /\ \A q \in Party : q # p => /\ sendSeq'[q] = sendSeq[q] /\ log'[q] = log[q]
                                  /\ out'[q] = out[q] /\ lane'[q] = lane[q]
  <2>1. /\ sendSeq' = [sendSeq EXCEPT ![p] = sendSeq[p] + 1]
        /\ log' = [log EXCEPT ![p] = Append(log[p], m)]
        /\ out' = [out EXCEPT ![p] = out[p] \cup {m}]
        /\ lane' = [lane EXCEPT ![p] = LaneIdle]
    BY DEF SendCommit
  <2>2. lane'[p] = LaneIdle /\ \A q \in Party : q # p => lane'[q] = lane[q]
    BY <2>1, TasksMoved
  <2>3. /\ sendSeq'[p] = sendSeq[p] + 1
        /\ \A q \in Party : q # p => sendSeq'[q] = sendSeq[q]
    BY <2>1 DEF TypeOK, StoreType
  <2>4. log'[p] = Append(log[p], m) /\ \A q \in Party : q # p => log'[q] = log[q]
    BY <2>1 DEF TypeOK, HistoryType
  <2>5. out'[p] = out[p] \cup {m} /\ \A q \in Party : q # p => out'[q] = out[q]
    BY <2>1 DEF TypeOK, HistoryType
  <2> QED
    BY <2>2, <2>3, <2>4, <2>5
<1>5. UNCHANGED <<peerCol, myCol, life, outbox, ring, run, recv>>
  BY DEF SendCommit, network
<1>6. \A i \in 1 .. sendSeq[p] : log'[p][i] = log[p][i]
  BY <1>3, <1>4
<1>7. log'[p][sendSeq[p] + 1] = m /\ Len(log'[p]) = sendSeq[p] + 1
  BY <1>3, <1>4
<1>8. LogGrows
  <2>1. ASSUME NEW q \in Party
        PROVE  /\ sendSeq'[q] >= sendSeq[q]
               /\ \A i \in 1 .. sendSeq[q] : log'[q][i] = log[q][i]
    <3>1. CASE q = p
      <4>1. sendSeq'[p] >= sendSeq[p]
        BY <1>4, Counters
      <4> QED
        BY <1>6, <3>1, <4>1
    <3>2. CASE q # p
      <4>1. sendSeq'[q] = sendSeq[q] /\ log'[q] = log[q] /\ sendSeq[q] \in Nat
        BY <1>4, <3>2, Counters
      <4> QED
        BY <4>1
    <3> QED
      BY <3>1, <3>2
  <2> QED
    BY <2>1 DEF LogGrows
<1>9. Was(p, m)'
  BY <1>2, <1>3, <1>4, <1>7 DEF Was
<1>10. LogSound(p)'
  <2>1. ASSUME NEW i \in 1 .. sendSeq'[p] PROVE log'[p][i].seq = i - 1
    <3>1. i \in 1 .. sendSeq[p] \/ i = sendSeq[p] + 1
      BY <1>3, <1>4
    <3>2. CASE i \in 1 .. sendSeq[p]
      <4>1. log[p][i].seq = i - 1
        BY <1>1, <3>2 DEF Content, LogSound
      <4> QED
        BY <1>6, <3>2, <4>1
    <3>3. CASE i = sendSeq[p] + 1
      <4>1. log'[p][i] = m /\ m.seq = i - 1
        BY <1>2, <1>3, <1>7, <3>3
      <4> QED
        BY <4>1
    <3> QED
      BY <3>1, <3>2, <3>3
  <2> QED
    BY <1>4, <1>7, <2>1 DEF LogSound
<1>11. NetSound(p)'
  BY <1>1, <1>4, <1>5, <1>8, <1>9, NetAdds DEF Content
<1>12. BoxSound(p)'
  <2> SUFFICES ASSUME NEW i \in Slots, NEW e, e = outbox[p][i] PROVE Entry(p, i, e)'
    BY <1>5 DEF BoxSound, Entry, Was
  <2>1. Entry(p, i, e)
    BY <1>1 DEF Content, BoxSound
  <2>2. CASE e = Absent
    BY <2>2 DEF Entry
  <2>3. CASE e # Absent
    <3>1. /\ e \in Message /\ SlotFor(e.seq) = i /\ e.seq <= sendSeq[p] /\ e.seq \in Nat
          /\ e.seq < sendSeq[p] => Was(p, e)
      BY <2>1, <2>3, MessageType DEF Entry
    <3>2. CASE e.seq < sendSeq[p]
      <4>1. Was(p, e)'
        BY <1>8, <3>1, <3>2, WasStays
      <4> QED
        BY <1>3, <1>4, <3>1, <4>1 DEF Entry
    <3>3. CASE e.seq = sendSeq[p]
      <4>1. e = m
        BY <1>2, <3>1, <3>3
      <4> QED
        BY <1>3, <1>4, <1>9, <3>1, <4>1 DEF Entry
    <3> QED
      BY <1>3, <3>1, <3>2, <3>3
  <2> QED
    BY <2>2, <2>3
<1>13. Keeps(p)'
  <2> SUFFICES ASSUME NEW s \in peerCol[p] .. sendSeq[p]
               PROVE  outbox[p][SlotFor(s)] = log'[p][s + 1]
    BY <1>3, <1>4, <1>5 DEF Keeps, SlotFor
  <2>1. CASE s = sendSeq[p]
    BY <1>2, <1>7, <2>1
  <2>2. CASE s \in peerCol[p] .. sendSeq[p] - 1
    <3>1. outbox[p][SlotFor(s)] = log[p][s + 1]
      BY <1>1, <2>2 DEF Content, Keeps
    <3>2. s + 1 \in 1 .. sendSeq[p]
      BY <1>3, <2>2
    <3> QED
      BY <1>6, <3>1, <3>2
  <2> QED
    BY <1>3, <2>1, <2>2
<1>14. LaneContent(p)'
  BY <1>4, IdleType DEF LaneContent
<1>15. SendBound(p)'
  BY <1>2, <1>3, <1>4 DEF SendBound
<1>16. \A q \in Party : RunContent(q)' /\ RecvSound(q)'
  BY <1>5, <1>8, RunStays, RecvStays, Counters DEF ContentInv, Content
<1>17. ASSUME NEW q \in Party, q # p PROVE Content(q)'
  <2>1. Content(q)
    BY DEF ContentInv
  <2>2. NetSound(q)'
    BY <1>4, <1>5, <1>8, <1>17, <2>1, NetStays DEF Content
  <2>3. LogSound(q)' /\ SendBound(q)'
    BY <1>4, <1>17, <2>1 DEF Content, LogSound, SendBound
  <2>4. BoxSound(q)' /\ Keeps(q)'
    BY <1>4, <1>5, <1>17, <2>1 DEF Content, BoxSound, Entry, Was, Keeps, SlotFor
  <2>5. LaneContent(q)'
    BY <1>4, <1>5, <1>17, <2>1 DEF Content, LaneContent, SlotFor
  <2> QED
    BY <1>16, <2>2, <2>3, <2>4, <2>5 DEF Content
<1> QED
  BY <1>10, <1>11, <1>12, <1>13, <1>14, <1>15, <1>16, <1>17 DEF ContentInv, Content

-----------------------------------------------------------------------------
(* Every step keeps it: first the lane's, then the runner's, then what     *)
(* happens to a party and to the network.                                  *)

(* A task that has nothing in hand claims nothing. *)
LEMMA FreshRun ==
  ASSUME NEW p \in Party, run'[p].todo = {}, run'[p].pc \notin {"write", "collect", "trim"}
  PROVE  RunContent(p)'
  BY DEF RunContent

(* The runner's task once it is done is idle, and after a crash a relaunch. *)
LEMMA IdleRun ==
  ASSUME NEW p \in Party, run'[p] \in {RunIdle, RunBoot} PROVE RunContent(p)'
  BY Started DEF RunContent

(* load: a listed entry was committed. *)
LEMMA OutstandingWas ==
  ASSUME TypeOK, NEW p \in Party, BoxSound(p), NEW m \in Outstanding(p) PROVE Was(p, m)
<1>1. PICK i \in Slots : m = outbox[p][i] /\ peerCol[p] <= m.seq /\ m.seq < sendSeq[p]
  BY DEF Outstanding
<1>2. Entry(p, i, m)
  BY <1>1 DEF BoxSound
<1>3. m # Absent
  BY <1>1, Counters DEF Absent
<1> QED
  BY <1>1, <1>2, <1>3 DEF Entry

(* persist_outbox, made by a lane that sealed the next sequence: what it   *)
(* overwrites was never committed.                                         *)
LEMMA ContentPersist ==
  ASSUME TypeOK, TypeOK', TaskType, CursorOrder, ContentInv, NEW p \in Party, SendPersist(p)
  PROVE  ContentInv'
<1> SUFFICES ASSUME NEW m, m = lane[p].msg, NEW k, k = SlotFor(m.seq) PROVE ContentInv'
  OBVIOUS
<1>1. Content(p) /\ LogGrows /\ peerCol'[p] >= peerCol[p]
  BY SameLogGrows, Counters DEF ContentInv, SendPersist, history
<1>2. /\ m \in Message /\ m.seq = sendSeq[p] /\ m.seq < MaxSend[p] /\ m.seq \in Nat
      /\ k \in Slots /\ k = SlotFor(m.seq)
  BY <1>1, MessageType, SlotForType
     DEF Content, LaneContent, SendPersist, TaskType, LaneTyped
<1>3. UNCHANGED <<sendSeq, log, peerCol, myCol, life, ring, out, run, recv>>
  BY DEF SendPersist, network, history
<1>4. /\ lane[p] \in LaneType /\ lane[p].msg = m
      /\ \A q \in Party : q # p => lane'[q] = lane[q] /\ outbox'[q] = outbox[q]
  <2>1. \A q \in Party : q # p => lane'[q] = lane[q]
    BY TasksMoved DEF SendPersist
  <2>2. \A q \in Party : q # p => outbox'[q] = outbox[q]
    BY DEF SendPersist, TypeOK, StoreType
  <2> QED
    BY <2>1, <2>2, TaskParts
<1>5. NetSound(p)' /\ RunContent(p)' /\ RecvSound(p)'
  BY <1>1, <1>3, NetStays, RunStays, RecvStays DEF Content
<1>6. CASE outbox' = outbox /\ lane'[p] = LaneIdle
  <2>1. BoxSound(p)' /\ Keeps(p)'
    BY <1>1, <1>3, <1>6, BoxStays, KeepsStays DEF Content
  <2>2. LaneContent(p)'
    BY <1>6, IdleType DEF LaneContent
  <2> QED
    BY <1>3, <1>4, <1>5, <2>1, <2>2, KeepContent
<1>7. CASE /\ outbox[p][k].seq \in {Absent.seq, m.seq}
           /\ outbox' = [outbox EXCEPT ![p][k] = m]
           /\ lane' = [lane EXCEPT ![p].pc = "stored"]
  <2>1. /\ outbox'[p][k] = m
        /\ \A i \in Slots : i # k => outbox'[p][i] = outbox[p][i]
    BY <1>2, <1>7 DEF TypeOK, StoreType
  <2>2. lane'[p].pc = "stored" /\ lane'[p].msg = m
    <3>1. lane'[p] = [lane[p] EXCEPT !.pc = "stored"]
      BY <1>7, TasksMoved
    <3> QED
      BY <1>4, <3>1 DEF LaneType
  <2>3. BoxSound(p)'
    <3> SUFFICES ASSUME NEW i \in Slots PROVE Entry(p, i, outbox[p][i])'
      BY DEF BoxSound
    <3>1. CASE i = k
      BY <1>2, <1>3, <2>1, <3>1, Counters DEF Entry
    <3>2. CASE i # k
      <4>1. Entry(p, i, outbox[p][i]) /\ outbox'[p][i] = outbox[p][i]
        BY <1>1, <2>1, <3>2 DEF Content, BoxSound
      <4> QED
        BY <1>3, <4>1 DEF Entry, Was
    <3> QED
      BY <3>1, <3>2
  <2>4. Keeps(p)'
    <3> SUFFICES ASSUME life[p] # "gone", NEW s \in peerCol[p] .. sendSeq[p] - 1
                 PROVE  outbox'[p][SlotFor(s)] = log[p][s + 1]
      BY <1>3 DEF Keeps, SlotFor
    <3>1. s \in Nat /\ s < sendSeq[p] /\ s + 1 \in 1 .. sendSeq[p] /\ SlotFor(s) \in Slots
      BY Counters, SlotForType
    <3>2. outbox[p][SlotFor(s)] = log[p][s + 1] /\ log[p][s + 1].seq = s
      BY <1>1, <3>1 DEF Content, Keeps, LogSound
    <3>3. SlotFor(s) # k
      BY <1>2, <1>7, <3>1, <3>2, Counters DEF Absent
    <3> QED
      BY <2>1, <3>1, <3>2, <3>3
  <2>5. LaneContent(p)'
    BY <1>2, <1>3, <2>1, <2>2 DEF LaneContent, SlotFor
  <2> QED
    BY <1>3, <1>4, <1>5, <2>3, <2>4, <2>5, KeepContent
<1> QED
  BY <1>2, <1>6, <1>7, TasksMoved DEF SendPersist

(* The steps of the live lane, and the delete's mark. *)
LEMMA ContentLane ==
  ASSUME TypeOK, TypeOK', TaskType, OrderInv, ContentInv, NEW p \in Party,
         SendLoad(p) \/ SendPersist(p) \/ SendCommit(p) \/ LaneTrim(p) \/ TakePush(p)
           \/ MarkDelete(p)
  PROVE  ContentInv'
<1>0. CursorOrder /\ Content(p) /\ peerCol[p] \in Nat /\ sendSeq[p] \in Nat
  BY Counters DEF OrderInv, ContentInv
<1>1. CASE SendPersist(p)
  BY <1>0, <1>1, ContentPersist
<1>2. CASE SendCommit(p)
  <2>1. CASE life[p] = "live" /\ lane[p].loaded = Record(p)
    BY <1>0, <1>2, <2>1, KeepCommit
  <2>2. CASE ~ (life[p] = "live" /\ lane[p].loaded = Record(p))
    <3>1. UNCHANGED <<sendSeq, log, outbox, recv, myCol, peerCol, life, out, ring, run>>
      BY <1>2, <2>2 DEF SendCommit, network
    <3>2. lane'[p] = LaneIdle /\ \A q \in Party : q # p => lane'[q] = lane[q]
      BY <1>2, TasksMoved DEF SendCommit
    <3>3. LogGrows /\ peerCol'[p] >= peerCol[p]
      BY <1>0, <3>1, SameLogGrows
    <3>4. NetSound(p)' /\ RunContent(p)' /\ RecvSound(p)' /\ BoxSound(p)' /\ Keeps(p)'
      BY <1>0, <3>1, <3>3, NetStays, RunStays, RecvStays, BoxStays, KeepsStays DEF Content
    <3>5. LaneContent(p)'
      BY <3>2, IdleType DEF LaneContent
    <3> QED
      BY <1>0, <3>1, <3>2, <3>4, <3>5, KeepContent
  <2> QED
    BY <2>1, <2>2
<1>3. CASE LaneTrim(p)
  <2>1. lane[p].through \in Nat /\ lane[p].through <= peerCol[p]
    BY <1>0, <1>3, TaskParts, LaneFields DEF Content, LaneContent, LaneTrim
  <2>2. lane'[p] = LaneIdle /\ \A q \in Party : q # p => lane'[q] = lane[q]
    BY <1>3, TasksMoved DEF LaneTrim
  <2>3. TrimOutbox(p, lane[p].through)
    BY <1>3 DEF LaneTrim
  <2>4. UNCHANGED <<sendSeq, log, recv, myCol, peerCol, life, out, ring, run>>
    BY <1>3 DEF LaneTrim, network
  <2> QED
    BY <1>0, <2>1, <2>2, <2>3, <2>4, KeepTrim
<1>4. CASE SendLoad(p)
  <2>1. PICK att \in {0, 1} : lane' = [lane EXCEPT ![p] = SealTask(p, att)]
    BY <1>4, SealStarts
  <2>2. lane'[p] = SealTask(p, att) /\ \A q \in Party : q # p => lane'[q] = lane[q]
    BY <2>1, TasksMoved
  <2>3. UNCHANGED <<sendSeq, log, outbox, recv, myCol, peerCol, life, out, ring, run>>
    BY <1>4 DEF SendLoad, store, network, history
  <2>4. lane'[p].pc = "sealed" /\ lane'[p].msg.seq = sendSeq[p]
    BY <2>2 DEF SealTask, SealedMessage, LaneIdle
  <2>5. LaneContent(p)'
    BY <1>4, <2>3, <2>4 DEF SendLoad, LaneContent
  <2>6. LogGrows /\ peerCol'[p] >= peerCol[p]
    BY <1>0, <2>3, SameLogGrows
  <2>7. NetSound(p)' /\ RunContent(p)' /\ RecvSound(p)' /\ BoxSound(p)' /\ Keeps(p)'
    BY <1>0, <2>3, <2>6, NetStays, RunStays, RecvStays, BoxStays, KeepsStays DEF Content
  <2> QED
    BY <1>0, <2>2, <2>3, <2>5, <2>7, KeepContent
<1>5. CASE TakePush(p)
  <2>1. PICK m \in out[Peer(p)] :
          /\ m.seq = myCol[p] /\ RecordMessage(p, m)
          /\ lane' = [lane EXCEPT ![p] = [LaneIdle EXCEPT !.pc = "trim",
                                            !.through = Advanced(p, m.cursor)]]
    BY <1>5 DEF TakePush
  <2>2. Was(Peer(p), m)
    BY <2>1, PeerType DEF ContentInv, Content, NetSound
  <2>3. /\ lane'[p] = [LaneIdle EXCEPT !.pc = "trim", !.through = Advanced(p, m.cursor)]
        /\ \A q \in Party : q # p => lane'[q] = lane[q]
    BY <2>1, TasksMoved
  <2>4. lane'[p].pc = "trim" /\ lane'[p].through = Advanced(p, m.cursor)
    BY <2>3 DEF LaneIdle
  <2>5. peerCol'[p] = Advanced(p, m.cursor) /\ Advanced(p, m.cursor) \in Nat
    BY <2>1, CountersNext DEF RecordMessage, TypeOK, StoreType
  <2>6. LaneContent(p)'
    BY <2>4, <2>5 DEF LaneContent
  <2>7. UNCHANGED <<sendSeq, log, outbox, life, out, ring, run>>
    BY <1>5 DEF TakePush, network
  <2> QED
    BY <1>0, <2>1, <2>2, <2>3, <2>6, <2>7, KeepRecord
<1>6. CASE MarkDelete(p)
  <2>1. /\ UNCHANGED <<sendSeq, log, outbox, recv, myCol, peerCol, out, ring, run, lane>>
        /\ life[p] = "live" /\ life'[p] = "marked" /\ \A q \in Party : q # p => life'[q] = life[q]
    BY <1>6 DEF MarkDelete, network, volatile, history, TypeOK, StoreType
  <2>2. LogGrows /\ peerCol'[p] >= peerCol[p]
    BY <1>0, <2>1, SameLogGrows
  <2>3. NetSound(p)' /\ RunContent(p)' /\ RecvSound(p)' /\ BoxSound(p)'
    BY <1>0, <2>1, <2>2, NetStays, RunStays, RecvStays, BoxStays DEF Content
  <2>4. Keeps(p)' /\ LaneContent(p)'
    BY <1>0, <2>1, <2>2, KeepsStays, LaneStays DEF Content
  <2> QED
    BY <1>0, <2>1, <2>3, <2>4, KeepContent
<1> QED
  BY <1>1, <1>2, <1>3, <1>4, <1>5, <1>6

(* The steps of the runner that write no slot and leave the store alone.   *)
LEMMA ContentLoads ==
  ASSUME TypeOK, TypeOK', TaskType, OrderInv, ContentInv, NEW p \in Party,
         \/ WriteLoad(p) \/ RepairLoad(p) \/ RepairControl(p) \/ RepairEnd(p)
         \/ CollectRead(p) \/ PublishLoad(p) \/ PublishWrite(p) \/ PublishRecord(p)
         \/ CatchUp(p) \/ CloseControl(p) \/ RepublishControl(p)
  PROVE  ContentInv'
<1>0. CursorOrder /\ Content(p)
  BY DEF OrderInv, ContentInv
<1>1. /\ UNCHANGED <<sendSeq, log, outbox, lane, recv, myCol, peerCol, life>>
      /\ UNCHANGED <<out, ring>>
  BY DEF WriteLoad, RepairLoad, RepairControl, RepairEnd, CollectRead, PublishLoad, PublishWrite,
         PublishRecord, CatchUp, CloseControl, RepublishControl, store, network, volatile, history
<1>2. LogGrows /\ \A q \in Party : \A m : Was(q, m) => Was(q, m)'
  BY <1>1, SameLogGrows DEF Was
<1>3. NetSound(p)'
  BY <1>0, <1>1, <1>2, NetStays DEF Content
<1>4. \A m \in Outstanding(p) : Was(p, m)'
  BY <1>0, <1>2, OutstandingWas DEF Content
<1>5. ASSUME NEW pc, run'[p] = [run[p] EXCEPT !.pc = pc], pc \notin {"write", "collect", "trim"}
      PROVE  RunContent(p)'
  <2>1. run[p] \in RunType /\ \A m \in run[p].todo : Was(p, m)'
    BY <1>0, <1>2, TaskParts DEF Content, RunContent
  <2>2. run'[p].pc = pc /\ run'[p].todo = run[p].todo
    BY <1>5, <2>1 DEF RunType
  <2> QED
    BY <1>5, <2>1, <2>2 DEF RunContent, Was
<1>6. CASE WriteLoad(p)
  <2>1. \/ run' = run
        \/ \E m \in Outstanding(p) :
             run' = [run EXCEPT ![p] = [RunIdle EXCEPT !.pc = "write", !.msg = m]]
    BY <1>6 DEF WriteLoad, Starts
  <2>2. CASE run' = run
    BY <1>0, <1>1, <1>3, <2>2, KeepStore
  <2>3. ASSUME NEW m \in Outstanding(p),
               run' = [run EXCEPT ![p] = [RunIdle EXCEPT !.pc = "write", !.msg = m]]
        PROVE  ContentInv'
    <3>1. /\ run'[p] = [RunIdle EXCEPT !.pc = "write", !.msg = m]
          /\ \A q \in Party : q # p => run'[q] = run[q]
      BY <2>3, TasksMoved
    <3>2. run'[p].pc = "write" /\ run'[p].msg = m /\ run'[p].todo = {}
      BY <3>1 DEF RunIdle
    <3>3. RunContent(p)'
      BY <1>4, <3>2 DEF RunContent, Was
    <3> QED
      BY <1>0, <1>1, <1>3, <3>1, <3>3, KeepStore
  <2> QED
    BY <2>1, <2>2, <2>3
<1>7. CASE RepairLoad(p)
  <2>1. \/ run' = [run EXCEPT ![p] = RunIdle]
        \/ \E pc \in {"repair", "repairControl"}, lost \in SUBSET Slots :
             run' = [run EXCEPT ![p] = RepairTask(p, pc, lost)]
    BY <1>7 DEF RepairLoad, RepairTask
  <2>2. \A q \in Party : q # p => run'[q] = run[q]
    BY <2>1, TasksMoved
  <2>3. \/ run'[p] = RunIdle
        \/ \E pc \in {"repair", "repairControl"}, lost \in SUBSET Slots :
             run'[p] = RepairTask(p, pc, lost)
    BY <2>1, TasksMoved
  <2>4. ASSUME NEW pc \in {"repair", "repairControl"}, NEW lost, run'[p] = RepairTask(p, pc, lost)
        PROVE  RunContent(p)'
    <3>1. run'[p].pc = pc /\ run'[p].todo = Outstanding(p)
      BY <2>4 DEF RepairTask, RunIdle
    <3> QED
      BY <1>4, <3>1 DEF RunContent, Was
  <2>5. RunContent(p)'
    BY <2>3, <2>4, IdleRun
  <2> QED
    BY <1>0, <1>1, <1>3, <2>2, <2>5, KeepStore
<1>8. CASE RepairControl(p)
  <2>1. run'[p] = [run[p] EXCEPT !.pc = "repair"] /\ \A q \in Party : q # p => run'[q] = run[q]
    BY <1>8, TasksMoved DEF RepairControl
  <2>2. RunContent(p)'
    BY <1>5, <2>1
  <2> QED
    BY <1>0, <1>1, <1>3, <2>1, <2>2, KeepStore
<1>9. CASE RepairEnd(p) \/ PublishRecord(p)
  <2>1. run'[p] = RunIdle /\ \A q \in Party : q # p => run'[q] = run[q]
    BY <1>9, TasksMoved DEF RepairEnd, PublishRecord, Ends
  <2> QED
    BY <1>0, <1>1, <1>3, <2>1, IdleRun, KeepStore
<1>10. CASE CollectRead(p)
  <2> SUFFICES ASSUME NEW raw, raw = ring[Peer(p)][SlotFor(myCol[p])] PROVE ContentInv'
    OBVIOUS
  <2>1. raw.seq = myCol[p] /\ Peer(p) \in Party /\ SlotFor(myCol[p]) \in Slots
    BY <1>10, PeerType, SlotForType, Counters DEF CollectRead
  <2>2. raw = Absent \/ Was(Peer(p), raw)
    BY <2>1 DEF ContentInv, Content, NetSound
  <2>3. raw # Absent
    BY <2>1, Counters DEF Absent
  <2>4. Was(Peer(p), raw)'
    BY <1>2, <2>1, <2>2, <2>3
  <2>5. /\ run'[p] = [RunIdle EXCEPT !.pc = "collect", !.msg = raw]
        /\ \A q \in Party : q # p => run'[q] = run[q]
    BY <1>10, TasksMoved DEF CollectRead, Starts
  <2>6. run'[p].pc = "collect" /\ run'[p].msg = raw /\ run'[p].todo = {}
    BY <2>5 DEF RunIdle
  <2>7. RunContent(p)'
    BY <2>4, <2>6 DEF RunContent, Was, Peer
  <2> QED
    BY <1>0, <1>1, <1>3, <2>5, <2>7, KeepStore
<1>11. CASE PublishLoad(p)
  <2>1. /\ run'[p] = [RunIdle EXCEPT !.pc = "publish", !.val = myCol[p]]
        /\ \A q \in Party : q # p => run'[q] = run[q]
    BY <1>11, TasksMoved DEF PublishLoad, Starts
  <2>2. run'[p].pc = "publish" /\ run'[p].todo = {}
    BY <2>1 DEF RunIdle
  <2> QED
    BY <1>0, <1>1, <1>3, <2>1, <2>2, FreshRun, KeepStore
<1>12. CASE PublishWrite(p)
  <2>1. /\ run'[p] = RunIdle \/ run'[p] = [run[p] EXCEPT !.pc = "published"]
        /\ \A q \in Party : q # p => run'[q] = run[q]
    BY <1>12, TasksMoved DEF PublishWrite, Ends
  <2>2. RunContent(p)'
    BY <1>5, <2>1, IdleRun
  <2> QED
    BY <1>0, <1>1, <1>3, <2>1, <2>2, KeepStore
<1>13. CASE CatchUp(p)
  <2>1. /\ run'[p] = [RunIdle EXCEPT !.pc = "cursor", !.val = ctl[Peer(p)]]
        /\ \A q \in Party : q # p => run'[q] = run[q]
    BY <1>13, TasksMoved DEF CatchUp, Starts
  <2>2. run'[p].pc = "cursor" /\ run'[p].todo = {}
    BY <2>1 DEF RunIdle
  <2> QED
    BY <1>0, <1>1, <1>3, <2>1, <2>2, FreshRun, KeepStore
<1>14. CASE CloseControl(p)
  <2>1. /\ run'[p] = run[p] \/ run'[p] = [run[p] EXCEPT !.pc = "closing"]
        /\ \A q \in Party : q # p => run'[q] = run[q]
    BY <1>14, TasksMoved DEF CloseControl
  <2>2. run'[p] = run[p] \/ RunContent(p)'
    BY <1>5, <2>1
  <2> QED
    BY <1>0, <1>1, <1>3, <2>1, <2>2, KeepStore
<1>15. CASE RepublishControl(p)
  <2>1. run' = run
    BY <1>15 DEF RepublishControl, volatile
  <2> QED
    BY <1>0, <1>1, <1>3, <2>1, KeepStore
<1> QED
  BY <1>6, <1>7, <1>8, <1>9, <1>10, <1>11, <1>12, <1>13, <1>14, <1>15

(* The steps of the runner that write a slot, record, trim or erase.       *)
LEMMA ContentWrites ==
  ASSUME TypeOK, TypeOK', TaskType, OrderInv, ContentInv, NEW p \in Party,
         \/ WriteCommitted(p) \/ RepairEntry(p) \/ CollectCommit(p) \/ CollectTrim(p)
         \/ TakePeerCursor(p) \/ HearCursor(p) \/ ReportDelivery(p) \/ EraseChannel(p)
         \/ DropRecords(p)
  PROVE  ContentInv'
<1>0. /\ CursorOrder /\ Content(p) /\ peerCol[p] \in Nat /\ sendSeq[p] \in Nat
      /\ run[p] \in RunType /\ RunSound(p)
  BY Counters, TaskParts DEF OrderInv, ContentInv
<1>1. ASSUME NEW m, Was(p, m), SlotWritten(p, m) \/ SlotNotWritten,
             UNCHANGED <<sendSeq, log, outbox, lane, recv, myCol, peerCol, life>>
      PROVE  /\ NetSound(p)'
             /\ \A q \in Party : q # p => out'[q] = out[q] /\ ring'[q] = ring[q]
  <2>1. \A q \in Party : q # p => out'[q] = out[q] /\ ring'[q] = ring[q]
    BY <1>1 DEF SlotWritten, SlotNotWritten, TypeOK, NetworkType, HistoryType
  <2>2. \A n \in out'[p] : n \in out[p] \/ n = m
    BY <1>1 DEF SlotWritten, SlotNotWritten, TypeOK, HistoryType
  <2>3. \A i \in Slots : ring'[p][i] = ring[p][i] \/ ring'[p][i] = m
    BY <1>1 DEF SlotWritten, SlotNotWritten, TypeOK, NetworkType
  <2>4. Was(p, m)' /\ LogGrows
    BY <1>1, SameLogGrows DEF Was
  <2>5. \A n \in out'[p] : n \in out[p] \/ Was(p, n)'
    BY <2>2, <2>4
  <2>6. \A i \in Slots : ring'[p][i] \in {ring[p][i], Absent} \/ Was(p, ring[p][i])'
    BY <2>3, <2>4 DEF Was
  <2>7. NetSound(p)'
    BY <1>0, <2>4, <2>5, <2>6, NetAdds DEF Content
  <2> QED
    BY <2>1, <2>7
<1>2. CASE WriteCommitted(p)
  <2> SUFFICES ASSUME NEW m, m = run[p].msg PROVE ContentInv'
    OBVIOUS
  <2>1. Was(p, m) /\ (SlotWritten(p, m) \/ SlotNotWritten)
    BY <1>0, <1>2 DEF Content, RunContent, WriteCommitted
  <2>2. UNCHANGED <<sendSeq, log, outbox, lane, recv, myCol, peerCol, life>>
    BY <1>2 DEF WriteCommitted, store
  <2>3. run'[p] = RunIdle /\ \A q \in Party : q # p => run'[q] = run[q]
    BY <1>2, TasksMoved DEF WriteCommitted, Ends
  <2> QED
    BY <1>0, <1>1, <2>1, <2>2, <2>3, IdleRun, KeepStore
<1>3. CASE RepairEntry(p)
  <2>1. PICK m \in run[p].todo :
          /\ SlotWritten(p, m) \/ SlotNotWritten
          /\ run' = [run EXCEPT ![p] = RestOf(p, m)] \/ run' = [run EXCEPT ![p] = MissedOf(p, m)]
    BY <1>3 DEF RepairEntry, RestOf, MissedOf
  <2>2. UNCHANGED <<sendSeq, log, outbox, lane, recv, myCol, peerCol, life>>
    BY <1>3 DEF RepairEntry, store
  <2>3. run'[p] \in {RestOf(p, m), MissedOf(p, m)}
    BY <2>1, TasksMoved
  <2>4. \A q \in Party : q # p => run'[q] = run[q]
    BY <2>1, TasksMoved
  <2>5. run'[p].pc = "repair" /\ run'[p].todo \subseteq run[p].todo
    <3>1. run[p].pc = "repair"
      BY <1>3 DEF RepairEntry
    <3>2. \A r \in {RestOf(p, m), MissedOf(p, m)} :
            r.pc = "repair" /\ r.todo \subseteq run[p].todo
      BY <1>0, <3>1, RestMissed, TaskParts
    <3> QED
      BY <2>3, <3>2
  <2>6. \A n \in run[p].todo : Was(p, n) /\ Was(p, n)'
    BY <1>0, <2>2 DEF Content, RunContent, Was
  <2>7. RunContent(p)'
    BY <2>5, <2>6 DEF RunContent
  <2>8. Was(p, m)
    BY <2>1, <2>6
  <2> QED
    BY <1>0, <1>1, <2>1, <2>2, <2>4, <2>7, <2>8, KeepStore
<1>4. CASE CollectCommit(p)
  <2>1. CASE life[p] = "live" /\ myCol[p] = run[p].msg.seq
    <3> SUFFICES ASSUME NEW m, m = run[p].msg PROVE ContentInv'
      OBVIOUS
    <3>1. Was(Peer(p), m) /\ m.seq = myCol[p] /\ RecordMessage(p, m)
      BY <1>0, <1>4, <2>1 DEF Content, RunContent, CollectCommit
    <3>2. /\ run'[p] = [RunIdle EXCEPT !.pc = "trim", !.val = Advanced(p, m.cursor)]
          /\ \A q \in Party : q # p => run'[q] = run[q]
      BY <1>4, <2>1, TasksMoved DEF CollectCommit
    <3>3. run'[p].pc = "trim" /\ run'[p].val = Advanced(p, m.cursor) /\ run'[p].todo = {}
      BY <3>2 DEF RunIdle
    <3>4. peerCol'[p] = Advanced(p, m.cursor) /\ Advanced(p, m.cursor) \in Nat
      BY <3>1, CountersNext DEF RecordMessage, TypeOK, StoreType
    <3>5. RunContent(p)'
      BY <3>3, <3>4 DEF RunContent
    <3>6. UNCHANGED <<sendSeq, log, outbox, life, out, ring, lane>>
      BY <1>4 DEF CollectCommit, network
    <3> QED
      BY <1>0, <3>1, <3>2, <3>5, <3>6, KeepRecord
  <2>2. CASE ~ (life[p] = "live" /\ myCol[p] = run[p].msg.seq)
    <3>1. UNCHANGED <<sendSeq, log, outbox, lane, recv, myCol, peerCol, life, out, ring>>
      BY <1>4, <2>2 DEF CollectCommit, network
    <3>2. run'[p] = RunIdle /\ \A q \in Party : q # p => run'[q] = run[q]
      BY <1>4, <2>2, TasksMoved DEF CollectCommit, Ends
    <3>3. NetSound(p)'
      BY <3>1, KeepNet
    <3> QED
      BY <1>0, <3>1, <3>2, <3>3, IdleRun, KeepStore
  <2> QED
    BY <2>1, <2>2
<1>5. CASE CollectTrim(p)
  <2>1. run[p].val \in Nat /\ run[p].val <= peerCol[p]
    BY <1>0, <1>5, TaskParts DEF Content, RunContent, CollectTrim
  <2>2. run'[p] = RunIdle /\ \A q \in Party : q # p => run'[q] = run[q]
    BY <1>5, TasksMoved DEF CollectTrim, Ends
  <2>3. TrimOutbox(p, run[p].val)
    BY <1>5 DEF CollectTrim
  <2>4. UNCHANGED <<sendSeq, log, recv, myCol, peerCol, life, out, ring, lane>>
    BY <1>5 DEF CollectTrim, network
  <2> QED
    BY <1>0, <2>1, <2>2, <2>3, <2>4, IdleRun, KeepTrim
<1>6. CASE ReportDelivery(p)
  <2>1. TrimOutbox(p, peerCol[p]) /\ peerCol[p] <= peerCol[p]
    BY <1>0, <1>6 DEF ReportDelivery
  <2>2. UNCHANGED <<sendSeq, log, recv, myCol, peerCol, life, out, ring, lane, run>>
    BY <1>6 DEF ReportDelivery, network
  <2> QED
    BY <1>0, <2>1, <2>2, KeepTrim
<1>7. CASE TakePeerCursor(p)
  <2>1. TakesCursor(p, run[p].val) /\ run[p].val \in Nat
    BY <1>7, TaskParts DEF TakePeerCursor
  <2>2. run'[p] = RunIdle /\ \A q \in Party : q # p => run'[q] = run[q]
    BY <1>7, TasksMoved DEF TakePeerCursor, Ends
  <2> QED
    BY <1>0, <2>1, <2>2, IdleRun, KeepCursor
<1>8. CASE HearCursor(p)
  <2>1. PICK c \in pub[Peer(p)] : TakesCursor(p, c)
    BY <1>8 DEF HearCursor
  <2>2. c \in Nat /\ run' = run
    BY <1>8, PeerType, Counters DEF HearCursor
  <2> QED
    BY <1>0, <2>1, <2>2, KeepCursor
<1>9. CASE EraseChannel(p)
  <2>1. UNCHANGED <<sendSeq, log, outbox, lane, recv, myCol, peerCol, life, out, ring>>
    BY <1>9 DEF EraseChannel, Erase, store
  <2>2. \/ run' = [run EXCEPT ![p] = RunIdle]
        \/ run' = [run EXCEPT ![p] = [RunIdle EXCEPT !.pc = "erased"]]
    BY <1>9 DEF EraseChannel, Erase, Ends
  <2>3. \A q \in Party : q # p => run'[q] = run[q]
    BY <2>2, TasksMoved
  <2>4. run'[p] = RunIdle \/ run'[p] = [RunIdle EXCEPT !.pc = "erased"]
    BY <2>2, TasksMoved
  <2>5. run'[p].pc \in {"idle", "erased"} /\ run'[p].todo = {}
    BY <2>4 DEF RunIdle
  <2>6. NetSound(p)'
    BY <2>1, KeepNet
  <2> QED
    BY <1>0, <2>1, <2>3, <2>5, <2>6, FreshRun, KeepStore
<1>10. CASE DropRecords(p)
  <2>1. UNCHANGED <<sendSeq, log, lane, recv, myCol, peerCol, out, ring>>
    BY <1>10 DEF DropRecords, network, history
  <2>2. run'[p] = RunIdle /\ \A q \in Party : q # p => run'[q] = run[q]
    BY <1>10, TasksMoved DEF DropRecords, Ends
  <2>3. /\ life'[p] = "gone" /\ \A i \in Slots : outbox'[p][i] = Absent
        /\ \A q \in Party : q # p => life'[q] = life[q] /\ outbox'[q] = outbox[q]
    BY <1>10 DEF DropRecords, Nothing, TypeOK, StoreType
  <2>4. LogGrows /\ NetSound(p)' /\ RecvSound(p)'
    BY <1>0, <2>1, SameLogGrows, NetStays, RecvStays DEF Content
  <2>5. BoxSound(p)' /\ Keeps(p)'
    BY <2>3 DEF BoxSound, Entry, Keeps
  <2>6. LaneContent(p)'
    BY <1>0, <2>1, <2>3 DEF Content, LaneContent
  <2> QED
    BY <1>0, <2>1, <2>2, <2>3, <2>4, <2>5, <2>6, IdleRun, KeepContent
<1> QED
  BY <1>2, <1>3, <1>4, <1>5, <1>6, <1>7, <1>8, <1>9, <1>10

(* A crash loses the tasks only; the network loses committed messages or   *)
(* goes back to older ones.                                                *)
LEMMA ContentFaults ==
  ASSUME TypeOK, TypeOK', TaskType, OrderInv, ContentInv, NEW p \in Party,
         Crash(p) \/ EvictSlot(p) \/ EvictControl(p) \/ Fade(p)
  PROVE  ContentInv'
<1>0. CursorOrder /\ Content(p) /\ peerCol[p] \in Nat
  BY Counters DEF OrderInv, ContentInv
<1>1. CASE Crash(p)
  <2>1. UNCHANGED <<sendSeq, log, outbox, recv, myCol, peerCol, life, out, ring>>
    BY <1>1 DEF Crash, store, network
  <2>2. /\ lane'[p] = LaneIdle /\ run'[p] = RunBoot
        /\ \A q \in Party : q # p => lane'[q] = lane[q] /\ run'[q] = run[q]
    <3>1. lane' = [lane EXCEPT ![p] = LaneIdle] /\ run' = [run EXCEPT ![p] = RunBoot]
      BY <1>1 DEF Crash
    <3>2. lane'[p] = LaneIdle /\ \A q \in Party : q # p => lane'[q] = lane[q]
      BY <3>1, TasksMoved
    <3>3. run'[p] = RunBoot /\ \A q \in Party : q # p => run'[q] = run[q]
      BY <3>1, TasksMoved
    <3> QED
      BY <3>2, <3>3
  <2>3. LogGrows /\ peerCol'[p] >= peerCol[p]
    BY <1>0, <2>1, SameLogGrows
  <2>4. NetSound(p)' /\ RecvSound(p)' /\ BoxSound(p)' /\ Keeps(p)'
    BY <1>0, <2>1, <2>3, NetStays, RecvStays, BoxStays, KeepsStays DEF Content
  <2>5. LaneContent(p)' /\ RunContent(p)'
    BY <2>2, IdleType, IdleRun DEF LaneContent
  <2> QED
    BY <1>0, <2>1, <2>2, <2>4, <2>5, KeepContent
<1>2. CASE EvictSlot(p)
  <2>1. UNCHANGED <<sendSeq, log, outbox, lane, run, recv, myCol, peerCol, life, out>>
    BY <1>2 DEF EvictSlot, store, volatile
  <2>2. \A q \in Party : q # p => ring'[q] = ring[q]
    BY <1>2 DEF EvictSlot, TypeOK, NetworkType
  <2>3. \A i \in Slots : ring'[p][i] \in {ring[p][i], Absent} \/ ring'[p][i] \in out[p]
    BY <1>2 DEF EvictSlot, TypeOK, NetworkType
  <2>4. \A m \in out[p] : Was(p, m)'
    BY <1>0, <2>1 DEF Content, NetSound, Was
  <2>5. \A i \in Slots : ring'[p][i] \in {ring[p][i], Absent} \/ Was(p, ring[p][i])'
    BY <2>3, <2>4 DEF Was
  <2>6. NetSound(p)'
    BY <1>0, <2>1, <2>5, SameLogGrows, NetAdds DEF Content
  <2> QED
    BY <1>0, <2>1, <2>2, <2>6, KeepStore
<1>3. CASE EvictControl(p)
  <2>1. UNCHANGED <<sendSeq, log, outbox, lane, run, recv, myCol, peerCol, life, out, ring>>
    BY <1>3 DEF EvictControl, store, volatile
  <2>2. NetSound(p)'
    BY <2>1, KeepNet
  <2> QED
    BY <1>0, <2>1, <2>2, KeepStore
<1>4. CASE Fade(p)
  <2>1. UNCHANGED <<sendSeq, log, outbox, lane, run, recv, myCol, peerCol, life, out>>
    BY <1>4 DEF Fade, store, volatile, history
  <2>2. /\ \A q \in Party : q # p => ring'[q] = ring[q]
        /\ \A i \in Slots : ring'[p][i] \in {ring[p][i], Absent}
    BY <1>4 DEF Fade, TypeOK, NetworkType, Nothing
  <2>3. NetSound(p)'
    BY <1>0, <2>1, <2>2, SameLogGrows, NetAdds DEF Content
  <2> QED
    BY <1>0, <2>1, <2>2, <2>3, KeepStore
<1> QED
  BY <1>1, <1>2, <1>3, <1>4

(* Every step of either party, and every fault, keeps what is delivered.   *)
LEMMA ContentStep ==
  /\ TypeOK /\ TaskType /\ OrderInv /\ ContentInv /\ (TypeOK /\ TaskType)' /\ [Next]_vars
  => ContentInv'
<1> SUFFICES ASSUME TypeOK, TaskType, OrderInv, ContentInv, TypeOK', [Next]_vars
             PROVE  ContentInv'
  OBVIOUS
<1>1. CASE UNCHANGED vars
  <2>1. UNCHANGED <<sendSeq, log, outbox, lane, run, recv, myCol, peerCol, life, out, ring>>
    BY <1>1 DEF vars, store, network, volatile, history
  <2>2. SUFFICES ASSUME NEW p \in Party, Content(p) PROVE Content(p)'
    BY DEF ContentInv
  <2>3. LogSound(p)' /\ NetSound(p)' /\ BoxSound(p)' /\ Keeps(p)'
    BY <2>1, <2>2 DEF Content, LogSound, NetSound, BoxSound, Entry, Keeps, Was
  <2>4. LaneContent(p)' /\ RunContent(p)' /\ RecvSound(p)' /\ SendBound(p)'
    BY <2>1, <2>2 DEF Content, LaneContent, RunContent, RecvSound, SendBound, Was
  <2> QED
    BY <2>3, <2>4 DEF Content
<1>2. ASSUME NEW p \in Party, Lane(p) \/ Runner(p) \/ Chance(p) PROVE ContentInv'
  BY <1>2, ContentLane, ContentLoads, ContentWrites, ContentFaults DEF Lane, Runner, Chance
<1> QED
  BY <1>1, <1>2 DEF Next

(* The conversation at rest. *)
LEMMA ContentInit == Init => ContentInv
<1> SUFFICES ASSUME Init, NEW p \in Party PROVE Content(p)
  BY DEF ContentInv
<1>1. /\ sendSeq[p] = 1 /\ peerCol[p] = 1 /\ myCol[p] = 1 /\ log[p] = <<First>>
      /\ log[Peer(p)] = <<First>> /\ recv[p] = <<First>> /\ out[p] = {First}
      /\ lane[p] = LaneIdle /\ run[p] = RunIdle /\ outbox[p] = Nothing /\ ring[p] = OnlyFirst
  BY PeerType DEF Init, ForBoth
<1>2. First \in Message /\ First.seq = 0 /\ Len(<<First>>) = 1 /\ <<First>>[1] = First
  BY DEF First, Message
<1>3. LogSound(p) /\ RecvSound(p)
  BY <1>1, <1>2 DEF LogSound, RecvSound
<1>4. Was(p, First)
  BY <1>1, <1>2 DEF Was
<1>5. NetSound(p)
  BY <1>1, <1>4 DEF NetSound, OnlyFirst
<1>6. BoxSound(p) /\ Keeps(p)
  BY <1>1 DEF BoxSound, Entry, Nothing, Keeps
<1>7. LaneContent(p) /\ RunContent(p) /\ SendBound(p)
  BY <1>1, IdleType, Started DEF LaneContent, RunContent, SendBound
<1> QED
  BY <1>3, <1>5, <1>6, <1>7 DEF Content

-----------------------------------------------------------------------------
(* What the invariant says of the delivery. *)

(* The types, the order and the content hold together, in every reachable  *)
(* state.                                                                  *)
THEOREM ContentInvariant == Spec => [](TypeOK /\ TaskType /\ OrderInv /\ ContentInv)
<1>1. Spec => [](TypeOK /\ TaskType)
  BY TasksTyped
<1>2. Init => OrderInv /\ ContentInv
  BY OrderInit, ContentInit
<1>3. (TypeOK /\ TaskType) /\ (TypeOK /\ TaskType)' /\ (OrderInv /\ ContentInv) /\ [Next]_vars
        => (OrderInv /\ ContentInv)'
  BY OrderStep, ContentStep
<1> QED
  BY <1>1, <1>2, <1>3, PTL DEF Spec

(* OutstandingKept: commit_message, delete_outbox_through, persist_outbox  *)
(* and the repair keep in the outbox, with the bytes committed, every      *)
(* message its correspondent is not known to hold.                         *)
THEOREM CommittedKept == Spec => []OutstandingKept
<1>1. ContentInv => OutstandingKept
  BY DEF ContentInv, Content, Keeps, OutstandingKept
<1> QED
  BY <1>1, ContentInvariant, PTL

(* OnlyCommittedLeaves: bytes that persist_outbox stored for a commit that *)
(* was then refused are never pushed or written, for all that load, the    *)
(* repair and a crash find them in the outbox.                             *)
THEOREM NothingElseLeaves == Spec => []OnlyCommittedLeaves
<1>1. TypeOK /\ ContentInv => OnlyCommittedLeaves
  <2> SUFFICES ASSUME TypeOK, ContentInv, NEW p \in Party, NEW m \in out[p]
               PROVE  m \in Committed(p)
    BY DEF OnlyCommittedLeaves
  <2>1. Was(p, m) /\ LogSound(p)
    BY DEF ContentInv, Content, NetSound
  <2>2. m.seq + 1 \in 1 .. sendSeq[p]
    BY <2>1, MessageType, Counters DEF Was
  <2>3. m.seq + 1 \in DOMAIN log[p]
    BY <2>1, <2>2 DEF LogSound, TypeOK, HistoryType
  <2> QED
    BY <2>1, <2>3 DEF Was, Committed
<1> QED
  BY <1>1, ContentInvariant, PTL

(* RecordedIsCommitted: collect_step and take_message, whichever wins, and *)
(* however often a push arrives, record what was committed, once each and  *)
(* in order.                                                               *)
THEOREM RecordedInOrder == Spec => []RecordedIsCommitted
<1>1. TypeOK /\ OrderInv /\ ContentInv => RecordedIsCommitted
  <2> SUFFICES ASSUME TypeOK, OrderInv, ContentInv, NEW p \in Party, NEW q, q = Peer(p)
               PROVE  recv[q] = SubSeq(log[p], 1, myCol[q])
    BY DEF RecordedIsCommitted
  <2>1. q \in Party /\ Peer(q) = p
    BY PeerType
  <2>2. /\ Len(recv[q]) = myCol[q] /\ \A i \in 1 .. myCol[q] : recv[q][i] = log[p][i]
        /\ Len(log[p]) = sendSeq[p]
    BY <2>1 DEF ContentInv, Content, RecvSound, LogSound
  <2>3. /\ recv[q] \in Seq(Message) /\ log[p] \in Seq(Message)
        /\ myCol[q] \in Nat /\ sendSeq[p] \in Nat /\ myCol[q] <= sendSeq[p]
    BY <2>1, Counters DEF TypeOK, HistoryType, OrderInv, CursorOrder
  <2>4. SubSeq(log[p], 1, myCol[q]) = [i \in 1 .. myCol[q] |-> log[p][i]]
    BY <2>2, <2>3
  <2>5. recv[q] = [i \in 1 .. myCol[q] |-> recv[q][i]]
    BY <2>2, <2>3
  <2> QED
    BY <2>2, <2>4, <2>5
<1> QED
  BY <1>1, ContentInvariant, PTL

-----------------------------------------------------------------------------
(* A conversation is a link: every step that commits, records or learns a  *)
(* cursor is a step of DmLink's, and every other one is a stutter.         *)

(* The conversation at rest is a link at rest. *)
LEMMA LinkInit == Init => Link!Init
<1>1. Len(<<First>>) = 1
  OBVIOUS
<1> QED
  BY <1>1 DEF Init, ForBoth, Party, Link!Init, Link!Party

(* The two modules name the parties alike. *)
LEMMA LinkNames ==
  Link!Party = Party /\ \A p \in Party : Link!Peer(p) = Peer(p)
  BY DEF Link!Party, Link!Peer, Party, Peer

(* A commit is a send, within the window. *)
LEMMA CommitSends ==
  ASSUME TypeOK, TaskType, OrderInv, ContentInv, NEW p \in Party,
         SendCommit(p), life[p] = "live", lane[p].loaded = Record(p)
  PROVE  Link!Send(p)
<1> SUFFICES ASSUME NEW m, m = lane[p].msg PROVE Link!Send(p)
  OBVIOUS
<1>1. /\ lane[p].pc = "stored" /\ log' = [log EXCEPT ![p] = Append(log[p], m)]
      /\ UNCHANGED <<recv, peerCol>>
  BY DEF SendCommit
<1>2. /\ m \in Message /\ m.seq < MaxSend[p] /\ m.cursor <= myCol[p]
      /\ sendSeq[p] < peerCol[p] + RingSlots /\ Len(log[p]) = sendSeq[p]
  BY <1>1, RecordFields DEF OrderInv, LaneSound, TaskType, LaneTyped, ContentInv, Content,
     LaneContent, LogSound
<1>3. /\ MaxSend[Alice] \in Nat /\ MaxSend[Bob] \in Nat /\ RingSlots \in Nat
      /\ sendSeq[p] \in Nat /\ peerCol[p] \in Nat /\ myCol[p] \in Nat /\ sendSeq[Peer(p)] \in Nat
  BY BoundAssumption, RingAssumption, Counters, PeerType DEF Party
<1>4. /\ myCol[p] <= sendSeq[Peer(p)]
      /\ sendSeq[Peer(p)] <= 1 \/ sendSeq[Peer(p)] <= MaxSend[Peer(p)]
  BY PeerType DEF OrderInv, CursorOrder, ContentInv, Content, SendBound
<1>5. /\ m.seq \in Nat /\ m.cursor \in Nat /\ m.att \in {0, 1}
      /\ m = [seq |-> m.seq, att |-> m.att, cursor |-> m.cursor]
  BY <1>2 DEF Message
<1>6. \/ p = Alice /\ Peer(p) = Bob
      \/ p = Bob /\ Peer(p) = Alice
  BY PartiesDiffer DEF Peer, Party
<1>7. m.seq \in Sizes /\ m.cursor \in Sizes
  <2>1. m.seq <= MaxSend[Alice] + MaxSend[Bob]
    BY <1>2, <1>3, <1>5, <1>6
  <2>2. m.cursor <= sendSeq[Peer(p)] /\ 1 <= MaxSend[p]
    BY <1>2, <1>3, <1>4, <1>5, <1>6
  <2>3. m.cursor <= 1 \/ m.cursor <= MaxSend[Peer(p)]
    BY <1>3, <1>4, <1>5, <1>6, <2>2
  <2>4. m.cursor <= MaxSend[Alice] + MaxSend[Bob]
    BY <1>3, <1>5, <1>6, <2>2, <2>3
  <2> QED
    BY <1>3, <1>5, <2>1, <2>4 DEF Sizes
<1>8. m \in [seq : Sizes, att : {0, 1}, cursor : Sizes]
  BY <1>5, <1>7
<1>9. Len(log[p]) - peerCol[p] < RingSlots
  BY <1>2, <1>3
<1> QED
  BY <1>1, <1>8, <1>9 DEF Link!Send

(* Recording the next message is a receipt, and what its header says of    *)
(* the correspondent's cursor an acknowledgement.                          *)
LEMMA RecordReceives ==
  ASSUME TypeOK, OrderInv, ContentInv, NEW p \in Party, NEW m, Was(Peer(p), m),
         m.seq = myCol[p], m.cursor <= myCol[Peer(p)], RecordMessage(p, m), log' = log
  PROVE  Link!Receive(p)
<1>1. /\ m \in Message /\ m.cursor \in Nat /\ Peer(p) \in Party
      /\ myCol[p] \in Nat /\ sendSeq[Peer(p)] \in Nat /\ myCol[p] < sendSeq[Peer(p)]
  BY MessageType, PeerType, Counters DEF Was
<1>2. /\ Len(recv[p]) = myCol[p] /\ Len(recv[Peer(p)]) = myCol[Peer(p)]
      /\ Len(log[Peer(p)]) = sendSeq[Peer(p)]
  BY <1>1 DEF ContentInv, Content, RecvSound, LogSound
<1>3. log[Peer(p)][Len(recv[p]) + 1] = m
  BY <1>2 DEF Was
<1>4. recv' = [recv EXCEPT ![p] = Append(recv[p], log[Peer(p)][Len(recv[p]) + 1])]
  BY <1>3 DEF RecordMessage
<1>5. peerCol[p] <= Advanced(p, m.cursor) /\ Advanced(p, m.cursor) <= myCol[Peer(p)]
  BY <1>1, AdvancedBounds DEF OrderInv
<1>6. Advanced(p, m.cursor) \in Nat /\ peerCol[p] \in Nat /\ myCol[Peer(p)] \in Nat
  BY <1>1, AdvancedType, Counters DEF TypeOK
<1>7. Advanced(p, m.cursor) \in Link!Acks(p)
  BY <1>2, <1>5, <1>6, LinkNames DEF Link!Acks
<1>8. peerCol' = [peerCol EXCEPT ![p] = Advanced(p, m.cursor)]
  BY DEF RecordMessage
<1>9. Len(recv[p]) < Len(log[Peer(p)])
  BY <1>1, <1>2
<1> QED
  BY <1>4, <1>7, <1>8, <1>9, LinkNames DEF Link!Receive

(* A cursor taken is an acknowledgement learnt, or an old one. *)
LEMMA CursorLearns ==
  ASSUME TypeOK, OrderInv, ContentInv, NEW p \in Party, NEW c \in Nat, c <= myCol[Peer(p)],
         TakesCursor(p, c)
  PROVE  Link!Learn(p) \/ UNCHANGED Link!vars
<1>1. UNCHANGED <<log, recv>>
  BY DEF TakesCursor, history
<1>2. /\ peerCol[p] <= Advanced(p, c) /\ Advanced(p, c) <= myCol[Peer(p)]
      /\ Advanced(p, c) \in Nat /\ peerCol[p] \in Nat /\ myCol[Peer(p)] \in Nat
      /\ Len(recv[Peer(p)]) = myCol[Peer(p)]
  BY AdvancedBounds, AdvancedType, Counters, PeerType
     DEF TypeOK, OrderInv, ContentInv, Content, RecvSound
<1>3. Advanced(p, c) \in Link!Acks(p)
  BY <1>2, LinkNames DEF Link!Acks
<1>4. CASE life[p] = "gone" \/ Advanced(p, c) = peerCol[p]
  <2>1. peerCol' = [peerCol EXCEPT ![p] = peerCol[p]]
    BY <1>4 DEF TakesCursor
  <2>2. peerCol' = peerCol
    BY <2>1 DEF TypeOK, StoreType
  <2> QED
    BY <1>1, <2>2 DEF Link!vars
<1>5. CASE life[p] # "gone" /\ Advanced(p, c) # peerCol[p]
  <2>1. peerCol' = [peerCol EXCEPT ![p] = Advanced(p, c)]
    BY <1>5 DEF TakesCursor
  <2> QED
    BY <1>1, <1>3, <1>5, <2>1 DEF Link!Learn
<1> QED
  BY <1>4, <1>5

(* Every step of a conversation is one of the link, or a stutter. *)
LEMMA LinkStep ==
  TypeOK /\ TaskType /\ OrderInv /\ ContentInv /\ [Next]_vars => [Link!Next]_(Link!vars)
<1> SUFFICES ASSUME TypeOK, TaskType, OrderInv, ContentInv, [Next]_vars
             PROVE  Link!Next \/ UNCHANGED Link!vars
  OBVIOUS
<1>1. CASE UNCHANGED vars
  BY <1>1 DEF vars, store, history, Link!vars
<1>2. ASSUME NEW p \in Party, Lane(p) \/ Runner(p) \/ Chance(p)
      PROVE  Link!Next \/ UNCHANGED Link!vars
  <2>1. \/ UNCHANGED <<log, recv, peerCol>>
        \/ SendCommit(p) /\ life[p] = "live" /\ lane[p].loaded = Record(p)
        \/ TakePush(p) \/ CollectCommit(p) \/ TakePeerCursor(p) \/ HearCursor(p)
    BY <1>2 DEF Lane, Runner, Chance, SendPersist, SendCommit, LaneTrim, WriteLoad,
       WriteCommitted, RepairLoad, RepairControl, RepairEntry, RepairEnd, CollectRead,
       CollectTrim, PublishLoad, PublishWrite, PublishRecord, CatchUp, ReportDelivery,
       CloseControl, EraseChannel, Erase, DropRecords, SendLoad, MarkDelete, RepublishControl,
       Crash, EvictSlot, EvictControl, Fade, store, history
  <2>2. Link!Send(p) \/ Link!Receive(p) \/ Link!Learn(p) => Link!Next
    BY LinkNames DEF Link!Next
  <2>3. Content(p) /\ RunSound(p) /\ InFlight(Peer(p)) /\ NetSound(Peer(p))
    BY PeerType DEF OrderInv, ContentInv, Content
  <2>4. CASE SendCommit(p) /\ life[p] = "live" /\ lane[p].loaded = Record(p)
    BY <2>2, <2>4, CommitSends
  <2>5. CASE TakePush(p)
    <3>1. PICK m \in out[Peer(p)] : m.seq = myCol[p] /\ RecordMessage(p, m)
      BY <2>5 DEF TakePush
    <3>2. Was(Peer(p), m) /\ m.cursor <= myCol[Peer(p)] /\ log' = log
      BY <2>3, <2>5 DEF NetSound, InFlight, Bounded, TakePush
    <3> QED
      BY <2>2, <3>1, <3>2, RecordReceives
  <2>6. CASE CollectCommit(p)
    <3>1. CASE life[p] = "live" /\ myCol[p] = run[p].msg.seq
      <4>1. Was(Peer(p), run[p].msg) /\ run[p].msg.cursor <= myCol[Peer(p)]
        BY <2>3, <2>6 DEF Content, RunContent, RunSound, Bounded, CollectCommit
      <4>2. RecordMessage(p, run[p].msg) /\ run[p].msg.seq = myCol[p] /\ log' = log
        BY <2>6, <3>1 DEF CollectCommit
      <4> QED
        BY <2>2, <4>1, <4>2, RecordReceives
    <3>2. CASE ~ (life[p] = "live" /\ myCol[p] = run[p].msg.seq)
      BY <2>6, <3>2 DEF CollectCommit, Link!vars
    <3> QED
      BY <3>1, <3>2
  <2>7. CASE TakePeerCursor(p)
    <3>1. /\ run[p].val \in Nat /\ run[p].val <= myCol[Peer(p)]
          /\ TakesCursor(p, run[p].val)
      BY <2>3, <2>7, TaskParts DEF TakePeerCursor, RunSound
    <3> QED
      BY <2>2, <3>1, CursorLearns
  <2>8. CASE HearCursor(p)
    <3>1. PICK c \in pub[Peer(p)] : TakesCursor(p, c)
      BY <2>8 DEF HearCursor
    <3>2. c \in Nat /\ c <= myCol[Peer(p)]
      BY <2>3, PeerType, Counters DEF InFlight
    <3> QED
      BY <2>2, <3>1, <3>2, CursorLearns
  <2>9. CASE UNCHANGED <<log, recv, peerCol>>
    BY <2>9 DEF Link!vars
  <2> QED
    BY <2>1, <2>4, <2>5, <2>6, <2>7, <2>8, <2>9
<1> QED
  BY <1>1, <1>2 DEF Next

(* ImplementsLink: through crashes, refused commits, lost slots, late and  *)
(* repeated pushes, old cursors and deletes, what the two front ends see   *)
(* of live_lane.rs and runner.rs is the in-order, windowed link.           *)
THEOREM ConversationIsLink == Spec => ImplementsLink
<1>1. Init => Link!Init
  BY LinkInit
<1>2. TypeOK /\ TaskType /\ OrderInv /\ ContentInv /\ [Next]_vars => [Link!Next]_(Link!vars)
  BY LinkStep
<1> QED
  BY <1>1, <1>2, ContentInvariant, PTL DEF Spec, ImplementsLink, Link!Safe

-----------------------------------------------------------------------------
(* Ends.                                                                   *)

(* p keeps no copy of its channel. *)
Erased(p) == copy[p] = Nothing /\ ctlCopy[p] = NoCursor

(* A channel has no copy from the erase of a marked conversation to the    *)
(* drop of its records, and from then on the runner is under way with      *)
(* nothing that could write it.                                            *)
EraseSound(p) ==
  /\ run[p].pc = "erased" => life[p] = "marked" /\ Erased(p)
  /\ life[p] = "gone" => run[p].pc \in {"idle", "boot"} /\ Erased(p) /\ outbox[p] = Nothing

(* Nor is the lane, which answers the delete before it takes another call. *)
LaneRests(p) == life[p] # "live" => lane[p].pc = "idle"

EraseInv == \A p \in Party : EraseSound(p) /\ LaneRests(p)

(* What is noted for the runner was committed; and while no write failed,  *)
(* nothing waits for a repair to be answered, and what was reported Sent   *)
(* was written or is collected.                                            *)
Answered(p) ==
  /\ unwritten[p] = {}
  /\ \A s \in told[p] : s \in written[p] \/ s < peerCol[p]
SentSound(p) ==
  /\ \A i \in 1 .. Len(notes[p]) : notes[p][i] < sendSeq[p]
  /\ ~ Happened("writeFails") => Answered(p)

SentInv == \A p \in Party : SentSound(p)

(* A step of p leaves its correspondent's life, tasks, outbox and channel  *)
(* alone, and all that it has done so far.                                 *)
KeepsOwn(q) ==
  life'[q] = life[q] /\ run'[q] = run[q] /\ lane'[q] = lane[q] /\ outbox'[q] = outbox[q]
  /\ copy'[q] = copy[q] /\ ctlCopy'[q] = ctlCopy[q]
KeepsShown(q) ==
  ring'[q] = ring[q] /\ ctl'[q] = ctl[q] /\ log'[q] = log[q] /\ recv'[q] = recv[q]
  /\ out'[q] = out[q] /\ pub'[q] = pub[q]
ChannelApart(p) == \A q \in Party : q # p => KeepsOwn(q) /\ KeepsShown(q)

LEMMA LaneApart ==
  ASSUME TypeOK, NEW p \in Party, Lane(p) \/ Chance(p)
  PROVE  ChannelApart(p)
<1> USE DEF TypeOK, StoreType, NetworkType, VolatileType, HistoryType, ChannelApart,
        KeepsOwn, KeepsShown
<1>1. CASE Lane(p)
  BY <1>1 DEF Lane, SendPersist, SendCommit, LaneTrim, TrimOutbox, store, network, history
<1>2. CASE SendLoad(p) \/ TakePush(p) \/ MarkDelete(p)
  BY <1>2 DEF SendLoad, TakePush, RecordMessage, MarkDelete, store, network, volatile, history
<1>3. CASE HearCursor(p)
  BY <1>3 DEF HearCursor, TakesCursor, network, history
<1>4. CASE RepublishControl(p)
  BY <1>4 DEF RepublishControl, WriteControl, store, volatile
<1>5. CASE Crash(p) \/ EvictSlot(p) \/ EvictControl(p) \/ Fade(p)
  BY <1>5 DEF Crash, EvictSlot, EvictControl, Fade, store, network, volatile, history
<1> QED
  BY <1>1, <1>2, <1>3, <1>4, <1>5 DEF Chance

LEMMA RunnerApart ==
  ASSUME TypeOK, NEW p \in Party, Runner(p)
  PROVE  ChannelApart(p)
<1> USE DEF TypeOK, StoreType, NetworkType, VolatileType, HistoryType, ChannelApart,
        KeepsOwn, KeepsShown
<1>1. CASE WriteLoad(p) \/ RepairLoad(p) \/ CollectRead(p) \/ PublishLoad(p) \/ CatchUp(p)
  BY <1>1 DEF WriteLoad, RepairLoad, CollectRead, PublishLoad, CatchUp, Starts, store, network,
     history
<1>2. CASE WriteCommitted(p) \/ RepairEntry(p)
  BY <1>2 DEF WriteCommitted, RepairEntry, SlotWritten, SlotNotWritten, Ends, store
<1>3. CASE RepairControl(p) \/ PublishWrite(p) \/ CloseControl(p)
  BY <1>3 DEF RepairControl, PublishWrite, CloseControl, WriteControl, Ends, store
<1>4. CASE RepairEnd(p) \/ CollectCommit(p) \/ CollectTrim(p) \/ PublishRecord(p)
  BY <1>4 DEF RepairEnd, CollectCommit, RecordMessage, CollectTrim, PublishRecord, Ends,
     TrimOutbox, store, network, history
<1>5. CASE TakePeerCursor(p) \/ ReportDelivery(p)
  BY <1>5 DEF TakePeerCursor, TakesCursor, ReportDelivery, TrimOutbox, Ends, network,
     history
<1>6. CASE EraseChannel(p) \/ DropRecords(p)
  BY <1>6 DEF EraseChannel, Erase, DropRecords, Ends, store, network, history
<1> QED
  BY <1>1, <1>2, <1>3, <1>4, <1>5, <1>6 DEF Runner

(* A conversation that is not gone, and whose runner has not just erased   *)
(* its channel, has nothing to show for an erase.                          *)
LEMMA NotErased ==
  ASSUME NEW p \in Party, life'[p] # "gone", run'[p].pc # "erased"
  PROVE  EraseSound(p)'
  BY DEF EraseSound

(* Leaving p's life, runner, outbox and copies alone keeps its part.       *)
LEMMA EraseKept ==
  ASSUME NEW p \in Party, EraseSound(p), life'[p] = life[p], run'[p] = run[p],
         outbox'[p] = outbox[p], copy'[p] = copy[p], ctlCopy'[p] = ctlCopy[p]
  PROVE  EraseSound(p)'
  BY DEF EraseSound, Erased

(* A runner in the middle of a flow call has a conversation to work on.    *)
LEMMA Working ==
  ASSUME NEW p \in Party, EraseSound(p), run[p].pc \notin {"idle", "boot"}
  PROVE  life[p] # "gone"
  BY DEF EraseSound

(* While the conversation lives, the lane may be in the middle of a call;  *)
(* it rests before the delete is marked, and starts nothing afterwards.    *)
LEMMA LaneAtRest ==
  ASSUME TypeOK, NEW p \in Party, EraseSound(p), LaneRests(p), Lane(p) \/ Runner(p) \/ Chance(p)
  PROVE  LaneRests(p)'
<1> USE DEF TypeOK, StoreType, VolatileType, LaneRests
<1>1. CASE Lane(p)
  <2>1. lane[p].pc # "idle" /\ life' = life
    BY <1>1 DEF Lane, SendPersist, SendCommit, LaneTrim, store
  <2> QED
    BY <2>1
<1>2. CASE SendLoad(p) \/ TakePush(p)
  BY <1>2 DEF SendLoad, TakePush, store
<1>3. CASE MarkDelete(p)
  BY <1>3 DEF MarkDelete, volatile
<1>4. CASE Crash(p)
  BY <1>4, IdleType DEF Crash, LaneIdle
<1>5. CASE HearCursor(p) \/ RepublishControl(p) \/ EvictSlot(p) \/ EvictControl(p) \/ Fade(p)
  BY <1>5 DEF HearCursor, TakesCursor, RepublishControl, EvictSlot, EvictControl, Fade, store,
     volatile
<1>6. CASE DropRecords(p)
  <2>1. life[p] = "marked" /\ lane' = lane
    BY <1>6 DEF DropRecords, EraseSound
  <2> QED
    BY <2>1
<1>7. CASE Runner(p) /\ ~ DropRecords(p)
  <2>1. life' = life /\ lane' = lane
    BY <1>7 DEF Runner, WriteLoad, WriteCommitted, RepairLoad, RepairControl, RepairEntry,
       RepairEnd, CollectRead, CollectCommit, CollectTrim, PublishLoad, PublishWrite,
       PublishRecord, CatchUp, TakePeerCursor, TakesCursor, ReportDelivery, CloseControl,
       EraseChannel, Erase, store
  <2> QED
    BY <2>1
<1> QED
  BY <1>1, <1>2, <1>3, <1>4, <1>5, <1>6, <1>7 DEF Chance

(* The lane, the network and a crash bring nothing back.                   *)
LEMMA EraseChance ==
  ASSUME TypeOK, NEW p \in Party, EraseSound(p), LaneRests(p), Lane(p) \/ Chance(p)
  PROVE  EraseSound(p)'
<1> USE DEF TypeOK, StoreType, NetworkType, VolatileType
<1>1. CASE Lane(p) \/ SendLoad(p) \/ TakePush(p)
  <2>1. life'[p] = life[p] /\ run'[p] = run[p] /\ life[p] = "live"
    BY <1>1 DEF Lane, SendPersist, SendCommit, LaneTrim, SendLoad, TakePush, store, network,
       LaneRests
  <2>2. run[p].pc # "erased"
    BY <2>1 DEF EraseSound
  <2> QED
    BY <2>1, <2>2, NotErased
<1>2. CASE HearCursor(p)
  <2>1. UNCHANGED <<life, run, outbox, copy, ctlCopy>>
    BY <1>2 DEF HearCursor, TakesCursor, network
  <2> QED
    BY <2>1, EraseKept
<1>3. CASE MarkDelete(p)
  <2>1. life[p] = "live" /\ life'[p] = "marked" /\ run'[p] = run[p]
    BY <1>3 DEF MarkDelete, volatile
  <2>2. run[p].pc # "erased"
    BY <2>1 DEF EraseSound
  <2> QED
    BY <2>1, <2>2, NotErased
<1>4. CASE RepublishControl(p)
  <2>1. life'[p] = "live" /\ run'[p].pc = "idle"
    BY <1>4 DEF RepublishControl, store, volatile
  <2> QED
    BY <2>1, NotErased
<1>5. CASE Crash(p)
  <2>1. run'[p].pc = "boot" /\ UNCHANGED <<life, outbox, copy, ctlCopy>>
    BY <1>5, IdleType DEF Crash, store, network
  <2> QED
    BY <2>1 DEF EraseSound, Erased
<1>6. CASE EvictSlot(p) \/ EvictControl(p) \/ Fade(p)
  <2>1. UNCHANGED <<life, run, outbox, copy, ctlCopy>>
    BY <1>6 DEF EvictSlot, EvictControl, Fade, store, volatile
  <2> QED
    BY <2>1, EraseKept
<1> QED
  BY <1>1, <1>2, <1>3, <1>4, <1>5, <1>6 DEF Chance

(* Nor does the runner, whose flow calls end before or with the erase.     *)
LEMMA EraseRunner ==
  ASSUME TypeOK, NEW p \in Party, EraseSound(p), Runner(p)
  PROVE  EraseSound(p)'
<1> USE DEF TypeOK, StoreType, NetworkType, VolatileType
<1>1. CASE WriteLoad(p)
  <2>1. UNCHANGED <<life, outbox, copy, ctlCopy>> /\ run[p].pc = "idle"
    BY <1>1 DEF WriteLoad, store, network
  <2>2. CASE life[p] # "live"
    BY <1>1, <2>1, <2>2, EraseKept DEF WriteLoad
  <2>3. CASE life[p] = "live"
    <3>1. \/ run' = run
          \/ \E m : run' = [run EXCEPT ![p] = [RunIdle EXCEPT !.pc = "write", !.msg = m]]
      BY <1>1, <2>3 DEF WriteLoad, Starts
    <3>2. ASSUME NEW m, run' = [run EXCEPT ![p] = [RunIdle EXCEPT !.pc = "write", !.msg = m]]
          PROVE  run'[p].pc = "write"
      BY <3>2 DEF RunIdle
    <3>3. run'[p].pc # "erased"
      BY <2>1, <3>1, <3>2
    <3> QED
      BY <2>1, <2>3, <3>3, NotErased
  <2> QED
    BY <2>2, <2>3
<1>2. CASE RepairLoad(p)
  <2>1. UNCHANGED <<life, outbox, copy, ctlCopy>> /\ run[p].pc \in {"idle", "boot"}
    BY <1>2 DEF RepairLoad, store, network
  <2>2. run'[p].pc \in {"idle", "repairControl", "repair"}
        /\ (life[p] # "live" => run'[p].pc = "idle")
    BY <1>2 DEF RepairLoad, RunIdle
  <2> QED
    BY <2>1, <2>2 DEF EraseSound, Erased
<1>3. CASE CollectRead(p) \/ PublishLoad(p) \/ CatchUp(p)
  <2>1. life'[p] = "live"
    BY <1>3 DEF CollectRead, PublishLoad, CatchUp, store
  <2>2. CASE CollectRead(p)
    <3>1. run'[p].pc = "collect"
      BY <2>2 DEF CollectRead, Starts, RunIdle
    <3> QED
      BY <2>1, <3>1, NotErased
  <2>3. CASE PublishLoad(p)
    <3>1. run'[p].pc = "publish"
      BY <2>3 DEF PublishLoad, Starts, RunIdle
    <3> QED
      BY <2>1, <3>1, NotErased
  <2>4. CASE CatchUp(p)
    <3>1. run'[p].pc = "cursor"
      BY <2>4 DEF CatchUp, Starts, RunIdle
    <3> QED
      BY <2>1, <3>1, NotErased
  <2> QED
    BY <1>3, <2>2, <2>3, <2>4
<1>4. CASE \/ WriteCommitted(p) \/ RepairControl(p) \/ RepairEntry(p) \/ RepairEnd(p)
           \/ CollectCommit(p) \/ CollectTrim(p) \/ PublishWrite(p) \/ PublishRecord(p)
           \/ TakePeerCursor(p)
  <2>1. run[p].pc \notin {"idle", "boot", "erased"}
    BY <1>4 DEF WriteCommitted, RepairControl, RepairEntry, RepairEnd, CollectCommit,
       CollectTrim, PublishWrite, PublishRecord, TakePeerCursor
  <2>2. life' = life
    BY <1>4 DEF WriteCommitted, RepairControl, RepairEntry, RepairEnd, CollectCommit,
       CollectTrim, PublishWrite, PublishRecord, TakePeerCursor, TakesCursor, store
  <2>3. CASE RepairControl(p) \/ RepairEntry(p)
    <3>1. CASE RepairControl(p)
      BY <3>1, <2>1, <2>2, Working, NotErased, RunFields DEF RepairControl
    <3>2. CASE RepairEntry(p)
      <4>1. run[p].pc = "repair"
            /\ \E m : \E r \in {RestOf(p, m), MissedOf(p, m)} : run' = [run EXCEPT ![p] = r]
        BY <3>2 DEF RepairEntry, RestOf, MissedOf
      <4>2. run'[p].pc = "repair"
        BY <4>1, RestMissed
      <4> QED
        BY <2>1, <2>2, <4>2, Working, NotErased
    <3> QED
      BY <2>3, <3>1, <3>2
  <2>4. CASE WriteCommitted(p) \/ RepairEnd(p) \/ CollectTrim(p) \/ PublishRecord(p)
             \/ TakePeerCursor(p)
    <3>1. run'[p].pc = "idle"
      BY <2>4 DEF WriteCommitted, RepairEnd, CollectTrim, PublishRecord, TakePeerCursor, Ends,
         RunIdle
    <3> QED
      BY <2>1, <2>2, <3>1, Working, NotErased
  <2>5. CASE CollectCommit(p) \/ PublishWrite(p)
    <3>1. \/ run' = [run EXCEPT ![p] = RunIdle]
          \/ run' = [run EXCEPT ![p].pc = "published"]
          \/ \E v : run' = [run EXCEPT ![p] = [RunIdle EXCEPT !.pc = "trim", !.val = v]]
      BY <2>5 DEF CollectCommit, PublishWrite, Ends
    <3>2. run'[p].pc # "erased"
      <4>1. CASE run' = [run EXCEPT ![p] = RunIdle]
        BY <4>1 DEF RunIdle
      <4>2. CASE run' = [run EXCEPT ![p].pc = "published"]
        BY <4>2 DEF RunType
      <4>3. ASSUME NEW v, run' = [run EXCEPT ![p] = [RunIdle EXCEPT !.pc = "trim", !.val = v]]
            PROVE  run'[p].pc = "trim"
        BY <4>3 DEF RunIdle
      <4> QED
        BY <3>1, <4>1, <4>2, <4>3
    <3> QED
      BY <2>1, <2>2, <3>2, Working, NotErased
  <2> QED
    BY <1>4, <2>3, <2>4, <2>5
<1>5. CASE ReportDelivery(p)
  <2>1. life' = life /\ run' = run /\ life[p] # "gone" /\ run[p].pc = "idle"
    BY <1>5 DEF ReportDelivery
  <2> QED
    BY <2>1, NotErased
<1>6. CASE CloseControl(p)
  <2>1. life'[p] = "marked" /\ run[p].pc = "idle"
    BY <1>6 DEF CloseControl, store
  <2>2. run' = run \/ run' = [run EXCEPT ![p].pc = "closing"]
    BY <1>6 DEF CloseControl
  <2>3. run'[p].pc # "erased"
    <3>1. CASE run' = run
      BY <2>1, <3>1
    <3>2. CASE run' = [run EXCEPT ![p].pc = "closing"]
      BY <3>2 DEF RunType
    <3> QED
      BY <2>2, <3>1, <3>2
  <2> QED
    BY <2>1, <2>3, NotErased
<1>7. CASE EraseChannel(p)
  <2>1. life'[p] = "marked"
    BY <1>7 DEF EraseChannel, Erase, store
  <2>2. CASE Fault("writeFails") /\ Ends(p)
    <3>1. run'[p].pc = "idle"
      BY <2>2 DEF Ends, RunIdle
    <3> QED
      BY <2>1, <3>1, NotErased
  <2>3. CASE copy' = [copy EXCEPT ![p] = Nothing] /\ ctlCopy' = [ctlCopy EXCEPT ![p] = NoCursor]
    BY <2>1, <2>3 DEF EraseSound, Erased
  <2> QED
    BY <1>7, <2>2, <2>3 DEF EraseChannel, Erase
<1>8. CASE DropRecords(p)
  <2>1. /\ run[p].pc = "erased" /\ run'[p].pc = "idle" /\ UNCHANGED <<copy, ctlCopy>>
        /\ outbox'[p] = Nothing
    BY <1>8 DEF DropRecords, Ends, RunIdle, network
  <2> QED
    BY <2>1 DEF EraseSound, Erased
<1> QED
  BY <1>1, <1>2, <1>3, <1>4, <1>5, <1>6, <1>7, <1>8 DEF Runner

(* An absent slot is older than any message. *)
LEMMA AbsentBelow == \A m \in Message : Absent.seq < m.seq
  BY DEF Message, Absent

(* What a deleted conversation may still see: a note passed over, a launch *)
(* that finds nothing to look at, a stale cursor heard, a crash, and the   *)
(* network letting go.                                                     *)
LEMMA GoneStep ==
  ASSUME TypeOK, NEW p \in Party, EraseSound(p), LaneRests(p), life[p] = "gone",
         Lane(p) \/ Runner(p) \/ Chance(p)
  PROVE  NothingComesBack(p)
<1> USE DEF TypeOK, StoreType, NetworkType, VolatileType, HistoryType
<1>1. /\ run[p].pc \in {"idle", "boot"} /\ lane[p].pc = "idle"
      /\ outbox[p] = Nothing /\ copy[p] = Nothing /\ ctlCopy[p] = NoCursor
  BY DEF EraseSound, LaneRests, Erased
<1>2. ctl[p] \in Int /\ NoCursor <= ctl[p]
  <2>1. ctl[p] \in Nat \cup {NoCursor}
    OBVIOUS
  <2>2. ctl[p] \in Nat \cup {-1}
    BY <2>1 DEF NoCursor
  <2>3. ctl[p] \in Int /\ -1 <= ctl[p]
    BY ONLY <2>2
  <2> QED
    BY ONLY <2>3 DEF NoCursor
<1>3. ctl[p] <= ctl[p]
  BY <1>2
<1>4. CASE UNCHANGED <<life, outbox, copy, ctlCopy, ring, ctl, log, recv, out, pub>>
  BY <1>1, <1>3, <1>4 DEF NothingComesBack
<1>5. CASE WriteLoad(p) \/ RepairLoad(p) \/ HearCursor(p) \/ Crash(p)
  BY <1>4, <1>5 DEF WriteLoad, RepairLoad, HearCursor, TakesCursor, Crash, store, network, history
<1>6. CASE EvictSlot(p)
  <2>1. PICK i \in Slots :
          /\ ring[p][i] # Absent
          /\ \E old \in {Absent} \cup {m \in out[p] : m.seq \in written[p] /\ SlotFor(m.seq) = i
                                                   /\ m.seq < ring[p][i].seq} :
               ring' = [ring EXCEPT ![p][i] = old]
    BY <1>6 DEF EvictSlot
  <2>2. ring[p][i] \in Message
    BY <2>1 DEF OptMessage
  <2>3. Absent.seq < ring[p][i].seq
    BY <2>2, AbsentBelow
  <2>4. \A j \in Slots : ring'[p][j] = ring[p][j] \/ ring'[p][j].seq < ring[p][j].seq
    BY <2>1, <2>3
  <2>5. UNCHANGED <<life, outbox, copy, ctlCopy, ctl, log, recv, out, pub>>
    BY <1>6 DEF EvictSlot, store
  <2> QED
    BY <1>1, <1>3, <2>4, <2>5 DEF NothingComesBack
<1>7. CASE EvictControl(p)
  <2>1. UNCHANGED <<life, outbox, copy, ctlCopy, ring, log, recv, out, pub>>
    BY <1>7 DEF EvictControl, store
  <2>2. PICK old \in {NoCursor} \cup {c \in pub[p] : c < ctl[p]} : ctl' = [ctl EXCEPT ![p] = old]
    BY <1>7 DEF EvictControl
  <2>3. pub[p] \subseteq Nat
    OBVIOUS
  <2>4. old <= ctl[p]
    <3>1. CASE old = NoCursor
      BY <1>2, <3>1
    <3>2. CASE old \in pub[p] /\ old < ctl[p]
      <4>1. old \in Nat
        BY <2>3, <3>2
      <4> QED
        BY ONLY <1>2, <3>2, <4>1
    <3> QED
      BY <2>2, <3>1, <3>2
  <2>5. ctl'[p] = old
    BY <2>2
  <2>6. ctl'[p] <= ctl[p]
    BY <2>4, <2>5
  <2> QED
    BY <1>1, <2>1, <2>6 DEF NothingComesBack
<1>8. CASE Fade(p)
  <2>1. UNCHANGED <<life, outbox, copy, ctlCopy, log, recv, out, pub>>
    BY <1>8 DEF Fade, store, history
  <2>2. ctl'[p] = NoCursor
    BY <1>8 DEF Fade
  <2>6. ctl'[p] <= ctl[p]
    BY <1>2, <2>2
  <2>3. \A i \in Slots : ring'[p][i] = Absent
    BY <1>8 DEF Fade, Nothing
  <2>4. \A i \in Slots : ring[p][i] = Absent \/ Absent.seq < ring[p][i].seq
    BY AbsentBelow DEF OptMessage
  <2>5. \A i \in Slots : ring'[p][i] = ring[p][i] \/ ring'[p][i].seq < ring[p][i].seq
    BY <2>3, <2>4
  <2> QED
    BY <1>1, <2>1, <2>5, <2>6 DEF NothingComesBack
<1>9. ~ Lane(p)
  BY <1>1 DEF Lane, SendPersist, SendCommit, LaneTrim
<1>10. ~ (SendLoad(p) \/ TakePush(p) \/ MarkDelete(p) \/ RepublishControl(p))
  BY DEF SendLoad, TakePush, MarkDelete, RepublishControl
<1>11. ~ (\/ WriteCommitted(p) \/ RepairControl(p) \/ RepairEntry(p) \/ RepairEnd(p)
          \/ CollectCommit(p) \/ CollectTrim(p) \/ PublishWrite(p) \/ PublishRecord(p)
          \/ TakePeerCursor(p) \/ DropRecords(p))
  BY <1>1 DEF WriteCommitted, RepairControl, RepairEntry, RepairEnd, CollectCommit,
     CollectTrim, PublishWrite, PublishRecord, TakePeerCursor, DropRecords
<1>12. ~ (\/ CollectRead(p) \/ PublishLoad(p) \/ CatchUp(p) \/ ReportDelivery(p)
          \/ CloseControl(p) \/ EraseChannel(p))
  BY DEF CollectRead, PublishLoad, CatchUp, ReportDelivery, CloseControl, EraseChannel
<1> QED
  BY <1>5, <1>6, <1>7, <1>8, <1>9, <1>10, <1>11, <1>12 DEF Runner, Chance

LEMMA EraseStep == TypeOK /\ EraseInv /\ [Next]_vars => EraseInv'
<1> SUFFICES ASSUME TypeOK, EraseInv, [Next]_vars, NEW q \in Party
             PROVE  EraseSound(q)' /\ LaneRests(q)'
  BY DEF EraseInv
<1>1. EraseSound(q) /\ LaneRests(q)
  BY DEF EraseInv
<1>2. CASE UNCHANGED vars
  <2>1. UNCHANGED <<life, run, lane, outbox, copy, ctlCopy>>
    BY <1>2 DEF vars, store, network, volatile
  <2> QED
    BY <1>1, <2>1, EraseKept DEF LaneRests
<1>3. ASSUME NEW p \in Party, Lane(p) \/ Runner(p) \/ Chance(p)
      PROVE  EraseSound(q)' /\ LaneRests(q)'
  <2>1. CASE p = q
    BY <1>1, <1>3, <2>1, EraseChance, EraseRunner, LaneAtRest
  <2>2. CASE p # q
    <3>1. KeepsOwn(q)
      BY <1>3, <2>2, LaneApart, RunnerApart DEF ChannelApart
    <3> QED
      BY <1>1, <3>1, EraseKept DEF KeepsOwn, LaneRests
  <2> QED
    BY <2>1, <2>2
<1> QED
  BY <1>2, <1>3 DEF Next

(* A step of either party brings nothing back of a conversation that is    *)
(* gone.                                                                   *)
LEMMA GoneStays ==
  TypeOK /\ EraseInv /\ [Next]_vars =>
    [\A p \in Party : life[p] = "gone" => NothingComesBack(p)]_vars
<1> SUFFICES ASSUME TypeOK, EraseInv, Next, NEW q \in Party, life[q] = "gone"
             PROVE  NothingComesBack(q)
  OBVIOUS
<1>1. EraseSound(q) /\ LaneRests(q)
  BY DEF EraseInv
<1>2. PICK p \in Party : Lane(p) \/ Runner(p) \/ Chance(p)
  BY DEF Next
<1>3. CASE p = q
  BY <1>1, <1>2, <1>3, GoneStep
<1>4. CASE p # q
  <2>1. KeepsOwn(q) /\ KeepsShown(q)
    BY <1>2, <1>4, LaneApart, RunnerApart DEF ChannelApart
  <2>2. outbox[q] = Nothing /\ copy[q] = Nothing /\ ctlCopy[q] = NoCursor
    BY <1>1 DEF EraseSound, Erased
  <2>3. ctl[q] <= ctl[q]
    BY DEF TypeOK, NetworkType, NoCursor
  <2> QED
    BY <2>1, <2>2, <2>3 DEF KeepsOwn, KeepsShown, NothingComesBack
<1> QED
  BY <1>3, <1>4

(* ErasedStaysErased: once teardown has dropped a conversation's records,  *)
(* no send, repair, publication or route change that was under way or      *)
(* comes late takes it up again, over a crash at any point and whatever    *)
(* the storage nodes still hold of it.                                     *)
THEOREM ErasedForGood == Spec => ErasedStaysErased
<1>1. Init => EraseInv
  BY IdleType DEF Init, EraseInv, EraseSound, LaneRests, ForBoth
<1> QED
  BY <1>1, EraseStep, GoneStays, TypeCorrect, PTL DEF Spec, ErasedStaysErased

(* What p still has to answer is only ever touched by p's own steps, while *)
(* cursors, sequences, writes and faults only add up.                      *)
AddsUp ==
  /\ \A q \in Party : /\ sendSeq'[q] >= sendSeq[q] /\ peerCol'[q] >= peerCol[q]
                      /\ written[q] \subseteq written'[q]
  /\ faults' = faults \/ \E kind \in FaultKinds : faults' = Append(faults, kind)
Answers(q) == notes'[q] = notes[q] /\ unwritten'[q] = unwritten[q] /\ told'[q] = told[q]
SentFrame(p) == AddsUp /\ \A q \in Party : q # p => Answers(q)

(* The ways in which a step adds up. *)
LEMMA AddsNothing ==
  ASSUME TypeOK, UNCHANGED <<sendSeq, peerCol, written>>,
         faults' = faults \/ \E kind \in FaultKinds : faults' = Append(faults, kind)
  PROVE  AddsUp
  BY Counters DEF AddsUp

LEMMA AddsCursor ==
  ASSUME TypeOK, NEW p \in Party, NEW c \in Nat, UNCHANGED <<sendSeq, written, faults>>,
         peerCol' = [peerCol EXCEPT ![p] = Advanced(p, c)]
  PROVE  AddsUp
<1>1. Advanced(p, c) >= peerCol[p]
  BY Counters DEF Advanced
<1>2. \A q \in Party : peerCol'[q] >= peerCol[q]
  BY <1>1, Counters DEF TypeOK, StoreType
<1> QED
  BY <1>2, Counters DEF AddsUp

LEMMA AddsWrite ==
  ASSUME TypeOK, NEW p \in Party, NEW s, UNCHANGED <<sendSeq, peerCol, faults>>,
         written' = [written EXCEPT ![p] = @ \cup {s}]
  PROVE  AddsUp
<1>1. \A q \in Party : written[q] \subseteq written'[q]
  BY DEF TypeOK, HistoryType
<1> QED
  BY <1>1, Counters DEF AddsUp

LEMMA AddsSequence ==
  ASSUME TypeOK, NEW p \in Party, UNCHANGED <<peerCol, written, faults>>,
         sendSeq' = [sendSeq EXCEPT ![p] = @ + 1]
  PROVE  AddsUp
<1>1. \A q \in Party : sendSeq'[q] >= sendSeq[q]
  BY Counters DEF TypeOK, StoreType
<1> QED
  BY <1>1, Counters DEF AddsUp

LEMMA AnswersSame ==
  ASSUME UNCHANGED <<notes, unwritten, told>>, AddsUp
  PROVE  \A p \in Party : SentFrame(p) /\ Answers(p)
  BY DEF SentFrame, Answers

LEMMA SentFrameLane ==
  ASSUME TypeOK, NEW p \in Party, Lane(p)
  PROVE  SentFrame(p) /\ (~ SendCommit(p) => Answers(p))
<1>1. CASE SendPersist(p)
  <2>1. UNCHANGED <<sendSeq, peerCol, notes, unwritten, written, told, faults>>
    BY <1>1 DEF SendPersist, history, events
  <2> QED
    BY <2>1, AddsNothing, AnswersSame
<1>2. CASE SendCommit(p)
  <2>1. UNCHANGED <<peerCol, unwritten, written, told, faults>>
    BY <1>2 DEF SendCommit, events
  <2>2. /\ sendSeq' = sendSeq \/ sendSeq' = [sendSeq EXCEPT ![p] = @ + 1]
        /\ notes' = notes \/ notes' = [notes EXCEPT ![p] = Append(@, lane[p].msg.seq)]
    BY <1>2 DEF SendCommit
  <2>3. AddsUp
    BY <2>1, <2>2, AddsNothing, AddsSequence
  <2>4. \A q \in Party : q # p => notes'[q] = notes[q]
    BY <2>2 DEF TypeOK, VolatileType
  <2> QED
    BY <1>2, <2>1, <2>3, <2>4 DEF SentFrame, Answers
<1>3. CASE LaneTrim(p)
  <2>1. UNCHANGED <<sendSeq, peerCol, notes, unwritten, written, told>>
    BY <1>3 DEF LaneTrim, events
  <2>2. faults' = faults \/ \E kind \in FaultKinds : faults' = Append(faults, kind)
    BY <1>3 DEF LaneTrim, TrimOutbox, NoFault, Fault
  <2> QED
    BY <2>1, <2>2, AddsNothing, AnswersSame
<1> QED
  BY <1>1, <1>2, <1>3 DEF Lane

LEMMA TakesAdds ==
  ASSUME TypeOK, NEW p \in Party, NEW c \in Nat, TakesCursor(p, c)
  PROVE  AddsUp /\ UNCHANGED <<notes, unwritten, told>>
<1>1. UNCHANGED <<sendSeq, written, faults, notes, unwritten, told>>
  BY DEF TakesCursor, history, events
<1>2. CASE life[p] = "gone"
  <2>1. peerCol' = peerCol
    BY <1>2 DEF TakesCursor, TypeOK, StoreType
  <2> QED
    BY <1>1, <2>1, AddsNothing
<1>3. CASE life[p] # "gone"
  <2>1. peerCol' = [peerCol EXCEPT ![p] = Advanced(p, c)]
    BY <1>3 DEF TakesCursor
  <2> QED
    BY <1>1, <2>1, AddsCursor
<1> QED
  BY <1>2, <1>3

LEMMA SentFrameChance ==
  ASSUME TypeOK, NEW p \in Party, Chance(p)
  PROVE  SentFrame(p) /\ (~ Crash(p) => Answers(p))
<1>1. CASE SendLoad(p)
  <2>1. UNCHANGED <<sendSeq, peerCol, notes, unwritten, written, told, faults>>
    BY <1>1 DEF SendLoad, store, history, events
  <2> QED
    BY <2>1, AddsNothing, AnswersSame
<1>2. CASE MarkDelete(p)
  <2>1. UNCHANGED <<sendSeq, peerCol, notes, unwritten, written, told, faults>>
    BY <1>2 DEF MarkDelete, volatile, history, events
  <2> QED
    BY <2>1, AddsNothing, AnswersSame
<1>3. CASE TakePush(p)
  <2>1. PICK m \in out[Peer(p)] : peerCol' = [peerCol EXCEPT ![p] = Advanced(p, m.cursor)]
    BY <1>3 DEF TakePush, RecordMessage
  <2>2. m.cursor \in Nat
    BY <2>1, MessageType, PeerType DEF TypeOK, HistoryType
  <2>3. UNCHANGED <<sendSeq, written, faults, notes, unwritten, told>>
    BY <1>3 DEF TakePush, events
  <2> QED
    BY <2>1, <2>2, <2>3, AddsCursor, AnswersSame
<1>4. CASE HearCursor(p)
  <2>1. PICK c \in pub[Peer(p)] : TakesCursor(p, c)
    BY <1>4 DEF HearCursor
  <2>2. c \in Nat
    BY <2>1, PeerType DEF TypeOK, HistoryType
  <2> QED
    BY <2>1, <2>2, TakesAdds, AnswersSame
<1>5. CASE RepublishControl(p)
  <2>1. UNCHANGED <<sendSeq, peerCol, notes, unwritten, written, told>>
    BY <1>5 DEF RepublishControl, store, volatile, events
  <2>2. faults' = faults \/ \E kind \in FaultKinds : faults' = Append(faults, kind)
    BY <1>5 DEF RepublishControl, WriteControl, NoFault, Fault
  <2> QED
    BY <2>1, <2>2, AddsNothing, AnswersSame
<1>6. CASE Crash(p)
  <2>1. UNCHANGED <<sendSeq, peerCol, written, told>>
    BY <1>6 DEF Crash, store, events
  <2>2. faults' = faults \/ \E kind \in FaultKinds : faults' = Append(faults, kind)
    BY <1>6 DEF Crash, Fault
  <2>3. \A q \in Party : q # p => notes'[q] = notes[q] /\ unwritten'[q] = unwritten[q]
    BY <1>6 DEF Crash, TypeOK, VolatileType
  <2> QED
    BY <1>6, <2>1, <2>2, <2>3, AddsNothing DEF SentFrame, Answers
<1>7. CASE EvictSlot(p)
  <2>1. UNCHANGED <<sendSeq, peerCol, notes, unwritten, written, told>>
    BY <1>7 DEF EvictSlot, store, volatile, events
  <2>2. faults' = faults \/ \E kind \in FaultKinds : faults' = Append(faults, kind)
    BY <1>7 DEF EvictSlot, NoFault, Fault
  <2> QED
    BY <2>1, <2>2, AddsNothing, AnswersSame
<1>8. CASE EvictControl(p)
  <2>1. UNCHANGED <<sendSeq, peerCol, notes, unwritten, written, told>>
    BY <1>8 DEF EvictControl, store, volatile, events
  <2>2. faults' = faults \/ \E kind \in FaultKinds : faults' = Append(faults, kind)
    BY <1>8 DEF EvictControl, NoFault, Fault
  <2> QED
    BY <2>1, <2>2, AddsNothing, AnswersSame
<1>9. CASE Fade(p)
  <2>1. UNCHANGED <<sendSeq, peerCol, notes, unwritten, written, told, faults>>
    BY <1>9 DEF Fade, store, volatile, history, events
  <2> QED
    BY <2>1, AddsNothing, AnswersSame
<1> QED
  BY <1>1, <1>2, <1>3, <1>4, <1>5, <1>6, <1>7, <1>8, <1>9 DEF Chance

LEMMA SentFrameRunner ==
  ASSUME TypeOK, TaskType, NEW p \in Party, Runner(p)
  PROVE  /\ SentFrame(p)
         /\ ~ (WriteLoad(p) \/ WriteCommitted(p) \/ RepairEnd(p)) => Answers(p)
<1>1. CASE WriteLoad(p)
  <2>1. UNCHANGED <<sendSeq, peerCol, unwritten, written, faults>>
    BY <1>1 DEF WriteLoad, store
  <2>2. /\ notes' = [notes EXCEPT ![p] = Tail(@)]
        /\ told' = told \/ \E s : told' = [told EXCEPT ![p] = @ \cup s]
    BY <1>1 DEF WriteLoad, TellSent
  <2>3. \A q \in Party : q # p => notes'[q] = notes[q] /\ told'[q] = told[q]
    BY <2>2 DEF TypeOK, VolatileType, HistoryType
  <2> QED
    BY <1>1, <2>1, <2>3, AddsNothing DEF SentFrame, Answers
<1>2. CASE WriteCommitted(p)
  <2>1. UNCHANGED <<sendSeq, peerCol, notes>>
    BY <1>2 DEF WriteCommitted, store
  <2>2. \/ /\ written' = [written EXCEPT ![p] = @ \cup {run[p].msg.seq}]
           /\ told' = [told EXCEPT ![p] = @ \cup {run[p].msg.seq}]
           /\ UNCHANGED <<faults, unwritten>>
        \/ /\ faults' = Append(faults, "writeFails") /\ "writeFails" \in FaultKinds
           /\ unwritten' = [unwritten EXCEPT ![p] = @ \cup {run[p].msg.seq}]
           /\ UNCHANGED <<written, told>>
    BY <1>2 DEF WriteCommitted, SlotWritten, SlotNotWritten, TellSent, NoFault, Fault
  <2>3. AddsUp
    BY <2>1, <2>2, AddsWrite, AddsNothing
  <2>4. \A q \in Party : q # p => unwritten'[q] = unwritten[q] /\ told'[q] = told[q]
    BY <2>2 DEF TypeOK, VolatileType, HistoryType
  <2> QED
    BY <1>2, <2>1, <2>3, <2>4 DEF SentFrame, Answers
<1>3. CASE RepairLoad(p)
  <2>1. UNCHANGED <<sendSeq, peerCol, notes, unwritten, written, told, faults>>
    BY <1>3 DEF RepairLoad, store, history, events
  <2> QED
    BY <2>1, AddsNothing, AnswersSame
<1>4. CASE CollectRead(p)
  <2>1. UNCHANGED <<sendSeq, peerCol, notes, unwritten, written, told, faults>>
    BY <1>4 DEF CollectRead, store, history, events
  <2> QED
    BY <2>1, AddsNothing, AnswersSame
<1>5. CASE PublishLoad(p)
  <2>1. UNCHANGED <<sendSeq, peerCol, notes, unwritten, written, told, faults>>
    BY <1>5 DEF PublishLoad, store, history, events
  <2> QED
    BY <2>1, AddsNothing, AnswersSame
<1>6. CASE CatchUp(p)
  <2>1. UNCHANGED <<sendSeq, peerCol, notes, unwritten, written, told, faults>>
    BY <1>6 DEF CatchUp, store, history, events
  <2> QED
    BY <2>1, AddsNothing, AnswersSame
<1>7. CASE RepairControl(p)
  <2>1. UNCHANGED <<sendSeq, peerCol, notes, unwritten, written, told>>
    BY <1>7 DEF RepairControl, store, events
  <2>2. faults' = faults \/ \E kind \in FaultKinds : faults' = Append(faults, kind)
    BY <1>7 DEF RepairControl, WriteControl, NoFault, Fault
  <2> QED
    BY <2>1, <2>2, AddsNothing, AnswersSame
<1>8. CASE PublishWrite(p)
  <2>1. UNCHANGED <<sendSeq, peerCol, notes, unwritten, written, told>>
    BY <1>8 DEF PublishWrite, store, events
  <2>2. faults' = faults \/ \E kind \in FaultKinds : faults' = Append(faults, kind)
    BY <1>8 DEF PublishWrite, WriteControl, NoFault, Fault
  <2> QED
    BY <2>1, <2>2, AddsNothing, AnswersSame
<1>9. CASE CloseControl(p)
  <2>1. UNCHANGED <<sendSeq, peerCol, notes, unwritten, written, told>>
    BY <1>9 DEF CloseControl, store, events
  <2>2. faults' = faults \/ \E kind \in FaultKinds : faults' = Append(faults, kind)
    BY <1>9 DEF CloseControl, WriteControl, NoFault, Fault
  <2> QED
    BY <2>1, <2>2, AddsNothing, AnswersSame
<1>10. CASE RepairEntry(p)
  <2>1. UNCHANGED <<sendSeq, peerCol, notes, unwritten, told>>
    BY <1>10 DEF RepairEntry, store
  <2>2. \/ \E s : written' = [written EXCEPT ![p] = @ \cup {s}] /\ faults' = faults
        \/ /\ written' = written
           /\ faults' = faults \/ \E kind \in FaultKinds : faults' = Append(faults, kind)
    BY <1>10 DEF RepairEntry, SlotWritten, SlotNotWritten, NoFault, Fault
  <2> QED
    BY <2>1, <2>2, AddsWrite, AddsNothing, AnswersSame
<1>11. CASE RepairEnd(p)
  <2>1. UNCHANGED <<sendSeq, peerCol, written, faults, notes>>
    BY <1>11 DEF RepairEnd, store
  <2>2. /\ told' = [told EXCEPT ![p] = @ \cup (unwritten[p] \ run[p].missed)]
        /\ unwritten' = [unwritten EXCEPT ![p] = @ \cap run[p].missed]
    BY <1>11 DEF RepairEnd, TellSent
  <2>3. \A q \in Party : q # p => unwritten'[q] = unwritten[q] /\ told'[q] = told[q]
    BY <2>2 DEF TypeOK, VolatileType, HistoryType
  <2> QED
    BY <1>11, <2>1, <2>3, AddsNothing DEF SentFrame, Answers
<1>12. CASE CollectCommit(p)
  <2>1. UNCHANGED <<sendSeq, written, faults, notes, unwritten, told>>
    BY <1>12 DEF CollectCommit, events
  <2>2. run[p].msg.cursor \in Nat
    BY <1>12, MessageType DEF CollectCommit, TaskType, RunTyped
  <2>3. peerCol' = peerCol \/ peerCol' = [peerCol EXCEPT ![p] = Advanced(p, run[p].msg.cursor)]
    BY <1>12 DEF CollectCommit, RecordMessage
  <2> QED
    BY <2>1, <2>2, <2>3, AddsCursor, AddsNothing, AnswersSame
<1>13. CASE CollectTrim(p)
  <2>1. UNCHANGED <<sendSeq, peerCol, notes, unwritten, written, told>>
    BY <1>13 DEF CollectTrim, events
  <2>2. faults' = faults \/ \E kind \in FaultKinds : faults' = Append(faults, kind)
    BY <1>13 DEF CollectTrim, TrimOutbox, NoFault, Fault
  <2> QED
    BY <2>1, <2>2, AddsNothing, AnswersSame
<1>14. CASE ReportDelivery(p)
  <2>1. UNCHANGED <<sendSeq, peerCol, notes, unwritten, written, told>>
    BY <1>14 DEF ReportDelivery, events
  <2>2. faults' = faults \/ \E kind \in FaultKinds : faults' = Append(faults, kind)
    BY <1>14 DEF ReportDelivery, TrimOutbox, NoFault, Fault
  <2> QED
    BY <2>1, <2>2, AddsNothing, AnswersSame
<1>15. CASE PublishRecord(p)
  <2>1. UNCHANGED <<sendSeq, peerCol, notes, unwritten, written, told, faults>>
    BY <1>15 DEF PublishRecord, history, events
  <2> QED
    BY <2>1, AddsNothing, AnswersSame
<1>16. CASE DropRecords(p)
  <2>1. UNCHANGED <<sendSeq, peerCol, notes, unwritten, written, told, faults>>
    BY <1>16 DEF DropRecords, history, events
  <2> QED
    BY <2>1, AddsNothing, AnswersSame
<1>17. CASE TakePeerCursor(p)
  <2>1. TakesCursor(p, run[p].val) /\ run[p].val \in Nat
    BY <1>17, RunFields DEF TakePeerCursor, TypeOK, VolatileType
  <2> QED
    BY <2>1, TakesAdds, AnswersSame
<1>18. CASE EraseChannel(p)
  <2>1. UNCHANGED <<sendSeq, peerCol, notes, unwritten, written, told>>
    BY <1>18 DEF EraseChannel, Erase, store, events
  <2>2. faults' = faults \/ \E kind \in FaultKinds : faults' = Append(faults, kind)
    BY <1>18 DEF EraseChannel, Erase, NoFault, Fault
  <2> QED
    BY <2>1, <2>2, AddsNothing, AnswersSame
<1> QED
  BY <1>1, <1>2, <1>3, <1>4, <1>5, <1>6, <1>7, <1>8, <1>9,
     <1>10, <1>11, <1>12, <1>13, <1>14, <1>15, <1>16, <1>17, <1>18 DEF Runner

(* A fault that happened has happened.                                     *)
LEMMA HappenedStays ==
  ASSUME TypeOK, NEW p \in Party, SentFrame(p)
  PROVE  Happened("writeFails") => Happened("writeFails")'
<1>1. faults \in Seq(FaultKinds)
  BY DEF TypeOK, HistoryType
<1>2. CASE faults' = faults
  BY <1>2 DEF Happened
<1>3. ASSUME NEW kind \in FaultKinds, faults' = Append(faults, kind)
      PROVE  \A i \in DOMAIN faults : i \in DOMAIN faults' /\ faults'[i] = faults[i]
  BY <1>1, <1>3
<1> QED
  BY <1>2, <1>3 DEF SentFrame, AddsUp, Happened

LEMMA WriteFails ==
  ASSUME TypeOK, Fault("writeFails") PROVE Happened("writeFails")'
<1>1. faults \in Seq(FaultKinds) /\ faults' = Append(faults, "writeFails")
  BY DEF TypeOK, HistoryType, Fault
<1>2. Len(faults) + 1 \in DOMAIN faults' /\ faults'[Len(faults) + 1] = "writeFails"
  BY <1>1, "writeFails" \in FaultKinds DEF Fault
<1> QED
  BY <1>2 DEF Happened

(* A step that answers nothing for p keeps p's part.                       *)
LEMMA SentKept ==
  ASSUME TypeOK, TypeOK', NEW p \in Party, SentFrame(p), NEW q \in Party, SentSound(q),
         notes'[q] = notes[q], unwritten'[q] = unwritten[q], told'[q] = told[q]
  PROVE  SentSound(q)'
<1>1. notes[q] \in Seq(Nat) /\ told[q] \subseteq Nat
  BY DEF TypeOK, VolatileType, HistoryType
<1>2. sendSeq'[q] >= sendSeq[q] /\ peerCol'[q] >= peerCol[q] /\ written[q] \subseteq written'[q]
  BY DEF SentFrame, AddsUp
<1>3. \A i \in 1 .. Len(notes'[q]) : notes'[q][i] < sendSeq'[q]
  <2> TAKE i \in 1 .. Len(notes'[q])
  <2>1. notes'[q][i] \in Nat /\ notes'[q][i] < sendSeq[q]
    BY <1>1 DEF SentSound
  <2>2. sendSeq[q] \in Nat /\ sendSeq'[q] \in Nat
    BY Counters, CountersNext
  <2> QED
    BY <1>2, <2>1, <2>2
<1>4. sendSeq'[q] \in Nat /\ peerCol'[q] \in Nat /\ peerCol[q] \in Nat
  BY Counters DEF TypeOK, StoreType
<1>5. Answered(q) => Answered(q)'
  BY <1>1, <1>2, <1>4 DEF Answered
<1> QED
  BY <1>3, <1>5, HappenedStays DEF SentSound

(* A commit notes the sequence it has just given out. *)
LEMMA SentCommit ==
  ASSUME TypeOK, TypeOK', ContentInv, NEW p \in Party, SentSound(p), SendCommit(p)
  PROVE  SentSound(p)'
<1>0. SentFrame(p)
  BY SentFrameLane DEF Lane
<1>1. CASE UNCHANGED notes
  <2>1. notes'[p] = notes[p] /\ unwritten'[p] = unwritten[p] /\ told'[p] = told[p]
    BY <1>1 DEF SendCommit, events
  <2> QED
    BY <1>0, <2>1, SentKept
<1>2. CASE ~ UNCHANGED notes
  <2>1. /\ sendSeq' = [sendSeq EXCEPT ![p] = @ + 1]
        /\ notes' = [notes EXCEPT ![p] = Append(@, lane[p].msg.seq)]
        /\ UNCHANGED <<peerCol, unwritten, written, told, faults>>
    BY <1>2 DEF SendCommit, events
  <2>2. lane[p].pc = "stored" /\ lane[p].msg.seq = sendSeq[p]
    BY DEF SendCommit, ContentInv, Content, LaneContent
  <2>3. /\ notes'[p] = Append(notes[p], sendSeq[p]) /\ sendSeq'[p] = sendSeq[p] + 1
        /\ notes[p] \in Seq(Nat) /\ sendSeq[p] \in Nat
    BY <2>1, <2>2 DEF TypeOK, StoreType, VolatileType
  <2>4. \A i \in 1 .. Len(notes'[p]) : notes'[p][i] < sendSeq'[p]
    <3> TAKE i \in 1 .. Len(notes'[p])
    <3>1. CASE i \in 1 .. Len(notes[p])
      <4>1. notes'[p][i] = notes[p][i] /\ notes[p][i] \in Nat /\ notes[p][i] < sendSeq[p]
        BY <2>3, <3>1 DEF SentSound
      <4> QED
        BY <2>3, <4>1
    <3>2. CASE i = Len(notes[p]) + 1
      BY <2>3, <3>2
    <3> QED
      BY <2>3, <3>1, <3>2
  <2>5. Happened("writeFails")' = Happened("writeFails") /\ Answered(p)' = Answered(p)
    BY <2>1 DEF Happened, Answered
  <2> QED
    BY <2>4, <2>5 DEF SentSound
<1> QED
  BY <1>1, <1>2

(* A relaunch has nothing noted and nothing to answer. *)
LEMMA SentCrash ==
  ASSUME TypeOK, TypeOK', NEW p \in Party, SentSound(p), Crash(p)
  PROVE  SentSound(p)'
<1>1. notes'[p] = <<>> /\ unwritten'[p] = {}
  BY DEF Crash, TypeOK, VolatileType
<1>2. UNCHANGED <<peerCol, written, told>>
  BY DEF Crash, store, events
<1>3. Happened("writeFails") => Happened("writeFails")'
  BY SentFrameChance, HappenedStays DEF Chance
<1> QED
  BY <1>1, <1>2, <1>3 DEF SentSound, Answered

(* write_committed answers at once only what is no longer outstanding, and *)
(* everything committed and not collected is outstanding.                  *)
LEMMA SentWriteLoad ==
  ASSUME TypeOK, TypeOK', ContentInv, NEW p \in Party, SentSound(p), WriteLoad(p)
  PROVE  SentSound(p)'
<1> DEFINE s == Head(notes[p])
<1>1. notes[p] \in Seq(Nat) /\ notes[p] # <<>> /\ notes'[p] = Tail(notes[p])
  BY DEF WriteLoad, TypeOK, VolatileType
<1>2. UNCHANGED <<sendSeq, peerCol, unwritten, written, faults>>
  BY DEF WriteLoad, store
<1>3. \A i \in 1 .. Len(notes'[p]) : notes'[p][i] < sendSeq'[p]
  <2> TAKE i \in 1 .. Len(notes'[p])
  <2>1. i + 1 \in 1 .. Len(notes[p]) /\ notes'[p][i] = notes[p][i + 1]
    BY <1>1
  <2> QED
    BY <1>2, <2>1 DEF SentSound
<1>4. Happened("writeFails")' = Happened("writeFails")
  BY <1>2 DEF Happened
<1>5. CASE told' = told
  BY <1>2, <1>3, <1>4, <1>5 DEF SentSound, Answered
<1>6. CASE told' # told
  <2>1. /\ life[p] = "live" /\ {m \in Outstanding(p) : m.seq = s} = {}
        /\ told' = [told EXCEPT ![p] = @ \cup {s}]
    BY <1>6 DEF WriteLoad, TellSent
  <2>2. s \in Nat /\ s < sendSeq[p]
    BY <1>1 DEF SentSound
  <2>3. s < peerCol[p]
    <3>1. SUFFICES ASSUME s >= peerCol[p] PROVE FALSE
      BY <2>2, Counters
    <3>2. s \in peerCol[p] .. sendSeq[p] - 1 /\ s + 1 \in 1 .. sendSeq[p]
      BY <2>2, <3>1, Counters
    <3>3. outbox[p][SlotFor(s)] = log[p][s + 1] /\ log[p][s + 1].seq = (s + 1) - 1
      BY <2>1, <3>2 DEF ContentInv, Content, Keeps, LogSound
    <3>4. outbox[p][SlotFor(s)] \in Outstanding(p) /\ outbox[p][SlotFor(s)].seq = s
      BY <2>2, <3>1, <3>3, SlotForType, Counters DEF Outstanding
    <3> QED
      BY <2>1, <3>4
  <2>4. told'[p] = told[p] \cup {s}
    BY <2>1 DEF TypeOK, HistoryType
  <2>5. Answered(p) => Answered(p)'
    BY <1>2, <2>3, <2>4 DEF Answered
  <2> QED
    BY <1>3, <1>4, <2>5 DEF SentSound
<1> QED
  BY <1>5, <1>6

(* A write that was made is reported; one that failed is a failed write.   *)
LEMMA SentWrite ==
  ASSUME TypeOK, TypeOK', NEW p \in Party, SentSound(p), WriteCommitted(p)
  PROVE  SentSound(p)'
<1> DEFINE s == run[p].msg.seq
<1>1. UNCHANGED <<sendSeq, peerCol, notes>>
  BY DEF WriteCommitted, store
<1>2. CASE Fault("writeFails")
  BY <1>1, <1>2, WriteFails DEF SentSound
<1>3. CASE ~ Fault("writeFails")
  <2>1. /\ written' = [written EXCEPT ![p] = @ \cup {s}]
        /\ told' = [told EXCEPT ![p] = @ \cup {s}]
        /\ UNCHANGED <<faults, unwritten>>
    BY <1>3 DEF WriteCommitted, SlotWritten, TellSent, NoFault
  <2>2. written'[p] = written[p] \cup {s} /\ told'[p] = told[p] \cup {s}
    BY <2>1 DEF TypeOK, HistoryType
  <2>3. Answered(p) => Answered(p)'
    BY <1>1, <2>1, <2>2 DEF Answered
  <2> QED
    BY <1>1, <2>1, <2>3 DEF SentSound, Happened
<1> QED
  BY <1>2, <1>3

(* A repair answers only sends whose write failed. *)
LEMMA SentRepairEnd ==
  ASSUME TypeOK, TypeOK', NEW p \in Party, SentSound(p), RepairEnd(p)
  PROVE  SentSound(p)'
<1>1. UNCHANGED <<sendSeq, peerCol, notes, written, faults>>
  BY DEF RepairEnd, store
<1>2. /\ told'[p] = told[p] \cup (unwritten[p] \ run[p].missed)
      /\ unwritten'[p] = unwritten[p] \cap run[p].missed
  BY DEF RepairEnd, TellSent, TypeOK, VolatileType, HistoryType
<1>3. Answered(p) => Answered(p)'
  BY <1>1, <1>2 DEF Answered
<1> QED
  BY <1>1, <1>3 DEF SentSound, Happened

LEMMA SentStep ==
  (TypeOK /\ TaskType /\ OrderInv /\ ContentInv) /\ (TypeOK /\ TaskType /\ OrderInv /\ ContentInv)'
    /\ SentInv /\ [Next]_vars => SentInv'
<1> SUFFICES ASSUME TypeOK, TaskType, ContentInv, TypeOK', SentInv, [Next]_vars,
                    NEW q \in Party
             PROVE  SentSound(q)'
  BY DEF SentInv
<1>1. SentSound(q)
  BY DEF SentInv
<1>2. CASE UNCHANGED vars
  BY <1>1, <1>2 DEF vars, store, volatile, history, events, SentSound, Answered, Happened
<1>3. ASSUME NEW p \in Party, Lane(p) \/ Runner(p) \/ Chance(p) PROVE SentSound(q)'
  <2>1. SentFrame(p)
    BY <1>3, SentFrameLane, SentFrameRunner, SentFrameChance
  <2>2. CASE Answers(q)
    BY <1>1, <2>1, <2>2, SentKept DEF Answers
  <2>3. CASE ~ Answers(q)
    <3>1. p = q
      BY <2>1, <2>3 DEF SentFrame
    <3>2. \/ SendCommit(p) \/ Crash(p)
          \/ WriteLoad(p) \/ WriteCommitted(p) \/ RepairEnd(p)
      BY <1>3, <2>3, <3>1, SentFrameLane, SentFrameRunner, SentFrameChance
    <3> QED
      BY <1>1, <3>1, <3>2, SentCommit, SentCrash, SentWriteLoad, SentWrite, SentRepairEnd
  <2> QED
    BY <2>2, <2>3
<1> QED
  BY <1>2, <1>3 DEF Next

(* SentIsWritten: a send is reported Sent only once its slot was written   *)
(* or its correspondent has collected it, however sends, pushes, repairs,  *)
(* crashes and collections interleave, as long as no write was refused.    *)
THEOREM SentMeansWritten == Spec => []SentIsWritten
<1>1. Init => SentInv
  BY DEF Init, SentInv, SentSound, Answered, ForBoth
<1>2. TypeOK /\ SentInv => SentIsWritten
  BY Counters DEF SentInv, SentSound, Answered, SentIsWritten, Collected, TypeOK, HistoryType
<1>3. Spec => []SentInv
  BY <1>1, SentStep, ContentInvariant, PTL DEF Spec
<1> QED
  BY <1>2, <1>3, TypeCorrect, PTL
=============================================================================
