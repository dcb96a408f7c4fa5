----------------------------- MODULE DmDelivery -----------------------------
(***************************************************************************)
(* Delivery in one established direct-message conversation.  Each party    *)
(* runs two tasks over one store: the live lane, which commits sends and   *)
(* takes pushed messages (runner/live_lane.rs), and the runner, which makes*)
(* every record-store call, one at a time (runner.rs).  A party writes its *)
(* own channel - a ring of message slots and a control subkey carrying its *)
(* collection cursor - and reads its correspondent's.  The network may     *)
(* lose a subkey, a write may fail, and a party may crash between any two  *)
(* steps and relaunch from its store.                                      *)
(*                                                                         *)
(* Each store section under the conversation's lock is one step; what a    *)
(* flow loaded before it is kept in the task's own state, where it can go  *)
(* stale.  Between two flow calls the runner holds nothing about the       *)
(* conversation, so the model lets it make the next call in any order.     *)
(*                                                                         *)
(* A sealed message is the sequence and the cursor its header carries and  *)
(* a mark, att, telling apart two seals made at one sequence: every seal   *)
(* yields other bytes.  Whether a message opens is DmKeySchedule's subject;*)
(* here one that names the expected sequence opens.                        *)
(***************************************************************************)
EXTENDS Integers, Sequences, FiniteSets

CONSTANTS
  Alice, Bob,     \* the two parties
  RingSlots,      \* channel.rs RING_SLOTS, 63 in the code
  MaxSend,        \* bound: MaxSend[p] messages sent by p in all
  FaultKinds,     \* the faults that may happen, of AllFaults
  MaxFaults,      \* bound: faults in all
  Deleters        \* the parties that may delete the conversation

AllFaults == {"crash", "evict", "evictControl", "writeFails", "trimRefused"}

Party   == {Alice, Bob}
Peer(p) == IF p = Alice THEN Bob ELSE Alice

ASSUME PartiesDiffer   == Alice # Bob
ASSUME RingAssumption  == RingSlots \in Nat \ {0}
ASSUME BoundAssumption == /\ MaxSend \in [Party -> Nat] /\ MaxFaults \in Nat
                          /\ FaultKinds \subseteq AllFaults /\ Deleters \subseteq Party

VARIABLES
  \* The store: the conversation record and the outbox.
  sendSeq,     \* sendSeq[p]: the next sequence p sends
  peerCol,     \* peerCol[p]: the correspondent's cursor, as p knows it
  myCol,       \* myCol[p]: how many of the correspondent's messages p recorded
  curPub,      \* curPub[p]: the cursor p last recorded as published
  life,        \* life[p]: "live", "marked" delete-pending, or "gone"
  outbox,      \* outbox[p][i]: the message kept for ring position i
  \* The record store: p's channel, on the network and in p's own copy.
  ring, copy,  \* ring[p][i], copy[p][i]
  ctl, ctlCopy, \* ctl[p], ctlCopy[p]: the cursor in the control subkey
  \* What a crash loses.
  lane,        \* lane[p]: what the live lane is in the middle of
  run,         \* run[p]: what the runner is in the middle of
  notes,       \* notes[p]: committed sequences whose slot the runner is to write
  unwritten,   \* unwritten[p]: sequences whose first slot write failed
  delivered,   \* delivered[p]: the cursor last reported to the front end
  \* What has happened, for the properties.
  log,         \* log[p]: the messages p committed
  recv,        \* recv[p]: the messages p recorded
  out,         \* out[p]: every message that left p, pushed or written
  pub,         \* pub[p]: every cursor p's control subkey has held
  written,     \* written[p]: the sequences whose slot was written
  told,        \* told[p]: the sequences reported Sent to the front end
  faults       \* the faults that have happened

store    == <<sendSeq, peerCol, myCol, curPub, life, outbox>>
network  == <<ring, copy, ctl, ctlCopy>>
volatile == <<lane, run, notes, unwritten, delivered>>
events   == <<written, told>>
history  == <<log, recv, out, pub, events, faults>>
vars     == <<store, network, volatile, history>>

-----------------------------------------------------------------------------
(* channel.rs and store.rs: the ring's arithmetic and the outbox table. *)

Slots == 0 .. RingSlots - 1

Message == [seq : Nat, att : {0, 1}, cursor : Nat]
Absent  == [seq |-> -1, att |-> 0, cursor |-> 0]
NoCursor == -1

(* slot_for and ring_index: a sequence shares its place with the one  *)
(* RingSlots before it.                                                *)
SlotFor(seq) == seq % RingSlots

(* Mutant of collected: the message at the cursor counts as collected. *)
CollectedAt(seq, cursor) == cursor >= seq

(* collected: the cursor counts the messages below it. *)
Collected(seq, cursor) == cursor > seq

(* Ring::reserve hands out a sequence unless RingFull. *)
HasRoom(p) == sendSeq[p] - peerCol[p] < RingSlots

(* Mutant of advance_peer_collected: an old cursor moves it backwards. *)
AdvancedEitherWay(p, cursor) == IF cursor < sendSeq[p] THEN cursor ELSE sendSeq[p]

(* Ring::advance_peer_collected: never backwards, never past send_seq. *)
Advanced(p, cursor) ==
  LET bounded == IF cursor < sendSeq[p] THEN cursor ELSE sendSeq[p]
  IN IF bounded > peerCol[p] THEN bounded ELSE peerCol[p]

(* delete_outbox_through: drop every entry the cursor has passed. *)
Trimmed(table, cursor) ==
  [i \in Slots |-> IF Collected(table[i].seq, cursor) THEN Absent ELSE table[i]]

(* Mutant of load: an entry whose commit was refused is listed too. *)
OutstandingAndSealed(p) == {m \in {outbox[p][i] : i \in Slots} : peerCol[p] <= m.seq}

(* Store::load lists an entry only while peer_collected <= seq < send_seq. *)
Outstanding(p) ==
  {m \in {outbox[p][i] : i \in Slots} : peerCol[p] <= m.seq /\ m.seq < sendSeq[p]}

(* behind: the network holds nothing, or an older number than this node. *)
SlotBehind(p, i)  == ring[p][i] = Absent \/ ring[p][i] # copy[p][i]
ControlBehind(p)  == ctl[p] = NoCursor \/ ctl[p] # ctlCopy[p]

(* What AsLoaded compares; the published cursor is left out. *)
Record(p) == [sendSeq |-> sendSeq[p], peerCol |-> peerCol[p], myCol |-> myCol[p]]

NoRecord == [sendSeq |-> 0, peerCol |-> 0, myCol |-> 0]
LaneIdle == [pc |-> "idle", msg |-> Absent, loaded |-> NoRecord, through |-> 0]
RunIdle  == [pc |-> "idle", val |-> 0, msg |-> Absent, todo |-> {}, lost |-> {},
             missed |-> {}, boot |-> FALSE]
RunBoot  == [RunIdle EXCEPT !.pc = "boot", !.boot = TRUE]

(***************************************************************************)
(* An established conversation at rest: the first contact and the reply to *)
(* it, sequence 0 of each side, were sent and recorded, and each side      *)
(* published its cursor and knows the other's.                             *)
(***************************************************************************)
First == [seq |-> 0, att |-> 0, cursor |-> 0]
OnlyFirst == [i \in Slots |-> IF i = 0 THEN First ELSE Absent]
Nothing   == [i \in Slots |-> Absent]
ForBoth(value) == [p \in Party |-> value]

Init ==
  /\ sendSeq = ForBoth(1) /\ peerCol = ForBoth(1)
  /\ myCol = ForBoth(1) /\ curPub = ForBoth(1)
  /\ life = ForBoth("live") /\ outbox = ForBoth(Nothing)
  /\ ring = ForBoth(OnlyFirst) /\ copy = ring
  /\ ctl = ForBoth(1) /\ ctlCopy = ctl
  /\ lane = ForBoth(LaneIdle) /\ run = ForBoth(RunIdle)
  /\ notes = ForBoth(<<>>) /\ unwritten = ForBoth({}) /\ delivered = ForBoth(1)
  /\ log = ForBoth(<<First>>) /\ recv = log
  /\ out = ForBoth({First}) /\ pub = ForBoth({0, 1})
  /\ written = ForBoth({0}) /\ told = ForBoth({0})
  /\ faults = <<>>

Fault(kind) == kind \in FaultKinds /\ Len(faults) < MaxFaults /\ faults' = Append(faults, kind)
NoFault     == UNCHANGED faults
Happened(kind) == \E i \in DOMAIN faults : faults[i] = kind

-----------------------------------------------------------------------------
(* The live lane. *)

(* commit_message loads the record, reserves a sequence and seals. *)
SendLoad(p) ==
  /\ lane[p].pc = "idle" /\ life[p] = "live"
  /\ HasRoom(p) /\ sendSeq[p] < MaxSend[p]
  /\ LET kept == outbox[p][SlotFor(sendSeq[p])]
         att  == IF kept.seq = sendSeq[p] THEN 1 - kept.att ELSE 0
     IN lane' = [lane EXCEPT ![p] =
                   [LaneIdle EXCEPT !.pc = "sealed", !.loaded = Record(p),
                      !.msg = [seq |-> sendSeq[p], att |-> att, cursor |-> myCol[p]]]]
  /\ UNCHANGED <<store, network, run, notes, unwritten, delivered, history>>

(* persist_outbox, refused OutboxSlotOccupied where another sequence holds *)
(* the ring position.                                                      *)
SendPersist(p) ==
  /\ lane[p].pc = "sealed"
  /\ LET msg  == lane[p].msg
         i    == SlotFor(msg.seq)
     IN IF outbox[p][i].seq \in {Absent.seq, msg.seq}
        THEN /\ outbox' = [outbox EXCEPT ![p][i] = msg]
             /\ lane' = [lane EXCEPT ![p].pc = "stored"]
        ELSE /\ lane' = [lane EXCEPT ![p] = LaneIdle]
             /\ UNCHANGED outbox
  /\ UNCHANGED <<sendSeq, peerCol, myCol, curPub, life, network, run, notes, unwritten,
                 delivered, history>>

(* The commit, refused DeletePending or Conflict, and the push of what it  *)
(* committed; the lane then notes the slot for the runner to write.        *)
SendCommit(p) ==
  /\ lane[p].pc = "stored"
  /\ lane' = [lane EXCEPT ![p] = LaneIdle]
  /\ IF life[p] = "live" /\ lane[p].loaded = Record(p)
     THEN /\ sendSeq' = [sendSeq EXCEPT ![p] = @ + 1]
          /\ log' = [log EXCEPT ![p] = Append(@, lane[p].msg)]
          /\ out' = [out EXCEPT ![p] = @ \cup {lane[p].msg}]
          /\ notes' = [notes EXCEPT ![p] = Append(@, lane[p].msg.seq)]
     ELSE UNCHANGED <<sendSeq, log, out, notes>>
  /\ UNCHANGED <<peerCol, myCol, curPub, life, outbox, network, run, unwritten, delivered,
                 recv, pub, events, faults>>

(* The step of collect_step made under the lock: the message is recorded,  *)
(* the collection cursor and the correspondent's cursor move.              *)
RecordMessage(p, msg) ==
  /\ myCol' = [myCol EXCEPT ![p] = msg.seq + 1]
  /\ peerCol' = [peerCol EXCEPT ![p] = Advanced(p, msg.cursor)]
  /\ recv' = [recv EXCEPT ![p] = Append(@, msg)]

(* take_message: a pushed slot, or the bytes of a watched change, taken    *)
(* only as the next sequence.  It may arrive late, or more than once.      *)
TakePush(p) ==
  /\ lane[p].pc = "idle" /\ life[p] = "live"
  /\ \E msg \in out[Peer(p)] :
       /\ msg.seq = myCol[p]
       /\ RecordMessage(p, msg)
       /\ lane' = [lane EXCEPT ![p] = [LaneIdle EXCEPT !.pc = "trim",
                                         !.through = Advanced(p, msg.cursor)]]
  /\ UNCHANGED <<sendSeq, curPub, life, outbox, network, run, notes, unwritten, delivered,
                 log, out, pub, events, faults>>

(* Mutant of the deletion: the last entry the cursor passed is left. *)
TrimAllButLast(p, through) == outbox' = [outbox EXCEPT ![p] = Trimmed(@, through - 1)] /\ NoFault

(* collect_step's deletion of the outbox entries the cursor passed, a      *)
(* second store section, which the store may refuse.                       *)
TrimOutbox(p, through) ==
  \/ outbox' = [outbox EXCEPT ![p] = Trimmed(@, through)] /\ NoFault
  \/ Fault("trimRefused") /\ UNCHANGED outbox

LaneTrim(p) ==
  /\ lane[p].pc = "trim"
  /\ TrimOutbox(p, lane[p].through)
  /\ lane' = [lane EXCEPT ![p] = LaneIdle]
  /\ UNCHANGED <<sendSeq, peerCol, myCol, curPub, life, network, run, notes, unwritten,
                 delivered, log, recv, out, pub, events>>

(* A delete's mark, made as the command arrives. *)
MarkDelete(p) ==
  /\ p \in Deleters /\ lane[p].pc = "idle" /\ life[p] = "live"
  /\ life' = [life EXCEPT ![p] = "marked"]
  /\ UNCHANGED <<sendSeq, peerCol, myCol, curPub, outbox, network, volatile, history>>

-----------------------------------------------------------------------------
(* The runner: the slots it owes. *)

Starts(p, task) == run[p].pc = "idle" /\ run' = [run EXCEPT ![p] = task]
Ends(p)         == run' = [run EXCEPT ![p] = RunIdle]

(* A record-store write of one ring slot, which may fail. *)
SlotWritten(p, msg) ==
  /\ ring' = [ring EXCEPT ![p][SlotFor(msg.seq)] = msg]
  /\ copy' = [copy EXCEPT ![p][SlotFor(msg.seq)] = msg]
  /\ out' = [out EXCEPT ![p] = @ \cup {msg}]
  /\ written' = [written EXCEPT ![p] = @ \cup {msg.seq}]
  /\ NoFault

SlotNotWritten == UNCHANGED <<ring, copy, out, written>>

(* RunnerEvent::Sent, for each of the sequences. *)
TellSent(p, seqs) == told' = [told EXCEPT ![p] = @ \cup seqs]

(* Mutant of write_committed: Sent is reported before the slot is written. *)
WriteLoadTelling(p) ==
  /\ notes[p] # <<>> /\ run[p].pc = "idle"
  /\ notes' = [notes EXCEPT ![p] = Tail(@)]
  /\ LET entry == {m \in Outstanding(p) : m.seq = Head(notes[p])}
     IN \/ life[p] # "live" /\ UNCHANGED <<run, told>>
        \/ /\ life[p] = "live" /\ entry = {}
           /\ TellSent(p, {Head(notes[p])}) /\ UNCHANGED run
        \/ \E m \in entry :
             life[p] = "live" /\ Starts(p, [RunIdle EXCEPT !.pc = "write", !.msg = m])
                             /\ TellSent(p, {m.seq})
  /\ UNCHANGED <<store, network, lane, unwritten, delivered, log, recv, out, pub,
                 written, faults>>

(* write_committed: the entry noted, where the store still lists it.  One  *)
(* that is not listed was collected already, and is answered at once.      *)
WriteLoad(p) ==
  /\ notes[p] # <<>> /\ run[p].pc = "idle"
  /\ notes' = [notes EXCEPT ![p] = Tail(@)]
  /\ LET entry == {m \in Outstanding(p) : m.seq = Head(notes[p])}
     IN \/ life[p] # "live" /\ UNCHANGED <<run, told>>
        \/ /\ life[p] = "live" /\ entry = {}
           /\ TellSent(p, {Head(notes[p])}) /\ UNCHANGED run
        \/ \E m \in entry :
             life[p] = "live" /\ Starts(p, [RunIdle EXCEPT !.pc = "write", !.msg = m])
                             /\ UNCHANGED told
  /\ UNCHANGED <<store, network, lane, unwritten, delivered, log, recv, out, pub,
                 written, faults>>

WriteCommitted(p) ==
  /\ run[p].pc = "write" /\ Ends(p)
  /\ \/ /\ SlotWritten(p, run[p].msg)
        /\ TellSent(p, {run[p].msg.seq}) /\ UNCHANGED unwritten
     \/ /\ Fault("writeFails") /\ SlotNotWritten /\ UNCHANGED told
        /\ unwritten' = [unwritten EXCEPT ![p] = @ \cup {run[p].msg.seq}]
  /\ UNCHANGED <<store, ctl, ctlCopy, lane, notes, delivered, log, recv, pub>>

(* Mutant of rewrite_evicted: the slot at the cursor is not compared. *)
NothingLost(p) ==
  ~ControlBehind(p) /\ \A m \in Outstanding(p) : ~SlotBehind(p, SlotFor(m.seq))

(* rewrite_evicted looks at a conversation: at every launch, and on the    *)
(* repair schedule while anything is outstanding, which a commit joins and *)
(* only a repair leaves.  A look that finds nothing to do is left out.     *)
NothingToRepair(p) ==
  /\ ~ControlBehind(p)
  /\ \A m \in Outstanding(p) :
       /\ ~SlotBehind(p, SlotFor(m.seq))
       /\ m.seq = peerCol[p] => ring[p][SlotFor(m.seq)] = m

RepairLoad(p) ==
  /\ \/ run[p].pc = "boot"
     \/ run[p].pc = "idle" /\ Outstanding(p) # {} /\ ~NothingToRepair(p)
     \/ run[p].pc = "idle" /\ unwritten[p] # {}
  /\ run' = [run EXCEPT ![p] =
       IF life[p] # "live" THEN RunIdle
       ELSE [RunIdle EXCEPT !.pc = IF ControlBehind(p) THEN "repairControl" ELSE "repair",
                            !.val = peerCol[p], !.boot = run[p].boot, !.todo = Outstanding(p),
                            !.lost = {i \in Slots : SlotBehind(p, i)}]]
  /\ UNCHANGED <<store, network, lane, notes, unwritten, delivered, history>>

(* A write of the control subkey, which may fail. *)
WriteControl(p, cursor) ==
  \/ /\ ctl' = [ctl EXCEPT ![p] = cursor]
     /\ ctlCopy' = [ctlCopy EXCEPT ![p] = cursor]
     /\ pub' = [pub EXCEPT ![p] = @ \cup {cursor}]
     /\ NoFault
  \/ Fault("writeFails") /\ UNCHANGED <<ctl, ctlCopy, pub>>

(* current_control carries the cursor recorded as published. *)
RepairControl(p) ==
  /\ run[p].pc = "repairControl"
  /\ WriteControl(p, curPub[p])
  /\ run' = [run EXCEPT ![p].pc = "repair"]
  /\ UNCHANGED <<store, ring, copy, lane, notes, unwritten, delivered, log, recv, out, events>>

(* One entry of the repair, lowest sequence first: rewritten where its     *)
(* slot was behind, or where it is the one at the correspondent's cursor   *)
(* and the network holds other bytes.                                      *)
RepairEntry(p) ==
  /\ run[p].pc = "repair"
  /\ \E m \in run[p].todo :
       LET i    == SlotFor(m.seq)
           owed == i \in run[p].lost \/ (m.seq = run[p].val /\ ring[p][i] # m)
           rest == [run[p] EXCEPT !.todo = @ \ {m}]
       IN /\ \A other \in run[p].todo : m.seq <= other.seq
          /\ \/ owed /\ SlotWritten(p, m) /\ run' = [run EXCEPT ![p] = rest]
             \/ ~owed /\ SlotNotWritten /\ NoFault /\ run' = [run EXCEPT ![p] = rest]
             \/ /\ owed /\ Fault("writeFails") /\ SlotNotWritten
                /\ run' = [run EXCEPT ![p] = [rest EXCEPT !.missed = @ \cup {m.seq}]]
  /\ UNCHANGED <<store, ctl, ctlCopy, lane, notes, unwritten, delivered, log, recv,
                 pub, told>>

(* Mutant of settle_unwritten: the sends are forgotten unanswered. *)
RepairEndSilent(p) ==
  /\ run[p].pc = "repair" /\ run[p].todo = {}
  /\ Ends(p)
  /\ TellSent(p, {})
  /\ unwritten' = [unwritten EXCEPT ![p] = @ \cap run[p].missed]
  /\ UNCHANGED <<store, network, lane, notes, delivered, log, recv, out, pub,
                 written, faults>>

(* settle_unwritten: a send whose first write failed is answered once the  *)
(* repair held its slot - found it not behind, or wrote it - or once it is *)
(* no longer listed.                                                       *)
RepairEnd(p) ==
  /\ run[p].pc = "repair" /\ run[p].todo = {}
  /\ Ends(p)
  /\ TellSent(p, unwritten[p] \ run[p].missed)
  /\ unwritten' = [unwritten EXCEPT ![p] = @ \cap run[p].missed]
  /\ UNCHANGED <<store, network, lane, notes, delivered, log, recv, out, pub,
                 written, faults>>

-----------------------------------------------------------------------------
(* The runner: collection and cursors. *)

(* collect_step loads the record and reads the slot of the next sequence.  *)
(* A slot holding anything else is the end of the ring and changes nothing.*)
CollectRead(p) ==
  /\ life[p] = "live"
  /\ LET raw == ring[Peer(p)][SlotFor(myCol[p])]
     IN /\ raw.seq = myCol[p]
        /\ Starts(p, [RunIdle EXCEPT !.pc = "collect", !.msg = raw])
  /\ UNCHANGED <<store, network, lane, notes, unwritten, delivered, history>>

(* Mutant of the commit: a message recorded meanwhile is recorded again. *)
CollectAgain(p) ==
  /\ run[p].pc = "collect"
  /\ IF life[p] = "live"
     THEN /\ RecordMessage(p, run[p].msg)
          /\ run' = [run EXCEPT ![p] = [RunIdle EXCEPT !.pc = "trim",
                                          !.val = Advanced(p, run[p].msg.cursor)]]
     ELSE Ends(p) /\ UNCHANGED <<myCol, peerCol, recv>>
  /\ UNCHANGED <<sendSeq, curPub, life, outbox, network, lane, notes, unwritten, delivered,
                 log, out, pub, events, faults>>

(* collect_step's commit, on the record as it stands: refused where the    *)
(* conversation is marked, Conflict where the sequence is recorded already.*)
CollectCommit(p) ==
  /\ run[p].pc = "collect"
  /\ IF life[p] = "live" /\ myCol[p] = run[p].msg.seq
     THEN /\ RecordMessage(p, run[p].msg)
          /\ run' = [run EXCEPT ![p] = [RunIdle EXCEPT !.pc = "trim",
                                          !.val = Advanced(p, run[p].msg.cursor)]]
     ELSE Ends(p) /\ UNCHANGED <<myCol, peerCol, recv>>
  /\ UNCHANGED <<sendSeq, curPub, life, outbox, network, lane, notes, unwritten, delivered,
                 log, out, pub, events, faults>>

CollectTrim(p) ==
  /\ run[p].pc = "trim"
  /\ TrimOutbox(p, run[p].val)
  /\ Ends(p)
  /\ UNCHANGED <<sendSeq, peerCol, myCol, curPub, life, network, lane, notes, unwritten,
                 delivered, log, recv, out, pub, events>>

(* Mutant of publish_cursor: one message is not worth a write. *)
PublishLoadMany(p) ==
  /\ life[p] = "live" /\ myCol[p] > curPub[p] + 1
  /\ Starts(p, [RunIdle EXCEPT !.pc = "publish", !.val = myCol[p]])
  /\ UNCHANGED <<store, network, lane, notes, unwritten, delivered, history>>

(* publish_cursor: load, write the control subkey, record it published. *)
PublishLoad(p) ==
  /\ life[p] = "live" /\ myCol[p] > curPub[p]
  /\ Starts(p, [RunIdle EXCEPT !.pc = "publish", !.val = myCol[p]])
  /\ UNCHANGED <<store, network, lane, notes, unwritten, delivered, history>>

PublishWrite(p) ==
  /\ run[p].pc = "publish"
  /\ WriteControl(p, run[p].val)
  /\ IF faults' = faults THEN run' = [run EXCEPT ![p].pc = "published"] ELSE Ends(p)
  /\ UNCHANGED <<store, ring, copy, lane, notes, unwritten, delivered, log, recv, out, events>>

PublishRecord(p) ==
  /\ run[p].pc = "published"
  /\ curPub' = [curPub EXCEPT ![p] = IF run[p].val > @ THEN run[p].val ELSE @]
  /\ Ends(p)
  /\ UNCHANGED <<sendSeq, peerCol, myCol, life, outbox, network, lane, notes, unwritten,
                 delivered, history>>

(* Mutant of republish_controls: a deleted conversation is rewritten too. *)
RepublishAll(p) ==
  /\ run[p].pc = "idle" /\ ctl[p] # curPub[p]
  /\ WriteControl(p, curPub[p])
  /\ UNCHANGED <<store, ring, copy, volatile, log, recv, out, events>>

(* republish_controls: the control subkey rewritten with a new route. *)
RepublishControl(p) ==
  /\ run[p].pc = "idle" /\ life[p] = "live" /\ ctl[p] # curPub[p]
  /\ WriteControl(p, curPub[p])
  /\ UNCHANGED <<store, ring, copy, volatile, log, recv, out, events>>

(* Mutant of catch_up_peer_control: whatever the read gave is taken. *)
CatchUpUnread(p) ==
  /\ life[p] = "live" /\ sendSeq[p] > peerCol[p]
  /\ Starts(p, [RunIdle EXCEPT !.pc = "cursor", !.val = ctl[Peer(p)]])
  /\ UNCHANGED <<store, network, lane, notes, unwritten, delivered, history>>

(* catch_up_peer_control reads the correspondent's control subkey.  The    *)
(* cursor read is applied in a later store section.                        *)
CatchUp(p) ==
  /\ life[p] = "live" /\ sendSeq[p] > peerCol[p] /\ ctl[Peer(p)] > peerCol[p]
  /\ Starts(p, [RunIdle EXCEPT !.pc = "cursor", !.val = ctl[Peer(p)]])
  /\ UNCHANGED <<store, network, lane, notes, unwritten, delivered, history>>

(* take_peer_cursor. *)
TakesCursor(p, cursor) ==
  /\ peerCol' = [peerCol EXCEPT ![p] = IF life[p] = "gone" THEN @ ELSE Advanced(p, cursor)]
  /\ UNCHANGED <<sendSeq, myCol, curPub, life, outbox, network, lane, notes, unwritten,
                 delivered, history>>

TakePeerCursor(p) ==
  /\ run[p].pc = "cursor" /\ Ends(p)
  /\ TakesCursor(p, run[p].val)

(* A cursor the lane hands on from a watched control or a reach notice; it *)
(* may be an old one.                                                      *)
HearCursor(p) ==
  /\ run[p].pc = "idle" /\ UNCHANGED run
  /\ \E cursor \in pub[Peer(p)] : TakesCursor(p, cursor)

(* report_delivery: the cursor reported, and the outbox trimmed, only      *)
(* where the cursor has passed the one last reported.                      *)
ReportDelivery(p) ==
  /\ run[p].pc = "idle" /\ life[p] # "gone"
  /\ peerCol[p] > delivered[p]
  /\ delivered' = [delivered EXCEPT ![p] = peerCol[p]]
  /\ TrimOutbox(p, peerCol[p])
  /\ UNCHANGED <<sendSeq, peerCol, myCol, curPub, life, network, lane, run, notes,
                 unwritten, log, recv, out, pub, events>>

(* teardown of a delete asked for in this run: a closed marker, carrying   *)
(* the cursor as it stands, is written first.  A failure stops it short.   *)
CloseControl(p) ==
  /\ life[p] = "marked" /\ run[p].pc = "idle"
  /\ WriteControl(p, myCol[p])
  /\ IF faults' = faults THEN run' = [run EXCEPT ![p].pc = "closing"] ELSE UNCHANGED run
  /\ UNCHANGED <<store, ring, copy, lane, notes, unwritten, delivered, log, recv, out, events>>

(* The erase deletes this node's copy of the record, whole; what the       *)
(* network holds stays, and is read, until it fades.  It may fail, and the *)
(* delete is then carried on later, as it is after a crash.                *)
Erase(p) ==
  /\ run[p].pc \in {"idle", "closing"}
  /\ \/ /\ run' = [run EXCEPT ![p] = [RunIdle EXCEPT !.pc = "erased"]]
        /\ copy' = [copy EXCEPT ![p] = Nothing]
        /\ ctlCopy' = [ctlCopy EXCEPT ![p] = NoCursor]
        /\ NoFault
     \/ Fault("writeFails") /\ Ends(p) /\ UNCHANGED <<copy, ctlCopy>>
  /\ UNCHANGED <<store, ring, ctl, lane, notes, unwritten, delivered, log, recv, out, pub,
                 events>>

(* Mutant of teardown: a resumed delete gives up where nothing is left to  *)
(* erase.                                                                  *)
EraseOnce(p) == life[p] = "marked" /\ copy[p] # Nothing /\ Erase(p)

(* teardown: the channel erased, then the local records dropped. *)
EraseChannel(p) == life[p] = "marked" /\ Erase(p)

DropRecords(p) ==
  /\ run[p].pc = "erased"
  /\ life' = [life EXCEPT ![p] = "gone"]
  /\ outbox' = [outbox EXCEPT ![p] = Nothing]
  /\ Ends(p)
  /\ UNCHANGED <<sendSeq, peerCol, myCol, curPub, network, lane, notes, unwritten, delivered,
                 history>>

-----------------------------------------------------------------------------
(* What happens to a party and to the network. *)

(* The process stops and relaunches: the cursor reported is taken from the *)
(* store, and the launch looks at the channel before anything else.        *)
Crash(p) ==
  /\ Fault("crash")
  /\ lane' = [lane EXCEPT ![p] = LaneIdle]
  /\ run' = [run EXCEPT ![p] = RunBoot]
  /\ notes' = [notes EXCEPT ![p] = <<>>] /\ unwritten' = [unwritten EXCEPT ![p] = {}]
  /\ delivered' = [delivered EXCEPT ![p] = peerCol[p]]
  /\ UNCHANGED <<store, network, log, recv, out, pub, events>>

(* Storage nodes drop a slot, or are left with an older value of it. *)
EvictSlot(p) ==
  /\ Fault("evict")
  /\ \E i \in Slots :
       /\ ring[p][i] # Absent
       /\ \E old \in {Absent} \cup {m \in out[p] : m.seq \in written[p] /\ SlotFor(m.seq) = i
                                              /\ m.seq < ring[p][i].seq} :
            ring' = [ring EXCEPT ![p][i] = old]
  /\ UNCHANGED <<store, copy, ctl, ctlCopy, volatile, log, recv, out, pub, events>>

EvictControl(p) ==
  /\ Fault("evictControl")
  /\ ctl[p] # NoCursor
  /\ \E old \in {NoCursor} \cup {c \in pub[p] : c < ctl[p]} : ctl' = [ctl EXCEPT ![p] = old]
  /\ UNCHANGED <<store, ring, copy, ctlCopy, volatile, log, recv, out, pub, events>>

(* Storage nodes let go of a record its owner deleted, and so refreshes    *)
(* nowhere, whole.                                                         *)
Fade(p) ==
  /\ ctlCopy[p] = NoCursor
  /\ ring[p] # Nothing \/ ctl[p] # NoCursor
  /\ ring' = [ring EXCEPT ![p] = Nothing]
  /\ ctl' = [ctl EXCEPT ![p] = NoCursor]
  /\ UNCHANGED <<store, copy, ctlCopy, volatile, history>>

-----------------------------------------------------------------------------

Lane(p) == SendPersist(p) \/ SendCommit(p) \/ LaneTrim(p)

Runner(p) ==
  \/ WriteLoad(p) \/ WriteCommitted(p)
  \/ RepairLoad(p) \/ RepairControl(p) \/ RepairEntry(p) \/ RepairEnd(p)
  \/ CollectRead(p) \/ CollectCommit(p) \/ CollectTrim(p)
  \/ PublishLoad(p) \/ PublishWrite(p) \/ PublishRecord(p)
  \/ CatchUp(p) \/ TakePeerCursor(p) \/ ReportDelivery(p)
  \/ CloseControl(p) \/ EraseChannel(p) \/ DropRecords(p)

Chance(p) ==
  \/ SendLoad(p) \/ TakePush(p) \/ HearCursor(p) \/ MarkDelete(p) \/ RepublishControl(p)
  \/ Crash(p) \/ EvictSlot(p) \/ EvictControl(p) \/ Fade(p)

Next == \E p \in Party : Lane(p) \/ Runner(p) \/ Chance(p)

(* Each task goes on with what it started, and the runner, which serves    *)
(* its schedules in one loop, does what is left for it to do.  Nothing in  *)
(* Chance is owed to anybody.                                              *)
Fairness == \A p \in Party : WF_vars(Lane(p)) /\ WF_vars(Runner(p))

Spec == Init /\ [][Next]_vars /\ Fairness

-----------------------------------------------------------------------------

Committed(p) == {log[p][i] : i \in DOMAIN log[p]}

OptMessage == Message \cup {Absent}
RecordType == [sendSeq : Nat, peerCol : Nat, myCol : Nat]
LaneType   == [pc : {"idle", "sealed", "stored", "trim"}, msg : OptMessage,
               loaded : RecordType, through : Nat]
RunPc      == {"idle", "boot", "write", "repairControl", "repair", "collect", "trim",
               "publish", "published", "cursor", "closing", "erased"}
RunType    == [pc : RunPc, val : Nat, msg : OptMessage, todo : SUBSET Message,
               lost : SUBSET Slots, missed : SUBSET Nat, boot : BOOLEAN]

StoreType ==
  /\ sendSeq \in [Party -> Nat] /\ peerCol \in [Party -> Nat]
  /\ myCol \in [Party -> Nat] /\ curPub \in [Party -> Nat]
  /\ life \in [Party -> {"live", "marked", "gone"}]
  /\ outbox \in [Party -> [Slots -> OptMessage]]

NetworkType ==
  /\ ring \in [Party -> [Slots -> OptMessage]] /\ copy \in [Party -> [Slots -> OptMessage]]
  /\ ctl \in [Party -> Nat \cup {NoCursor}] /\ ctlCopy \in [Party -> Nat \cup {NoCursor}]

VolatileType ==
  /\ lane \in [Party -> LaneType] /\ run \in [Party -> RunType]
  /\ notes \in [Party -> Seq(Nat)] /\ unwritten \in [Party -> SUBSET Nat]
  /\ delivered \in [Party -> Nat]

HistoryType ==
  /\ log \in [Party -> Seq(Message)] /\ recv \in [Party -> Seq(Message)]
  /\ out \in [Party -> SUBSET Message] /\ pub \in [Party -> SUBSET Nat]
  /\ written \in [Party -> SUBSET Nat] /\ told \in [Party -> SUBSET Nat]
  /\ faults \in Seq(FaultKinds)

(* Every variable keeps its type. *)
TypeOK == StoreType /\ NetworkType /\ VolatileType /\ HistoryType

(* The three cursors of a direction stay in order: what the sender counts  *)
(* as collected was recorded by the reader, what the reader recorded was   *)
(* committed by the sender, and no more than a ring is ever outstanding,   *)
(* so no slot is reused before its message is recorded.                    *)
CursorOrder ==
  \A p \in Party :
    /\ peerCol[p] <= myCol[Peer(p)]
    /\ myCol[Peer(p)] <= sendSeq[p]
    /\ sendSeq[p] <= peerCol[p] + RingSlots

(* The reader recorded exactly the messages the sender committed, each     *)
(* once and in order, whichever of push, watch and collection brought it.  *)
RecordedIsCommitted ==
  \A p \in Party : recv[Peer(p)] = SubSeq(log[p], 1, myCol[Peer(p)])

(* Until its correspondent is known to have recorded it, a committed       *)
(* message is in the outbox, with the bytes that were committed.           *)
OutstandingKept ==
  \A p \in Party : life[p] # "gone" =>
    \A s \in peerCol[p] .. sendSeq[p] - 1 : outbox[p][SlotFor(s)] = log[p][s + 1]

(* What leaves a party, pushed or written, was committed first: bytes      *)
(* sealed by a send whose commit was refused never leave.                  *)
OnlyCommittedLeaves == \A p \in Party : out[p] \subseteq Committed(p)

(* p's conversation has no record, copy or outbox entry again, and nothing *)
(* of it is sent, written or recorded: what the network holds of it can    *)
(* only grow older, or go.                                                 *)
NothingComesBack(p) ==
  /\ life'[p] = "gone" /\ outbox'[p] = Nothing
  /\ copy'[p] = Nothing /\ ctlCopy'[p] = NoCursor
  /\ \A i \in Slots : ring'[p][i] = ring[p][i] \/ ring'[p][i].seq < ring[p][i].seq
  /\ ctl'[p] <= ctl[p]
  /\ log'[p] = log[p] /\ recv'[p] = recv[p] /\ out'[p] = out[p] /\ pub'[p] = pub[p]

(* A deletion is local (records.rs: storage nodes keep serving their copy  *)
(* until they evict it), and a deleted conversation stays deleted: no send,*)
(* repair, collection or route change under way, and no relaunch, takes it *)
(* up again from what is still out there.                                  *)
ErasedStaysErased == [][\A p \in Party : life[p] = "gone" => NothingComesBack(p)]_vars

(* runner.rs, RunnerEvent::Sent: "A message of this side's own reached the *)
(* local store and its slot."  One its correspondent collected meanwhile   *)
(* needs no slot; after a failed write the repair that follows may answer  *)
(* without one.                                                            *)
SentIsWritten ==
  ~ Happened("writeFails") =>
    \A p \in Party : \A s \in told[p] : s \in written[p] \/ Collected(s, peerCol[p])

(* The conversation as its front ends see it. *)
Sizes == 0 .. MaxSend[Alice] + MaxSend[Bob]
Link == INSTANCE DmLink WITH
  Window <- RingSlots, Start <- <<First>>,
  Payload <- [seq : Sizes, att : {0, 1}, cursor : Sizes],
  sent <- log, got <- recv, acked <- peerCol

(* Every interleaving of pushes, collections, repairs and crashes is one   *)
(* of the in-order, windowed link.                                         *)
ImplementsLink == Link!Safe

(* And everything committed arrives and is known to have arrived. *)
ImplementsFairLink == Link!Spec

(* Every message committed is reported delivered to its sender, unless a   *)
(* side deletes the conversation or the network loses the control subkey   *)
(* that carried the cursor.                                                *)
EventuallyDelivered ==
  \A p \in Party : \A n \in 1 .. MaxSend[p] :
    (sendSeq[p] >= n) ~> (\/ delivered[p] >= n
                          \/ \E q \in Party : life[q] # "live"
                          \/ ctl[Peer(p)] # ctlCopy[Peer(p)])

(* Every send committed is answered Sent, by its slot's first write or by  *)
(* the repair that made good its failure.  A crash loses the token a send  *)
(* is answered with.                                                       *)
EverySendAnswered ==
  \A p \in Party : \A n \in 1 .. MaxSend[p] :
    (sendSeq[p] > n) ~> (n \in told[p] \/ Happened("crash"))

(* An outbox entry its correspondent has collected is deleted.  flows.rs:  *)
(* "the next step or collection deletes them", which over a crash no step  *)
(* is owed to do.                                                          *)
StaleEntriesGo ==
  \A p \in Party : \A i \in Slots :
    Collected(outbox[p][i].seq, peerCol[p]) /\ outbox[p][i] # Absent
      ~> \/ ~ Collected(outbox[p][i].seq, peerCol[p]) \/ outbox[p][i] = Absent
         \/ Happened("crash")

(* A delete asked for is finished, over a crash at any point. *)
DeleteFinishes == \A p \in Deleters : (life[p] = "marked") ~> (life[p] = "gone")
=============================================================================
