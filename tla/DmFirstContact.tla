--------------------------- MODULE DmFirstContact ---------------------------
(***************************************************************************)
(* How a direct-message conversation comes to be: one side writes its      *)
(* channel and leaves a hello in the other's drop; the other accepts by    *)
(* writing its own channel and a hello back; the first recognises it.      *)
(* Either side may stop between any two steps and relaunch from its store, *)
(* hellos are evicted, adverts rotate, acceptances are pushed beside the   *)
(* record store, and conversations are deleted and opened again.           *)
(*                                                                         *)
(* Each party runs the runner, which makes one flow call at a time, and    *)
(* the live lane, which takes pushed acceptances between any two steps of  *)
(* it.  A store section, and a record-store batch, is one step.            *)
(*                                                                         *)
(* A secret is the shared secret of one encapsulation: it seals the hello  *)
(* and the control subkey, roots the first turn, and is never drawn twice. *)
(* A hello is named by the secret it carries, which also stands for the    *)
(* drop slot it is kept in across rewrites.                                *)
(***************************************************************************)
EXTENDS Integers, FiniteSets

CONSTANTS
  Alice, Bob,
  Initiators,   \* the parties that open first contacts
  Deleters,     \* the parties that delete conversations
  MaxOpened,    \* bound: first contacts opened
  MaxTroubles   \* bound: deletes, rotations, relaunches and evictions in all

Party   == {Alice, Bob}
Peer(p) == IF p = Alice THEN Bob ELSE Alice

ASSUME PartiesDiffer   == Alice # Bob
ASSUME BoundAssumption == /\ Initiators \subseteq Party /\ Deleters \subseteq Party
                          /\ MaxOpened \in Nat /\ MaxTroubles \in Nat

VARIABLES
  conv,      \* conv[p]: p's conversation record with its correspondent, or None
  advert,    \* advert[p]: the serial of p's advert key, and whether the one before
             \* it is retained
  control,   \* control[p]: gen -> the control subkey of p's channel, or None
  slot0,     \* slot0[p]: gen -> the message in ring slot 0 of it, or None
  drop,      \* drop[p]: the hellos in p's drop
  pushed,    \* pushed[p]: the acceptances pushed to p so far
  run,       \* run[p]: what p's runner is in the middle of
  lane,      \* lane[p]: what p's live lane is in the middle of
  request,   \* request[p]: the contact request p's front end was shown, or None
  begun,     \* begun[p][g]: the conversations p has begun in its channel g
  opened, minted, deletes, rotations, faults   \* counters

store    == <<conv, advert>>
network  == <<control, slot0, drop, pushed>>
volatile == <<run, lane, request>>
counters == <<opened, minted, deletes, rotations, faults>>
vars     == <<store, network, volatile, begun, counters>>

-----------------------------------------------------------------------------
(* Records and what they say. *)

(* A channel is named by its generation: one drawn by a first contact, or  *)
(* 0, which a closed control subkey carries.                               *)
Gens  == 1 .. MaxOpened
Chans == 0 .. MaxOpened
NoGen == -1
None  == [gen |-> NoGen]

(* The halves of a key schedule: chain::initiate and chain::accept. *)
Ini == "initiator"
Acc == "acceptor"

(* The root of the first turn is the secret of the first hello. *)
Root(c) == IF c.half = Ini THEN c.opening.secret ELSE c.peerSecret

(* read_ring from sequence 0: the message opens under the other half. *)
Opens(c, message) == message # None /\ message.root = Root(c) /\ message.half # c.half

NoOpening == [secret |-> 0, serial |-> 0]

(* The control subkey as this side writes it. *)
ControlOf(c, cursor) == [gen |-> c.gen, secret |-> c.opening.secret,
                         serial |-> c.opening.serial, cursor |-> cursor]

(* The hello place_hello seals, for a channel first opened or one whose *)
(* hello is encapsulated afresh to the advert at serial.                *)
HelloOf(c, serial, rewritten) ==
  [gen |-> c.gen, secret |-> c.opening.secret, serial |-> serial, rewritten |-> rewritten]

(* opening_serial: the serial the opening must name. *)
OpeningSerialFits(h, serial) == IF h.rewritten THEN serial < h.serial ELSE serial = h.serial

(* open_against_either: the current advert secret, or the retained one. *)
HoldsKey(p, serial) ==
  serial = advert[p].serial \/ (advert[p].retained /\ serial = advert[p].serial - 1)

Decapsulates(p, h) == HoldsKey(p, h.serial)

(* collect_slot: the hello opens, and the control subkey it names verifies. *)
Verifies(p, h, c) ==
  Decapsulates(p, h) /\ c # None /\ c.secret = h.secret /\ OpeningSerialFits(h, c.serial)

Idle == [pc |-> "idle", hello |-> None, awaiting |-> FALSE, seen |-> None,
         read |-> FALSE, heard |-> FALSE, erase |-> 0, accepting |-> FALSE]
LaneIdle == [pc |-> "idle", hello |-> None, seen |-> None, reply |-> None, heard |-> FALSE]

NoChans == [g \in Chans |-> None]

Init ==
  /\ conv = [p \in Party |-> None] /\ advert = [p \in Party |-> [serial |-> 1, retained |-> FALSE]]
  /\ control = [p \in Party |-> NoChans] /\ slot0 = [p \in Party |-> NoChans]
  /\ drop = [p \in Party |-> {}] /\ pushed = [p \in Party |-> {}]
  /\ run = [p \in Party |-> Idle] /\ lane = [p \in Party |-> LaneIdle]
  /\ request = [p \in Party |-> None]
  /\ begun = [p \in Party |-> [g \in Chans |-> 0]]
  /\ opened = 0 /\ minted = 0 /\ deletes = 0 /\ rotations = 0 /\ faults = 0

Free(p)         == run[p].pc = "idle"
Does(p, task)   == run' = [run EXCEPT ![p] = task]
Stores(p, c)    == conv' = [conv EXCEPT ![p] = c]
Living(p)       == conv[p] # None /\ ~conv[p].marked
Trouble         == deletes + rotations + faults < MaxTroubles
Begins(p, g)    == begun' = [begun EXCEPT ![p][g] = @ + 1]

-----------------------------------------------------------------------------
(* Opening a conversation. *)

(* first_contact: the record, with the encapsulation and the committed     *)
(* first message, is created before anything is written.                   *)
FirstContact(p) ==
  /\ p \in Initiators /\ Free(p) /\ conv[p] = None /\ opened < MaxOpened
  /\ opened' = opened + 1 /\ minted' = minted + 1
  /\ Stores(p, [gen |-> opened + 1, half |-> Ini, awaiting |-> TRUE, pending |-> FALSE,
                incoming |-> NoGen, hello |-> None, secret |-> TRUE,
                opening |-> [secret |-> minted + 1, serial |-> advert[Peer(p)].serial],
                peerSecret |-> 0, peerSerial |-> 0, heard |-> FALSE, read |-> FALSE,
                marked |-> FALSE])
  /\ Begins(p, opened + 1)
  /\ Does(p, [Idle EXCEPT !.pc = "channel"])
  /\ UNCHANGED <<advert, network, lane, request, deletes, rotations, faults>>

(* continue_first_contact of a record that holds no hello yet. *)
ContinueFirstContact(p) ==
  /\ Free(p) /\ Living(p) /\ conv[p].awaiting /\ conv[p].hello = None
  /\ Does(p, [Idle EXCEPT !.pc = "channel"])
  /\ UNCHANGED <<store, network, lane, request, begun, counters>>

(* Mutant of WrittenCursor: the control says what this flow has read. *)
CursorRead(p) == run[p].read

(* The cursor already on disk, never the one the flow has read. *)
WrittenCursor(p) == conv[p].read

(* Mutant of ChannelBatch: the hello does not wait for the channel. *)
NoChannelBatch(p) == UNCHANGED <<control, slot0>>

ChannelBatch(p) ==
  LET c == conv[p] IN
  /\ control' = [control EXCEPT ![p][c.gen] = ControlOf(c, WrittenCursor(p))]
  /\ slot0' = [slot0 EXCEPT ![p][c.gen] = [gen |-> c.gen, root |-> Root(c), half |-> c.half]]

(* The batch both flows write before the hello: the opening and sequence   *)
(* 0, and for an acceptance the erase of the hello it accepts.  A hello    *)
(* back not placed before is offered to the push ahead of it.              *)
WriteChannel(p) ==
  LET c == conv[p]
      fresh == HelloOf(c, c.opening.serial, FALSE)
      again == c.hello # None
  IN
  /\ run[p].pc = "channel"
  /\ ChannelBatch(p)
  /\ drop' = [drop EXCEPT ![p] = {h \in @ : h.secret # run[p].erase}]
  /\ pushed' = IF c.pending /\ ~again
                 THEN [pushed EXCEPT ![Peer(p)] = @ \cup
                        {[hello |-> fresh, control |-> ControlOf(c, WrittenCursor(p)),
                          reply |-> [gen |-> c.gen, root |-> Root(c), half |-> c.half]]}]
                 ELSE pushed
  /\ Does(p, IF again THEN [run[p] EXCEPT !.pc = "write", !.hello = c.hello]
                      ELSE [run[p] EXCEPT !.pc = "load", !.hello = fresh])
  /\ UNCHANGED <<store, lane, request, begun, counters>>

(* place_hello: what it loads before the store section ... *)
PlaceLoad(p) ==
  /\ run[p].pc = "load"
  /\ Does(p, [run[p] EXCEPT !.pc = "place", !.awaiting = conv[p].awaiting])
  /\ UNCHANGED <<store, network, lane, request, begun, counters>>

(* ... and the section, which persists the hello before it is written and  *)
(* lets an acceptor's secret go.                                           *)
PlacePersist(p) ==
  LET c == conv[p] IN
  /\ run[p].pc = "place"
  /\ \/ /\ run[p].awaiting /\ ~c.awaiting
        /\ Does(p, Idle) /\ UNCHANGED conv
     \/ /\ run[p].awaiting => c.awaiting
        /\ Stores(p, [c EXCEPT !.hello = run[p].hello, !.secret = @ /\ c.awaiting])
        /\ Does(p, [run[p] EXCEPT !.pc = "write"])
  /\ UNCHANGED <<advert, network, lane, request, begun, counters>>

(* The hello goes into its slot. *)
WriteHello(p) ==
  /\ run[p].pc = "write"
  /\ drop' = [drop EXCEPT ![Peer(p)] = {h \in @ : h.secret # run[p].hello.secret}
                                         \cup {run[p].hello}]
  /\ Does(p, IF run[p].accepting THEN [run[p] EXCEPT !.pc = "finish"] ELSE Idle)
  /\ UNCHANGED <<store, control, slot0, pushed, lane, request, begun, counters>>

-----------------------------------------------------------------------------
(* Keeping a hello where its reader looks: runner.rs rewrite_hello. *)

(* refresh_first_contact: the advert is past the serial of the hello. *)
RefreshFirstContact(p) ==
  LET c == conv[p] IN
  /\ Free(p) /\ Living(p) /\ c.awaiting /\ c.hello # None
  /\ advert[Peer(p)].serial > c.hello.serial
  /\ Does(p, [Idle EXCEPT !.pc = "load", !.hello = HelloOf(c, advert[Peer(p)].serial, TRUE)])
  /\ UNCHANGED <<store, network, lane, request, begun, counters>>

(* Mutant of SettleHello: a hello written is a hello read. *)
SettleWritten(p) ==
  LET c == conv[p] IN
  /\ Free(p) /\ Living(p) /\ c.hello # None /\ ~c.awaiting /\ c.hello \in drop[Peer(p)]
  /\ Stores(p, [c EXCEPT !.hello = None])
  /\ UNCHANGED <<advert, network, volatile, begun, counters>>

(* settle_hello: the correspondent's cursor shows it found the channel. *)
SettleHello(p) ==
  LET c == conv[p] IN
  /\ Free(p) /\ Living(p) /\ c.hello # None /\ ~c.awaiting /\ c.heard
  /\ Stores(p, [c EXCEPT !.hello = None])
  /\ UNCHANGED <<advert, network, volatile, begun, counters>>

(* Mutant of ResumeFirstContact: only a first contact still awaiting its   *)
(* acceptance has its hello written again.                                 *)
ResumeAwaiting(p) ==
  LET c == conv[p] IN
  /\ Free(p) /\ Living(p) /\ c.hello # None /\ c.awaiting
  /\ c.hello \notin drop[Peer(p)]
  /\ Does(p, [Idle EXCEPT !.pc = "write", !.hello = c.hello])
  /\ UNCHANGED <<store, network, lane, request, begun, counters>>

(* resume_first_contact: the persisted bytes, where the slot has others. *)
ResumeFirstContact(p) ==
  LET c == conv[p] IN
  /\ Free(p) /\ Living(p) /\ c.hello # None /\ (c.awaiting \/ ~c.heard)
  /\ c.hello \notin drop[Peer(p)]
  /\ Does(p, [Idle EXCEPT !.pc = "write", !.hello = c.hello])
  /\ UNCHANGED <<store, network, lane, request, begun, counters>>

-----------------------------------------------------------------------------
(* Collecting the drop: flows.rs collect_slot and settle. *)

(* recognise_acceptance, its first section: whose channel it is. *)
Recognising(c, h) == [c EXCEPT !.incoming = h.gen, !.peerSecret = h.secret]

(* Its second section: the first contact is over. *)
Recognised(c, read, heard) ==
  [c EXCEPT !.read = read, !.heard = heard, !.hello = None, !.awaiting = FALSE,
            !.secret = FALSE]

CollectSlot(p, h) ==
  LET c == conv[p]
      found == control[Peer(p)][h.gen]
  IN
  /\ Free(p) /\ h \in drop[p] /\ Verifies(p, h, found)
  /\ \/ /\ c = None
        /\ request' = [request EXCEPT ![p] = [gen |-> h.gen, own |-> found.gen,
                                              secret |-> h.secret, serial |-> found.serial]]
        /\ UNCHANGED <<conv, drop, run>>
     \/ /\ Living(p) /\ c.awaiting
        /\ Stores(p, Recognising(c, h))
        /\ Does(p, [Idle EXCEPT !.pc = "recognise", !.hello = h, !.seen = Recognising(c, h),
                                !.heard = found.cursor])
        /\ UNCHANGED <<drop, request>>
     \/ /\ c # None /\ ~c.awaiting /\ h.gen = c.incoming
        /\ drop' = [drop EXCEPT ![p] = @ \ {h}]
        /\ UNCHANGED <<conv, run, request>>
  /\ UNCHANGED <<advert, control, slot0, pushed, lane, begun, counters>>

Collect(p) == \E h \in drop[p] : CollectSlot(p, h)

(* refuse_if_marked and AsLoaded::unchanged. *)
StillAsSeen(p, seen) == conv[p] = seen /\ ~conv[p].marked

(* The ring is read and the recognition committed, where nothing changed. *)
Recognise(p) ==
  LET c == conv[p] IN
  /\ run[p].pc = "recognise"
  /\ \/ /\ StillAsSeen(p, run[p].seen)
        /\ Stores(p, Recognised(c, Opens(c, slot0[Peer(p)][c.incoming]), run[p].heard))
        /\ Does(p, [run[p] EXCEPT !.pc = "erase"])
     \/ ~StillAsSeen(p, run[p].seen) /\ Does(p, Idle) /\ UNCHANGED conv
  /\ UNCHANGED <<advert, network, lane, request, begun, counters>>

EraseRecognised(p) ==
  /\ run[p].pc = "erase"
  /\ drop' = [drop EXCEPT ![p] = {h \in @ : h.secret # run[p].hello.secret}]
  /\ Does(p, Idle)
  /\ UNCHANGED <<store, control, slot0, pushed, lane, request, begun, counters>>

(* surface: a scan that read every slot keeps only what it found. *)
ForgetRequest(p) ==
  /\ Free(p) /\ request[p] # None
  /\ conv[p] # None \/ \A h \in drop[p] : h.secret # request[p].secret
  /\ request' = [request EXCEPT ![p] = None]
  /\ UNCHANGED <<store, network, run, lane, begun, counters>>

(* push.rs recognise_acceptance on the lane: the same two sections over    *)
(* the pushed bytes; the hello back stays in the drop.                     *)
TakePush(p) ==
  /\ lane[p].pc = "idle" /\ Living(p) /\ conv[p].awaiting
  /\ \E a \in pushed[p] :
       LET c == Recognising(conv[p], a.hello) IN
       /\ Verifies(p, a.hello, a.control)
       /\ Stores(p, c)
       /\ lane' = [lane EXCEPT ![p] = [pc |-> "recognise", hello |-> a.hello, seen |-> c,
                                       reply |-> a.reply, heard |-> a.control.cursor]]
  /\ UNCHANGED <<advert, network, run, request, begun, counters>>

CommitPush(p) ==
  /\ lane[p].pc = "recognise"
  /\ \/ /\ StillAsSeen(p, lane[p].seen)
        /\ Stores(p, Recognised(conv[p], Opens(conv[p], lane[p].reply), lane[p].heard))
     \/ ~StillAsSeen(p, lane[p].seen) /\ UNCHANGED conv
  /\ lane' = [lane EXCEPT ![p] = LaneIdle]
  /\ UNCHANGED <<advert, network, run, request, begun, counters>>

-----------------------------------------------------------------------------
(* Accepting: flows.rs accept, continue_acceptance and finish_accept. *)

(* accept: the record, with the committed reply, comes first; its channel  *)
(* is of the generation the correspondent's control subkey named.  A record*)
(* whose acceptance of this very channel is unfinished is carried on.      *)
Accept(p) ==
  LET r == request[p] IN
  /\ Free(p) /\ r # None
  /\ \/ /\ conv[p] = None
        /\ Stores(p, [gen |-> r.own, half |-> Acc, awaiting |-> FALSE, pending |-> TRUE,
                      incoming |-> r.gen, hello |-> None, secret |-> FALSE,
                      opening |-> NoOpening, peerSecret |-> r.secret,
                      peerSerial |-> r.serial, heard |-> FALSE, read |-> FALSE,
                      marked |-> FALSE])
        /\ Begins(p, r.own)
     \/ /\ Living(p) /\ conv[p].pending /\ conv[p].incoming = r.gen
        /\ UNCHANGED <<conv, begun>>
  /\ Does(p, [Idle EXCEPT !.pc = "opening", !.erase = r.secret, !.accepting = TRUE])
  /\ UNCHANGED <<advert, network, lane, request, counters>>

(* continue_acceptance: from the record alone; the slot is not erased. *)
ContinueAcceptance(p) ==
  /\ Free(p) /\ Living(p) /\ conv[p].pending
  /\ Does(p, [Idle EXCEPT !.pc = "opening", !.accepting = TRUE])
  /\ UNCHANGED <<store, network, lane, request, begun, counters>>

(* Mutant of HoldsOpening: a resumed acceptance mints again. *)
HoldsNoOpening(c) == FALSE

HoldsOpening(c) == c.opening # NoOpening

(* finish_accept: the correspondent's opening is verified again, this      *)
(* side's minted once and persisted, and the ring read on a copy.          *)
AcceptOpening(p) ==
  LET c == conv[p]
      found == control[Peer(p)][c.incoming]
  IN
  /\ run[p].pc = "opening"
  /\ \/ /\ found # None /\ found.secret = c.peerSecret /\ found.serial = c.peerSerial
        /\ Does(p, [run[p] EXCEPT !.pc = "channel",
                                  !.read = Opens(c, slot0[Peer(p)][c.incoming])])
        /\ \/ HoldsOpening(c) /\ UNCHANGED <<conv, minted>>
           \/ /\ ~HoldsOpening(c)
              /\ minted' = minted + 1
              /\ Stores(p, [c EXCEPT !.secret = TRUE,
                              !.opening = [secret |-> minted + 1,
                                           serial |-> advert[Peer(p)].serial]])
     \/ /\ ~(found # None /\ found.secret = c.peerSecret /\ found.serial = c.peerSerial)
        /\ Does(p, Idle) /\ UNCHANGED <<conv, minted>>
  /\ UNCHANGED <<advert, network, lane, request, begun, opened, deletes, rotations, faults>>

(* The end of the acceptance is recorded with the collection it read. *)
FinishAccept(p) ==
  /\ run[p].pc = "finish"
  /\ Stores(p, [conv[p] EXCEPT !.pending = FALSE, !.read = run[p].read])
  /\ request' = [request EXCEPT ![p] = None]
  /\ Does(p, Idle)
  /\ UNCHANGED <<advert, network, lane, begun, counters>>

-----------------------------------------------------------------------------
(* After it: the collections and cursors that tell each side it was heard. *)

Established(c) == c # None /\ ~c.awaiting /\ ~c.pending

(* A collection: the ring from sequence 0, and the control's cursor. *)
CollectChannel(p) ==
  LET c == conv[p]
      found == control[Peer(p)][c.incoming]
      read == c.read \/ Opens(c, slot0[Peer(p)][c.incoming])
      heard == c.heard \/ (found # None /\ found.secret = c.peerSecret /\ found.cursor)
  IN
  /\ Free(p) /\ Living(p) /\ Established(c)
  /\ <<read, heard>> # <<c.read, c.heard>>
  /\ Stores(p, [c EXCEPT !.read = read, !.heard = heard])
  /\ UNCHANGED <<advert, network, volatile, begun, counters>>

PublishCursor(p) ==
  LET c == conv[p] IN
  /\ Free(p) /\ Living(p) /\ Established(c) /\ c.read
  /\ control[p][c.gen] # ControlOf(c, TRUE)
  /\ control' = [control EXCEPT ![p][c.gen] = ControlOf(c, TRUE)]
  /\ UNCHANGED <<store, slot0, drop, pushed, volatile, begun, counters>>

-----------------------------------------------------------------------------
(* Delete, and what happens to a party and to the network. *)

MarkDelete(p) ==
  /\ p \in Deleters /\ lane[p].pc = "idle" /\ Living(p)
  /\ Trouble /\ deletes' = deletes + 1
  /\ Stores(p, [conv[p] EXCEPT !.marked = TRUE])
  /\ UNCHANGED <<advert, network, volatile, begun, opened, minted, rotations, faults>>

(* teardown of a delete asked for in this run writes a closed control      *)
(* subkey, which keeps the opening and names generation 0.                 *)
CloseControl(p) ==
  LET c == conv[p] IN
  /\ Free(p) /\ c # None /\ c.marked /\ c.opening # NoOpening
  /\ control' = [control EXCEPT ![p][c.gen] = [ControlOf(c, c.read) EXCEPT !.gen = 0]]
  /\ Does(p, [Idle EXCEPT !.pc = "closing"])
  /\ UNCHANGED <<store, slot0, drop, pushed, lane, request, begun, counters>>

(* teardown: this node's copy of the channel is erased; what the network   *)
(* holds of it, and the hello in the drop, stay.                           *)
EraseChannel(p) ==
  /\ run[p].pc \in {"idle", "closing"} /\ conv[p] # None /\ conv[p].marked
  /\ Does(p, [Idle EXCEPT !.pc = "drop"])
  /\ UNCHANGED <<store, network, lane, request, begun, counters>>

DropRecord(p) ==
  /\ run[p].pc = "drop"
  /\ Stores(p, None) /\ Does(p, Idle)
  /\ UNCHANGED <<advert, network, lane, request, begun, counters>>

Stop(p) ==
  /\ Trouble /\ faults' = faults + 1
  /\ Does(p, Idle) /\ lane' = [lane EXCEPT ![p] = LaneIdle]
  /\ request' = [request EXCEPT ![p] = None]
  /\ UNCHANGED <<store, network, begun, opened, minted, deletes, rotations>>

(* The advert key is replaced; the one before it is retained for a while. *)
RotateAdvert(p) ==
  /\ Trouble /\ rotations' = rotations + 1
  /\ advert' = [advert EXCEPT ![p] = [serial |-> @.serial + 1, retained |-> TRUE]]
  /\ UNCHANGED <<conv, network, volatile, begun, opened, minted, deletes, faults>>

PruneAdvert(p) ==
  /\ advert[p].retained
  /\ advert' = [advert EXCEPT ![p].retained = FALSE]
  /\ UNCHANGED <<conv, network, volatile, begun, counters>>

(* A channel whose control subkey carries the opening of p's record. *)
Open(p, g) ==
  /\ conv[p] # None /\ conv[p].gen = g
  /\ control[p][g] # None /\ control[p][g].secret = conv[p].opening.secret

(* Storage nodes let go of a subkey that no record of p's keeps up. *)
Fade(p) ==
  /\ Trouble /\ faults' = faults + 1
  /\ \E g \in Chans :
       /\ ~Open(p, g)
       /\ \/ /\ control[p][g] # None
             /\ control' = [control EXCEPT ![p][g] = None] /\ UNCHANGED slot0
          \/ /\ slot0[p][g] # None
             /\ slot0' = [slot0 EXCEPT ![p][g] = None] /\ UNCHANGED control
  /\ UNCHANGED <<store, drop, pushed, volatile, begun, opened, minted, deletes, rotations>>

LoseHello(p) ==
  /\ Trouble /\ faults' = faults + 1
  /\ \E h \in drop[p] : drop' = [drop EXCEPT ![p] = @ \ {h}]
  /\ UNCHANGED <<store, control, slot0, pushed, volatile, begun, opened, minted, deletes,
                 rotations>>

-----------------------------------------------------------------------------

Flow(p) ==
  \/ WriteChannel(p) \/ PlaceLoad(p) \/ PlacePersist(p) \/ WriteHello(p)
  \/ Recognise(p) \/ EraseRecognised(p) \/ AcceptOpening(p) \/ FinishAccept(p)
  \/ DropRecord(p)

(* What the repair poll comes round to while a conversation owes it. *)
Owed(p) ==
  \/ ContinueFirstContact(p) \/ RefreshFirstContact(p)
  \/ ResumeFirstContact(p) \/ ContinueAcceptance(p)

Next == \E p \in Party :
  \/ Flow(p) \/ Owed(p) \/ SettleHello(p)
  \/ Collect(p) \/ ForgetRequest(p)
  \/ FirstContact(p) \/ Accept(p)
  \/ MarkDelete(p) \/ CloseControl(p) \/ EraseChannel(p)
  \/ TakePush(p) \/ CommitPush(p) \/ CollectChannel(p) \/ PublishCursor(p)
  \/ Stop(p) \/ RotateAdvert(p) \/ PruneAdvert(p) \/ LoseHello(p) \/ Fade(p)

Spec == Init /\ [][Next]_vars

(* The runner finishes the flow it is in; between flows its repair poll    *)
(* and its scans of the drop take turns, so neither is put off for ever.   *)
(* Nothing makes a push arrive or a user act.                              *)
Fairness == \A p \in Party :
  WF_vars(Flow(p)) /\ SF_vars(Owed(p)) /\ SF_vars(Collect(p))

FairSpec == Spec /\ Fairness

-----------------------------------------------------------------------------
(* Properties. *)

(* The two records of one first contact, both established. *)
Met(p) ==
  LET a == conv[p]  b == conv[Peer(p)] IN
  /\ Established(a) /\ Established(b)
  /\ a.half = Ini /\ a.gen = b.gen /\ a.incoming = b.gen /\ b.incoming = a.gen

(* Once both sides hold the conversation as established over each other's  *)
(* channels, they hold the two halves of one key schedule and each opens   *)
(* the other's control subkey, however the acceptance was resumed, pushed, *)
(* collected or rewritten on the way, and whoever deletes.  The exception  *)
(* is an acceptor that deletes and accepts the same hello again: it begins *)
(* the channel of that generation anew, under another secret, which the    *)
(* initiator erases as collected already (direct-messaging.md:137).        *)
HalvesAgree == \A p \in Party : Met(p) =>
  LET a == conv[p]  b == conv[Peer(p)] IN
  /\ b.half = Acc /\ Root(a) = Root(b) /\ b.peerSecret = a.opening.secret
  /\ begun[Peer(p)][b.gen] = 1 => a.peerSecret = b.opening.secret

(* A hello a reader can decapsulate, of a conversation its writer keeps,   *)
(* leads to a channel that verifies: it is never in the drop before the    *)
(* opening it points at, and a resumed or rewritten one still fits it.     *)
HelloLeadsToChannel == \A p \in Party : \A h \in drop[p] :
  LET c == conv[Peer(p)] IN
  (c # None /\ ~c.marked /\ (h = c.hello \/ h.secret = c.opening.secret)
     /\ Decapsulates(p, h))
  => Verifies(p, h, control[Peer(p)][h.gen])

(* A control subkey says the first message was collected only where the    *)
(* record that would have to answer for it has it: a stop in the middle of *)
(* an acceptance never leaves the correspondent free to drop it.           *)
PublishedIsRecorded == \A p \in Party :
  LET c == conv[p]  found == control[p][c.gen] IN
  (c # None /\ found # None /\ found.secret = c.opening.secret /\ found.cursor) => c.read

(* An acceptor withdraws its hello only when the initiator has recognised  *)
(* the acceptance, or deleted the conversation: until then a lost hello is *)
(* written again.                                                          *)
WithdrawnIsRecognised == \A p \in Party :
  LET c == conv[p]  d == conv[Peer(p)] IN
  (Established(c) /\ c.half = Acc /\ c.hello = None /\ Living(Peer(p)) /\ d.gen = c.gen)
  => ~d.awaiting

(* A conversation an acceptor has begun to accept is established at the    *)
(* initiator in the end, through stops, lost hellos and rotations, unless  *)
(* one of the two deletes it or the initiator's advert key that the hello  *)
(* back was encapsulated to is gone before the hello is collected.         *)
KeyGone(p) ==
  conv[p] # None /\ conv[p].opening # NoOpening /\ ~HoldsKey(Peer(p), conv[p].opening.serial)

AcceptanceArrives == \A p \in {q \in Party : Peer(q) \in Initiators} :
  (conv[p] # None /\ conv[p].pending)
  ~> (Established(conv[Peer(p)]) \/ deletes > 0 \/ KeyGone(p))
=============================================================================
