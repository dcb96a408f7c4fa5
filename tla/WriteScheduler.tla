--------------------------- MODULE WriteScheduler ---------------------------
(***************************************************************************)
(* The funnel every record write passes through (veilid-net schedule.rs)   *)
(* and the permit pools below it (dht_gate.rs): per-record queues, three   *)
(* dispatch lanes, coalescing, withdrawals that dominate, the starvation   *)
(* floor and the flush on shutdown.                                        *)
(*                                                                         *)
(* `pending' is every record's queue at once, in the order of the writes'  *)
(* sequence numbers, so a write's position is its `seq' and the queue of a *)
(* record is the subsequence of its writes.  Time is kept only as far as   *)
(* the scheduler looks at it: `since' orders the starvation clocks, and    *)
(* `level' says whether a write has passed its class's age bound (1) or    *)
(* twice that, the floor age (2).                                          *)
(***************************************************************************)
EXTENDS Integers, FiniteSets, FiniteSetsExt, SequencesExt

CONSTANTS Record,        \* DHT records
          Id,            \* logical ids: members, shares, "motd"
          None,
          Shape,         \* what callers submit: <<class, kind, hard deadline or None>>
          Permits,       \* the gate's pool sizes, by lane
          NonchatCap,    \* SchedulerConfig.nonchat_cap
          MaxPending     \* bound on the queued writes

Chat == 1                \* the ranks of WriteClass
SessionBoundary == 2
AdvertRefresh == 3
Keepalive == 4
Republish == 5

Class == Chat .. Republish
Kind == {"ring", "current", "tombstone"}
Lane == {"chat", "floor", "window"}

ASSUME SchedulerAssumption ==
  /\ None \notin Id
  /\ IsFiniteSet(Record)
  /\ Shape \subseteq Class \X Kind \X (Nat \cup {None})
  /\ Permits \in [Lane -> Nat \ {0}]
  /\ NonchatCap \in 1..Permits["window"]
  /\ MaxPending \in Nat \ {0}

VARIABLES
  pending,      \* the queues
  flying,       \* per record, the write in flight, its lane and stage
  windowCount,  \* window_in_flight
  floorCount,   \* floor_in_flight
  driver,       \* where the driver task is
  clock,        \* deadlines up to here have passed
  gone          \* ids whose value on the network is a withdrawal

vars == <<pending, flying, windowCount, floorCount, driver, clock, gone>>

Deadlines == {s[3] : s \in Shape} \ {None}

(* `informed' and `vouches' are history.  A current-state write is informed *)
(* when it was submitted after the withdrawal of its id had landed; it      *)
(* vouches when a chat-class write was answered Ok because this one         *)
(* supersedes it.  A withdrawal, which no shutdown sheds, is not marked.    *)
Write == [rec : Record, id : Id \cup {None}, kind : Kind, class : Class,
          since : Nat, level : 0..2, deadline : Deadlines \cup {None},
          informed : BOOLEAN, vouches : BOOLEAN]

Stage == {"waiting", "writing", "done"}
Flight == [id : Id \cup {None}, kind : Kind, informed : BOOLEAN, lane : Lane, stage : Stage]
Idle(r) == flying[r] = None

ASSUME FlightAssumption == None \notin Flight

-----------------------------------------------------------------------------
(* Queues                                                                  *)

(* Positions of the heads of idle records.                                 *)
Heads == {i \in DOMAIN pending :
            /\ Idle(pending[i].rec)
            /\ \A j \in 1..(i - 1) : pending[j].rec # pending[i].rec}
ChatHeads == {i \in Heads : pending[i].class = Chat}
NonchatHeads == Heads \ ChatHeads

(* The writes of q at the positions in keep, in their order.               *)
Place(keep, i) == Cardinality({j \in keep : j <= i})
Kept(q, keep) ==
  [k \in 1 .. Cardinality(keep) |-> q[CHOOSE i \in keep : Place(keep, i) = k]]

SameId(w, rec, id) == w.rec = rec /\ w.kind # "ring" /\ w.id = id
Others(rec, id) == {i \in DOMAIN pending : ~SameId(pending[i], rec, id)}
(* Mutant: a withdrawal in flight is not remembered.                       *)
DominatedByQueued(rec, id) ==
  \E i \in DOMAIN pending : SameId(pending[i], rec, id) /\ pending[i].kind = "tombstone"

Dominated(rec, id) ==
  \/ \E i \in DOMAIN pending : SameId(pending[i], rec, id) /\ pending[i].kind = "tombstone"
  \/ ~Idle(rec) /\ flying[rec].kind = "tombstone" /\ flying[rec].id = id

(* Starvation clocks matter only by their order.                           *)
Dense(q) ==
  LET clocks == {q[i].since : i \in DOMAIN q}
  IN  [i \in DOMAIN q |->
         [q[i] EXCEPT !.since = Cardinality({c \in clocks : c < q[i].since})]]

(* Of two writes of a class, the one starved longer passes a bound first.  *)
AgedInOrder(q) ==
  \A i, j \in DOMAIN q :
    q[i].class = q[j].class /\ q[i].since < q[j].since => q[i].level >= q[j].level

Fresh(rec, id, kind, class, deadline) ==
  [rec |-> rec, id |-> id, kind |-> kind, class |-> class,
   since |-> Cardinality(DOMAIN pending), level |-> 0, deadline |-> deadline,
   informed |-> kind = "current" /\ id \in gone[rec], vouches |-> FALSE]

(* Mutant: the later write keeps the class it came with.                   *)
NewestClass(a, b) == a

StrongestClass(a, b) == IF a <= b THEN a ELSE b

(* Mutant: a refresh starts the starvation clock again.                    *)
FreshSurvivors(w, elder) ==
  {[w EXCEPT !.class = StrongestClass(w.class, elder.class),
             !.vouches = elder.vouches \/ elder.class = Chat]}

(* A refresh takes the starvation clock and the strongest class of the     *)
(* write it supersedes.  The age bound is the new class's, so a write that *)
(* changes class may stand anywhere against it.                            *)
Survivors(w, elder) ==
  LET class == StrongestClass(w.class, elder.class)
      levels == IF class = elder.class THEN {elder.level}
                ELSE IF class = Chat THEN {0} ELSE 0..2
      vouches == elder.vouches \/ elder.class = Chat
  IN  {[w EXCEPT !.since = elder.since, !.class = class, !.level = l,
                 !.vouches = vouches] : l \in levels}

Enqueued(q, w) == Dense(Append(q, w))

-----------------------------------------------------------------------------
(* Callers                                                                 *)

Submitted(q) ==
  /\ Len(q) <= MaxPending /\ AgedInOrder(q)
  /\ pending' = q
  /\ driver' = "dispatch"
  /\ UNCHANGED <<flying, windowCount, floorCount, clock, gone>>

SubmitRing(rec, class, deadline) ==
  /\ driver = "select" /\ <<class, "ring", deadline>> \in Shape
  /\ Submitted(Enqueued(pending, Fresh(rec, None, "ring", class, deadline)))

(* A withdrawal supersedes every queued write of its id and is itself never *)
(* superseded by a current-state write.                                     *)
SubmitTombstone(rec, id, class, deadline) ==
  /\ driver = "select" /\ <<class, "tombstone", deadline>> \in Shape
  /\ LET w == Fresh(rec, id, "tombstone", class, deadline)
     IN  Submitted(Enqueued(Kept(pending, Others(rec, id)), w))

SubmitCurrent(rec, id, class, deadline) ==
  /\ driver = "select" /\ <<class, "current", deadline>> \in Shape
  /\ LET w == Fresh(rec, id, "current", class, deadline)
         over == DOMAIN pending \ Others(rec, id)
     IN  \/ Dominated(rec, id) /\ Submitted(pending)      \* answered Ok, dropped
         \/ ~Dominated(rec, id) /\ over = {} /\ Submitted(Enqueued(pending, w))
         \/ /\ ~Dominated(rec, id)
            /\ \E i \in over : \E s \in Survivors(w, pending[i]) :
                 Submitted(Enqueued(Kept(pending, Others(rec, id)), s))

Submit ==
  \E rec \in Record, class \in Class, d \in Deadlines \cup {None} :
    \/ SubmitRing(rec, class, d)
    \/ \E id \in Id : SubmitTombstone(rec, id, class, d) \/ SubmitCurrent(rec, id, class, d)

-----------------------------------------------------------------------------
(* The driver                                                              *)

Due(i) == pending[i].deadline # None /\ pending[i].deadline <= clock

(* The floor lane's pick: due writes by deadline, else writes past the      *)
(* floor age by class, then by how long they have starved.                  *)
FloorBefore(i, j) ==
  \/ pending[i].class < pending[j].class
  \/ /\ pending[i].class = pending[j].class
     /\ \/ pending[i].since < pending[j].since
        \/ pending[i].since = pending[j].since /\ i <= j
FloorPicks ==
  LET due == {i \in NonchatHeads : Due(i)}
      old == {i \in NonchatHeads : pending[i].level = 2}
  IN  IF due # {}
      THEN {i \in due : \A j \in due :
              \/ pending[i].deadline < pending[j].deadline
              \/ pending[i].deadline = pending[j].deadline /\ i <= j}
      ELSE {i \in old : \A j \in old : FloorBefore(i, j)}

ChatPicks == {i \in ChatHeads : \A j \in ChatHeads : i <= j}

(* Passing the age bound escalates by one class, in this lane only.        *)
EffectiveRank(w) == IF w.level >= 1 /\ w.class > Chat THEN w.class - 1 ELSE w.class
WindowPicks ==
  {i \in NonchatHeads : \A j \in NonchatHeads :
     \/ EffectiveRank(pending[i]) < EffectiveRank(pending[j])
     \/ EffectiveRank(pending[i]) = EffectiveRank(pending[j]) /\ i <= j}

(* The records that could use a window slot, up to the cap.                *)
Window == Min({Cardinality(NonchatHeads) + windowCount, NonchatCap})

FloorReady == floorCount < 1 /\ FloorPicks # {}
ChatReady == ChatPicks # {}
WindowReady == windowCount < Window /\ WindowPicks # {}

Dispatch(i, lane) ==
  LET w == pending[i]
  IN  /\ flying' = [flying EXCEPT ![w.rec] =
                      [id |-> w.id, kind |-> w.kind, informed |-> w.informed,
                       lane |-> lane, stage |-> "waiting"]]
      /\ pending' = Dense(RemoveAt(pending, i))
      /\ windowCount' = windowCount + IF lane = "window" THEN 1 ELSE 0
      /\ floorCount' = floorCount + IF lane = "floor" THEN 1 ELSE 0
      /\ UNCHANGED <<driver, clock, gone>>

(* One turn of try_dispatch's loop: floor, then chat, then window.         *)
DispatchFloor ==
  /\ driver = "dispatch" /\ FloorReady
  /\ \E i \in FloorPicks : Dispatch(i, "floor")
DispatchChat ==
  /\ driver = "dispatch" /\ ~FloorReady /\ ChatReady
  /\ \E i \in ChatPicks : Dispatch(i, "chat")
DispatchWindow ==
  /\ driver = "dispatch" /\ ~FloorReady /\ ~ChatReady /\ WindowReady
  /\ \E i \in WindowPicks : Dispatch(i, "window")
DispatchEnd ==
  /\ driver = "dispatch" /\ ~FloorReady /\ ~ChatReady /\ ~WindowReady
  /\ driver' = "arm"
  /\ UNCHANGED <<pending, flying, windowCount, floorCount, clock, gone>>

(* next_wakeup arms a timer for crossings still to come, so one that falls  *)
(* between the loop's reading of the clock and this one wakes nobody.       *)
Arm ==
  /\ driver = "arm" /\ driver' = "select"
  /\ UNCHANGED <<pending, flying, windowCount, floorCount, clock, gone>>

Wakes(i) == driver' = IF driver = "select" /\ i \in Heads THEN "dispatch" ELSE driver

(* A queued write passes its age bound or its floor age.                   *)
Age(r) ==
  /\ driver \in {"arm", "select"}
  /\ \E i \in DOMAIN pending :
       /\ pending[i].rec = r /\ pending[i].level < 2 /\ pending[i].class # Chat
       /\ pending' = [pending EXCEPT ![i].level = @ + 1]
       /\ AgedInOrder(pending')
       /\ Wakes(i)
  /\ UNCHANGED <<flying, windowCount, floorCount, clock, gone>>

DeadlinePasses ==
  /\ driver \in {"arm", "select"} /\ clock < Max(Deadlines \cup {0})
  /\ clock' = clock + 1
  /\ driver' = IF driver = "select" /\ \E i \in Heads : pending[i].deadline = clock + 1
               THEN "dispatch" ELSE driver
  /\ UNCHANGED <<pending, flying, windowCount, floorCount, gone>>

(* Mutants: a completion that releases no floor slot, and one that         *)
(* dispatches nothing.                                                     *)
OnDoneFloorLeaks(r) ==
  /\ driver \in {"select", "flush"}
  /\ ~Idle(r) /\ flying[r].stage = "done"
  /\ flying' = [flying EXCEPT ![r] = None]
  /\ windowCount' = windowCount - IF flying[r].lane = "window" THEN 1 ELSE 0
  /\ driver' = IF driver = "select" THEN "dispatch" ELSE "drain"
  /\ UNCHANGED <<pending, floorCount, clock, gone>>
OnDoneQuiet(r) ==
  /\ driver \in {"select", "flush"}
  /\ ~Idle(r) /\ flying[r].stage = "done"
  /\ flying' = [flying EXCEPT ![r] = None]
  /\ windowCount' = windowCount - IF flying[r].lane = "window" THEN 1 ELSE 0
  /\ floorCount' = floorCount - IF flying[r].lane = "floor" THEN 1 ELSE 0
  /\ UNCHANGED <<pending, driver, clock, gone>>

(* on_done, then try_dispatch, or the drain again while shutting down.     *)
OnDone(r) ==
  /\ driver \in {"select", "flush"}
  /\ ~Idle(r) /\ flying[r].stage = "done"
  /\ flying' = [flying EXCEPT ![r] = None]
  /\ windowCount' = windowCount - IF flying[r].lane = "window" THEN 1 ELSE 0
  /\ floorCount' = floorCount - IF flying[r].lane = "floor" THEN 1 ELSE 0
  /\ driver' = IF driver = "select" THEN "dispatch" ELSE "drain"
  /\ UNCHANGED <<pending, clock, gone>>

-----------------------------------------------------------------------------
(* Shutdown                                                                *)

Flushed(w) == w.class = Chat \/ w.kind = "tombstone"

Shutdown ==
  /\ driver = "select"
  /\ pending' = Dense(Kept(pending, {i \in DOMAIN pending : Flushed(pending[i])}))
  /\ driver' = "drain"
  /\ UNCHANGED <<flying, windowCount, floorCount, clock, gone>>

(* Every idle head goes, past the caps.                                    *)
Drain ==
  /\ driver = "drain" /\ Heads # {}
  /\ LET i == Min(Heads)
     IN  Dispatch(i, IF pending[i].class = Chat THEN "chat" ELSE "window")

DrainEnd ==
  /\ driver = "drain" /\ Heads = {}
  /\ driver' = IF pending = <<>> /\ \A r \in Record : Idle(r) THEN "closed" ELSE "flush"
  /\ UNCHANGED <<pending, flying, windowCount, floorCount, clock, gone>>

(* The close budget runs out: what is queued is dropped with the state.    *)
BudgetSpent ==
  /\ driver = "flush"
  /\ driver' = "closed" /\ pending' = <<>>
  /\ UNCHANGED <<flying, windowCount, floorCount, clock, gone>>

-----------------------------------------------------------------------------
(* The write tasks                                                         *)

InLane(lane, stages) ==
  {r \in Record : ~Idle(r) /\ flying[r].lane = lane /\ flying[r].stage \in stages}

Acquire(r) ==
  /\ ~Idle(r) /\ flying[r].stage = "waiting"
  /\ Cardinality(InLane(flying[r].lane, {"writing"})) < Permits[flying[r].lane]
  /\ flying' = [flying EXCEPT ![r].stage = "writing"]
  /\ UNCHANGED <<pending, windowCount, floorCount, driver, clock, gone>>

(* The write lands, or fails or panics and lands nothing; either way the    *)
(* permit is dropped and Done is sent.                                      *)
Finish(r) ==
  /\ ~Idle(r) /\ flying[r].stage = "writing"
  /\ flying' = [flying EXCEPT ![r].stage = "done"]
  /\ \/ UNCHANGED gone
     \/ /\ flying[r].kind = "tombstone"
        /\ gone' = [gone EXCEPT ![r] = @ \cup {flying[r].id}]
     \/ /\ flying[r].kind = "current"
        /\ gone' = [gone EXCEPT ![r] = @ \ {flying[r].id}]
  /\ UNCHANGED <<pending, windowCount, floorCount, driver, clock>>

-----------------------------------------------------------------------------
Init ==
  /\ pending = <<>>
  /\ flying = [r \in Record |-> None]
  /\ windowCount = 0 /\ floorCount = 0
  /\ driver = "select"
  /\ clock = 0
  /\ gone = [r \in Record |-> {}]

Driver == \/ DispatchFloor \/ DispatchChat \/ DispatchWindow \/ DispatchEnd \/ Arm
          \/ Drain \/ DrainEnd
Task(r) == Acquire(r) \/ Finish(r) \/ OnDone(r)

Next ==
  \/ Submit \/ Driver \/ Shutdown \/ DeadlinePasses \/ BudgetSpent
  \/ \E r \in Record : Task(r) \/ Age(r)

Spec == Init /\ [][Next]_vars

(* The driver's loop runs; a semaphore is first come first served, a write  *)
(* ends, and select! takes its ready branches at random; time passes.       *)
Fairness ==
  /\ WF_vars(Driver)
  /\ \A r \in Record : SF_vars(Task(r)) /\ SF_vars(Age(r))
FairSpec == Init /\ [][Next]_vars /\ Fairness

-----------------------------------------------------------------------------
(* The two lane counters are exactly the writes in flight in those lanes,   *)
(* whichever way a write ended, so neither the single floor slot nor a      *)
(* window slot leaks; and outside a shutdown neither lane takes more than   *)
(* its pool holds, so a window or floor write never waits for a permit      *)
(* while it counts against the lane (dispatch, on_done, DhtGate).           *)
LanesAccounted ==
  /\ windowCount = Cardinality(InLane("window", Stage))
  /\ floorCount = Cardinality(InLane("floor", Stage))
  /\ driver \in {"dispatch", "arm", "select"} =>
       /\ windowCount <= NonchatCap /\ floorCount <= 1
       /\ \A r \in InLane("window", {"waiting"}) \cup InLane("floor", {"waiting"}) :
            Cardinality(InLane(flying[r].lane, {"writing"})) < Permits[flying[r].lane]

(* No refresh brings back what was withdrawn: a current-state write that    *)
(* lands where a withdrawal landed was submitted after it had landed, so a  *)
(* refresh queued before the withdrawal, or submitted while it was queued   *)
(* or being written, never follows it (enqueue, in_flight_tombstone).       *)
NoResurrection ==
  [][\A r \in Record, id \in Id :
       id \in gone[r] /\ id \notin gone'[r] => flying[r].informed]_vars

(* A chat-class write answered Ok because another supersedes it is carried  *)
(* by that one: the shutdown sheds no write that vouches for it, whatever   *)
(* class the later write was submitted with (strongest_class).              *)
PromiseKept ==
  [][Shutdown => \A i \in DOMAIN pending : pending[i].vouches => Flushed(pending[i])]_vars

(* When the driver rests, every idle record's head that is left waits for   *)
(* something that will wake the driver: no chat head is left at all, and a  *)
(* non-chat head only while the window is full, so the crossing that next_  *)
(* wakeup misses costs at most one completion (try_dispatch, next_wakeup).  *)
RestsWithReason ==
  driver \in {"arm", "select"} =>
    ChatHeads = {} /\ (NonchatHeads # {} => windowCount = NonchatCap)

(* No write is starved by other writes of its class, nor by weaker ones,    *)
(* even when every id is refreshed again and again: a head of the strongest *)
(* non-chat class in use leaves (pick_floor, starved_since, I8).  Records   *)
(* are interchangeable, so any one of them stands for all.                  *)
StrongestNonchat == {s[1] : s \in Shape} \ {Chat}
HeadIs(r, class) == \E i \in Heads : pending[i].rec = r /\ pending[i].class = class
Running == driver \in {"dispatch", "arm", "select"}
HeadLeaves ==
  LET r == CHOOSE x \in Record : TRUE
  IN  HeadIs(r, Min(StrongestNonchat)) ~> (~Idle(r) \/ ~Running)
=============================================================================
