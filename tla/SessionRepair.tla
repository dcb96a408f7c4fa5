--------------------------- MODULE SessionRepair ---------------------------
(***************************************************************************)
(* The self-heal of dead record sessions in a front end's network actor:   *)
(* the tracker that counts each record's failed passes                     *)
(* (session_health.rs), the fold of one finished pass, the queue of        *)
(* repairs found due while the actor was busy, the steady re-sweep tick    *)
(* that drains it or re-reads one record round-robin, and the manual       *)
(* refresh that arms every record for repair on a single failed pass.      *)
(*                                                                         *)
(* The loop folds one event at a time; the sweeps and repairs it spawns    *)
(* run beside it and share only resweep_busy, which they clear when they   *)
(* end.  A pass is abstracted to whether any read of it was answered: an   *)
(* opened record always has slots to read, so no pass is without reads.    *)
(***************************************************************************)
EXTENDS Integers, Sequences, FiniteSets

CONSTANTS Records,    \* how many subscribed records, numbered in cursor order
          K,          \* REPAIR_K_THRESHOLD
          Cap,        \* REPAIR_BACKOFF_CAP
          Weathers,   \* subset of {"calm", "elevated"} the estimator reads
          Refresh,    \* does the user press Refresh
          Errs,       \* may a record fail to open, or its key to resolve
          Drops,      \* may the node be shut down and connected again
          Joins,      \* are records subscribed after the hand-off too
          MaxPasses   \* bound on finished passes waiting for the loop

ASSUME RepairAssumption ==
  /\ Records \in Nat \ {0} /\ K \in Nat \ {0} /\ Cap \in Nat \ {0}
  /\ Weathers \subseteq {"calm", "elevated"} /\ Weathers # {}
  /\ {Refresh, Errs, Drops, Joins} \subseteq BOOLEAN
  /\ MaxPasses \in Nat \ {0}

Rec == 1..Records

VARIABLES
  tracker,  \* session_health, per record
  queue,    \* pending_repairs
  armed,    \* refresh_armed
  owners,   \* record_key_owners: the records whose key has been resolved
  cursor,   \* resweep_cursor, 0 for none
  busy,     \* resweep_busy
  tasks,    \* spawned sweeps, waves and repairs, the records each has left
  passes,   \* SweepHealth events on their way to the loop
  link,     \* net and connected_at: no node, before the hand-off, after it
  weather,  \* what reap_gate.suspend_reaping says
  since     \* history: failed passes folded since the last answered one or repair

vars == <<tracker, queue, armed, owners, cursor, busy, tasks, passes, link, weather, since>>

Health == [fails : 0..K*Cap, latched : BOOLEAN, mult : 1..Cap]
Task == [kind : {"sweep", "wave", "repair"}, left : SUBSET Rec]
Pass == [rec : Rec, answered : BOOLEAN]

AtMost(n, bound) == IF n > bound THEN bound ELSE n
Fresh == [fails |-> 0, latched |-> FALSE, mult |-> 1]

-----------------------------------------------------------------------------
(* The tracker.  The streak saturates where no threshold can tell more.    *)

Due(h, w) == h.fails + 1 >= K * h.mult /\ ~h.latched /\ w = "calm"

(* Mutant: a suppressed streak latches as well. *)
ObserveLatchesAnyway(h, answered, w) ==
  IF answered THEN Fresh
  ELSE [h EXCEPT !.fails = AtMost(@ + 1, K * Cap), !.latched = @ \/ h.fails + 1 >= K * h.mult]

Observe(h, answered, w) ==
  IF answered THEN Fresh
  ELSE [h EXCEPT !.fails = AtMost(@ + 1, K * Cap), !.latched = @ \/ Due(h, w)]

(* Mutant: a dispatch keeps the latch that made the repair due. *)
NoteRepairDispatchedKeepsLatch(h) ==
  [fails |-> 0, latched |-> h.latched, mult |-> AtMost(2 * h.mult, Cap)]

NoteRepairDispatched(h) ==
  [fails |-> 0, latched |-> FALSE, mult |-> AtMost(2 * h.mult, Cap)]

-----------------------------------------------------------------------------
(* Spawning.  The caller has reset the record's health; `h` is the health  *)
(* the dispatch is decided on, which in the fold already holds the pass.   *)

Dispatch(r, h) ==
  /\ tracker' = [tracker EXCEPT ![r] = NoteRepairDispatched(h)]
  /\ busy' = TRUE
  /\ tasks' = tasks \cup {[kind |-> "repair", left |-> {r}]}

Free == link = "ready" /\ ~busy

Remembered(p) == IF p.answered THEN 0 ELSE AtMost(since[p.rec] + 1, K)

Queued(r) == \E i \in DOMAIN queue : queue[i] = r

Enqueue(r) == IF Queued(r) THEN queue ELSE Append(queue, r)

(* retain: a record is queued at most once, so at most one entry goes. *)
Unqueue(r) ==
  IF ~Queued(r) THEN queue
  ELSE LET at == CHOOSE i \in DOMAIN queue : queue[i] = r
       IN [j \in 1..Len(queue)-1 |-> queue[IF j < at THEN j ELSE j + 1]]

(* The loop's arm for a finished pass: observe, then dispatch, queue or    *)
(* drop the repair the pass makes due.                                     *)
FoldDue(r, h) ==
  \/ /\ r \notin owners
     /\ tracker' = [tracker EXCEPT ![r] = Fresh]
     /\ armed' = armed \ {r}
     /\ UNCHANGED <<queue, busy, tasks>>
  \/ /\ r \in owners
     /\ Free
     /\ Dispatch(r, h)
     /\ queue' = Unqueue(r)
     /\ armed' = armed \ {r}
  \/ /\ r \in owners
     /\ ~Free
     /\ tracker' = [tracker EXCEPT ![r] = h]
     /\ queue' = Enqueue(r)
     /\ UNCHANGED <<armed, busy, tasks>>

RefreshOrCadenceDue(r, p) ==
  /\ ~p.answered
  /\ weather = "calm"
  /\ Due(tracker[r], weather) \/ r \in armed

Fold ==
  /\ passes # <<>>
  /\ LET p == Head(passes)
         r == p.rec
         h == Observe(tracker[r], p.answered, weather)
     IN /\ \/ RefreshOrCadenceDue(r, p) /\ FoldDue(r, h)
           \/ /\ ~RefreshOrCadenceDue(r, p)
              /\ tracker' = [tracker EXCEPT ![r] = h]
              /\ armed' = armed \ {r}
              /\ UNCHANGED <<queue, busy, tasks>>
        /\ since' = [since EXCEPT ![r] = IF tasks' = tasks THEN Remembered(p) ELSE 0]
  /\ passes' = Tail(passes)
  /\ UNCHANGED <<owners, cursor, link, weather>>

(* steady_resweep.tick: a queued repair first, else the next record. *)
(* Mutant: the drain takes the queue's word for it. *)
DrainShouldDispatchUnchecked(r) == TRUE

DrainShouldDispatch(r) == tracker[r].latched \/ r \in armed

DrainRepair ==
  /\ Free /\ queue # <<>>
  /\ LET r == Head(queue)
     IN /\ armed' = armed \ {r}
        /\ \/ /\ DrainShouldDispatch(r)
              /\ Dispatch(r, tracker[r])
              /\ since' = [since EXCEPT ![r] = 0]
           \/ /\ ~DrainShouldDispatch(r)
              /\ UNCHANGED <<tracker, busy, tasks, since>>
  /\ queue' = Tail(queue)
  /\ UNCHANGED <<owners, cursor, passes, link, weather>>

NextResweepRecord == IF cursor < Records THEN cursor + 1 ELSE 1

ResweepNext ==
  /\ Free /\ queue = <<>>
  /\ LET r == NextResweepRecord
     IN /\ cursor' = r
        /\ \/ owners' = owners \cup {r}
           \/ Errs /\ owners' = owners
        /\ busy' = TRUE
        /\ tasks' = tasks \cup {[kind |-> "sweep", left |-> {r}]}
  /\ UNCHANGED <<tracker, queue, armed, passes, link, weather, since>>

Tick == DrainRepair \/ ResweepNext

(* handle_refresh_shares: arm what resolves, and sweep it all unless a     *)
(* sweep or a repair runs.                                                 *)
RefreshShares ==
  /\ Refresh /\ link # "down"
  /\ \E resolved \in IF Errs THEN SUBSET Rec ELSE {Rec} :
       /\ owners' = owners \cup resolved
       /\ armed' = armed \cup owners'
  /\ \/ busy /\ UNCHANGED <<busy, tasks>>
     \/ /\ ~busy
        /\ busy' = TRUE
        /\ tasks' = tasks \cup {[kind |-> "wave", left |-> Rec]}
  /\ UNCHANGED <<tracker, queue, cursor, passes, link, weather, since>>

-----------------------------------------------------------------------------
(* The spawned tasks.  A sweep's pass is sent before its guard is cleared; *)
(* a repair's re-read sends none, and neither does a sweep whose record    *)
(* does not open.                                                          *)

Sends(r) ==
  /\ Len(passes) < MaxPasses
  /\ \E answered \in BOOLEAN : passes' = Append(passes, [rec |-> r, answered |-> answered])

Silent(t) == t.kind = "repair" \/ Errs

TaskReads ==
  \E t \in tasks : \E r \in t.left :
    /\ tasks' = (tasks \ {t}) \cup {[t EXCEPT !.left = @ \ {r}]}
    /\ \/ t.kind # "repair" /\ Sends(r)
       \/ Silent(t) /\ passes' = passes
    /\ UNCHANGED <<tracker, queue, armed, owners, cursor, busy, link, weather, since>>

TaskEnds ==
  \E t \in tasks :
    /\ t.left = {}
    /\ tasks' = tasks \ {t}
    /\ busy' = FALSE
    /\ UNCHANGED <<tracker, queue, armed, owners, cursor, passes, link, weather, since>>

(* The sweep of a record when it is subscribed, at the connect or, for a   *)
(* room joined later, at any time, and the warmup rounds: outside          *)
(* resweep_busy.                                                           *)
BacklogSweep ==
  /\ link \in {"warming"} \cup (IF Joins THEN {"ready"} ELSE {})
  /\ \E r \in Rec : Sends(r)
  /\ UNCHANGED <<tracker, queue, armed, owners, cursor, busy, tasks, link, weather, since>>

Connect ==
  /\ link = "down"
  /\ link' = "warming"
  /\ cursor' = 0
  /\ UNCHANGED <<tracker, queue, armed, owners, busy, tasks, passes, weather, since>>

HandOff ==
  /\ link = "warming"
  /\ link' = "ready"
  /\ UNCHANGED <<tracker, queue, armed, owners, cursor, busy, tasks, passes, weather, since>>

(* The node and its events go; what runs over it only ends. *)
Shutdown ==
  /\ Drops /\ link # "down"
  /\ link' = "down"
  /\ passes' = <<>>
  /\ tasks' = {[t EXCEPT !.left = {}] : t \in tasks}
  /\ UNCHANGED <<tracker, queue, armed, owners, cursor, busy, weather, since>>

WeatherTurns ==
  /\ weather' \in Weathers \ {weather}
  /\ UNCHANGED <<tracker, queue, armed, owners, cursor, busy, tasks, passes, link, since>>

Init ==
  /\ tracker = [r \in Rec |-> Fresh]
  /\ queue = <<>>
  /\ armed = {}
  /\ owners = {}
  /\ cursor = 0
  /\ busy = FALSE
  /\ tasks = {}
  /\ passes = <<>>
  /\ link = "down"
  /\ weather \in Weathers
  /\ since = [r \in Rec |-> 0]

Next ==
  \/ Fold \/ Tick \/ RefreshShares
  \/ TaskReads \/ TaskEnds \/ BacklogSweep
  \/ Connect \/ HandOff \/ Shutdown \/ WeatherTurns

Spec == Init /\ [][Next]_vars

FairSpec == Spec /\ WF_vars(Fold) /\ WF_vars(Tick) /\ WF_vars(TaskReads)
                 /\ WF_vars(TaskEnds) /\ WF_vars(HandOff)

-----------------------------------------------------------------------------
(* Every variable has its type. *)
TypeOK ==
  /\ tracker \in [Rec -> Health]
  /\ queue \in Seq(Rec)
  /\ armed \subseteq owners /\ owners \subseteq Rec
  /\ cursor \in 0..Records
  /\ busy \in BOOLEAN
  /\ tasks \subseteq Task
  /\ passes \in Seq(Pass) /\ Len(passes) <= MaxPasses
  /\ link \in {"down", "warming", "ready"}
  /\ weather \in Weathers
  /\ since \in [Rec -> 0..K]

(* The loop's test of resweep_busy and the tasks' clearing of it keep at   *)
(* most one sweep, wave or repair in flight, through every refresh, queued *)
(* repair and reconnect.                                                   *)
OneAtATime == Cardinality(tasks) <= 1

(* A record the tracker has latched is queued for repair: a latch nobody   *)
(* queued would never be detected again.                                   *)
LatchedIsQueued ==
  \A r \in Rec : tracker[r].latched => Queued(r)

Repairs(r) == [kind |-> "repair", left |-> {r}] \in tasks' \ tasks
Evidence(r) == IF passes' = passes THEN since[r] ELSE Remembered(Head(passes))

(* A repair the user did not ask for costs at least K failed passes, none  *)
(* answered in between, since the last repair or answer: nothing queued    *)
(* earlier, whoever queued it, makes the drain tear down a record that has *)
(* recovered.                                                              *)
RepairIsEarned == [][\A r \in Rec : Repairs(r) => Evidence(r) >= K \/ r \in armed]_vars

(* A record whose reads all fail from some point on, over a connection     *)
(* that stays up in calm weather and with nobody pressing Refresh any      *)
(* more, is repaired, and again after each repair that does not help: it   *)
(* is never left latched, queued or forgotten.                             *)
SilentPass(r) == \A i \in DOMAIN passes : passes[i].rec = r => ~passes[i].answered
DeadIsRepaired ==
  \A r \in Rec :
    <>[](SilentPass(r) /\ link = "ready" /\ weather = "calm") /\ <>[][~RefreshShares]_vars
      => []<>(\E t \in tasks : t.kind = "repair" /\ t.left = {r})
=============================================================================
