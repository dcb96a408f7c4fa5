------------------------ MODULE SessionRepairProofs ------------------------
(***************************************************************************)
(* Safety of SessionRepair for any number of records, any threshold and    *)
(* back-off cap, and any mix of refreshes, errors, drops and late joins:   *)
(*   OneInFlight     Spec => []OneAtATime                                  *)
(*   LatchesQueued   Spec => []LatchedIsQueued                             *)
(*   RepairsEarned   Spec => RepairIsEarned                                *)
(*                                                                         *)
(* OneAtATime needs that the busy flag is set whenever anything is in      *)
(* flight (BusyGuards); RepairIsEarned that the tracker's streak is never  *)
(* ahead of the failed passes that happened (StreakEarned), and that a     *)
(* repair in flight has one record to read (RepairTasks).                  *)
(***************************************************************************)
EXTENDS SessionRepair, FiniteSetTheorems, TLAPS

BusyGuards ==
  /\ tasks = {} \/ \E t \in Task : tasks = {t}
  /\ ~busy => tasks = {}

RepairTasks == \A t \in tasks : t.kind = "repair" => \E r \in Rec : t.left \subseteq {r}

QueuedOnce == \A i, j \in DOMAIN queue : queue[i] = queue[j] => i = j

RepairInv == TypeOK /\ BusyGuards /\ LatchedIsQueued /\ QueuedOnce /\ RepairTasks

StreakEarned ==
  \A r \in Rec : /\ tracker[r].fails <= since[r] \/ since[r] = K
                 /\ tracker[r].latched => since[r] = K

-----------------------------------------------------------------------------
(* The tracker's operators. *)

(* The thresholds are positive, and a multiple of K is at least K.         *)
LEMMA Thresholds ==
  /\ K \in Nat /\ K >= 1 /\ Cap \in Nat /\ Cap >= 1
  /\ K * Cap \in Nat /\ K * Cap >= 0
  /\ \A m \in 1..Cap : K * m \in Nat /\ K * m >= K
  <1>1. K \in Nat /\ K >= 1 /\ Cap \in Nat /\ Cap >= 1
    BY RepairAssumption
  <1>2. K * Cap \in Nat
    BY <1>1
  <1>3. \A m \in 1..Cap : K * m \in Nat /\ K * m >= K
    BY <1>1
  <1>q. QED BY <1>1, <1>2, <1>3

(* A count capped at b is at most b, and at most the count.                *)
LEMMA AtMostType ==
  \A n, b \in Nat : AtMost(n, b) \in 0..b /\ AtMost(n, b) <= n
  BY DEF AtMost

(* Every operation of the tracker keeps its entries in their type. *)
LEMMA TrackerTypes ==
  /\ Fresh \in Health /\ ~Fresh.latched /\ Fresh.fails = 0
  /\ \A h \in Health :
       /\ h.fails \in Nat /\ h.latched \in BOOLEAN /\ h.mult \in 1..Cap
       /\ NoteRepairDispatched(h) \in Health
       /\ ~NoteRepairDispatched(h).latched /\ NoteRepairDispatched(h).fails = 0
       /\ \A answered \in BOOLEAN, w \in {"calm", "elevated"} :
            Observe(h, answered, w) \in Health
  <1>1. Fresh \in Health /\ ~Fresh.latched /\ Fresh.fails = 0
    BY Thresholds DEF Fresh, Health
  <1>2. SUFFICES ASSUME NEW h \in Health
                 PROVE  /\ h.fails \in Nat /\ h.latched \in BOOLEAN /\ h.mult \in 1..Cap
                        /\ NoteRepairDispatched(h) \in Health
                        /\ ~NoteRepairDispatched(h).latched /\ NoteRepairDispatched(h).fails = 0
                        /\ \A answered \in BOOLEAN, w \in {"calm", "elevated"} :
                             Observe(h, answered, w) \in Health
    BY <1>1
  <1>3. h.fails \in Nat /\ h.latched \in BOOLEAN /\ h.mult \in 1..Cap
    BY Thresholds DEF Health
  <1>4. AtMost(2 * h.mult, Cap) \in 1..Cap /\ 0 \in 0..K*Cap
    BY <1>3, Thresholds DEF AtMost
  <1>5. /\ NoteRepairDispatched(h) \in Health
        /\ ~NoteRepairDispatched(h).latched /\ NoteRepairDispatched(h).fails = 0
    BY <1>4 DEF NoteRepairDispatched, Health
  <1>6. ASSUME NEW answered \in BOOLEAN, NEW w \in {"calm", "elevated"}
        PROVE  Observe(h, answered, w) \in Health
    <2>1. CASE answered
      BY <1>1, <2>1 DEF Observe
    <2>2. CASE ~answered
      <3>1. AtMost(h.fails + 1, K * Cap) \in 0..K*Cap
        <4>1. h.fails + 1 \in Nat /\ K * Cap \in Nat
          BY <1>3, Thresholds
        <4>q. QED BY <4>1, AtMostType
      <3>2. (h.latched \/ Due(h, w)) \in BOOLEAN
        BY <1>3 DEF Due
      <3>q. QED BY <2>2, <3>1, <3>2 DEF Observe, Health
    <2>q. QED BY <2>1, <2>2
  <1>q. QED BY <1>3, <1>5, <1>6

(* What a pass leaves in the entry, and when it latches it. *)
LEMMA ObserveFacts ==
  ASSUME NEW h \in Health, NEW answered \in BOOLEAN, NEW w \in {"calm", "elevated"}
  PROVE  /\ answered => Observe(h, answered, w) = Fresh
         /\ ~answered => /\ Observe(h, answered, w).fails = AtMost(h.fails + 1, K * Cap)
                         /\ Observe(h, answered, w).latched <=> h.latched \/ Due(h, w)
  BY DEF Observe, Health

(* A repair the cadence finds due follows at least K failed passes. *)
LEMMA DueFacts ==
  ASSUME NEW h \in Health, NEW w, Due(h, w)
  PROVE  h.fails + 1 >= K
  BY Thresholds, TrackerTypes DEF Due

-----------------------------------------------------------------------------
(* The queue of repairs found due. *)

(* The queue is a sequence of records.                                     *)
LEMMA QueueFacts ==
  ASSUME TypeOK
  PROVE  /\ Len(queue) \in Nat /\ DOMAIN queue = 1..Len(queue)
         /\ \A i \in 1..Len(queue) : queue[i] \in Rec
  BY DEF TypeOK

(* retain takes the record out and leaves every other where it was found. *)
LEMMA UnqueueFacts ==
  ASSUME TypeOK, QueuedOnce, NEW r \in Rec, NEW q, q = Unqueue(r)
  PROVE  /\ q \in Seq(Rec)
         /\ \A i, j \in DOMAIN q : q[i] = q[j] => i = j
         /\ \A s \in Rec \ {r} : Queued(s) => \E i \in DOMAIN q : q[i] = s
  <1>1. CASE ~Queued(r)
    BY <1>1 DEF Unqueue, TypeOK, QueuedOnce, Queued
  <1>2. CASE Queued(r)
    <2> DEFINE at == CHOOSE i \in DOMAIN queue : queue[i] = r
    <2>1. at \in 1..Len(queue) /\ queue[at] = r
      BY <1>2, QueueFacts DEF Queued
    <2>2. q = [j \in 1..Len(queue)-1 |-> queue[IF j < at THEN j ELSE j + 1]]
      BY <1>2 DEF Unqueue
    <2> HIDE DEF at
    <2>3. Len(queue) - 1 \in Nat
      BY <2>1, QueueFacts
    <2>4. \A j \in 1..Len(queue)-1 : (IF j < at THEN j ELSE j + 1) \in 1..Len(queue)
      BY <2>1, <2>3
    <2>5. q \in [1..Len(queue)-1 -> Rec]
      BY <2>2, <2>4, QueueFacts
    <2>6. q \in Seq(Rec) /\ DOMAIN q = 1..Len(queue)-1
      BY <2>3, <2>5
    <2>7. ASSUME NEW i \in DOMAIN q, NEW j \in DOMAIN q, q[i] = q[j] PROVE i = j
      <3>1. i \in 1..Len(queue)-1 /\ j \in 1..Len(queue)-1
        BY <2>6
      <3> DEFINE from(m) == IF m < at THEN m ELSE m + 1
      <3>2. q[i] = queue[from(i)] /\ q[j] = queue[from(j)]
        BY <2>2, <3>1
      <3>3. from(i) \in 1..Len(queue) /\ from(j) \in 1..Len(queue)
        BY <2>4, <3>1
      <3>4. from(i) = from(j)
        <4> HIDE DEF from
        <4>q. QED BY <2>7, <3>2, <3>3, QueueFacts DEF QueuedOnce
      <3>q. QED BY <2>1, <2>3, <3>1, <3>4
    <2>8. ASSUME NEW s \in Rec \ {r}, Queued(s) PROVE \E i \in DOMAIN q : q[i] = s
      <3>1. PICK k \in 1..Len(queue) : queue[k] = s
        BY <2>8, QueueFacts DEF Queued
      <3>2. CASE k < at
        BY <2>1, <2>2, <2>6, <3>1, <3>2
      <3>3. CASE k > at
        <4>1. k - 1 \in DOMAIN q /\ ~(k - 1 < at) /\ (k - 1) + 1 = k
          BY <2>1, <2>6, <3>1, <3>3, QueueFacts
        <4>2. q[k - 1] = queue[k]
          BY <2>2, <2>6, <4>1
        <4>q. QED BY <3>1, <4>1, <4>2
      <3>4. k # at
        BY <2>1, <2>8, <3>1
      <3>q. QED BY <2>1, <3>1, <3>2, <3>3, <3>4
    <2>q. QED BY <2>6, <2>7, <2>8
  <1>q. QED BY <1>1, <1>2

(* A push_back of a record that is not queued. *)
LEMMA EnqueueFacts ==
  ASSUME TypeOK, QueuedOnce, NEW r \in Rec, NEW q, q = Enqueue(r)
  PROVE  /\ q \in Seq(Rec)
         /\ \A i, j \in DOMAIN q : q[i] = q[j] => i = j
         /\ \E i \in DOMAIN q : q[i] = r
         /\ \A s \in Rec : Queued(s) => \E i \in DOMAIN q : q[i] = s
  <1>1. CASE Queued(r)
    BY <1>1 DEF Enqueue, TypeOK, QueuedOnce, Queued
  <1>2. CASE ~Queued(r)
    <2>1. q = Append(queue, r) /\ queue \in Seq(Rec)
      BY <1>2 DEF Enqueue, TypeOK
    <2>2. /\ q \in Seq(Rec) /\ DOMAIN q = 1..(Len(queue) + 1)
          /\ \A i \in 1..Len(queue) : q[i] = queue[i]
          /\ q[Len(queue) + 1] = r
      BY <2>1, QueueFacts
    <2>3. \A i \in 1..Len(queue) : queue[i] # r
      BY <1>2, QueueFacts DEF Queued
    <2>4. \A i, j \in DOMAIN q : q[i] = q[j] => i = j
      BY <2>2, <2>3, QueueFacts DEF QueuedOnce
    <2>q. QED BY <2>2, <2>4, QueueFacts DEF Queued
  <1>q. QED BY <1>1, <1>2

(* pop_front. *)
LEMMA DequeueFacts ==
  ASSUME TypeOK, QueuedOnce, queue # <<>>
  PROVE  /\ Head(queue) \in Rec
         /\ Tail(queue) \in Seq(Rec)
         /\ \A i, j \in DOMAIN Tail(queue) : Tail(queue)[i] = Tail(queue)[j] => i = j
         /\ \A s \in Rec \ {Head(queue)} :
              Queued(s) => \E i \in DOMAIN Tail(queue) : Tail(queue)[i] = s
  <1>1. Len(queue) >= 1 /\ Head(queue) = queue[1]
    BY QueueFacts DEF TypeOK
  <1>2. /\ Tail(queue) \in Seq(Rec) /\ DOMAIN Tail(queue) = 1..(Len(queue) - 1)
        /\ \A i \in 1..(Len(queue) - 1) : Tail(queue)[i] = queue[i + 1]
    BY <1>1 DEF TypeOK
  <1>3. \A i, j \in DOMAIN Tail(queue) : Tail(queue)[i] = Tail(queue)[j] => i = j
    BY <1>2, QueueFacts DEF QueuedOnce
  <1>4. ASSUME NEW s \in Rec \ {Head(queue)}, Queued(s)
        PROVE  \E i \in DOMAIN Tail(queue) : Tail(queue)[i] = s
    <2>1. PICK k \in 1..Len(queue) : queue[k] = s
      BY <1>4, QueueFacts DEF Queued
    <2>2. k # 1
      BY <1>1, <1>4, <2>1
    <2>3. k - 1 \in 1..(Len(queue) - 1) /\ (k - 1) + 1 = k
      BY <2>1, <2>2, QueueFacts
    <2>q. QED BY <1>2, <2>1, <2>3
  <1>q. QED BY <1>1, <1>2, <1>3, <1>4, QueueFacts

-----------------------------------------------------------------------------
(* The pieces several actions share. *)

(* The first state satisfies RepairInv: no task, nothing queued, nothing   *)
(* latched.                                                                *)
LEMMA InitRepair == Init => RepairInv
  <1>1. SUFFICES ASSUME Init PROVE RepairInv
    OBVIOUS
  <1>2. queue \in Seq(Rec) /\ DOMAIN queue = {} /\ passes \in Seq(Pass) /\ Len(passes) = 0
    BY <1>1 DEF Init
  <1>3. tracker \in [Rec -> Health] /\ \A r \in Rec : ~tracker[r].latched
    BY <1>1, TrackerTypes DEF Init
  <1>4. since \in [Rec -> 0..K] /\ cursor \in 0..Records
    BY <1>1, RepairAssumption DEF Init
  <1>5. TypeOK
    <2>1. armed \subseteq owners /\ owners \subseteq Rec /\ busy \in BOOLEAN /\ tasks \subseteq Task
      BY <1>1 DEF Init
    <2>2. link \in {"down", "warming", "ready"} /\ weather \in Weathers
      BY <1>1 DEF Init
    <2>3. Len(passes) <= MaxPasses
      BY <1>2, RepairAssumption
    <2>q. QED BY <1>2, <1>3, <1>4, <2>1, <2>2, <2>3 DEF TypeOK
  <1>6. BusyGuards /\ RepairTasks
    BY <1>1 DEF Init, BusyGuards, RepairTasks
  <1>7. LatchedIsQueued /\ QueuedOnce
    BY <1>2, <1>3 DEF LatchedIsQueued, QueuedOnce
  <1>q. QED BY <1>5, <1>6, <1>7 DEF RepairInv

(* A dispatch puts one repair in flight and sets the flag. *)
LEMMA DispatchFacts ==
  ASSUME RepairInv, ~busy, NEW r \in Rec, NEW h \in Health, Dispatch(r, h)
  PROVE  /\ tracker' \in [Rec -> Health] /\ busy' \in BOOLEAN /\ tasks' \subseteq Task
         /\ BusyGuards' /\ RepairTasks'
         /\ ~tracker'[r].latched
         /\ \A s \in Rec \ {r} : tracker'[s] = tracker[s]
  <1> DEFINE repair == [kind |-> "repair", left |-> {r}]
  <1>1. tasks = {} /\ tasks' = {repair} /\ busy' = TRUE
    BY DEF RepairInv, BusyGuards, Dispatch
  <1>2. repair \in Task
    BY DEF Task
  <1>3. BusyGuards'
    BY <1>1, <1>2 DEF BusyGuards
  <1>4. RepairTasks'
    BY <1>1 DEF RepairTasks
  <1>5. /\ tracker' \in [Rec -> Health] /\ ~tracker'[r].latched
        /\ \A s \in Rec \ {r} : tracker'[s] = tracker[s]
    BY TrackerTypes DEF RepairInv, TypeOK, Dispatch
  <1>q. QED BY <1>1, <1>2, <1>3, <1>4, <1>5

(* A pass sent keeps the passes typed. *)
LEMMA SendsFacts ==
  ASSUME TypeOK, NEW r \in Rec, Sends(r)
  PROVE  passes' \in Seq(Pass) /\ Len(passes') <= MaxPasses
  <1>1. PICK answered \in BOOLEAN : passes' = Append(passes, [rec |-> r, answered |-> answered])
    BY DEF Sends
  <1>2. [rec |-> r, answered |-> answered] \in Pass
    BY DEF Pass
  <1>q. QED BY <1>1, <1>2, RepairAssumption DEF Sends, TypeOK

-----------------------------------------------------------------------------
(* The fold of a pass. *)

(* The pass folded next, and what observing it makes of the record's entry,*)
(* are typed.                                                              *)
LEMMA PassFacts ==
  ASSUME TypeOK, Fold
  PROVE  /\ Head(passes) \in Pass /\ Head(passes).rec \in Rec
         /\ Head(passes).answered \in BOOLEAN
         /\ passes' \in Seq(Pass) /\ Len(passes') <= MaxPasses /\ passes' # passes
         /\ weather \in {"calm", "elevated"}
         /\ tracker[Head(passes).rec] \in Health
         /\ Observe(tracker[Head(passes).rec], Head(passes).answered, weather) \in Health
  <1>1. passes \in Seq(Pass) /\ passes # <<>> /\ passes' = Tail(passes)
    BY DEF TypeOK, Fold
  <1>2. Head(passes) \in Pass
    BY <1>1
  <1>3. passes' \in Seq(Pass) /\ Len(passes') <= MaxPasses /\ Len(passes') # Len(passes)
    BY <1>1, RepairAssumption DEF TypeOK
  <1>4. Head(passes).rec \in Rec /\ Head(passes).answered \in BOOLEAN
    BY <1>2 DEF Pass
  <1>5. weather \in {"calm", "elevated"} /\ tracker[Head(passes).rec] \in Health
    BY <1>4, RepairAssumption DEF TypeOK
  <1>q. QED BY <1>2, <1>3, <1>4, <1>5, TrackerTypes

(* The four ways a fold ends: a repair dispatched, one queued, the entry   *)
(* of a record nobody resolved dropped, or the pass only counted.          *)
FoldDispatches(r, h) ==
  r \in owners /\ Free /\ Dispatch(r, h) /\ queue' = Unqueue(r) /\ armed' = armed \ {r}
FoldQueues(r, h) ==
  /\ r \in owners
  /\ tracker' = [tracker EXCEPT ![r] = h]
  /\ queue' = Enqueue(r)
  /\ UNCHANGED <<armed, busy, tasks>>
FoldDrops(r) ==
  /\ tracker' = [tracker EXCEPT ![r] = Fresh]
  /\ armed' = armed \ {r}
  /\ UNCHANGED <<queue, busy, tasks>>
FoldCounts(r, h, p) ==
  /\ ~RefreshOrCadenceDue(r, p)
  /\ tracker' = [tracker EXCEPT ![r] = h]
  /\ armed' = armed \ {r}
  /\ UNCHANGED <<queue, busy, tasks>>

(* A fold ends in one of those four ways.                                  *)
LEMMA FoldWays ==
  ASSUME Fold
  PROVE  LET p == Head(passes)
             r == p.rec
             h == Observe(tracker[r], p.answered, weather)
         IN  \/ RefreshOrCadenceDue(r, p) /\ FoldDispatches(r, h)
             \/ RefreshOrCadenceDue(r, p) /\ FoldQueues(r, h)
             \/ FoldDrops(r)
             \/ FoldCounts(r, h, p)
  BY DEF Fold, FoldDue, FoldDispatches, FoldQueues, FoldDrops, FoldCounts

(* Folding a pass keeps RepairInv.                                         *)
LEMMA FoldRepairInv == RepairInv /\ Fold => RepairInv'
  <1>1. SUFFICES ASSUME RepairInv, Fold PROVE RepairInv'
    OBVIOUS
  <1> USE DEF RepairInv
  <1> DEFINE p == Head(passes)
             r == p.rec
             h == Observe(tracker[r], p.answered, weather)
  <1>2. /\ p \in Pass /\ r \in Rec /\ p.answered \in BOOLEAN /\ h \in Health
        /\ tracker[r] \in Health /\ weather \in {"calm", "elevated"}
        /\ passes' \in Seq(Pass) /\ Len(passes') <= MaxPasses
    BY <1>1, PassFacts
  <1>3. /\ owners' = owners /\ cursor' = cursor /\ link' = link /\ weather' = weather
        /\ armed' \subseteq owners'
    BY <1>1, FoldWays DEF Fold, TypeOK, FoldDispatches, FoldQueues, FoldDrops, FoldCounts
  <1>4. since' \in [Rec -> 0..K]
    <2>1. Remembered(p) \in 0..K /\ 0 \in 0..K
      <3>1. since[r] \in 0..K
        BY <1>1, <1>2 DEF TypeOK
      <3> HIDE DEF p, r
      <3>2. Remembered(p) \in {0, AtMost(since[r] + 1, K)}
        BY DEF Remembered, r
      <3>q. QED BY <3>1, <3>2, Thresholds, AtMostType
    <2>2. since' = [since EXCEPT ![r] = IF tasks' = tasks THEN Remembered(p) ELSE 0]
      BY <1>1 DEF Fold
    <2>q. QED BY <1>1, <2>1, <2>2 DEF TypeOK
  <1>5. TypeOK' /\ BusyGuards' /\ LatchedIsQueued' /\ QueuedOnce' /\ RepairTasks'
        <=> /\ tracker' \in [Rec -> Health] /\ queue' \in Seq(Rec) /\ busy' \in BOOLEAN
            /\ tasks' \subseteq Task
            /\ BusyGuards' /\ LatchedIsQueued' /\ QueuedOnce' /\ RepairTasks'
    BY <1>1, <1>2, <1>3, <1>4 DEF TypeOK
  <1>6. CASE FoldDispatches(r, h)
    <2>1. ~busy /\ Dispatch(r, h) /\ queue' = Unqueue(r)
      BY <1>6 DEF FoldDispatches, Free
    <2>2. /\ tracker' \in [Rec -> Health] /\ busy' \in BOOLEAN /\ tasks' \subseteq Task
          /\ BusyGuards' /\ RepairTasks'
          /\ ~tracker'[r].latched
          /\ \A s \in Rec \ {r} : tracker'[s] = tracker[s]
      BY <1>1, <1>2, <2>1, DispatchFacts
    <2>3. /\ queue' \in Seq(Rec)
          /\ \A i, j \in DOMAIN queue' : queue'[i] = queue'[j] => i = j
          /\ \A s \in Rec \ {r} : Queued(s) => \E i \in DOMAIN queue' : queue'[i] = s
      <3> DEFINE q == Unqueue(r)
      <3>1. /\ q \in Seq(Rec)
            /\ \A i, j \in DOMAIN q : q[i] = q[j] => i = j
            /\ \A s \in Rec \ {r} : Queued(s) => \E i \in DOMAIN q : q[i] = s
        BY <1>1, <1>2, UnqueueFacts
      <3>q. QED BY <2>1, <3>1
    <2>4. LatchedIsQueued' /\ QueuedOnce'
      BY <1>1, <2>2, <2>3 DEF LatchedIsQueued, QueuedOnce, Queued
    <2>q. QED BY <1>5, <2>2, <2>3, <2>4
  <1>7. CASE FoldQueues(r, h)
    <2>1. queue' = Enqueue(r)
      BY <1>7 DEF FoldQueues
    <2>2. /\ queue' \in Seq(Rec)
          /\ \A i, j \in DOMAIN queue' : queue'[i] = queue'[j] => i = j
          /\ \E i \in DOMAIN queue' : queue'[i] = r
          /\ \A s \in Rec : Queued(s) => \E i \in DOMAIN queue' : queue'[i] = s
      <3> DEFINE q == Enqueue(r)
      <3>1. /\ q \in Seq(Rec)
            /\ \A i, j \in DOMAIN q : q[i] = q[j] => i = j
            /\ \E i \in DOMAIN q : q[i] = r
            /\ \A s \in Rec : Queued(s) => \E i \in DOMAIN q : q[i] = s
        BY <1>1, <1>2, EnqueueFacts
      <3>q. QED BY <2>1, <3>1
    <2>3. /\ tracker' \in [Rec -> Health]
          /\ \A s \in Rec \ {r} : tracker'[s] = tracker[s]
      BY <1>1, <1>2, <1>7 DEF FoldQueues, TypeOK
    <2>4. LatchedIsQueued' /\ QueuedOnce'
      BY <1>1, <2>2, <2>3 DEF LatchedIsQueued, QueuedOnce, Queued
    <2>5. busy' \in BOOLEAN /\ tasks' \subseteq Task /\ BusyGuards' /\ RepairTasks'
      BY <1>1, <1>7 DEF FoldQueues, TypeOK, BusyGuards, RepairTasks
    <2>q. QED BY <1>5, <2>2, <2>3, <2>4, <2>5
  <1>8. CASE FoldDrops(r)
    <2>1. /\ tracker' \in [Rec -> Health] /\ ~tracker'[r].latched
          /\ \A s \in Rec \ {r} : tracker'[s] = tracker[s]
      BY <1>1, <1>2, <1>8, TrackerTypes DEF FoldDrops, TypeOK
    <2>2. LatchedIsQueued' /\ QueuedOnce' /\ queue' \in Seq(Rec)
      BY <1>1, <1>8, <2>1 DEF FoldDrops, TypeOK, LatchedIsQueued, QueuedOnce, Queued
    <2>3. busy' \in BOOLEAN /\ tasks' \subseteq Task /\ BusyGuards' /\ RepairTasks'
      BY <1>1, <1>8 DEF FoldDrops, TypeOK, BusyGuards, RepairTasks
    <2>q. QED BY <1>5, <2>1, <2>2, <2>3
  <1>9. CASE FoldCounts(r, h, p)
    <2>1. /\ tracker' \in [Rec -> Health] /\ tracker'[r] = h
          /\ \A s \in Rec \ {r} : tracker'[s] = tracker[s]
      BY <1>1, <1>2, <1>9 DEF FoldCounts, TypeOK
    <2>2. h.latched => tracker[r].latched
      <3>1. CASE p.answered
        <4>1. h = Fresh
          BY <1>2, <3>1, ObserveFacts
        <4>q. QED BY <4>1, TrackerTypes
      <3>2. CASE ~p.answered
        <4>1. ~Due(tracker[r], weather)
          BY <1>9, <3>2 DEF FoldCounts, RefreshOrCadenceDue, Due
        <4>2. h.latched <=> tracker[r].latched \/ Due(tracker[r], weather)
          BY <1>2, <3>2, ObserveFacts
        <4>q. QED BY <4>1, <4>2
      <3>q. QED BY <3>1, <3>2
    <2>3. LatchedIsQueued' /\ QueuedOnce' /\ queue' \in Seq(Rec)
      BY <1>1, <1>2, <1>9, <2>1, <2>2
         DEF FoldCounts, TypeOK, LatchedIsQueued, QueuedOnce, Queued
    <2>4. busy' \in BOOLEAN /\ tasks' \subseteq Task /\ BusyGuards' /\ RepairTasks'
      BY <1>1, <1>9 DEF FoldCounts, TypeOK, BusyGuards, RepairTasks
    <2>q. QED BY <1>5, <2>1, <2>3, <2>4
  <1>q. QED BY <1>1, <1>6, <1>7, <1>8, <1>9, FoldWays

-----------------------------------------------------------------------------
(* The other actions. *)

(* A tick, which drains the queue or sweeps the next record, keeps         *)
(* RepairInv.                                                              *)
LEMMA TickRepair == RepairInv /\ Tick => RepairInv'
  <1>1. SUFFICES ASSUME RepairInv, Tick PROVE RepairInv'
    OBVIOUS
  <1> USE DEF RepairInv
  <1>2. CASE DrainRepair
    <2> DEFINE r == Head(queue)
    <2>1. /\ ~busy /\ queue # <<>> /\ queue' = Tail(queue) /\ armed' = armed \ {r}
          /\ UNCHANGED <<owners, cursor, passes, link, weather>>
      BY <1>2 DEF DrainRepair, Free
    <2>2. /\ r \in Rec /\ queue' \in Seq(Rec) /\ QueuedOnce'
          /\ \A s \in Rec \ {r} : Queued(s) => Queued(s)'
      BY <1>1, <2>1, DequeueFacts DEF QueuedOnce, Queued
    <2>3. tracker[r] \in Health /\ 0 \in 0..K
      BY <1>1, <2>2, Thresholds DEF TypeOK
    <2>4. CASE DrainShouldDispatch(r)
      <3>1. Dispatch(r, tracker[r]) /\ since' = [since EXCEPT ![r] = 0]
        BY <1>2, <2>4 DEF DrainRepair
      <3>2. /\ tracker' \in [Rec -> Health] /\ busy' \in BOOLEAN /\ tasks' \subseteq Task
            /\ BusyGuards' /\ RepairTasks'
            /\ ~tracker'[r].latched
            /\ \A s \in Rec \ {r} : tracker'[s] = tracker[s]
        BY <1>1, <2>1, <2>2, <2>3, <3>1, DispatchFacts
      <3>3. LatchedIsQueued'
        BY <1>1, <2>2, <3>2 DEF LatchedIsQueued
      <3>4. TypeOK'
        BY <1>1, <2>1, <2>2, <2>3, <3>1, <3>2 DEF TypeOK
      <3>q. QED BY <2>2, <3>2, <3>3, <3>4
    <2>5. CASE ~DrainShouldDispatch(r)
      <3>1. UNCHANGED <<tracker, busy, tasks, since>> /\ ~tracker[r].latched
        BY <1>2, <2>5 DEF DrainRepair, DrainShouldDispatch
      <3>2. TypeOK' /\ BusyGuards' /\ RepairTasks'
        BY <1>1, <2>1, <2>2, <3>1 DEF TypeOK, BusyGuards, RepairTasks
      <3>3. LatchedIsQueued'
        BY <1>1, <2>2, <3>1 DEF LatchedIsQueued
      <3>q. QED BY <2>2, <3>2, <3>3
    <2>q. QED BY <2>4, <2>5
  <1>3. CASE ResweepNext
    <2> DEFINE r == NextResweepRecord
               t == [kind |-> "sweep", left |-> {r}]
    <2>1. r \in Rec /\ r \in 0..Records
      BY <1>1, RepairAssumption DEF NextResweepRecord, Rec, TypeOK
    <2>2. tasks' = {t} /\ busy' = TRUE /\ t \in Task
      BY <1>1, <1>3, <2>1 DEF ResweepNext, Free, BusyGuards, Task
    <2>3. cursor' = r /\ owners \subseteq owners' /\ owners' \subseteq Rec
      BY <1>1, <1>3, <2>1 DEF ResweepNext, TypeOK
    <2>4. UNCHANGED <<tracker, queue, armed, passes, link, weather, since>>
      BY <1>3 DEF ResweepNext
    <2>5. TypeOK'
      BY <1>1, <2>1, <2>2, <2>3, <2>4 DEF TypeOK
    <2>6. BusyGuards' /\ RepairTasks'
      <3>1. t.kind # "repair"
        OBVIOUS
      <3> HIDE DEF t
      <3>q. QED BY <2>2, <3>1 DEF BusyGuards, RepairTasks
    <2>7. LatchedIsQueued' /\ QueuedOnce'
      BY <1>1, <2>4 DEF LatchedIsQueued, QueuedOnce, Queued
    <2>q. QED BY <2>5, <2>6, <2>7
  <1>q. QED BY <1>1, <1>2, <1>3 DEF Tick

(* The user's refresh starts a wave only where nothing is in flight.       *)
LEMMA RefreshRepair == RepairInv /\ RefreshShares => RepairInv'
  <1>1. SUFFICES ASSUME RepairInv, RefreshShares PROVE RepairInv'
    OBVIOUS
  <1> USE DEF RepairInv
  <1>2. /\ armed' \subseteq owners' /\ owners' \subseteq Rec
        /\ UNCHANGED <<tracker, queue, cursor, passes, link, weather, since>>
    BY <1>1 DEF RefreshShares, TypeOK
  <1>3. LatchedIsQueued' /\ QueuedOnce'
    BY <1>1, <1>2 DEF LatchedIsQueued, QueuedOnce, Queued
  <1>4. CASE busy /\ UNCHANGED <<busy, tasks>>
    BY <1>1, <1>2, <1>3, <1>4 DEF TypeOK, BusyGuards, RepairTasks
  <1>5. CASE ~busy /\ busy' = TRUE /\ tasks' = tasks \cup {[kind |-> "wave", left |-> Rec]}
    <2>1. tasks' = {[kind |-> "wave", left |-> Rec]}
      BY <1>1, <1>5 DEF BusyGuards
    <2>2. [kind |-> "wave", left |-> Rec] \in Task
      BY DEF Task
    <2>3. BusyGuards' /\ RepairTasks' /\ tasks' \subseteq Task /\ busy' \in BOOLEAN
      BY <1>5, <2>1, <2>2 DEF BusyGuards, RepairTasks
    <2>q. QED BY <1>1, <1>2, <1>3, <2>3 DEF TypeOK
  <1>q. QED BY <1>1, <1>4, <1>5 DEF RefreshShares

(* A read of a task takes no task away and starts none.                    *)
LEMMA TaskReadsRepair == RepairInv /\ TaskReads => RepairInv'
  <1>1. SUFFICES ASSUME RepairInv, TaskReads PROVE RepairInv'
    OBVIOUS
  <1> USE DEF RepairInv
  <1>0. PICK t \in tasks : \E r \in t.left :
          /\ tasks' = (tasks \ {t}) \cup {[t EXCEPT !.left = @ \ {r}]}
          /\ \/ t.kind # "repair" /\ Sends(r)
             \/ Silent(t) /\ passes' = passes
          /\ UNCHANGED <<tracker, queue, armed, owners, cursor, busy, link, weather, since>>
    BY <1>1 DEF TaskReads
  <1>2. PICK r \in t.left :
          /\ tasks' = (tasks \ {t}) \cup {[t EXCEPT !.left = @ \ {r}]}
          /\ \/ t.kind # "repair" /\ Sends(r)
             \/ Silent(t) /\ passes' = passes
          /\ UNCHANGED <<tracker, queue, armed, owners, cursor, busy, link, weather, since>>
    BY <1>0
  <1> DEFINE u == [t EXCEPT !.left = @ \ {r}]
  <1>3. t \in Task /\ r \in Rec /\ tasks = {t} /\ tasks' = {u} /\ busy
    BY <1>1, <1>2 DEF TypeOK, BusyGuards, Task
  <1>4. u \in Task /\ u.kind = t.kind /\ u.left \subseteq t.left
    BY <1>3 DEF Task
  <1>5. BusyGuards' /\ RepairTasks'
    BY <1>1, <1>2, <1>3, <1>4 DEF BusyGuards, RepairTasks
  <1>6. passes' \in Seq(Pass) /\ Len(passes') <= MaxPasses
    BY <1>1, <1>2, <1>3, SendsFacts DEF TypeOK
  <1>7. TypeOK'
    BY <1>1, <1>2, <1>3, <1>4, <1>6 DEF TypeOK
  <1>8. LatchedIsQueued' /\ QueuedOnce'
    BY <1>1, <1>2 DEF LatchedIsQueued, QueuedOnce, Queued
  <1>q. QED BY <1>5, <1>7, <1>8

(* The task that ends is the one the guard is held for.                    *)
LEMMA TaskEndsRepair == RepairInv /\ TaskEnds => RepairInv'
  <1>1. SUFFICES ASSUME RepairInv, TaskEnds PROVE RepairInv'
    OBVIOUS
  <1> USE DEF RepairInv
  <1>2. PICK t \in tasks :
          /\ tasks' = tasks \ {t} /\ busy' = FALSE
          /\ UNCHANGED <<tracker, queue, armed, owners, cursor, passes, link, weather, since>>
    BY <1>1 DEF TaskEnds
  <1>3. tasks' = {}
    BY <1>1, <1>2 DEF BusyGuards
  <1>4. TypeOK' /\ BusyGuards' /\ RepairTasks'
    BY <1>1, <1>2, <1>3 DEF TypeOK, BusyGuards, RepairTasks
  <1>5. LatchedIsQueued' /\ QueuedOnce'
    BY <1>1, <1>2 DEF LatchedIsQueued, QueuedOnce, Queued
  <1>q. QED BY <1>4, <1>5

(* The sweeps of a connect or of a joined room only send passes.           *)
LEMMA BacklogRepair == RepairInv /\ BacklogSweep => RepairInv'
  <1>1. SUFFICES ASSUME RepairInv, BacklogSweep PROVE RepairInv'
    OBVIOUS
  <1> USE DEF RepairInv
  <1>2. passes' \in Seq(Pass) /\ Len(passes') <= MaxPasses
    BY <1>1, SendsFacts DEF BacklogSweep
  <1>3. UNCHANGED <<tracker, queue, armed, owners, cursor, busy, tasks, link, weather, since>>
    BY <1>1 DEF BacklogSweep
  <1>4. TypeOK' /\ BusyGuards' /\ RepairTasks'
    BY <1>1, <1>2, <1>3 DEF TypeOK, BusyGuards, RepairTasks
  <1>5. LatchedIsQueued' /\ QueuedOnce'
    BY <1>1, <1>3 DEF LatchedIsQueued, QueuedOnce, Queued
  <1>q. QED BY <1>4, <1>5

(* A shutdown leaves the task to end with nothing more to read, its guard  *)
(* held.                                                                   *)
LEMMA ShutdownRepair == RepairInv /\ Shutdown => RepairInv'
  <1>1. SUFFICES ASSUME RepairInv, Shutdown PROVE RepairInv'
    OBVIOUS
  <1> USE DEF RepairInv
  <1>2. /\ link' = "down" /\ passes' = <<>>
        /\ tasks' = {[t EXCEPT !.left = {}] : t \in tasks}
        /\ UNCHANGED <<tracker, queue, armed, owners, cursor, busy, weather, since>>
    BY <1>1 DEF Shutdown
  <1>3. \A t \in tasks : [t EXCEPT !.left = {}] \in Task /\ [t EXCEPT !.left = {}].left = {}
    BY <1>1 DEF TypeOK, Task
  <1>4. tasks' \subseteq Task /\ RepairTasks'
    <2>1. \A u \in tasks' : u \in Task /\ u.left = {}
      BY <1>2, <1>3
    <2>2. \E r \in Rec : TRUE
      BY RepairAssumption DEF Rec
    <2>q. QED BY <2>1, <2>2 DEF RepairTasks
  <1>5. BusyGuards'
    <2>1. CASE tasks = {}
      BY <1>2, <2>1 DEF BusyGuards
    <2>2. ASSUME NEW t \in Task, tasks = {t} PROVE BusyGuards'
      <3>1. tasks' = {[t EXCEPT !.left = {}]} /\ busy
        BY <1>1, <1>2, <2>2 DEF BusyGuards
      <3>q. QED BY <1>2, <1>3, <2>2, <3>1 DEF BusyGuards
    <2>q. QED BY <1>1, <2>1, <2>2 DEF BusyGuards
  <1>6. passes' \in Seq(Pass) /\ Len(passes') <= MaxPasses
    BY <1>2, RepairAssumption
  <1>7. TypeOK'
    BY <1>1, <1>2, <1>4, <1>6 DEF TypeOK
  <1>8. LatchedIsQueued' /\ QueuedOnce'
    BY <1>1, <1>2 DEF LatchedIsQueued, QueuedOnce, Queued
  <1>q. QED BY <1>4, <1>5, <1>7, <1>8

(* Connecting, the hand-off and the weather touch neither tracker, queue   *)
(* nor guard.                                                              *)
LEMMA LinkRepair == RepairInv /\ (Connect \/ HandOff \/ WeatherTurns) => RepairInv'
  <1>1. SUFFICES ASSUME RepairInv, Connect \/ HandOff \/ WeatherTurns PROVE RepairInv'
    OBVIOUS
  <1> USE DEF RepairInv
  <1>2. /\ UNCHANGED <<tracker, queue, armed, owners, busy, tasks, passes, since>>
        /\ cursor' \in 0..Records /\ link' \in {"down", "warming", "ready"}
        /\ weather' \in Weathers
    BY <1>1, RepairAssumption DEF Connect, HandOff, WeatherTurns, TypeOK
  <1>3. TypeOK' /\ BusyGuards' /\ RepairTasks'
    BY <1>1, <1>2 DEF TypeOK, BusyGuards, RepairTasks
  <1>4. LatchedIsQueued' /\ QueuedOnce'
    BY <1>1, <1>2 DEF LatchedIsQueued, QueuedOnce, Queued
  <1>q. QED BY <1>3, <1>4

(* Every step of the specification keeps RepairInv.                        *)
LEMMA StepRepair == RepairInv /\ [Next]_vars => RepairInv'
  <1>1. SUFFICES ASSUME RepairInv, [Next]_vars PROVE RepairInv'
    OBVIOUS
  <1>2. CASE UNCHANGED vars
    BY <1>1, <1>2 DEF RepairInv, TypeOK, BusyGuards, RepairTasks, LatchedIsQueued,
                      QueuedOnce, Queued, vars
  <1>q. QED BY <1>1, <1>2, FoldRepairInv, TickRepair, RefreshRepair, TaskReadsRepair,
               TaskEndsRepair, BacklogRepair, ShutdownRepair, LinkRepair DEF Next

(* The inductive invariant of the self-heal loop and its tasks. *)
THEOREM RepairInvariant == Spec => []RepairInv
  BY InitRepair, StepRepair, PTL DEF Spec

(* resweep_busy keeps one sweep, wave or repair in flight at a time. *)
THEOREM OneInFlight == Spec => []OneAtATime
  <1>1. RepairInv => OneAtATime
    <2>1. SUFFICES ASSUME RepairInv PROVE Cardinality(tasks) <= 1
      BY DEF OneAtATime
    <2>2. CASE tasks = {}
      BY <2>2, FS_EmptySet
    <2>3. ASSUME NEW t \in Task, tasks = {t} PROVE Cardinality(tasks) <= 1
      BY <2>3, FS_Singleton
    <2>q. QED BY <2>1, <2>2, <2>3 DEF RepairInv, BusyGuards
  <1>q. QED BY <1>1, RepairInvariant, PTL

(* A record the tracker has latched is in pending_repairs. *)
THEOREM LatchesQueued == Spec => []LatchedIsQueued
  <1>1. RepairInv => LatchedIsQueued
    BY DEF RepairInv
  <1>q. QED BY <1>1, RepairInvariant, PTL

-----------------------------------------------------------------------------
(* No repair nobody asked for on fewer than K failed passes. *)

(* No streak is owed in the first state.                                   *)
LEMMA InitEarned == Init => StreakEarned
  <1>1. SUFFICES ASSUME Init PROVE StreakEarned
    OBVIOUS
  <1>2. \A r \in Rec : tracker[r].fails = 0 /\ ~tracker[r].latched /\ since[r] = 0
    BY <1>1, TrackerTypes DEF Init
  <1>q. QED BY <1>1, <1>2 DEF Init, StreakEarned

(* A failed pass counts for the history as it does for the tracker. *)
LEMMA FailedPassEarned ==
  ASSUME TypeOK, StreakEarned, Fold, ~Head(passes).answered
  PROVE  LET p == Head(passes)
             h == Observe(tracker[p.rec], p.answered, weather)
         IN  /\ Remembered(p) \in 0..K
             /\ h.fails <= Remembered(p) \/ Remembered(p) = K
             /\ Due(tracker[p.rec], weather) \/ tracker[p.rec].latched => Remembered(p) = K
             /\ h.latched => Remembered(p) = K
  <1> DEFINE p == Head(passes)
             e == tracker[p.rec]
             h == Observe(e, p.answered, weather)
  <1>1. /\ p.rec \in Rec /\ e \in Health /\ p.answered \in BOOLEAN
        /\ weather \in {"calm", "elevated"}
    BY PassFacts
  <1>2. /\ e.fails \in Nat /\ since[p.rec] \in 0..K /\ K \in Nat /\ K >= 1 /\ K * Cap \in Nat
    BY <1>1, TrackerTypes, Thresholds DEF TypeOK
  <1>3. /\ e.fails <= since[p.rec] \/ since[p.rec] = K
        /\ e.latched => since[p.rec] = K
    BY <1>1 DEF StreakEarned
  <1>4. Remembered(p) = AtMost(since[p.rec] + 1, K)
    BY DEF Remembered
  <1>5. /\ h.fails = AtMost(e.fails + 1, K * Cap)
        /\ h.latched <=> e.latched \/ Due(e, weather)
    BY <1>1, ObserveFacts
  <1>6. Due(e, weather) => e.fails + 1 >= K
    BY <1>1, DueFacts
  <1> HIDE DEF p, e, h
  <1>7. h.fails <= e.fails + 1
    <2>1. e.fails + 1 \in Nat
      BY <1>2
    <2>2. AtMost(e.fails + 1, K * Cap) <= e.fails + 1
      BY <1>2, <2>1, AtMostType
    <2>q. QED BY <1>5, <2>2
  <1>8. Remembered(p) \in 0..K /\ (since[p.rec] + 1 >= K => Remembered(p) = K)
        /\ (since[p.rec] + 1 < K => Remembered(p) = since[p.rec] + 1)
    BY <1>2, <1>4 DEF AtMost
  <1>9. h.fails \in Int
    BY <1>2, <1>5 DEF AtMost
  <1>10. h.fails <= Remembered(p) \/ Remembered(p) = K
    BY <1>2, <1>3, <1>7, <1>8, <1>9
  <1>11. Due(e, weather) \/ e.latched => Remembered(p) = K
    BY <1>2, <1>3, <1>6, <1>8
  <1>q. QED BY <1>5, <1>8, <1>10, <1>11 DEF p, e, h

(* A fold counts a failed pass once in the entry and once in the history.  *)
LEMMA FoldEarned == RepairInv /\ StreakEarned /\ Fold => StreakEarned'
  <1>1. SUFFICES ASSUME RepairInv, StreakEarned, Fold PROVE StreakEarned'
    OBVIOUS
  <1> DEFINE p == Head(passes)
             r == p.rec
             h == Observe(tracker[r], p.answered, weather)
  <1>2. /\ r \in Rec /\ h \in Health /\ tracker[r] \in Health /\ TypeOK
        /\ p.answered \in BOOLEAN /\ weather \in {"calm", "elevated"}
    BY <1>1, PassFacts DEF RepairInv
  <1>3. since' = [since EXCEPT ![r] = IF tasks' = tasks THEN Remembered(p) ELSE 0]
    BY <1>1 DEF Fold
  <1>5. \A s \in Rec \ {r} : tracker'[s] = tracker[s] /\ since'[s] = since[s]
    BY <1>1, <1>2, <1>3, FoldWays
       DEF TypeOK, FoldDispatches, FoldQueues, FoldDrops, FoldCounts, Dispatch
  <1>6. \/ tracker'[r].fails = 0 /\ ~tracker'[r].latched
        \/ tracker'[r] = h /\ tasks' = tasks
    <2>1. CASE FoldDispatches(r, h)
      <3>1. tracker' = [tracker EXCEPT ![r] = NoteRepairDispatched(h)]
        BY <2>1 DEF FoldDispatches, Dispatch
      <3>2. tracker'[r] = NoteRepairDispatched(h)
        BY <1>2, <3>1 DEF TypeOK
      <3>q. QED BY <1>2, <3>2, TrackerTypes
    <2>2. CASE FoldQueues(r, h)
      BY <1>2, <2>2 DEF FoldQueues, TypeOK
    <2>3. CASE FoldDrops(r)
      BY <1>2, <2>3, TrackerTypes DEF FoldDrops, TypeOK
    <2>4. CASE FoldCounts(r, h, p)
      BY <1>2, <2>4 DEF FoldCounts, TypeOK
    <2>q. QED BY <1>1, <2>1, <2>2, <2>3, <2>4, FoldWays
  <1>7. since'[r] \in 0..K
    BY <1>1, <1>2, StepRepair DEF RepairInv, TypeOK, Next
  <1>8. /\ tracker'[r].fails <= since'[r] \/ since'[r] = K
        /\ tracker'[r].latched => since'[r] = K
    <2>1. CASE tracker'[r].fails = 0 /\ ~tracker'[r].latched
      BY <1>7, <2>1
    <2>2. CASE tracker'[r] = h /\ tasks' = tasks
      <3>1. since'[r] = Remembered(p)
        BY <1>2, <1>3, <2>2 DEF TypeOK
      <3>2. CASE p.answered
        <4>1. h = Fresh
          BY <1>2, <3>2, ObserveFacts
        <4>q. QED BY <1>7, <2>2, <4>1, TrackerTypes
      <3>3. CASE ~p.answered
        <4>1. /\ h.fails <= Remembered(p) \/ Remembered(p) = K
              /\ h.latched => Remembered(p) = K
          BY <1>1, <1>2, <3>3, FailedPassEarned
        <4>q. QED BY <2>2, <3>1, <4>1
      <3>q. QED BY <3>2, <3>3
    <2>q. QED BY <1>6, <2>1, <2>2
  <1>q. QED BY <1>1, <1>5, <1>8 DEF StreakEarned

(* Every step keeps StreakEarned.                                          *)
LEMMA StepEarned == RepairInv /\ StreakEarned /\ [Next]_vars => StreakEarned'
  <1>1. SUFFICES ASSUME RepairInv, StreakEarned, [Next]_vars PROVE StreakEarned'
    OBVIOUS
  <1>3. CASE DrainRepair
    <2> DEFINE r == Head(queue)
    <2>1. r \in Rec /\ TypeOK /\ tracker[r] \in Health
      BY <1>1, <1>3, DequeueFacts DEF RepairInv, TypeOK, DrainRepair
    <2>2. CASE ~DrainShouldDispatch(r)
      BY <1>1, <1>3, <2>1, <2>2 DEF DrainRepair, StreakEarned
    <2>3. CASE DrainShouldDispatch(r)
      <3>1. Dispatch(r, tracker[r]) /\ since' = [since EXCEPT ![r] = 0]
        BY <1>3, <2>3 DEF DrainRepair
      <3>2. /\ tracker'[r].fails = 0 /\ ~tracker'[r].latched /\ since'[r] = 0
            /\ \A s \in Rec \ {r} : tracker'[s] = tracker[s] /\ since'[s] = since[s]
        BY <2>1, <3>1, TrackerTypes DEF Dispatch, TypeOK
      <3>q. QED BY <1>1, <2>1, <3>2 DEF StreakEarned
    <2>q. QED BY <2>2, <2>3
  <1>4. CASE \/ ResweepNext \/ RefreshShares \/ TaskReads \/ TaskEnds \/ BacklogSweep
             \/ Connect \/ HandOff \/ Shutdown \/ WeatherTurns \/ UNCHANGED vars
    <2>1. UNCHANGED <<tracker, since>>
      BY <1>4 DEF ResweepNext, RefreshShares, TaskReads, TaskEnds, BacklogSweep, Connect,
                  HandOff, Shutdown, WeatherTurns, vars
    <2>q. QED BY <1>1, <2>1 DEF StreakEarned
  <1>q. QED BY <1>1, <1>3, <1>4, FoldEarned DEF Next, Tick

(* A new repair in flight is a dispatch of the fold or of the drain. *)
LEMMA RepairOrigin ==
  ASSUME RepairInv, [Next]_vars, NEW r \in Rec, Repairs(r)
  PROVE  \/ /\ Fold /\ Head(passes).rec = r
            /\ RefreshOrCadenceDue(r, Head(passes))
         \/ /\ DrainRepair /\ Head(queue) = r /\ DrainShouldDispatch(r)
            /\ passes' = passes
  <1> DEFINE u == [kind |-> "repair", left |-> {r}]
  <1>1. u \in tasks' /\ u \notin tasks /\ u.kind = "repair" /\ u.left = {r}
    BY DEF Repairs
  <1> HIDE DEF u
  <1>2. CASE Fold
    <2> DEFINE p == Head(passes)
               s == p.rec
               h == Observe(tracker[s], p.answered, weather)
    <2>1. tasks' # tasks
      BY <1>1
    <2>2. RefreshOrCadenceDue(s, p) /\ FoldDispatches(s, h)
      BY <1>2, <2>1, FoldWays DEF FoldQueues, FoldDrops, FoldCounts
    <2>3. u = [kind |-> "repair", left |-> {s}]
      BY <1>1, <2>2 DEF FoldDispatches, Dispatch
    <2>4. s = r
      BY <1>1, <2>3
    <2>q. QED BY <1>2, <2>2, <2>4
  <1>3. CASE DrainRepair
    <2>1. DrainShouldDispatch(Head(queue)) /\ Dispatch(Head(queue), tracker[Head(queue)])
      BY <1>1, <1>3 DEF DrainRepair
    <2>2. u = [kind |-> "repair", left |-> {Head(queue)}]
      BY <1>1, <2>1 DEF Dispatch
    <2>3. Head(queue) = r
      BY <1>1, <2>2
    <2>q. QED BY <1>3, <2>1, <2>3 DEF DrainRepair
  <1>4. CASE ResweepNext
    <2>1. u = [kind |-> "sweep", left |-> {NextResweepRecord}]
      BY <1>1, <1>4 DEF ResweepNext
    <2>q. QED BY <1>1, <2>1
  <1>5. CASE RefreshShares
    <2>1. u = [kind |-> "wave", left |-> Rec]
      BY <1>1, <1>5 DEF RefreshShares
    <2>q. QED BY <1>1, <2>1
  <1>6. CASE TaskReads
    <2>1. PICK t \in tasks : \E s \in t.left : u = [t EXCEPT !.left = @ \ {s}]
      BY <1>1, <1>6 DEF TaskReads
    <2>2. PICK s \in t.left : u = [t EXCEPT !.left = @ \ {s}]
      BY <2>1
    <2>3. t \in Task /\ t.kind = u.kind /\ u.left = t.left \ {s}
      BY <2>1, <2>2 DEF RepairInv, TypeOK, Task
    <2>4. PICK q \in Rec : t.left \subseteq {q}
      BY <1>1, <2>1, <2>3 DEF RepairInv, RepairTasks
    <2>q. QED BY <1>1, <2>2, <2>3, <2>4
  <1>7. CASE Shutdown
    <2>1. PICK t \in tasks : u = [t EXCEPT !.left = {}]
      BY <1>1, <1>7 DEF Shutdown
    <2>2. u.left = {}
      BY <2>1 DEF RepairInv, TypeOK, Task
    <2>q. QED BY <1>1, <2>2
  <1>8. CASE TaskEnds \/ BacklogSweep \/ Connect \/ HandOff \/ WeatherTurns \/ UNCHANGED vars
    BY <1>1, <1>8 DEF TaskEnds, BacklogSweep, Connect, HandOff, WeatherTurns, vars
  <1>q. QED BY <1>2, <1>3, <1>4, <1>5, <1>6, <1>7, <1>8 DEF Next, Tick

(* RepairIsEarned, on REPAIR_K_THRESHOLD: a repair of a record no refresh  *)
(* armed follows at least K failed passes with no answer in between.       *)
THEOREM RepairsEarned == Spec => RepairIsEarned
  <1> DEFINE Earned == \A r \in Rec : Repairs(r) => Evidence(r) >= K \/ r \in armed
  <1>1. RepairInv /\ StreakEarned /\ [Next]_vars => [Earned]_vars
    <2>1. SUFFICES ASSUME RepairInv, StreakEarned, [Next]_vars, NEW r \in Rec, Repairs(r), r \notin armed
                   PROVE  Evidence(r) >= K
      OBVIOUS
    <2>2. TypeOK /\ K \in Nat
      BY <2>1, Thresholds DEF RepairInv
    <2>3. CASE /\ Fold /\ Head(passes).rec = r
               /\ RefreshOrCadenceDue(r, Head(passes))
      <3>1. passes' # passes /\ Evidence(r) = Remembered(Head(passes))
        BY <2>2, <2>3, PassFacts DEF Evidence
      <3>2. ~Head(passes).answered /\ Due(tracker[r], weather)
        BY <2>1, <2>3 DEF RefreshOrCadenceDue
      <3>3. Remembered(Head(passes)) = K
        BY <2>1, <2>2, <2>3, <3>2, FailedPassEarned
      <3>q. QED BY <2>2, <3>1, <3>3
    <2>4. CASE /\ DrainRepair /\ Head(queue) = r /\ DrainShouldDispatch(r)
               /\ passes' = passes
      <3>1. tracker[r].latched /\ Evidence(r) = since[r]
        BY <2>1, <2>4 DEF DrainShouldDispatch, Evidence
      <3>q. QED BY <2>1, <2>2, <3>1 DEF StreakEarned
    <2>q. QED BY <2>1, <2>3, <2>4, RepairOrigin
  <1>2. Spec => []StreakEarned
    BY InitEarned, StepEarned, RepairInvariant, PTL DEF Spec
  <1>q. QED BY <1>1, <1>2, RepairInvariant, PTL DEF Spec, RepairIsEarned
=============================================================================
