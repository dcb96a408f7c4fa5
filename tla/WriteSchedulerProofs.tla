------------------------ MODULE WriteSchedulerProofs ------------------------
(***************************************************************************)
(* The safety properties of WriteScheduler, for any records, ids, shapes   *)
(* of write, pool sizes and queue length.                                  *)
(*                                                                         *)
(* Queues     what the operations on a queue keep of its writes;           *)
(* Types      SchedulerTypes, the types of the variables;                  *)
(* Lanes      LaneInv, the lane counters;                                  *)
(* Rest       a driver that finds nothing to dispatch rests with reason;   *)
(* Order      QueueInv, what a withdrawal leaves in the queues.            *)
(***************************************************************************)
EXTENDS WriteScheduler, FiniteSetTheorems, TLAPS

(* A write that is not a ring slot names a logical id.                     *)
Named(w) == w.kind # "ring" => w.id \in Id
DriverState == {"dispatch", "arm", "select", "drain", "flush", "closed"}

SchedulerTypes ==
  /\ pending \in Seq(Write) /\ \A i \in DOMAIN pending : Named(pending[i])
  /\ flying \in [Record -> Flight \cup {None}]
  /\ \A r \in Record : ~ Idle(r) => Named(flying[r])
  /\ windowCount \in Int /\ floorCount \in Int
  /\ driver \in DriverState /\ clock \in Nat
  /\ gone \in [Record -> SUBSET Id]

(* A write that vouches for a chat-class one has its class.                *)
VouchersAreChat == \A i \in DOMAIN pending : pending[i].vouches => pending[i].class = Chat

(* No refresh stands in a queue beside a withdrawal of its id that is      *)
(* queued with it or in flight.                                            *)
Refresh(w, rec, id) == SameId(w, rec, id) /\ w.kind = "current"
WithdrawalsDominate ==
  \A rec \in Record, id \in Id : Dominated(rec, id) =>
    \A i \in DOMAIN pending : ~ Refresh(pending[i], rec, id)

(* Where a withdrawal has landed, every refresh of its id that is still to *)
(* land was submitted after it had.                                        *)
RefreshesInformed ==
  \A rec \in Record : \A id \in gone[rec] :
    /\ \A i \in DOMAIN pending : Refresh(pending[i], rec, id) => pending[i].informed
    /\ flying[rec] # None /\ flying[rec].kind = "current" /\ flying[rec].id = id
         /\ flying[rec].stage # "done" => flying[rec].informed

QueueInv == VouchersAreChat /\ WithdrawalsDominate /\ RefreshesInformed

(* The lane counters, and their bounds while the driver serves its queues. *)
LaneInv ==
  /\ windowCount = Cardinality(InLane("window", Stage))
  /\ floorCount = Cardinality(InLane("floor", Stage))
  /\ Running => windowCount <= NonchatCap /\ floorCount <= 1

-----------------------------------------------------------------------------
(* Queues.                                                                 *)

(* A nonempty set of natural numbers has a least element: of the intervals *)
(* from 0 to its elements one holds no other, for strict inclusion among   *)
(* finite sets is well founded.                                            *)
LEMMA LeastNat ==
  ASSUME NEW A \in SUBSET Nat, A # {}
  PROVE  \E n \in A : \A m \in A : n <= m
  <1> DEFINE T == {0 .. n : n \in A}
  <1>1. T \subseteq FiniteSubsetsOf(Nat)
    <2> SUFFICES ASSUME NEW n \in A PROVE 0 .. n \in FiniteSubsetsOf(Nat)
      OBVIOUS
    <2>1. IsFiniteSet(0 .. n)
      BY FS_Interval
    <2> QED BY <2>1 DEF FiniteSubsetsOf
  <1>2. T # {}
    OBVIOUS
  <1>3. PICK x \in T : \A y \in T : <<y, x>> \notin StrictSubsetOrdering(Nat)
    BY <1>1, <1>2, FS_StrictSubsetOrderingWellFounded, WFMin
  <1>4. PICK n \in A : x = 0 .. n
    OBVIOUS
  <1>5. ASSUME NEW m \in A, ~ n <= m PROVE FALSE
    <2>1. 0 .. m \subseteq 0 .. n /\ n \in 0 .. n /\ n \notin 0 .. m
      BY <1>5
    <2>2. <<0 .. m, 0 .. n>> \in StrictSubsetOrdering(Nat)
      BY <2>1 DEF StrictSubsetOrdering
    <2> QED BY <2>2, <1>3, <1>4
  <1> QED BY <1>5

(* The positions kept are numbered without a gap.                          *)
LEMMA PlaceOnto ==
  ASSUME NEW n \in Nat, NEW keep \in SUBSET (1 .. n)
  PROVE  /\ IsFiniteSet(keep) /\ Cardinality(keep) \in Nat
         /\ \A k \in 1 .. Cardinality(keep) : \E i \in keep : Place(keep, i) = k
  <1>1. IsFiniteSet(keep)
    <2>1. IsFiniteSet(1 .. n)
      BY FS_Interval
    <2> QED BY <2>1, FS_Subset
  <1>2. Cardinality(keep) \in Nat
    BY <1>1, FS_CardinalityType
  <1> DEFINE Upto(i) == {j \in keep : j <= i}
             f == [i \in keep |-> Place(keep, i)]
  <1>3. ASSUME NEW i \in keep
        PROVE  /\ IsFiniteSet(Upto(i))
               /\ Place(keep, i) \in 1 .. Cardinality(keep)
    <2>1. IsFiniteSet(Upto(i)) /\ Cardinality(Upto(i)) <= Cardinality(keep)
      BY <1>1, FS_Subset, Upto(i) \in SUBSET keep
    <2>2. Cardinality(Upto(i)) \in Nat
      BY <2>1, FS_CardinalityType
    <2>3. i \in Upto(i)
      OBVIOUS
    <2>4. Cardinality(Upto(i)) # 0
      BY <2>1, <2>3, FS_EmptySet
    <2> QED BY <1>2, <2>1, <2>2, <2>4 DEF Place
  <1>4. ASSUME NEW i \in keep, NEW j \in keep, i < j
        PROVE  Place(keep, i) # Place(keep, j)
    <2>1. \A m \in keep : m <= i => m <= j
      BY <1>4
    <2>2. Upto(i) \in SUBSET Upto(j)
      BY <2>1
    <2>3. j \in Upto(j) /\ j \notin Upto(i)
      BY <1>4
    <2>4. Cardinality(Upto(j)) # Cardinality(Upto(i))
      BY <2>2, <2>3, <1>3, FS_Subset
    <2> QED BY <2>4 DEF Place
  <1>5. f \in Injection(keep, 1 .. Cardinality(keep))
    <2>1. f \in [keep -> 1 .. Cardinality(keep)]
      BY <1>3
    <2>2. \A i, j \in keep : f[i] = f[j] => i = j
      <3> SUFFICES ASSUME NEW i \in keep, NEW j \in keep, i # j PROVE f[i] # f[j]
        OBVIOUS
      <3>1. i < j \/ j < i
        OBVIOUS
      <3> QED BY <3>1, <1>4
    <2> QED BY <2>1, <2>2 DEF Injection, IsInjective
  <1>6. IsFiniteSet(1 .. Cardinality(keep)) /\ Cardinality(1 .. Cardinality(keep)) = Cardinality(keep)
    BY <1>2, FS_Interval
  <1>7. f \in Surjection(keep, 1 .. Cardinality(keep))
    BY <1>5, <1>6, FS_Injection
  <1>8. \A k \in 1 .. Cardinality(keep) : \E i \in keep : f[i] = k
    BY <1>7 DEF Surjection
  <1> QED BY <1>1, <1>2, <1>8

(* A write again, but for its times.                                       *)
Copy(w, v) ==
  /\ w.rec = v.rec /\ w.id = v.id /\ w.kind = v.kind /\ w.class = v.class
  /\ w.informed = v.informed /\ w.vouches = v.vouches

(* What Kept keeps are the writes at the positions kept.                   *)
LEMMA KeptOf ==
  ASSUME NEW S, NEW q \in Seq(S), NEW keep \in SUBSET (DOMAIN q)
  PROVE  /\ Kept(q, keep) \in Seq(S)
         /\ \A k \in DOMAIN Kept(q, keep) : \E i \in keep : Kept(q, keep)[k] = q[i]
  <1>1. Len(q) \in Nat /\ DOMAIN q = 1 .. Len(q) /\ \A i \in 1 .. Len(q) : q[i] \in S
    OBVIOUS
  <1>2. /\ Cardinality(keep) \in Nat
        /\ \A k \in 1 .. Cardinality(keep) : \E i \in keep : Place(keep, i) = k
    BY <1>1, PlaceOnto
  <1>3. DOMAIN Kept(q, keep) = 1 .. Cardinality(keep)
    BY DEF Kept
  <1>4. ASSUME NEW k \in 1 .. Cardinality(keep)
        PROVE  \E i \in keep : Kept(q, keep)[k] = q[i]
    <2> DEFINE i == CHOOSE i \in keep : Place(keep, i) = k
    <2>1. i \in keep
      BY <1>2
    <2>2. Kept(q, keep)[k] = q[i]
      BY DEF Kept
    <2> QED BY <2>1, <2>2
  <1>5. \A k \in 1 .. Cardinality(keep) : Kept(q, keep)[k] \in S
    BY <1>1, <1>4
  <1>6. Kept(q, keep) = [k \in 1 .. Cardinality(keep) |-> Kept(q, keep)[k]]
    BY DEF Kept
  <1>7. Kept(q, keep) \in Seq(S)
    BY <1>2, <1>5, <1>6
  <1> QED BY <1>3, <1>4, <1>7

(* Dense sets the starvation clocks anew and nothing else.                 *)
LEMMA DenseOf ==
  ASSUME NEW q \in Seq(Write)
  PROVE  /\ Dense(q) \in Seq(Write) /\ DOMAIN Dense(q) = DOMAIN q
         /\ \A i \in DOMAIN q : Copy(Dense(q)[i], q[i])
  <1> DEFINE n == Len(q)
             clocks == {q[i].since : i \in DOMAIN q}
             Earlier(i) == {c \in clocks : c < q[i].since}
             f == [i \in 1 .. n |-> q[i].since]
  <1>1. n \in Nat /\ DOMAIN q = 1 .. n /\ \A i \in 1 .. n : q[i] \in Write
    OBVIOUS
  <1>2. IsFiniteSet(clocks)
    <2>1. f \in Surjection(1 .. n, clocks)
      BY <1>1 DEF Surjection
    <2>2. IsFiniteSet(1 .. n)
      BY <1>1, FS_Interval
    <2> QED BY <2>1, <2>2, FS_Surjection
  <1>3. ASSUME NEW i \in 1 .. n PROVE Cardinality(Earlier(i)) \in Nat
    <2>1. Earlier(i) \in SUBSET clocks
      OBVIOUS
    <2>2. IsFiniteSet(Earlier(i))
      BY <1>2, <2>1, FS_Subset
    <2> QED BY <2>2, FS_CardinalityType
  <1>4. Dense(q) = [i \in 1 .. n |-> [q[i] EXCEPT !.since = Cardinality(Earlier(i))]]
    BY <1>1 DEF Dense
  <1>5. \A w \in Write, c \in Nat : /\ [w EXCEPT !.since = c] \in Write
                                    /\ Copy([w EXCEPT !.since = c], w)
    BY DEF Write, Copy
  <1>6. \A i \in 1 .. n : Dense(q)[i] \in Write /\ Copy(Dense(q)[i], q[i])
    <2> HIDE DEF Earlier
    <2> QED BY <1>1, <1>3, <1>4, <1>5
  <1>7. DOMAIN Dense(q) = 1 .. n
    BY <1>4
  <1>8. Dense(q) = [i \in 1 .. n |-> Dense(q)[i]]
    BY <1>4, <1>7
  <1>9. Dense(q) \in Seq(Write)
    BY <1>1, <1>6, <1>8
  <1> QED BY <1>1, <1>6, <1>7, <1>9

(* A write removed leaves the others.                                      *)
LEMMA RemoveOf ==
  ASSUME NEW q \in Seq(Write), NEW i \in DOMAIN q
  PROVE  /\ Dense(RemoveAt(q, i)) \in Seq(Write)
         /\ \A k \in DOMAIN Dense(RemoveAt(q, i)) :
              \E j \in DOMAIN q \ {i} : Copy(Dense(RemoveAt(q, i))[k], q[j])
  <1> DEFINE s == RemoveAt(q, i)
  <1>1. Len(q) \in Nat /\ DOMAIN q = 1 .. Len(q) /\ i \in 1 .. Len(q)
    OBVIOUS
  <1>2. SubSeq(q, 1, i - 1) \in Seq(Write) /\ Len(SubSeq(q, 1, i - 1)) = i - 1
    BY <1>1
  <1>3. SubSeq(q, i + 1, Len(q)) \in Seq(Write) /\ Len(SubSeq(q, i + 1, Len(q))) = Len(q) - i
    BY <1>1
  <1>4. s \in Seq(Write) /\ Len(s) = Len(q) - 1
    BY <1>1, <1>2, <1>3 DEF RemoveAt
  <1>5. ASSUME NEW k \in DOMAIN s PROVE \E j \in DOMAIN q \ {i} : s[k] = q[j]
    <2>1. k \in 1 .. Len(q) - 1
      BY <1>4
    <2>2. CASE k < i
      <3>1. s[k] = SubSeq(q, 1, i - 1)[k]
        BY <1>2, <1>3, <2>1, <2>2, <1>1 DEF RemoveAt
      <3>2. SubSeq(q, 1, i - 1)[k] = q[k]
        BY <1>1, <2>1, <2>2
      <3> QED BY <3>1, <3>2, <1>1, <2>1, <2>2
    <2>3. CASE k >= i
      <3>1. s[k] = SubSeq(q, i + 1, Len(q))[k - (i - 1)]
        <4> DEFINE a == SubSeq(q, 1, i - 1)
                   b == SubSeq(q, i + 1, Len(q))
        <4>1. s = a \o b
          BY DEF RemoveAt
        <4>2. a \in Seq(Write) /\ b \in Seq(Write) /\ Len(a) = i - 1 /\ Len(b) = Len(q) - i
          BY <1>2, <1>3
        <4> HIDE DEF a, b, s
        <4>3. (a \o b)[k] = b[k - Len(a)]
          BY <4>2, <2>1, <2>3, <1>1
        <4> QED BY <4>1, <4>2, <4>3 DEF b
      <3>2. SubSeq(q, i + 1, Len(q))[k - (i - 1)] = q[k + 1]
        BY <1>1, <2>1, <2>3
      <3> QED BY <3>1, <3>2, <1>1, <2>1, <2>3
    <2> QED BY <1>1, <2>1, <2>2, <2>3
  <1> HIDE DEF s
  <1>6. /\ Dense(s) \in Seq(Write) /\ DOMAIN Dense(s) = DOMAIN s
        /\ \A k \in DOMAIN s : Copy(Dense(s)[k], s[k])
    BY <1>4, DenseOf
  <1> QED BY <1>5, <1>6 DEF s

(* A write enqueued comes after the others.                                *)
LEMMA EnqueuedOf ==
  ASSUME NEW q \in Seq(Write), NEW w \in Write
  PROVE  /\ Enqueued(q, w) \in Seq(Write)
         /\ \A k \in DOMAIN Enqueued(q, w) :
              \/ Copy(Enqueued(q, w)[k], w)
              \/ \E j \in DOMAIN q : Copy(Enqueued(q, w)[k], q[j])
  <1> DEFINE s == Append(q, w)
  <1>1. s \in Seq(Write) /\ \A k \in DOMAIN s : s[k] = w \/ (k \in DOMAIN q /\ s[k] = q[k])
    <2>1. s \in Seq(Write) /\ DOMAIN s = 1 .. Len(q) + 1 /\ Len(q) \in Nat /\ DOMAIN q = 1 .. Len(q)
      OBVIOUS
    <2>2. \A k \in 1 .. Len(q) + 1 : s[k] = IF k <= Len(q) THEN q[k] ELSE w
      OBVIOUS
    <2> HIDE DEF s
    <2> QED BY <2>1, <2>2
  <1> HIDE DEF s
  <1>2. /\ Dense(s) \in Seq(Write) /\ DOMAIN Dense(s) = DOMAIN s
        /\ \A k \in DOMAIN s : Copy(Dense(s)[k], s[k])
    BY <1>1, DenseOf
  <1>3. Enqueued(q, w) = Dense(s)
    BY DEF Enqueued, s
  <1> QED BY <1>1, <1>2, <1>3

-----------------------------------------------------------------------------
(* Types, and what a step does to the queues.                              *)

(* The fields of a write, and of a write in flight.                        *)
LEMMA Fields ==
  /\ \A w \in Write :
       /\ w.rec \in Record /\ w.id \in Id \cup {None} /\ w.kind \in Kind /\ w.class \in Class
       /\ w.since \in Nat /\ w.level \in 0 .. 2 /\ w.deadline \in Deadlines \cup {None}
       /\ w.informed \in BOOLEAN /\ w.vouches \in BOOLEAN
  /\ \A f \in Flight :
       /\ f.id \in Id \cup {None} /\ f.kind \in Kind /\ f.informed \in BOOLEAN
       /\ f.lane \in Lane /\ f.stage \in Stage
  BY DEF Write, Flight

(* A write as it is queued is one.                                         *)
LEMMA FreshIsWrite ==
  ASSUME SchedulerTypes
  PROVE  \A rec \in Record, id \in Id \cup {None}, kind \in Kind, class \in Class,
            d \in Deadlines \cup {None} : Fresh(rec, id, kind, class, d) \in Write
  <1>1. Cardinality(DOMAIN pending) \in Nat
    <2>1. DOMAIN pending = 1 .. Len(pending) /\ Len(pending) \in Nat
      BY DEF SchedulerTypes
    <2>2. IsFiniteSet(DOMAIN pending)
      BY <2>1, FS_Interval
    <2> QED BY <2>2, FS_CardinalityType
  <1>2. \A kind, id, rec : (kind = "current" /\ id \in gone[rec]) \in BOOLEAN
    OBVIOUS
  <1> QED BY <1>1, <1>2 DEF Fresh, Write

(* What a submission may do to the queues: nothing, or leave one write more, *)
(* of a class that stands for what it vouches for, and of the others those  *)
(* it does not supersede.                                                   *)
QueuedBesides(w) ==
  /\ \A k \in DOMAIN pending' :
       \/ Copy(pending'[k], w)
       \/ \E j \in DOMAIN pending :
            /\ Copy(pending'[k], pending[j])
            /\ w.kind # "ring" => ~ SameId(pending[j], w.rec, w.id)
  /\ w.kind = "current" =>
       ~ Dominated(w.rec, w.id) /\ (w.informed <=> w.id \in gone[w.rec])
  /\ VouchersAreChat /\ w.vouches => w.class = Chat

(* A write queued behind what it does not supersede.                       *)
LEMMA QueuedOnKept ==
  ASSUME SchedulerTypes, NEW w \in Write, Named(w), NEW id \in Id,
         w.kind # "ring", w.id = id,
         pending' = Enqueued(Kept(pending, Others(w.rec, id)), w),
         w.kind = "current" =>
           ~ Dominated(w.rec, w.id) /\ (w.informed <=> w.id \in gone[w.rec]),
         VouchersAreChat /\ w.vouches => w.class = Chat
  PROVE  pending' \in Seq(Write) /\ QueuedBesides(w)
  <1> DEFINE keep == Others(w.rec, id)
             q == Kept(pending, keep)
  <1>1. keep \in SUBSET (DOMAIN pending)
    BY DEF Others
  <1>2. /\ q \in Seq(Write)
        /\ \A k \in DOMAIN q : \E i \in keep : q[k] = pending[i]
    BY <1>1, KeptOf DEF SchedulerTypes
  <1>3. \A i \in keep : i \in DOMAIN pending /\ ~ SameId(pending[i], w.rec, w.id)
    BY DEF Others
  <1> HIDE DEF q, keep
  <1>4. /\ Enqueued(q, w) \in Seq(Write)
        /\ \A k \in DOMAIN Enqueued(q, w) :
             \/ Copy(Enqueued(q, w)[k], w)
             \/ \E j \in DOMAIN q : Copy(Enqueued(q, w)[k], q[j])
    BY <1>2, EnqueuedOf
  <1>5. pending' = Enqueued(q, w)
    BY DEF q, keep
  <1>6. ASSUME NEW k \in DOMAIN pending', ~ Copy(pending'[k], w)
        PROVE  \E j \in DOMAIN pending :
                 /\ Copy(pending'[k], pending[j])
                 /\ ~ SameId(pending[j], w.rec, w.id)
    <2>1. PICK m \in DOMAIN q : Copy(pending'[k], q[m])
      BY <1>4, <1>5, <1>6
    <2>2. PICK i \in keep : q[m] = pending[i]
      BY <1>2
    <2> QED BY <2>1, <2>2, <1>3
  <1> QED BY <1>4, <1>5, <1>6 DEF QueuedBesides

(* A write queued behind all the others.                                   *)
LEMMA QueuedLast ==
  ASSUME SchedulerTypes, NEW w \in Write, pending' = Enqueued(pending, w),
         w.kind # "ring" => \A i \in DOMAIN pending : ~ SameId(pending[i], w.rec, w.id),
         w.kind = "current" =>
           ~ Dominated(w.rec, w.id) /\ (w.informed <=> w.id \in gone[w.rec]),
         VouchersAreChat /\ w.vouches => w.class = Chat
  PROVE  pending' \in Seq(Write) /\ QueuedBesides(w)
  <1>1. /\ Enqueued(pending, w) \in Seq(Write)
        /\ \A k \in DOMAIN Enqueued(pending, w) :
             \/ Copy(Enqueued(pending, w)[k], w)
             \/ \E j \in DOMAIN pending : Copy(Enqueued(pending, w)[k], pending[j])
    BY EnqueuedOf DEF SchedulerTypes
  <1>2. ASSUME NEW k \in DOMAIN pending', ~ Copy(pending'[k], w)
        PROVE  \E j \in DOMAIN pending :
                 /\ Copy(pending'[k], pending[j])
                 /\ w.kind # "ring" => ~ SameId(pending[j], w.rec, w.id)
    BY <1>1, <1>2
  <1> QED BY <1>1, <1>2 DEF QueuedBesides

(* A write that takes over from an elder is one, of its id, as informed,   *)
(* and of the class of what it vouches for.                                *)
LEMMA SurvivorIsWrite ==
  ASSUME NEW w \in Write, NEW elder \in Write, NEW s \in Survivors(w, elder)
  PROVE  /\ s \in Write
         /\ s.rec = w.rec /\ s.id = w.id /\ s.kind = w.kind /\ s.informed = w.informed
         /\ elder.class = Chat => s.class = Chat
         /\ s.vouches => elder.vouches \/ elder.class = Chat
  <1> DEFINE class == StrongestClass(w.class, elder.class)
             v == elder.vouches \/ elder.class = Chat
  <1>1. class \in Class
    BY Fields DEF StrongestClass
  <1>2. elder.class = Chat => class = Chat
    <2>1. w.class \in 1 .. 5
      BY Fields DEF Class, Chat, Republish
    <2> QED BY <2>1 DEF StrongestClass, Chat
  <1>3. PICK l \in 0 .. 2 :
          s = [w EXCEPT !.since = elder.since, !.class = class, !.level = l, !.vouches = v]
    <2> DEFINE levels == IF class = elder.class THEN {elder.level}
                         ELSE IF class = Chat THEN {0} ELSE 0 .. 2
    <2>1. elder.level \in 0 .. 2
      BY Fields
    <2>2. levels \subseteq 0 .. 2
      <3> HIDE DEF class
      <3> QED BY <2>1
    <2>3. s \in {[w EXCEPT !.since = elder.since, !.class = class, !.level = l, !.vouches = v] :
                  l \in levels}
      BY DEF Survivors
    <2> HIDE DEF levels, class, v
    <2> QED BY <2>2, <2>3
  <1> HIDE DEF class
  <1>4. elder.since \in Nat /\ v \in BOOLEAN
    BY Fields
  <1> HIDE DEF v
  <1>5. s \in Write
    BY <1>1, <1>3, <1>4 DEF Write
  <1>6. /\ s.rec = w.rec /\ s.id = w.id /\ s.kind = w.kind /\ s.informed = w.informed
        /\ s.class = class /\ s.vouches = v
    BY <1>3 DEF Write
  <1> QED BY <1>2, <1>5, <1>6 DEF v

(* What a submission leaves alone.                                         *)
SubmitFrame ==
  driver' = "dispatch" /\ UNCHANGED <<flying, windowCount, floorCount, clock, gone>>

SubmitQueues ==
  pending' = pending
    \/ \E w \in Write : Named(w) /\ pending' \in Seq(Write) /\ QueuedBesides(w)

LEMMA SubmitStep ==
  ASSUME SchedulerTypes, Submit
  PROVE  SubmitFrame /\ SubmitQueues /\ driver = "select"
  <1>1. PICK rec \in Record, class \in Class, d \in Deadlines \cup {None} :
          \/ SubmitRing(rec, class, d)
          \/ \E id \in Id : SubmitTombstone(rec, id, class, d) \/ SubmitCurrent(rec, id, class, d)
    BY DEF Submit
  <1>2. CASE SubmitRing(rec, class, d)
    <2> DEFINE w == Fresh(rec, None, "ring", class, d)
    <2>1. w \in Write /\ w.kind = "ring" /\ w.vouches = FALSE
      <3>1. w \in Write
        BY FreshIsWrite DEF Kind
      <3> QED BY <3>1 DEF Fresh
    <2>2. pending' = Enqueued(pending, w) /\ SubmitFrame /\ driver = "select"
      BY <1>2 DEF SubmitRing, Submitted, SubmitFrame
    <2> HIDE DEF w
    <2>3. pending' \in Seq(Write) /\ QueuedBesides(w)
      BY <2>1, <2>2, QueuedLast
    <2> QED BY <2>1, <2>2, <2>3 DEF SubmitQueues, Named
  <1>3. ASSUME NEW id \in Id, SubmitTombstone(rec, id, class, d)
        PROVE  SubmitFrame /\ SubmitQueues /\ driver = "select"
    <2> DEFINE w == Fresh(rec, id, "tombstone", class, d)
    <2>1. w \in Write /\ w.kind = "tombstone" /\ w.rec = rec /\ w.id = id /\ w.vouches = FALSE
      <3>1. w \in Write
        BY FreshIsWrite DEF Kind
      <3> QED BY <3>1 DEF Fresh
    <2>2. /\ pending' = Enqueued(Kept(pending, Others(w.rec, id)), w) /\ SubmitFrame
          /\ driver = "select"
      BY <1>3, <2>1 DEF SubmitTombstone, Submitted, SubmitFrame
    <2> HIDE DEF w
    <2>3. Named(w)
      BY <2>1 DEF Named
    <2>4. pending' \in Seq(Write) /\ QueuedBesides(w)
      BY <2>1, <2>2, <2>3, QueuedOnKept
    <2> QED BY <2>2, <2>3, <2>4, <2>1 DEF SubmitQueues
  <1>4. ASSUME NEW id \in Id, SubmitCurrent(rec, id, class, d)
        PROVE  SubmitFrame /\ SubmitQueues /\ driver = "select"
    <2> DEFINE w == Fresh(rec, id, "current", class, d)
               over == DOMAIN pending \ Others(rec, id)
    <2>1. /\ w \in Write /\ w.kind = "current" /\ w.rec = rec /\ w.id = id
          /\ w.vouches = FALSE /\ (w.informed <=> w.id \in gone[w.rec])
      <3>1. w \in Write
        BY FreshIsWrite DEF Kind
      <3> QED BY <3>1 DEF Fresh
    <2>2. Named(w)
      BY <2>1 DEF Named
    <2>3. driver = "select"
      BY <1>4 DEF SubmitCurrent
    <2>4. \/ Dominated(rec, id) /\ Submitted(pending)
          \/ ~ Dominated(rec, id) /\ over = {} /\ Submitted(Enqueued(pending, w))
          \/ /\ ~ Dominated(rec, id)
             /\ \E i \in over : \E s \in Survivors(w, pending[i]) :
                  Submitted(Enqueued(Kept(pending, Others(rec, id)), s))
      BY <1>4 DEF SubmitCurrent
    <2> HIDE DEF w
    <2>5. CASE Submitted(pending)
      BY <2>3, <2>5 DEF Submitted, SubmitFrame, SubmitQueues
    <2>6. CASE ~ Dominated(rec, id) /\ over = {} /\ Submitted(Enqueued(pending, w))
      <3>1. pending' = Enqueued(pending, w) /\ SubmitFrame
        BY <2>6 DEF Submitted, SubmitFrame
      <3>2. \A i \in DOMAIN pending : ~ SameId(pending[i], w.rec, w.id)
        BY <2>1, <2>6 DEF Others
      <3>3. pending' \in Seq(Write) /\ QueuedBesides(w)
        BY <2>1, <2>6, <3>1, <3>2, QueuedLast
      <3> QED BY <2>1, <2>2, <2>3, <3>1, <3>3 DEF SubmitQueues
    <2>7. CASE ~ Dominated(rec, id) /\ \E i \in over : \E s \in Survivors(w, pending[i]) :
                  Submitted(Enqueued(Kept(pending, Others(rec, id)), s))
      <3>1. PICK i \in over : \E s \in Survivors(w, pending[i]) :
                  Submitted(Enqueued(Kept(pending, Others(rec, id)), s))
        BY <2>7
      <3>2. PICK s \in Survivors(w, pending[i]) :
                  Submitted(Enqueued(Kept(pending, Others(rec, id)), s))
        BY <3>1
      <3>3. i \in DOMAIN pending /\ pending[i] \in Write
        BY DEF SchedulerTypes
      <3>4. /\ s \in Write /\ s.rec = rec /\ s.id = id /\ s.kind = "current"
            /\ (s.informed <=> s.id \in gone[s.rec])
            /\ VouchersAreChat /\ s.vouches => s.class = Chat
        <4>1. /\ s \in Write
              /\ s.rec = w.rec /\ s.id = w.id /\ s.kind = w.kind /\ s.informed = w.informed
              /\ pending[i].class = Chat => s.class = Chat
              /\ s.vouches => pending[i].vouches \/ pending[i].class = Chat
          BY <2>1, <3>2, <3>3, SurvivorIsWrite
        <4>2. VouchersAreChat /\ s.vouches => s.class = Chat
          BY <4>1, <3>3 DEF VouchersAreChat
        <4> QED BY <2>1, <4>1, <4>2
      <3>5. pending' = Enqueued(Kept(pending, Others(s.rec, id)), s) /\ SubmitFrame
        BY <3>2, <3>4 DEF Submitted, SubmitFrame
      <3>6. Named(s)
        BY <3>4 DEF Named
      <3>7. pending' \in Seq(Write) /\ QueuedBesides(s)
        BY <2>7, <3>4, <3>5, <3>6, QueuedOnKept
      <3> QED BY <2>3, <3>4, <3>5, <3>6, <3>7 DEF SubmitQueues
    <2> QED BY <2>4, <2>5, <2>6, <2>7
  <1> QED BY <1>1, <1>2, <1>3, <1>4

(* What a dispatch does: the head leaves its queue, for an idle record.    *)
InFlight(w, lane) ==
  [id |-> w.id, kind |-> w.kind, informed |-> w.informed, lane |-> lane, stage |-> "waiting"]

Dispatched(i, lane) ==
  /\ i \in DOMAIN pending /\ pending[i] \in Write /\ Named(pending[i])
  /\ lane \in Lane /\ Idle(pending[i].rec)
  /\ pending' \in Seq(Write)
  /\ \A k \in DOMAIN pending' : \E j \in DOMAIN pending : Copy(pending'[k], pending[j])
  /\ InFlight(pending[i], lane) \in Flight
  /\ flying' = [flying EXCEPT ![pending[i].rec] = InFlight(pending[i], lane)]
  /\ windowCount' = windowCount + IF lane = "window" THEN 1 ELSE 0
  /\ floorCount' = floorCount + IF lane = "floor" THEN 1 ELSE 0
  /\ UNCHANGED <<driver, clock, gone>>

LEMMA DispatchStep ==
  ASSUME SchedulerTypes, NEW i \in Heads, NEW lane \in Lane, Dispatch(i, lane)
  PROVE  Dispatched(i, lane)
  <1>1. i \in DOMAIN pending /\ pending[i] \in Write /\ Named(pending[i]) /\ Idle(pending[i].rec)
    BY DEF SchedulerTypes, Heads
  <1>2. pending \in Seq(Write)
    BY DEF SchedulerTypes
  <1>3. /\ pending' \in Seq(Write)
        /\ \A k \in DOMAIN pending' : \E j \in DOMAIN pending \ {i} : Copy(pending'[k], pending[j])
    BY <1>1, <1>2, RemoveOf DEF Dispatch
  <1>4. InFlight(pending[i], lane) \in Flight
    BY <1>1, Fields DEF InFlight, Flight, Stage
  <1>5. /\ flying' = [flying EXCEPT ![pending[i].rec] = InFlight(pending[i], lane)]
        /\ windowCount' = windowCount + IF lane = "window" THEN 1 ELSE 0
        /\ floorCount' = floorCount + IF lane = "floor" THEN 1 ELSE 0
        /\ UNCHANGED <<driver, clock, gone>>
    BY DEF Dispatch, InFlight
  <1> QED BY <1>1, <1>3, <1>4, <1>5 DEF Dispatched

(* The picks of the lanes are heads, and the first head is one.            *)
LEMMA PicksAreHeads ==
  ASSUME SchedulerTypes
  PROVE  /\ Heads \subseteq DOMAIN pending /\ DOMAIN pending \subseteq Nat
         /\ FloorPicks \subseteq NonchatHeads /\ ChatPicks \subseteq ChatHeads
         /\ WindowPicks \subseteq NonchatHeads
         /\ NonchatHeads \subseteq Heads /\ ChatHeads \subseteq Heads
         /\ Heads # {} => Min(Heads) \in Heads
  <1>1. Heads \subseteq DOMAIN pending /\ DOMAIN pending \subseteq Nat
    BY DEF Heads, SchedulerTypes
  <1>2. Heads # {} => Min(Heads) \in Heads
    <2>1. Heads \in SUBSET Nat
      BY <1>1
    <2> HAVE Heads # {}
    <2>2. \E n \in Heads : \A m \in Heads : n <= m
      BY <2>1, LeastNat
    <2> QED BY <2>2 DEF Min
  <1>3. FloorPicks \subseteq NonchatHeads
    BY DEF FloorPicks
  <1>4. ChatPicks \subseteq ChatHeads /\ WindowPicks \subseteq NonchatHeads
    BY DEF ChatPicks, WindowPicks
  <1>5. NonchatHeads \subseteq Heads /\ ChatHeads \subseteq Heads
    BY DEF NonchatHeads, ChatHeads
  <1> QED BY <1>1, <1>2, <1>3, <1>4, <1>5

(* What the steps that dispatch do, with the lane bounds they look at.     *)
LEMMA DispatchSteps ==
  ASSUME SchedulerTypes
  PROVE  /\ DispatchFloor => floorCount < 1 /\ \E i \in NonchatHeads : Dispatched(i, "floor")
         /\ DispatchChat => \E i \in ChatHeads : Dispatched(i, "chat")
         /\ DispatchWindow => windowCount < Window /\ \E i \in NonchatHeads : Dispatched(i, "window")
         /\ Drain => driver = "drain" /\ \E i \in Heads, lane \in Lane : Dispatched(i, lane)
  <1>1. "floor" \in Lane /\ "chat" \in Lane /\ "window" \in Lane
    BY DEF Lane
  <1>2. ASSUME DispatchFloor
        PROVE  floorCount < 1 /\ \E i \in NonchatHeads : Dispatched(i, "floor")
    <2>1. PICK i \in FloorPicks : Dispatch(i, "floor")
      BY <1>2 DEF DispatchFloor
    <2>2. i \in NonchatHeads /\ i \in Heads
      BY PicksAreHeads
    <2>3. floorCount < 1
      BY <1>2 DEF DispatchFloor, FloorReady
    <2> QED BY <1>1, <2>1, <2>2, <2>3, DispatchStep
  <1>3. ASSUME DispatchChat
        PROVE  \E i \in ChatHeads : Dispatched(i, "chat")
    <2>1. PICK i \in ChatPicks : Dispatch(i, "chat")
      BY <1>3 DEF DispatchChat
    <2>2. i \in ChatHeads /\ i \in Heads
      BY PicksAreHeads
    <2> QED BY <1>1, <2>1, <2>2, DispatchStep
  <1>4. ASSUME DispatchWindow
        PROVE  windowCount < Window /\ \E i \in NonchatHeads : Dispatched(i, "window")
    <2>1. PICK i \in WindowPicks : Dispatch(i, "window")
      BY <1>4 DEF DispatchWindow
    <2>2. i \in NonchatHeads /\ i \in Heads
      BY PicksAreHeads
    <2>3. windowCount < Window
      BY <1>4 DEF DispatchWindow, WindowReady
    <2> QED BY <1>1, <2>1, <2>2, <2>3, DispatchStep
  <1>5. ASSUME Drain
        PROVE  driver = "drain" /\ \E i \in Heads, lane \in Lane : Dispatched(i, lane)
    <2> DEFINE i == Min(Heads)
               lane == IF pending[i].class = Chat THEN "chat" ELSE "window"
    <2>1. driver = "drain" /\ Heads # {} /\ Dispatch(i, lane)
      BY <1>5 DEF Drain
    <2>2. i \in Heads /\ lane \in Lane
      BY <1>1, <2>1, PicksAreHeads
    <2> HIDE DEF i, lane
    <2>3. Dispatched(i, lane)
      BY <2>1, <2>2, DispatchStep
    <2> QED BY <2>1, <2>2, <2>3
  <1> QED BY <1>2, <1>3, <1>4, <1>5

(* The steps that neither submit, dispatch nor run a task: what stays      *)
(* queued was queued, and the driver does not turn back from a shutdown.   *)
Quiet ==
  /\ pending' \in Seq(Write)
  /\ \A k \in DOMAIN pending' : \E j \in DOMAIN pending : Copy(pending'[k], pending[j])
  /\ driver' \in DriverState /\ clock' \in Nat /\ (Running' => Running)
  /\ UNCHANGED <<flying, windowCount, floorCount, gone>>

LEMMA QuietSteps ==
  ASSUME SchedulerTypes,
         \/ DispatchEnd \/ Arm \/ DrainEnd \/ Shutdown \/ DeadlinePasses \/ BudgetSpent
         \/ (\E r \in Record : Age(r)) \/ UNCHANGED vars
  PROVE  Quiet
  <1> USE DEF DriverState, Running
  <1>1. pending \in Seq(Write) /\ driver \in DriverState /\ clock \in Nat
    BY DEF SchedulerTypes
  <1>2. ASSUME UNCHANGED pending
        PROVE  \A k \in DOMAIN pending' : \E j \in DOMAIN pending : Copy(pending'[k], pending[j])
    BY <1>2 DEF Copy
  <1>3. CASE DispatchEnd
    BY <1>1, <1>2, <1>3 DEF DispatchEnd, Quiet
  <1>4. CASE Arm
    BY <1>1, <1>2, <1>4 DEF Arm, Quiet
  <1>5. CASE DrainEnd
    BY <1>1, <1>2, <1>5 DEF DrainEnd, Quiet
  <1>6. CASE DeadlinePasses
    BY <1>1, <1>2, <1>6 DEF DeadlinePasses, Quiet
  <1>7. CASE BudgetSpent
    BY <1>1, <1>7 DEF BudgetSpent, Quiet
  <1>8. CASE Shutdown
    <2> DEFINE keep == {i \in DOMAIN pending : Flushed(pending[i])}
               q == Kept(pending, keep)
    <2>1. q \in Seq(Write) /\ \A k \in DOMAIN q : \E i \in DOMAIN pending : q[k] = pending[i]
      <3>1. keep \in SUBSET (DOMAIN pending)
        OBVIOUS
      <3>2. \A i \in keep : i \in DOMAIN pending
        OBVIOUS
      <3> HIDE DEF keep
      <3>3. q \in Seq(Write) /\ \A k \in DOMAIN q : \E i \in keep : q[k] = pending[i]
        BY <1>1, <3>1, KeptOf
      <3> HIDE DEF q
      <3> QED BY <3>2, <3>3
    <2>2. pending' = Dense(q) /\ driver' = "drain" /\ driver = "select"
          /\ UNCHANGED <<flying, windowCount, floorCount, clock, gone>>
      BY <1>8 DEF Shutdown
    <2> HIDE DEF q
    <2>3. /\ pending' \in Seq(Write) /\ DOMAIN pending' = DOMAIN q
          /\ \A k \in DOMAIN q : Copy(pending'[k], q[k])
      BY <2>1, <2>2, DenseOf
    <2>4. \A k \in DOMAIN pending' : \E j \in DOMAIN pending : Copy(pending'[k], pending[j])
      BY <2>1, <2>3
    <2> QED BY <1>1, <2>2, <2>3, <2>4 DEF Quiet
  <1>9. ASSUME NEW r \in Record, Age(r) PROVE Quiet
    <2>1. PICK i \in DOMAIN pending :
            /\ pending[i].rec = r /\ pending[i].level < 2
            /\ pending' = [pending EXCEPT ![i].level = @ + 1]
            /\ Wakes(i)
      BY <1>9 DEF Age
    <2>2. /\ driver \in {"arm", "select"}
          /\ UNCHANGED <<flying, windowCount, floorCount, clock, gone>>
      BY <1>9 DEF Age
    <2>3. driver' \in {"arm", "select", "dispatch"}
      BY <2>1, <2>2 DEF Wakes
    <2>4. pending[i] \in Write /\ pending[i].level \in 0 .. 2
      BY <1>1, Fields
    <2>5. \A w \in Write, l \in 0 .. 2 : /\ [w EXCEPT !.level = l] \in Write
                                         /\ Copy([w EXCEPT !.level = l], w)
      BY DEF Write, Copy
    <2>6. pending[i].level + 1 \in 0 .. 2
      BY <2>1, <2>4
    <2>7. pending' = [pending EXCEPT ![i] = [pending[i] EXCEPT !.level = pending[i].level + 1]]
      BY <2>1
    <2>8. pending' \in Seq(Write)
      <3>1. \A v \in Write : [pending EXCEPT ![i] = v] \in Seq(Write)
        BY <1>1
      <3>2. [pending[i] EXCEPT !.level = pending[i].level + 1] \in Write
        BY <2>4, <2>5, <2>6
      <3> QED BY <2>7, <3>1, <3>2
    <2>9. \A k \in DOMAIN pending' : k \in DOMAIN pending /\ Copy(pending'[k], pending[k])
      <3>1. \A k \in DOMAIN pending' :
              /\ k \in DOMAIN pending
              /\ k # i => pending'[k] = pending[k]
              /\ k = i => pending'[k] = [pending[i] EXCEPT !.level = pending[i].level + 1]
        BY <1>1, <2>7
      <3>2. \A w : Copy(w, w)
        BY DEF Copy
      <3> QED BY <2>4, <2>5, <2>6, <3>1, <3>2
    <2> QED BY <1>1, <2>2, <2>3, <2>8, <2>9 DEF Quiet
  <1>10. CASE UNCHANGED vars
    BY <1>1, <1>2, <1>10 DEF vars, Quiet
  <1> QED BY <1>3, <1>4, <1>5, <1>6, <1>7, <1>8, <1>9, <1>10

(* A task moves on to another stage, or ends.                              *)
Moved(r, stage) ==
  ~ Idle(r) /\ stage \in Stage /\ flying' = [flying EXCEPT ![r].stage = stage]
    /\ UNCHANGED <<pending, windowCount, floorCount, driver, clock>>

LEMMA TaskSteps ==
  ASSUME SchedulerTypes, NEW r \in Record
  PROVE  /\ Acquire(r) => Moved(r, "writing") /\ UNCHANGED gone
         /\ Finish(r) => Moved(r, "done")
  BY DEF Acquire, Finish, Moved, Stage

(* A task that moves on is the same one at another stage.                  *)
LEMMA MovedStep ==
  ASSUME SchedulerTypes, NEW r \in Record, NEW stage \in Stage, Moved(r, stage)
  PROVE  /\ flying[r] \in Flight /\ flying[r] # None
         /\ flying' \in [Record -> Flight \cup {None}]
         /\ \A x \in Record : x # r => flying'[x] = flying[x]
         /\ flying'[r] \in Flight /\ flying'[r] # None
         /\ flying'[r].id = flying[r].id /\ flying'[r].kind = flying[r].kind
         /\ flying'[r].informed = flying[r].informed /\ flying'[r].lane = flying[r].lane
         /\ flying'[r].stage = stage
  <1>1. flying \in [Record -> Flight \cup {None}] /\ flying[r] # None
    BY DEF SchedulerTypes, Moved, Idle
  <1>2. flying[r] \in Flight
    BY <1>1
  <1>3. flying' = [flying EXCEPT ![r] = [flying[r] EXCEPT !.stage = stage]]
    BY DEF Moved
  <1>4. \A f \in Flight : LET g == [f EXCEPT !.stage = stage]
                          IN  /\ g \in Flight /\ g.id = f.id /\ g.kind = f.kind
                              /\ g.informed = f.informed /\ g.lane = f.lane /\ g.stage = stage
    BY DEF Flight
  <1>5. flying'[r] = [flying[r] EXCEPT !.stage = stage]
    BY <1>1, <1>3
  <1>6. flying'[r] \in Flight /\ flying'[r] # None
    BY <1>2, <1>4, <1>5, FlightAssumption
  <1>7. flying' \in [Record -> Flight \cup {None}]
    BY <1>1, <1>3, <1>5, <1>6
  <1>8. \A x \in Record : x # r => flying'[x] = flying[x]
    BY <1>1, <1>3
  <1> QED BY <1>1, <1>2, <1>4, <1>5, <1>6, <1>7, <1>8

(* A dispatch puts one record's write in flight.                           *)
LEMMA DispatchedStep ==
  ASSUME SchedulerTypes, NEW i, NEW lane, Dispatched(i, lane)
  PROVE  LET r == pending[i].rec
         IN  /\ r \in Record /\ flying[r] = None
             /\ flying' \in [Record -> Flight \cup {None}]
             /\ \A x \in Record : x # r => flying'[x] = flying[x]
             /\ flying'[r] \in Flight /\ flying'[r] # None
             /\ flying'[r].id = pending[i].id /\ flying'[r].kind = pending[i].kind
             /\ flying'[r].informed = pending[i].informed
             /\ flying'[r].lane = lane /\ flying'[r].stage = "waiting"
  <1> DEFINE r == pending[i].rec
  <1>1. r \in Record /\ flying[r] = None
    BY Fields DEF Dispatched, Idle
  <1>2. flying \in [Record -> Flight \cup {None}]
    BY DEF SchedulerTypes
  <1>3. /\ InFlight(pending[i], lane) \in Flight
        /\ flying' = [flying EXCEPT ![r] = InFlight(pending[i], lane)]
    BY DEF Dispatched
  <1>4. flying'[r] = InFlight(pending[i], lane) /\ \A x \in Record : x # r => flying'[x] = flying[x]
    BY <1>1, <1>2, <1>3
  <1>5. flying' \in [Record -> Flight \cup {None}]
    BY <1>1, <1>2, <1>3
  <1>6. flying'[r] # None
    BY <1>3, <1>4, FlightAssumption
  <1> QED BY <1>1, <1>3, <1>4, <1>5, <1>6 DEF InFlight

(* A copy of a named write is named.                                       *)
LEMMA CopiesNamed ==
  ASSUME SchedulerTypes,
         \A k \in DOMAIN pending' : \E j \in DOMAIN pending : Copy(pending'[k], pending[j])
  PROVE  \A k \in DOMAIN pending' : Named(pending'[k])
  BY DEF SchedulerTypes, Copy, Named

(* Every step preserves the types.                                         *)
LEMMA TypesStep ==
  ASSUME SchedulerTypes, [Next]_vars
  PROVE  SchedulerTypes'
  <1>1. /\ pending \in Seq(Write) /\ \A i \in DOMAIN pending : Named(pending[i])
        /\ flying \in [Record -> Flight \cup {None}]
        /\ \A r \in Record : ~ Idle(r) => Named(flying[r])
        /\ windowCount \in Int /\ floorCount \in Int
        /\ driver \in DriverState /\ clock \in Nat
        /\ gone \in [Record -> SUBSET Id]
    BY DEF SchedulerTypes
  <1>2. CASE Submit
    <2>1. SubmitFrame /\ SubmitQueues
      BY <1>2, SubmitStep
    <2>2. pending' \in Seq(Write) /\ \A k \in DOMAIN pending' : Named(pending'[k])
      <3>1. CASE pending' = pending
        BY <1>1, <3>1
      <3>2. ASSUME NEW w \in Write, Named(w), pending' \in Seq(Write), QueuedBesides(w)
            PROVE  pending' \in Seq(Write) /\ \A k \in DOMAIN pending' : Named(pending'[k])
        BY <1>1, <3>2 DEF QueuedBesides, Copy, Named
      <3> QED BY <2>1, <3>1, <3>2 DEF SubmitQueues
    <2> QED BY <1>1, <2>1, <2>2 DEF SchedulerTypes, SubmitFrame, DriverState, Idle
  <1>3. ASSUME NEW i, NEW lane, Dispatched(i, lane) PROVE SchedulerTypes'
    <2> DEFINE r == pending[i].rec
    <2>1. /\ pending' \in Seq(Write) /\ \A k \in DOMAIN pending' : Named(pending'[k])
          /\ UNCHANGED <<driver, clock, gone>>
      BY <1>3, CopiesNamed DEF Dispatched
    <2>2. windowCount' \in Int /\ floorCount' \in Int
      BY <1>1, <1>3 DEF Dispatched
    <2>3. flying' \in [Record -> Flight \cup {None}]
      BY <1>3, DispatchedStep
    <2>4. \A x \in Record : flying'[x] # None => Named(flying'[x])
      <3>1. \A x \in Record : x # r => flying'[x] = flying[x]
        BY <1>3, DispatchedStep
      <3>2. Named(flying'[r])
        <4>1. flying'[r].id = pending[i].id /\ flying'[r].kind = pending[i].kind
          BY <1>3, DispatchedStep
        <4> QED BY <1>3, <4>1 DEF Dispatched, Named
      <3> QED BY <1>1, <3>1, <3>2 DEF Idle
    <2> QED BY <1>1, <2>1, <2>2, <2>3, <2>4 DEF SchedulerTypes, Idle
  <1>4. ASSUME NEW r \in Record, NEW stage \in Stage, Moved(r, stage),
               gone' \in [Record -> SUBSET Id]
        PROVE  SchedulerTypes'
    <2>1. flying' \in [Record -> Flight \cup {None}]
      BY <1>4, MovedStep
    <2>2. \A x \in Record : flying'[x] # None => Named(flying'[x])
      <3>1. \A x \in Record : x # r => flying'[x] = flying[x]
        BY <1>4, MovedStep
      <3>2. /\ flying[r] # None
            /\ flying'[r].id = flying[r].id /\ flying'[r].kind = flying[r].kind
        BY <1>4, MovedStep
      <3> QED BY <1>1, <3>1, <3>2 DEF Idle, Named
    <2>3. UNCHANGED <<pending, windowCount, floorCount, driver, clock>>
      BY <1>4 DEF Moved
    <2> QED BY <1>1, <1>4, <2>1, <2>2, <2>3 DEF SchedulerTypes, Idle
  <1>5. ASSUME NEW r \in Record, Acquire(r) PROVE SchedulerTypes'
    BY <1>1, <1>4, <1>5, TaskSteps DEF Stage
  <1>6. ASSUME NEW r \in Record, Finish(r) PROVE SchedulerTypes'
    <2>1. gone' \in [Record -> SUBSET Id]
      <3>1. flying[r].kind = "tombstone" => flying[r].id \in Id
        BY <1>1, <1>6 DEF Finish, Named
      <3> QED BY <1>1, <1>6, <3>1 DEF Finish
    <2> QED BY <1>4, <1>6, <2>1, TaskSteps DEF Stage
  <1>7. ASSUME NEW r \in Record, OnDone(r) PROVE SchedulerTypes'
    <2>1. /\ flying' = [flying EXCEPT ![r] = None]
          /\ UNCHANGED <<pending, clock, gone>>
          /\ driver' \in {"dispatch", "drain"}
      BY <1>7 DEF OnDone
    <2>2. windowCount' \in Int /\ floorCount' \in Int
      BY <1>1, <1>7 DEF OnDone
    <2> QED BY <1>1, <2>1, <2>2 DEF SchedulerTypes, Idle, DriverState
  <1>8. ASSUME Quiet PROVE SchedulerTypes'
    BY <1>1, <1>8, CopiesNamed DEF Quiet, SchedulerTypes, Idle
  <1>9. CASE Driver
    BY <1>3, <1>8, <1>9, DispatchSteps, QuietSteps DEF Driver
  <1> QED BY <1>2, <1>5, <1>6, <1>7, <1>8, <1>9, QuietSteps DEF Next, Task

LEMMA TypesInit == Init => SchedulerTypes
  BY SchedulerAssumption DEF Init, SchedulerTypes, DriverState, Idle

(* The variables of the scheduler keep their types.                        *)
THEOREM SchedulerTyped == Spec => []SchedulerTypes
  BY TypesInit, TypesStep, PTL DEF Spec

-----------------------------------------------------------------------------
(* Lanes.                                                                  *)

(* The records a lane has in flight.                                       *)
LEMMA LaneIsFinite ==
  ASSUME NEW lane, NEW stages
  PROVE  IsFiniteSet(InLane(lane, stages)) /\ Cardinality(InLane(lane, stages)) \in Nat
  <1>1. InLane(lane, stages) \in SUBSET Record
    BY DEF InLane
  <1>2. IsFiniteSet(InLane(lane, stages))
    BY <1>1, SchedulerAssumption, FS_Subset
  <1> QED BY <1>2, FS_CardinalityType

(* The lesser of two numbers.                                              *)
LEMMA MinOfTwo ==
  ASSUME NEW a \in Int, NEW b \in Int
  PROVE  Min({a, b}) = IF a <= b THEN a ELSE b
  <1> DEFINE m == IF a <= b THEN a ELSE b
  <1>1. m \in {a, b} /\ \A y \in {a, b} : m <= y
    OBVIOUS
  <1>2. \A x \in {a, b} : (\A y \in {a, b} : x <= y) => x = m
    OBVIOUS
  <1> QED BY <1>1, <1>2 DEF Min

LEMMA WindowIsCapped ==
  ASSUME SchedulerTypes
  PROVE  /\ Cardinality(NonchatHeads) \in Nat
         /\ (Cardinality(NonchatHeads) = 0) <=> (NonchatHeads = {})
         /\ Window = IF Cardinality(NonchatHeads) + windowCount <= NonchatCap
                       THEN Cardinality(NonchatHeads) + windowCount ELSE NonchatCap
         /\ NonchatCap \in Nat \ {0} /\ NonchatCap <= Permits["window"]
         /\ Permits["window"] \in Nat /\ 1 <= Permits["floor"] /\ Permits["floor"] \in Nat
  <1>1. DOMAIN pending = 1 .. Len(pending) /\ Len(pending) \in Nat
    BY DEF SchedulerTypes
  <1>2. NonchatHeads \in SUBSET (1 .. Len(pending))
    BY <1>1, PicksAreHeads
  <1>3. IsFiniteSet(1 .. Len(pending))
    BY <1>1, FS_Interval
  <1>4. IsFiniteSet(NonchatHeads)
    BY <1>2, <1>3, FS_Subset
  <1>5. /\ Cardinality(NonchatHeads) \in Nat
        /\ (Cardinality(NonchatHeads) = 0) <=> (NonchatHeads = {})
    BY <1>4, FS_CardinalityType, FS_EmptySet
  <1>6. /\ Permits["window"] \in Nat \ {0} /\ Permits["floor"] \in Nat \ {0}
        /\ NonchatCap \in 1 .. Permits["window"]
    BY SchedulerAssumption DEF Lane
  <1>7. windowCount \in Int
    BY DEF SchedulerTypes
  <1>8. Window = IF Cardinality(NonchatHeads) + windowCount <= NonchatCap
                   THEN Cardinality(NonchatHeads) + windowCount ELSE NonchatCap
    <2>1. Cardinality(NonchatHeads) + windowCount \in Int /\ NonchatCap \in Int
      BY <1>5, <1>6, <1>7
    <2> QED BY <2>1, MinOfTwo DEF Window
  <1> QED BY <1>5, <1>6, <1>8

(* A dispatch adds a record to its lane.                                   *)
LEMMA DispatchedLanes ==
  ASSUME SchedulerTypes, LaneInv, NEW i, NEW lane, Dispatched(i, lane)
  PROVE  /\ windowCount' = Cardinality(InLane("window", Stage)')
         /\ floorCount' = Cardinality(InLane("floor", Stage)')
  <1> DEFINE r == pending[i].rec
  <1>1. /\ r \in Record /\ flying[r] = None
        /\ \A x \in Record : x # r => flying'[x] = flying[x]
        /\ flying'[r] # None /\ flying'[r].lane = lane /\ flying'[r].stage = "waiting"
    BY DispatchedStep
  <1>2. lane \in Lane
    BY DEF Dispatched
  <1> HIDE DEF r
  <1>3. ASSUME NEW l \in Lane
        PROVE  /\ r \notin InLane(l, Stage)
               /\ InLane(l, Stage)' = IF l = lane THEN InLane(l, Stage) \cup {r} ELSE InLane(l, Stage)
    BY <1>1 DEF InLane, Idle, Stage
  <1>4. ASSUME NEW l \in Lane
        PROVE  Cardinality(InLane(l, Stage)') =
                 Cardinality(InLane(l, Stage)) + IF l = lane THEN 1 ELSE 0
    <2>1. IsFiniteSet(InLane(l, Stage)) /\ Cardinality(InLane(l, Stage)) \in Nat
      BY LaneIsFinite
    <2>2. CASE l = lane
      BY <1>3, <2>1, <2>2, FS_AddElement
    <2>3. CASE l # lane
      BY <1>3, <2>1, <2>3
    <2> QED BY <2>2, <2>3
  <1>5. "window" \in Lane /\ "floor" \in Lane
    BY DEF Lane
  <1>6. /\ windowCount = Cardinality(InLane("window", Stage))
        /\ floorCount = Cardinality(InLane("floor", Stage))
        /\ windowCount' = windowCount + IF lane = "window" THEN 1 ELSE 0
        /\ floorCount' = floorCount + IF lane = "floor" THEN 1 ELSE 0
    BY DEF LaneInv, Dispatched
  <1> QED BY <1>4, <1>5, <1>6

(* Where nothing starts or ends, no lane changes.                          *)
LEMMA LanesUnchanged ==
  ASSUME LaneInv, \A l \in Lane : InLane(l, Stage)' = InLane(l, Stage),
         UNCHANGED <<windowCount, floorCount>>, Running' => Running
  PROVE  LaneInv'
  <1>1. "window" \in Lane /\ "floor" \in Lane
    BY DEF Lane
  <1> QED BY <1>1 DEF LaneInv

(* Every step keeps the lanes counted, and capped while it serves.         *)
LEMMA LanesStep ==
  ASSUME SchedulerTypes, LaneInv, [Next]_vars
  PROVE  LaneInv'
  <1>1. /\ windowCount \in Int /\ floorCount \in Int
        /\ windowCount = Cardinality(InLane("window", Stage))
        /\ floorCount = Cardinality(InLane("floor", Stage))
        /\ Running => windowCount <= NonchatCap /\ floorCount <= 1
    BY DEF SchedulerTypes, LaneInv
  <1>2. windowCount >= 0 /\ floorCount >= 0
    BY <1>1, LaneIsFinite
  <1>3. CASE Submit
    <2>1. SubmitFrame /\ driver = "select"
      BY <1>3, SubmitStep
    <2>2. \A l \in Lane : InLane(l, Stage)' = InLane(l, Stage)
      BY <2>1 DEF SubmitFrame, InLane, Idle
    <2> QED BY <2>1, <2>2, LanesUnchanged DEF SubmitFrame, Running
  <1>4. ASSUME Quiet PROVE LaneInv'
    <2>1. \A l \in Lane : InLane(l, Stage)' = InLane(l, Stage)
      BY <1>4 DEF Quiet, InLane, Idle
    <2> QED BY <1>4, <2>1, LanesUnchanged DEF Quiet
  <1>5. ASSUME NEW r \in Record, NEW stage \in Stage, Moved(r, stage)
        PROVE  LaneInv'
    <2>1. \A l \in Lane : InLane(l, Stage)' = InLane(l, Stage)
      <3>1. /\ flying[r] # None /\ \A x \in Record : x # r => flying'[x] = flying[x]
            /\ flying'[r] # None
            /\ flying'[r].lane = flying[r].lane /\ flying'[r].stage = stage
            /\ flying[r] \in Flight
        BY <1>5, MovedStep
      <3>2. flying[r].stage \in Stage
        BY <3>1, Fields
      <3> QED BY <3>1, <3>2 DEF InLane, Idle
    <2> QED BY <1>5, <2>1, LanesUnchanged DEF Moved, Running
  <1>6. ASSUME NEW r \in Record, OnDone(r) PROVE LaneInv'
    <2>1. /\ flying \in [Record -> Flight \cup {None}] /\ flying[r] # None
          /\ flying' = [flying EXCEPT ![r] = None]
          /\ windowCount' = windowCount - IF flying[r].lane = "window" THEN 1 ELSE 0
          /\ floorCount' = floorCount - IF flying[r].lane = "floor" THEN 1 ELSE 0
          /\ Running' => Running
      BY <1>6 DEF OnDone, SchedulerTypes, Idle, Running
    <2>2. flying[r].stage \in Stage
      BY <2>1, Fields
    <2>3. ASSUME NEW l \in Lane
          PROVE  /\ InLane(l, Stage)' = InLane(l, Stage) \ {r}
                 /\ r \in InLane(l, Stage) <=> flying[r].lane = l
      BY <2>1, <2>2 DEF InLane, Idle
    <2>4. ASSUME NEW l \in Lane
          PROVE  Cardinality(InLane(l, Stage)') =
                   Cardinality(InLane(l, Stage)) - IF flying[r].lane = l THEN 1 ELSE 0
      <3>1. IsFiniteSet(InLane(l, Stage)) /\ Cardinality(InLane(l, Stage)) \in Nat
        BY LaneIsFinite
      <3>2. Cardinality(InLane(l, Stage) \ {r}) =
              IF r \in InLane(l, Stage) THEN Cardinality(InLane(l, Stage)) - 1
                                        ELSE Cardinality(InLane(l, Stage))
        BY <3>1, FS_RemoveElement
      <3>3. CASE flying[r].lane = l
        BY <2>3, <3>1, <3>2, <3>3
      <3>4. CASE flying[r].lane # l
        BY <2>3, <3>1, <3>2, <3>4
      <3> QED BY <3>3, <3>4
    <2>5. "window" \in Lane /\ "floor" \in Lane
      BY DEF Lane
    <2>6. /\ windowCount' = Cardinality(InLane("window", Stage)')
          /\ floorCount' = Cardinality(InLane("floor", Stage)')
      BY <1>1, <2>1, <2>4, <2>5
    <2>7. windowCount' <= windowCount /\ floorCount' <= floorCount
      BY <1>1, <2>1
    <2>8. NonchatCap \in Int
      BY WindowIsCapped
    <2>9. Running' => windowCount' <= NonchatCap /\ floorCount' <= 1
      BY <1>1, <2>1, <2>7, <2>8
    <2> QED BY <2>6, <2>9 DEF LaneInv
  <1>7. ASSUME NEW i, NEW lane, Dispatched(i, lane),
               lane = "window" => windowCount < Window \/ driver = "drain",
               lane = "floor" => floorCount < 1 \/ driver = "drain"
        PROVE  LaneInv'
    <2>1. /\ windowCount' = windowCount + IF lane = "window" THEN 1 ELSE 0
          /\ floorCount' = floorCount + IF lane = "floor" THEN 1 ELSE 0
          /\ driver' = driver
      BY <1>7 DEF Dispatched
    <2>2. Running' => Running /\ driver # "drain"
      BY <2>1 DEF Running
    <2>3. windowCount < Window => windowCount + 1 <= NonchatCap
      BY <1>1, WindowIsCapped
    <2>4. Running' => windowCount' <= NonchatCap /\ floorCount' <= 1
      BY <1>1, <1>7, <2>1, <2>2, <2>3
    <2>5. /\ windowCount' = Cardinality(InLane("window", Stage)')
          /\ floorCount' = Cardinality(InLane("floor", Stage)')
      BY <1>7, DispatchedLanes
    <2> QED BY <2>4, <2>5 DEF LaneInv
  <1>8. CASE Driver
    <2>1. CASE DispatchFloor
      BY <1>7, <2>1, DispatchSteps
    <2>2. CASE DispatchChat
      BY <1>7, <2>2, DispatchSteps
    <2>3. CASE DispatchWindow
      BY <1>7, <2>3, DispatchSteps
    <2>4. CASE Drain
      BY <1>7, <2>4, DispatchSteps
    <2>5. CASE DispatchEnd \/ Arm \/ DrainEnd
      BY <1>4, <2>5, QuietSteps
    <2> QED BY <1>8, <2>1, <2>2, <2>3, <2>4, <2>5 DEF Driver
  <1>9. ASSUME NEW r \in Record, Task(r) PROVE LaneInv'
    BY <1>5, <1>6, <1>9, TaskSteps DEF Task, Stage
  <1> QED BY <1>3, <1>4, <1>8, <1>9, QuietSteps DEF Next

LEMMA LanesInit == Init => LaneInv
  <1> HAVE Init
  <1>1. InLane("window", Stage) = {} /\ InLane("floor", Stage) = {}
    BY DEF Init, InLane, Idle
  <1>2. windowCount = 0 /\ floorCount = 0 /\ NonchatCap >= 0
    BY SchedulerAssumption DEF Init, Lane
  <1> QED BY <1>1, <1>2, FS_EmptySet DEF LaneInv

(* A write of a counted lane that waits finds a permit in its pool: those  *)
(* that write are fewer than the lane has in flight, which its cap bounds. *)
LEMMA LanesFitPools ==
  ASSUME SchedulerTypes, LaneInv
  PROVE  LanesAccounted
  <1>1. ASSUME NEW l \in {"window", "floor"}, NEW r \in InLane(l, {"waiting"}), Running
        PROVE  Cardinality(InLane(flying[r].lane, {"writing"})) < Permits[flying[r].lane]
    <2>1. flying[r].lane = l /\ r \in InLane(l, Stage) /\ r \notin InLane(l, {"writing"})
      BY DEF InLane, Stage
    <2>2. InLane(l, {"writing"}) \in SUBSET (InLane(l, Stage) \ {r})
      BY <2>1 DEF InLane, Stage
    <2>3. /\ IsFiniteSet(InLane(l, Stage) \ {r})
          /\ Cardinality(InLane(l, Stage) \ {r}) = Cardinality(InLane(l, Stage)) - 1
      BY <2>1, LaneIsFinite, FS_RemoveElement
    <2>4. Cardinality(InLane(l, {"writing"})) <= Cardinality(InLane(l, Stage) \ {r})
      BY <2>2, <2>3, FS_Subset
    <2>5. Cardinality(InLane(l, {"writing"})) \in Nat /\ Cardinality(InLane(l, Stage)) \in Nat
      BY LaneIsFinite
    <2>6. Cardinality(InLane(l, Stage)) <= Permits[l] /\ Permits[l] \in Nat
      <3>1. CASE l = "window"
        BY <1>1, <2>5, <3>1, WindowIsCapped DEF LaneInv
      <3>2. CASE l = "floor"
        BY <1>1, <2>5, <3>2, WindowIsCapped DEF LaneInv
      <3> QED BY <3>1, <3>2
    <2> QED BY <2>1, <2>3, <2>4, <2>5, <2>6
  <1>2. driver \in {"dispatch", "arm", "select"} <=> Running
    BY DEF Running
  <1> QED BY <1>1, <1>2 DEF LanesAccounted, LaneInv

(* The two lane counters are exactly the writes in flight in those lanes,  *)
(* and outside a shutdown none of them waits for a permit of its pool.     *)
THEOREM LanesStayAccounted == Spec => []LanesAccounted
  <1>1. Init => SchedulerTypes /\ LaneInv
    BY TypesInit, LanesInit
  <1>2. (SchedulerTypes /\ LaneInv) /\ [Next]_vars => (SchedulerTypes /\ LaneInv)'
    BY TypesStep, LanesStep
  <1>3. SchedulerTypes /\ LaneInv => LanesAccounted
    BY LanesFitPools
  <1> QED BY <1>1, <1>2, <1>3, PTL DEF Spec

-----------------------------------------------------------------------------
(* Rest.                                                                   *)

(* A lane that has heads to choose from picks one.                         *)
LEMMA ChatPicksOne ==
  ASSUME SchedulerTypes, ChatHeads # {}
  PROVE  ChatPicks # {}
  <1>1. ChatHeads \in SUBSET Nat
    BY PicksAreHeads
  <1>2. \E n \in ChatHeads : \A m \in ChatHeads : n <= m
    BY <1>1, LeastNat
  <1> QED BY <1>2 DEF ChatPicks

LEMMA WindowPicksOne ==
  ASSUME SchedulerTypes, NonchatHeads # {}
  PROVE  WindowPicks # {}
  <1> DEFINE rank(i) == EffectiveRank(pending[i])
             ranks == {rank(i) : i \in NonchatHeads}
  <1>1. NonchatHeads \in SUBSET Nat /\ \A i \in NonchatHeads : pending[i] \in Write
    BY PicksAreHeads DEF SchedulerTypes
  <1>2. \A i \in NonchatHeads : rank(i) \in Nat
    <2>1. \A i \in NonchatHeads : pending[i].class \in 1 .. 5
      BY <1>1, Fields DEF Class, Chat, Republish
    <2> QED BY <2>1 DEF EffectiveRank, Chat
  <1>3. ranks \in SUBSET Nat /\ ranks # {}
    BY <1>2
  <1>4. PICK k \in ranks : \A m \in ranks : k <= m
    <2> HIDE DEF ranks
    <2> QED BY <1>3, LeastNat
  <1> DEFINE best == {i \in NonchatHeads : rank(i) = k}
  <1>5. best \in SUBSET Nat /\ best # {}
    BY <1>1
  <1>6. PICK i \in best : \A j \in best : i <= j
    <2> HIDE DEF best
    <2> QED BY <1>5, LeastNat
  <1>7. ASSUME NEW j \in NonchatHeads
        PROVE  rank(i) < rank(j) \/ (rank(i) = rank(j) /\ i <= j)
    <2>1. rank(i) = k /\ k <= rank(j)
      BY <1>4
    <2>2. CASE rank(j) = k
      BY <1>6, <2>1, <2>2
    <2>3. CASE rank(j) # k
      BY <1>2, <2>1, <2>3
    <2> QED BY <2>2, <2>3
  <1>8. i \in WindowPicks
    BY <1>7 DEF WindowPicks
  <1> QED BY <1>8

(* The heads are a matter of the records and classes queued and of which   *)
(* records are idle.                                                       *)
LEMMA HeadsUnchanged ==
  ASSUME DOMAIN pending' = DOMAIN pending,
         \A i \in DOMAIN pending :
           /\ pending[i].rec \in Record
           /\ pending'[i].rec = pending[i].rec /\ pending'[i].class = pending[i].class,
         \A r \in Record : (flying'[r] = None) <=> (flying[r] = None),
         DOMAIN pending \in SUBSET Nat, \A i \in DOMAIN pending : 1 .. (i - 1) \subseteq DOMAIN pending
  PROVE  ChatHeads' = ChatHeads /\ NonchatHeads' = NonchatHeads
  <1>1. Heads' = Heads
    <2>1. ASSUME NEW i \in DOMAIN pending PROVE i \in Heads' <=> i \in Heads
      <3>1. \A j \in 1 .. (i - 1) : pending'[j].rec = pending[j].rec
        OBVIOUS
      <3>2. i \in Heads' <=> /\ flying'[pending'[i].rec] = None
                             /\ \A j \in 1 .. (i - 1) : pending'[j].rec # pending'[i].rec
        BY DEF Heads, Idle
      <3>3. i \in Heads <=> /\ flying[pending[i].rec] = None
                            /\ \A j \in 1 .. (i - 1) : pending[j].rec # pending[i].rec
        BY DEF Heads, Idle
      <3> QED BY <3>1, <3>2, <3>3
    <2>2. Heads \subseteq DOMAIN pending /\ Heads' \subseteq DOMAIN pending
      BY DEF Heads
    <2> QED BY <2>1, <2>2
  <1>2. Heads \subseteq DOMAIN pending
    BY DEF Heads
  <1>3. ChatHeads' = ChatHeads
    BY <1>1, <1>2 DEF ChatHeads
  <1> QED BY <1>1, <1>3 DEF NonchatHeads

(* The loop ends only when nothing is left for any lane.                   *)
LEMMA EndsWithReason ==
  ASSUME SchedulerTypes, LaneInv, DispatchEnd
  PROVE  ChatHeads = {} /\ (NonchatHeads # {} => windowCount = NonchatCap)
  <1>1. ~ ChatReady /\ ~ WindowReady /\ Running
    BY DEF DispatchEnd, Running
  <1>2. ChatHeads = {}
    BY <1>1, ChatPicksOne DEF ChatReady
  <1>3. ASSUME NonchatHeads # {} PROVE windowCount = NonchatCap
    <2>1. ~ windowCount < Window
      BY <1>1, <1>3, WindowPicksOne DEF WindowReady
    <2>2. windowCount \in Int /\ windowCount <= NonchatCap
      BY <1>1 DEF SchedulerTypes, LaneInv
    <2> QED BY <1>3, <2>1, <2>2, WindowIsCapped
  <1> QED BY <1>2, <1>3

LEMMA RestStep ==
  ASSUME SchedulerTypes, LaneInv, RestsWithReason, [Next]_vars
  PROVE  RestsWithReason'
  <1> DEFINE Resting == driver \in {"arm", "select"}
  <1>1. /\ DOMAIN pending = 1 .. Len(pending) /\ Len(pending) \in Nat
        /\ \A i \in DOMAIN pending : pending[i].rec \in Record /\ pending[i] \in Write
    BY Fields DEF SchedulerTypes
  <1>2. DOMAIN pending \in SUBSET Nat /\ \A i \in DOMAIN pending : 1 .. (i - 1) \subseteq DOMAIN pending
    BY <1>1
  <1>3. ASSUME Resting, ChatHeads' = ChatHeads, NonchatHeads' = NonchatHeads,
               windowCount' = windowCount
        PROVE  RestsWithReason'
    BY <1>3 DEF RestsWithReason
  <1>4. ASSUME ~ Resting' PROVE RestsWithReason'
    BY <1>4 DEF RestsWithReason
  <1>5. ASSUME UNCHANGED <<pending, flying>>
        PROVE  ChatHeads' = ChatHeads /\ NonchatHeads' = NonchatHeads
    BY <1>5 DEF ChatHeads, NonchatHeads, Heads, Idle
  <1>6. CASE Submit
    BY <1>4, <1>6, SubmitStep DEF SubmitFrame
  <1>7. CASE Driver
    <2>1. CASE DispatchFloor \/ DispatchChat \/ DispatchWindow \/ Drain
      <3>1. driver \in {"dispatch", "drain"} /\ driver' = driver
        BY <2>1 DEF DispatchFloor, DispatchChat, DispatchWindow, Drain, Dispatch
      <3> QED BY <1>4, <3>1
    <2>2. CASE DispatchEnd
      <3>1. UNCHANGED <<pending, flying, windowCount>>
        BY <2>2 DEF DispatchEnd
      <3>2. ChatHeads' = ChatHeads /\ NonchatHeads' = NonchatHeads /\ windowCount' = windowCount
        BY <1>5, <3>1
      <3> QED BY <2>2, <3>2, EndsWithReason DEF RestsWithReason
    <2>3. CASE Arm
      BY <1>3, <1>5, <2>3 DEF Arm
    <2>4. CASE DrainEnd
      BY <1>4, <2>4 DEF DrainEnd
    <2> QED BY <1>7, <2>1, <2>2, <2>3, <2>4 DEF Driver
  <1>8. CASE Shutdown \/ BudgetSpent
    BY <1>4, <1>8 DEF Shutdown, BudgetSpent
  <1>9. CASE DeadlinePasses
    BY <1>3, <1>5, <1>9 DEF DeadlinePasses
  <1>10. ASSUME NEW r \in Record, Age(r) PROVE RestsWithReason'
    <2>1. PICK i \in DOMAIN pending : pending' = [pending EXCEPT ![i].level = @ + 1]
      BY <1>10 DEF Age
    <2>2. Resting /\ UNCHANGED <<flying, windowCount>>
      BY <1>10 DEF Age
    <2>3. DOMAIN pending' = DOMAIN pending
      BY <2>1
    <2>4. \A k \in DOMAIN pending :
            pending'[k].rec = pending[k].rec /\ pending'[k].class = pending[k].class
      <3>1. \A w \in Write : \A l : [w EXCEPT !.level = l].rec = w.rec /\ [w EXCEPT !.level = l].class = w.class
        BY DEF Write
      <3>2. pending' = [pending EXCEPT ![i] = [pending[i] EXCEPT !.level = pending[i].level + 1]]
        BY <2>1
      <3> QED BY <1>1, <3>1, <3>2
    <2>5. ChatHeads' = ChatHeads /\ NonchatHeads' = NonchatHeads
      BY <1>1, <1>2, <2>2, <2>3, <2>4, HeadsUnchanged
    <2> QED BY <1>3, <2>2, <2>5
  <1>11. ASSUME NEW r \in Record, NEW stage \in Stage, Moved(r, stage) PROVE RestsWithReason'
    <2>1. UNCHANGED <<pending, windowCount, driver>>
      BY <1>11 DEF Moved
    <2>2. \A x \in Record : (flying'[x] = None) <=> (flying[x] = None)
      BY <1>11, MovedStep
    <2>3. ChatHeads' = ChatHeads /\ NonchatHeads' = NonchatHeads
      BY <1>1, <1>2, <2>1, <2>2, HeadsUnchanged
    <2> QED BY <1>3, <1>4, <2>1, <2>3
  <1>12. ASSUME NEW r \in Record, OnDone(r) PROVE RestsWithReason'
    BY <1>4, <1>12 DEF OnDone
  <1>13. ASSUME NEW r \in Record, Task(r) PROVE RestsWithReason'
    BY <1>11, <1>12, <1>13, TaskSteps DEF Task, Stage
  <1>14. CASE UNCHANGED vars
    BY <1>3, <1>4, <1>5, <1>14 DEF vars
  <1> QED BY <1>6, <1>7, <1>8, <1>9, <1>10, <1>13, <1>14 DEF Next

LEMMA RestInit == Init => RestsWithReason
  BY DEF Init, RestsWithReason, ChatHeads, NonchatHeads, Heads

(* A resting driver has left no chat head, and another head only while the *)
(* window is full.                                                         *)
THEOREM AlwaysRestsWithReason == Spec => []RestsWithReason
  <1> DEFINE I == SchedulerTypes /\ LaneInv /\ RestsWithReason
  <1>1. Init => I
    BY TypesInit, LanesInit, RestInit
  <1>2. I /\ [Next]_vars => I'
    BY TypesStep, LanesStep, RestStep
  <1> QED BY <1>1, <1>2, PTL DEF Spec

-----------------------------------------------------------------------------
(* Order.                                                                  *)

(* Where every queued write was queued, and every withdrawal in flight was *)
(* queued or in flight, no id comes to be withdrawn.                       *)
LEMMA CopiesDominate ==
  ASSUME \A k \in DOMAIN pending' : \E j \in DOMAIN pending : Copy(pending'[k], pending[j]),
         \A rec \in Record, id \in Id :
           flying'[rec] # None /\ flying'[rec].kind = "tombstone" /\ flying'[rec].id = id
             => Dominated(rec, id),
         WithdrawalsDominate
  PROVE  WithdrawalsDominate'
  <1>1. \A w, v, rec, id : Copy(w, v) =>
          /\ SameId(w, rec, id) <=> SameId(v, rec, id)
          /\ w.kind = v.kind
    BY DEF Copy, SameId
  <1>2. ASSUME NEW rec \in Record, NEW id \in Id, Dominated(rec, id)'
        PROVE  Dominated(rec, id)
    <2>1. CASE \E k \in DOMAIN pending' : SameId(pending'[k], rec, id) /\ pending'[k].kind = "tombstone"
      <3>1. PICK k \in DOMAIN pending' : SameId(pending'[k], rec, id) /\ pending'[k].kind = "tombstone"
        BY <2>1
      <3>2. PICK j \in DOMAIN pending : Copy(pending'[k], pending[j])
        OBVIOUS
      <3>3. SameId(pending[j], rec, id) /\ pending[j].kind = "tombstone"
        BY <1>1, <3>1, <3>2
      <3> QED BY <3>3 DEF Dominated
    <2>2. CASE flying'[rec] # None /\ flying'[rec].kind = "tombstone" /\ flying'[rec].id = id
      BY <2>2
    <2>3. \/ \E k \in DOMAIN pending' : SameId(pending'[k], rec, id) /\ pending'[k].kind = "tombstone"
          \/ flying'[rec] # None /\ flying'[rec].kind = "tombstone" /\ flying'[rec].id = id
      BY <1>2 DEF Dominated, Idle, SameId
    <2> QED BY <2>1, <2>2, <2>3
  <1>3. ASSUME NEW rec \in Record, NEW id \in Id, Dominated(rec, id)',
               NEW k \in DOMAIN pending', Refresh(pending'[k], rec, id)
        PROVE  FALSE
    <2>1. PICK j \in DOMAIN pending : Copy(pending'[k], pending[j])
      OBVIOUS
    <2>2. Refresh(pending[j], rec, id)
      BY <1>1, <1>3, <2>1 DEF Refresh
    <2> QED BY <1>2, <1>3, <2>2 DEF WithdrawalsDominate
  <1> QED BY <1>3 DEF WithdrawalsDominate, Refresh, SameId

(* A copy of a write that vouches rightly, or is rightly informed, does.   *)
LEMMA CopiesVouch ==
  ASSUME \A k \in DOMAIN pending' : \E j \in DOMAIN pending : Copy(pending'[k], pending[j]),
         VouchersAreChat
  PROVE  VouchersAreChat'
  BY DEF Copy, VouchersAreChat

LEMMA CopiesInformed ==
  ASSUME \A k \in DOMAIN pending' : \E j \in DOMAIN pending : Copy(pending'[k], pending[j]),
         NEW rec, NEW id,
         \A i \in DOMAIN pending : Refresh(pending[i], rec, id) => pending[i].informed
  PROVE  \A i \in DOMAIN pending' : Refresh(pending'[i], rec, id) => pending'[i].informed
  BY DEF Copy, Refresh, SameId

(* A submission: what it queues is not withdrawn, or withdraws the rest.   *)
LEMMA OrderSubmit ==
  ASSUME SchedulerTypes, QueueInv, Submit
  PROVE  QueueInv'
  <1>1. SubmitFrame /\ SubmitQueues
    BY SubmitStep
  <1>2. UNCHANGED <<flying, gone>>
    BY <1>1 DEF SubmitFrame
  <1>3. CASE pending' = pending
    BY <1>2, <1>3 DEF QueueInv, VouchersAreChat, WithdrawalsDominate, RefreshesInformed,
                      Refresh, SameId, Dominated, Idle
  <1>4. ASSUME NEW w \in Write, QueuedBesides(w)
        PROVE  QueueInv'
    <2>1. /\ \A k \in DOMAIN pending' :
               \/ Copy(pending'[k], w)
               \/ \E j \in DOMAIN pending :
                    /\ Copy(pending'[k], pending[j])
                    /\ w.kind # "ring" => ~ SameId(pending[j], w.rec, w.id)
          /\ w.kind = "current" =>
               ~ Dominated(w.rec, w.id) /\ (w.informed <=> w.id \in gone[w.rec])
          /\ w.vouches => w.class = Chat
      BY <1>4 DEF QueuedBesides, QueueInv
    <2>2. VouchersAreChat'
      BY <2>1 DEF Copy, VouchersAreChat, QueueInv
    <2>3. \A u, v, rec, id : Copy(u, v) =>
            /\ SameId(u, rec, id) <=> SameId(v, rec, id)
            /\ u.kind = v.kind /\ u.informed = v.informed
      BY DEF Copy, SameId
    <2>4. ASSUME NEW rec \in Record, NEW id \in Id, Dominated(rec, id)'
          PROVE  Dominated(rec, id) \/ (SameId(w, rec, id) /\ w.kind = "tombstone")
      <3>1. \/ \E k \in DOMAIN pending' : SameId(pending'[k], rec, id) /\ pending'[k].kind = "tombstone"
            \/ flying[rec] # None /\ flying[rec].kind = "tombstone" /\ flying[rec].id = id
        BY <1>2, <2>4 DEF Dominated, Idle, SameId
      <3>2. CASE flying[rec] # None /\ flying[rec].kind = "tombstone" /\ flying[rec].id = id
        BY <3>2 DEF Dominated, Idle
      <3>3. ASSUME NEW k \in DOMAIN pending',
                   SameId(pending'[k], rec, id), pending'[k].kind = "tombstone"
            PROVE  Dominated(rec, id) \/ (SameId(w, rec, id) /\ w.kind = "tombstone")
        <4>1. CASE Copy(pending'[k], w)
          BY <2>3, <3>3, <4>1
        <4>2. ASSUME NEW j \in DOMAIN pending, Copy(pending'[k], pending[j])
              PROVE  Dominated(rec, id)
          BY <2>3, <3>3, <4>2 DEF Dominated
        <4> QED BY <2>1, <4>1, <4>2
      <3> QED BY <3>1, <3>2, <3>3
    <2>5. ASSUME NEW rec \in Record, NEW id \in Id, Dominated(rec, id)',
                 NEW k \in DOMAIN pending', Refresh(pending'[k], rec, id)
          PROVE  FALSE
      <3>1. CASE Copy(pending'[k], w)
        <4>1. SameId(w, rec, id) /\ w.kind = "current"
          BY <2>3, <2>5, <3>1 DEF Refresh
        <4>2. w.rec = rec /\ w.id = id
          BY <4>1 DEF SameId
        <4> QED BY <2>1, <2>4, <2>5, <4>1, <4>2
      <3>2. ASSUME NEW j \in DOMAIN pending, Copy(pending'[k], pending[j]),
                   w.kind # "ring" => ~ SameId(pending[j], w.rec, w.id)
            PROVE  FALSE
        <4>1. Refresh(pending[j], rec, id) /\ SameId(pending[j], rec, id)
          BY <2>3, <2>5, <3>2 DEF Refresh
        <4>2. ~ Dominated(rec, id)
          BY <4>1 DEF QueueInv, WithdrawalsDominate
        <4>3. SameId(w, rec, id) /\ w.kind = "tombstone"
          BY <2>4, <2>5, <4>2
        <4> QED BY <3>2, <4>1, <4>3 DEF SameId
      <3> QED BY <2>1, <3>1, <3>2
    <2>6. WithdrawalsDominate'
      BY <2>5 DEF WithdrawalsDominate, Refresh, SameId
    <2>7. ASSUME NEW rec \in Record, NEW id \in gone[rec], NEW k \in DOMAIN pending',
                 Refresh(pending'[k], rec, id)
          PROVE  pending'[k].informed
      <3>1. CASE Copy(pending'[k], w)
        <4>1. SameId(w, rec, id) /\ w.kind = "current" /\ pending'[k].informed = w.informed
          BY <2>3, <2>7, <3>1 DEF Refresh
        <4>2. w.rec = rec /\ w.id = id
          BY <4>1 DEF SameId
        <4> QED BY <2>1, <2>7, <4>1, <4>2
      <3>2. ASSUME NEW j \in DOMAIN pending, Copy(pending'[k], pending[j])
            PROVE  pending'[k].informed
        <4>1. Refresh(pending[j], rec, id) /\ pending'[k].informed = pending[j].informed
          BY <2>3, <2>7, <3>2 DEF Refresh
        <4> QED BY <2>7, <4>1 DEF QueueInv, RefreshesInformed
      <3> QED BY <2>1, <3>1, <3>2
    <2>8. RefreshesInformed'
      BY <1>2, <2>7 DEF RefreshesInformed, QueueInv, Refresh, SameId
    <2> QED BY <2>2, <2>6, <2>8 DEF QueueInv
  <1> QED BY <1>1, <1>3, <1>4 DEF SubmitQueues

(* A dispatch: the write in flight is as informed as it was in its queue.  *)
LEMMA OrderDispatch ==
  ASSUME SchedulerTypes, QueueInv, NEW i, NEW lane, Dispatched(i, lane)
  PROVE  QueueInv'
  <1> DEFINE r == pending[i].rec
  <1>1. /\ i \in DOMAIN pending /\ UNCHANGED gone
        /\ \A k \in DOMAIN pending' : \E j \in DOMAIN pending : Copy(pending'[k], pending[j])
    BY DEF Dispatched
  <1>2. /\ r \in Record
        /\ \A x \in Record : x # r => flying'[x] = flying[x]
        /\ flying'[r].id = pending[i].id /\ flying'[r].kind = pending[i].kind
        /\ flying'[r].informed = pending[i].informed
    BY DispatchedStep
  <1>3. ASSUME NEW rec \in Record, NEW id \in Id,
               flying'[rec] # None, flying'[rec].kind = "tombstone", flying'[rec].id = id
        PROVE  Dominated(rec, id)
    <2>1. CASE rec = r
      <3>1. SameId(pending[i], rec, id) /\ pending[i].kind = "tombstone"
        BY <1>2, <1>3, <2>1 DEF SameId
      <3> QED BY <1>1, <3>1 DEF Dominated
    <2>2. CASE rec # r
      BY <1>2, <1>3, <2>2 DEF Dominated, Idle
    <2> QED BY <2>1, <2>2
  <1>4. WithdrawalsDominate'
    BY <1>1, <1>3, CopiesDominate DEF QueueInv
  <1>5. VouchersAreChat'
    BY <1>1, CopiesVouch DEF QueueInv
  <1>6. ASSUME NEW rec \in Record, NEW id \in gone[rec]
        PROVE  /\ \A k \in DOMAIN pending' : Refresh(pending'[k], rec, id) => pending'[k].informed
               /\ flying'[rec] # None /\ flying'[rec].kind = "current" /\ flying'[rec].id = id
                    /\ flying'[rec].stage # "done" => flying'[rec].informed
    <2>1. /\ \A k \in DOMAIN pending : Refresh(pending[k], rec, id) => pending[k].informed
          /\ flying[rec] # None /\ flying[rec].kind = "current" /\ flying[rec].id = id
               /\ flying[rec].stage # "done" => flying[rec].informed
      BY DEF QueueInv, RefreshesInformed
    <2>2. \A k \in DOMAIN pending' : Refresh(pending'[k], rec, id) => pending'[k].informed
      BY <1>1, <2>1, CopiesInformed
    <2>3. CASE rec = r
      <3>1. pending[i].kind = "current" /\ pending[i].id = id => Refresh(pending[i], rec, id)
        BY <2>3 DEF Refresh, SameId
      <3> QED BY <1>1, <1>2, <2>1, <2>2, <2>3, <3>1
    <2>4. CASE rec # r
      BY <1>2, <2>1, <2>2, <2>4
    <2> QED BY <2>3, <2>4
  <1>7. RefreshesInformed'
    BY <1>1, <1>6 DEF RefreshesInformed, Refresh, SameId
  <1> QED BY <1>4, <1>5, <1>7 DEF QueueInv

(* A task that moves on, ends, or lands its write.                         *)
LEMMA OrderTask ==
  ASSUME SchedulerTypes, QueueInv, NEW r \in Record, Task(r)
  PROVE  QueueInv'
  <1>1. pending' = pending
    BY DEF Task, Acquire, Finish, OnDone
  <1>2. \A k \in DOMAIN pending' : \E j \in DOMAIN pending : Copy(pending'[k], pending[j])
    BY <1>1 DEF Copy
  <1>3. /\ \A x \in Record : x # r => flying'[x] = flying[x]
        /\ flying'[r] # None =>
             /\ flying[r] # None
             /\ flying'[r].id = flying[r].id /\ flying'[r].kind = flying[r].kind
             /\ flying'[r].informed = flying[r].informed
    <2>1. CASE OnDone(r)
      BY <2>1 DEF OnDone, SchedulerTypes
    <2>2. ASSUME NEW stage \in Stage, Moved(r, stage)
          PROVE  /\ \A x \in Record : x # r => flying'[x] = flying[x]
                 /\ flying[r] # None
                 /\ flying'[r].id = flying[r].id /\ flying'[r].kind = flying[r].kind
                 /\ flying'[r].informed = flying[r].informed
      BY <2>2, MovedStep
    <2> QED BY <2>1, <2>2, TaskSteps DEF Task, Stage
  <1>4. ASSUME NEW rec \in Record, NEW id \in Id,
               flying'[rec] # None, flying'[rec].kind = "tombstone", flying'[rec].id = id
        PROVE  Dominated(rec, id)
    BY <1>3, <1>4 DEF Dominated, Idle
  <1>5. WithdrawalsDominate'
    BY <1>2, <1>4, CopiesDominate DEF QueueInv
  <1>6. VouchersAreChat'
    BY <1>2, CopiesVouch DEF QueueInv
  <1>7. ASSUME NEW rec \in Record, NEW id \in gone'[rec]
        PROVE  /\ \A k \in DOMAIN pending : Refresh(pending[k], rec, id) => pending[k].informed
               /\ flying'[rec] # None /\ flying'[rec].kind = "current" /\ flying'[rec].id = id
                    /\ flying'[rec].stage # "done" => flying'[rec].informed
    <2>1. CASE id \in gone[rec]
      <3>1. /\ \A k \in DOMAIN pending : Refresh(pending[k], rec, id) => pending[k].informed
            /\ flying[rec] # None /\ flying[rec].kind = "current" /\ flying[rec].id = id
                 /\ flying[rec].stage # "done" => flying[rec].informed
        BY <2>1 DEF QueueInv, RefreshesInformed
      <3>2. CASE rec # r
        BY <1>3, <3>1, <3>2
      <3>3. CASE rec = r
        <4>1. flying'[r] # None => flying[r].stage # "done"
          BY DEF Task, Acquire, Finish, OnDone, SchedulerTypes
        <4> QED BY <1>3, <3>1, <3>3, <4>1
      <3> QED BY <3>2, <3>3
    <2>2. CASE id \notin gone[rec]
      <3>1. /\ Finish(r) /\ flying[r].kind = "tombstone"
            /\ gone' = [gone EXCEPT ![r] = @ \cup {flying[r].id}]
        BY <1>7, <2>2 DEF Task, Acquire, Finish, OnDone, SchedulerTypes
      <3>2. rec = r /\ id = flying[r].id /\ flying[r] # None
        BY <1>7, <2>2, <3>1 DEF SchedulerTypes, Finish, Idle
      <3>3. Named(flying[r])
        BY <3>2 DEF SchedulerTypes, Idle
      <3>4. id \in Id /\ Dominated(rec, id)
        BY <3>1, <3>2, <3>3 DEF Named, Dominated, Idle
      <3>5. \A k \in DOMAIN pending : ~ Refresh(pending[k], rec, id)
        BY <3>4 DEF QueueInv, WithdrawalsDominate
      <3>6. flying'[rec] # None => flying'[rec].kind = "tombstone"
        BY <1>3, <3>1, <3>2
      <3> QED BY <3>5, <3>6
    <2> QED BY <2>1, <2>2
  <1>8. RefreshesInformed'
    BY <1>1, <1>7 DEF RefreshesInformed, Refresh, SameId
  <1> QED BY <1>5, <1>6, <1>8 DEF QueueInv

LEMMA OrderQuiet ==
  ASSUME QueueInv, Quiet
  PROVE  QueueInv'
  <1>1. /\ \A k \in DOMAIN pending' : \E j \in DOMAIN pending : Copy(pending'[k], pending[j])
        /\ UNCHANGED <<flying, gone>>
    BY DEF Quiet
  <1>2. WithdrawalsDominate'
    <2>1. ASSUME NEW rec \in Record, NEW id \in Id,
                 flying'[rec] # None, flying'[rec].kind = "tombstone", flying'[rec].id = id
          PROVE  Dominated(rec, id)
      BY <1>1, <2>1 DEF Dominated, Idle
    <2> QED BY <1>1, <2>1, CopiesDominate DEF QueueInv
  <1>3. VouchersAreChat'
    BY <1>1, CopiesVouch DEF QueueInv
  <1>4. ASSUME NEW rec \in Record, NEW id \in gone[rec]
        PROVE  \A k \in DOMAIN pending' : Refresh(pending'[k], rec, id) => pending'[k].informed
    <2>1. \A k \in DOMAIN pending : Refresh(pending[k], rec, id) => pending[k].informed
      BY DEF QueueInv, RefreshesInformed
    <2> QED BY <1>1, <2>1, CopiesInformed
  <1>5. RefreshesInformed'
    BY <1>1, <1>4 DEF RefreshesInformed, QueueInv, Refresh, SameId
  <1> QED BY <1>2, <1>3, <1>5 DEF QueueInv

LEMMA OrderStep ==
  ASSUME SchedulerTypes, QueueInv, [Next]_vars
  PROVE  QueueInv'
  <1>1. CASE Driver
    <2>1. ASSUME NEW i, NEW lane, Dispatched(i, lane) PROVE QueueInv'
      BY <2>1, OrderDispatch
    <2>2. CASE DispatchEnd \/ Arm \/ DrainEnd
      BY <2>2, QuietSteps, OrderQuiet
    <2> QED BY <1>1, <2>1, <2>2, DispatchSteps DEF Driver
  <1>2. CASE Submit
    BY <1>2, OrderSubmit
  <1>3. ASSUME NEW r \in Record, Task(r) PROVE QueueInv'
    BY <1>3, OrderTask
  <1>4. CASE \/ Shutdown \/ DeadlinePasses \/ BudgetSpent
             \/ (\E r \in Record : Age(r)) \/ UNCHANGED vars
    BY <1>4, QuietSteps, OrderQuiet
  <1> QED BY <1>1, <1>2, <1>3, <1>4 DEF Next

LEMMA OrderInit == Init => QueueInv
  <1> HAVE Init
  <1>1. pending = <<>> /\ \A r \in Record : flying[r] = None /\ gone[r] = {}
    BY DEF Init
  <1> QED BY <1>1 DEF QueueInv, VouchersAreChat, WithdrawalsDominate, RefreshesInformed, Dominated

LEMMA OrderKept == Spec => [](SchedulerTypes /\ QueueInv)
  <1>1. Init => SchedulerTypes /\ QueueInv
    BY TypesInit, OrderInit
  <1>2. (SchedulerTypes /\ QueueInv) /\ [Next]_vars => (SchedulerTypes /\ QueueInv)'
    BY TypesStep, OrderStep
  <1> QED BY <1>1, <1>2, PTL DEF Spec

(* Only a refresh that lands ends a withdrawal that landed.                *)
LEMMA OnlyFinishReturns ==
  ASSUME SchedulerTypes, [Next]_vars, NEW r \in Record, NEW id \in gone[r], id \notin gone'[r]
  PROVE  /\ flying[r] # None /\ flying[r].kind = "current" /\ flying[r].id = id
         /\ flying[r].stage = "writing"
  <1>1. gone \in [Record -> SUBSET Id] /\ gone' # gone
    BY DEF SchedulerTypes
  <1>2. PICK x \in Record : Finish(x)
    <2>1. ~ Submit
      BY <1>1, SubmitStep DEF SubmitFrame
    <2>2. ~ Quiet
      BY <1>1 DEF Quiet
    <2>3. \A i, lane : ~ Dispatched(i, lane)
      BY <1>1 DEF Dispatched
    <2>4. ~ Driver
      BY <2>2, <2>3, DispatchSteps, QuietSteps DEF Driver
    <2>5. \A x \in Record : ~ Acquire(x) /\ ~ OnDone(x)
      BY <1>1 DEF Acquire, OnDone
    <2> QED BY <2>1, <2>2, <2>4, <2>5, QuietSteps DEF Next, Task
  <1>3. /\ flying[x] # None /\ flying[x].stage = "writing"
        /\ \/ gone' = [gone EXCEPT ![x] = @ \cup {flying[x].id}]
           \/ flying[x].kind = "current" /\ gone' = [gone EXCEPT ![x] = @ \ {flying[x].id}]
    BY <1>1, <1>2 DEF Finish, Idle
  <1>4. gone' = [gone EXCEPT ![x] = @ \ {flying[x].id}] /\ flying[x].kind = "current"
    BY <1>1, <1>3
  <1>5. x = r /\ id = flying[x].id
    BY <1>1, <1>4
  <1> QED BY <1>3, <1>4, <1>5

(* No refresh brings back what was withdrawn, however submissions,         *)
(* dispatches and landings interleave.                                     *)
THEOREM NothingResurrected == Spec => NoResurrection
  <1>1. SchedulerTypes /\ QueueInv /\ [Next]_vars =>
          [\A r \in Record, id \in Id :
             id \in gone[r] /\ id \notin gone'[r] => flying[r].informed]_vars
    <2> SUFFICES ASSUME SchedulerTypes, QueueInv, [Next]_vars,
                        NEW r \in Record, NEW id \in Id, id \in gone[r], id \notin gone'[r]
                 PROVE  flying[r].informed
      OBVIOUS
    <2>1. /\ flying[r] # None /\ flying[r].kind = "current" /\ flying[r].id = id
          /\ flying[r].stage = "writing"
      BY OnlyFinishReturns
    <2> QED BY <2>1 DEF QueueInv, RefreshesInformed
  <1> QED BY <1>1, OrderKept, PTL DEF Spec, NoResurrection

(* The shutdown sheds no write that stands for a chat-class one.           *)
THEOREM PromisesKept == Spec => PromiseKept
  <1>1. SchedulerTypes /\ QueueInv /\ [Next]_vars =>
          [Shutdown => \A i \in DOMAIN pending : pending[i].vouches => Flushed(pending[i])]_vars
    BY DEF QueueInv, VouchersAreChat, Flushed
  <1> QED BY <1>1, OrderKept, PTL DEF Spec, PromiseKept
=============================================================================
