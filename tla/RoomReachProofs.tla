-------------------------- MODULE RoomReachProofs --------------------------
(***************************************************************************)
(* The three properties of RoomReach for any records, any threshold and    *)
(* any bounds.                                                             *)
(*                                                                         *)
(* The state a repair's result is compared with (latest, resetAt) says the *)
(* same as the history of what was folded since its dispatch: `Faithful`.  *)
(* That, and that a record's run never exceeds the silence it stands for,  *)
(* is the inductive invariant; the properties are about one step from it.  *)
(***************************************************************************)
EXTENDS RoomReach, TLAPS

(* IsCurrent tells exactly the repairs that nothing has overtaken. *)
Faithful(d) == d.gen <= generation /\ (d.overtaken <=> ~IsCurrent(d))

RepairsFaithful ==
  /\ repair # None => Faithful(repair)
  /\ \A i \in DOMAIN done : Faithful(done[i])

RunsCounted == \A r \in Rec : runs[r] <= silent[r]

(* A repair on its way to the loop has ended. *)
ResultsKnown == \A i \in DOMAIN done : done[i].result \in Result

ReachInv == TypeOK /\ RepairsFaithful /\ RunsCounted /\ ResultsKnown

(* The capped run of unanswered passes stays within 0..K and reaches K     *)
(* exactly when K or more were counted.                                    *)
LEMMA AtMostKType == \A n \in Nat : AtMostK(n) \in 0..K /\ (n >= K => AtMostK(n) = K)
  BY ReachAssumption DEF AtMostK

(* A cap keeps the order of what it caps. *)
LEMMA AtMostKMonotone == \A m, n \in Nat : m <= n => AtMostK(m) <= AtMostK(n)
  BY ReachAssumption DEF AtMostK

(* The fields of a repair, and that marking it overtaken changes only that. *)
LEMMA RepairFields ==
  \A d \in Repair :
    /\ d.rec \in Rec /\ d.gen \in Nat /\ d.overtaken \in BOOLEAN
    /\ [d EXCEPT !.overtaken = TRUE] \in Repair
    /\ [d EXCEPT !.overtaken = TRUE].rec = d.rec
    /\ [d EXCEPT !.overtaken = TRUE].gen = d.gen
    /\ [d EXCEPT !.overtaken = TRUE].result = d.result
    /\ [d EXCEPT !.overtaken = TRUE].overtaken
  <1>1. SUFFICES ASSUME NEW d \in Repair
                 PROVE  /\ d.rec \in Rec /\ d.gen \in Nat /\ d.overtaken \in BOOLEAN
                        /\ [d EXCEPT !.overtaken = TRUE] \in Repair
                        /\ [d EXCEPT !.overtaken = TRUE].rec = d.rec
                        /\ [d EXCEPT !.overtaken = TRUE].gen = d.gen
                        /\ [d EXCEPT !.overtaken = TRUE].result = d.result
                        /\ [d EXCEPT !.overtaken = TRUE].overtaken
    OBVIOUS
  <1>2. d.rec \in Rec /\ d.gen \in Nat /\ d.overtaken \in BOOLEAN
    BY ReachAssumption DEF Repair
  <1>3. [d EXCEPT !.overtaken = TRUE] \in Repair
    BY DEF Repair
  <1>4. [d EXCEPT !.overtaken = TRUE].rec = d.rec /\ [d EXCEPT !.overtaken = TRUE].gen = d.gen
       /\ [d EXCEPT !.overtaken = TRUE].result = d.result
    BY DEF Repair
  <1>5. [d EXCEPT !.overtaken = TRUE].overtaken
    BY DEF Repair
  <1>q. QED BY <1>2, <1>3, <1>4, <1>5

(* What Overtake does to one repair, running or finished. *)
Marked(d, rs) == IF d.rec \in rs THEN [d EXCEPT !.overtaken = TRUE] ELSE d

(* Marking keeps every repair typed, and the queue of results its length. *)
LEMMA OvertakeTyped ==
  ASSUME TypeOK, NEW rs \in SUBSET Rec, Overtake(rs)
  PROVE  /\ repair' = (IF repair = None THEN None ELSE Marked(repair, rs))
         /\ done' = [i \in DOMAIN done |-> Marked(done[i], rs)]
         /\ repair' \in Repair \cup {None}
         /\ done' \in Seq(Repair) /\ Len(done') = Len(done) /\ DOMAIN done' = DOMAIN done
  <1>1. repair' = (IF repair = None THEN None ELSE Marked(repair, rs))
    BY DEF Overtake, Marked
  <1>2. done' = [i \in DOMAIN done |-> Marked(done[i], rs)]
    BY DEF Overtake, Marked
  <1>3. \A d \in Repair : Marked(d, rs) \in Repair
    BY RepairFields DEF Marked
  <1>4. repair' \in Repair \cup {None}
    BY <1>1, <1>3 DEF TypeOK
  <1>5. done' \in Seq(Repair) /\ Len(done') = Len(done) /\ DOMAIN done' = DOMAIN done
    <2>1. Len(done) \in Nat /\ DOMAIN done = 1..Len(done) /\ \A i \in 1..Len(done) : done[i] \in Repair
      BY DEF TypeOK
    <2>2. done' \in [1..Len(done) -> Repair]
      BY <1>2, <1>3, <2>1
    <2>q. QED BY <2>1, <2>2
  <1>q. QED BY <1>1, <1>2, <1>4, <1>5

(* Marking leaves every result as the repair ended. *)
LEMMA OvertakeResults ==
  ASSUME TypeOK, ResultsKnown, NEW rs \in SUBSET Rec, Overtake(rs)
  PROVE  ResultsKnown'
  <1>1. \A d \in Repair : Marked(d, rs).result = d.result
    BY RepairFields DEF Marked
  <1>2. \A i \in DOMAIN done : done[i] \in Repair
    BY DEF TypeOK
  <1>q. QED BY <1>1, <1>2, OvertakeTyped DEF ResultsKnown

(* A step that makes the repairs of rs stale, and no other, keeps every    *)
(* repair faithful once the ones of rs are marked.                         *)
LEMMA OvertakeFaithful ==
  ASSUME TypeOK, RepairsFaithful, NEW rs \in SUBSET Rec, Overtake(rs),
         \A d \in Repair : d.gen <= generation =>
           /\ d.gen <= generation'
           /\ d.rec \in rs => ~IsCurrent(d)'
           /\ d.rec \notin rs => (IsCurrent(d)' <=> IsCurrent(d))
  PROVE  RepairsFaithful'
  <1>1. \A d \in Repair : Faithful(d) => Faithful(Marked(d, rs))'
    <2>1. SUFFICES ASSUME NEW d \in Repair, Faithful(d) PROVE Faithful(Marked(d, rs))'
      OBVIOUS
    <2>2. CASE d.rec \in rs
      <3>1. Marked(d, rs) = [d EXCEPT !.overtaken = TRUE]
        BY <2>2 DEF Marked
      <3>2. ~IsCurrent(d)' /\ d.gen <= generation'
        BY <2>1, <2>2 DEF Faithful
      <3>q. QED BY <3>1, <3>2, RepairFields DEF Faithful, IsCurrent
    <2>3. CASE d.rec \notin rs
      BY <2>1, <2>3 DEF Faithful, Marked
    <2>q. QED BY <2>2, <2>3
  <1>2. \A i \in DOMAIN done : done[i] \in Repair
    BY DEF TypeOK
  <1>3. \A i \in DOMAIN done' : Faithful(done[i])
    BY OvertakeTyped DEF RepairsFaithful
  <1>4. (repair # None => Faithful(repair)')
    BY <1>1, OvertakeTyped DEF RepairsFaithful, TypeOK
  <1>q. QED BY <1>1, <1>2, <1>3, <1>4, OvertakeTyped DEF RepairsFaithful

-----------------------------------------------------------------------------
(* One lemma for each action. *)

(* The first state satisfies ReachInv: nothing observed, queued or in      *)
(* flight.                                                                 *)
LEMMA InitReach == Init => ReachInv
  <1>1. SUFFICES ASSUME Init PROVE ReachInv
    OBVIOUS
  <1>2. 0 \in 0..K /\ 0 \in 0..MaxGen /\ 0 \in 0..0 /\ 0 <= 0
    BY ReachAssumption
  <1>3. done \in Seq(Repair) /\ Len(done) = 0 /\ DOMAIN done = {}
    BY <1>1 DEF Init
  <1>4. TypeOK
    <2>1. runs \in [Rec -> 0..K] /\ silent \in [Rec -> 0..K] /\ latest \in [Rec -> 0..0]
      BY <1>1, <1>2 DEF Init
    <2>2. generation = 0 /\ resetAt = 0 /\ repair = None
      BY <1>1 DEF Init
    <2>3. shown \in [Rec -> {"unknown", "reachable", "unreachable"}]
      BY <1>1 DEF Init
    <2>q. QED BY <1>2, <1>3, <2>1, <2>2, <2>3, ReachAssumption DEF TypeOK
  <1>5. RepairsFaithful
    BY <1>1, <1>3 DEF Init, RepairsFaithful
  <1>6. RunsCounted
    BY <1>1, <1>2 DEF Init, RunsCounted
  <1>7. ResultsKnown
    BY <1>3 DEF ResultsKnown
  <1>q. QED BY <1>4, <1>5, <1>6, <1>7 DEF ReachInv

(* A reset clears the runs, overtakes every repair in flight and keeps     *)
(* ReachInv.                                                               *)
LEMMA ResetReach == ReachInv /\ Reset => ReachInv'
  <1>1. SUFFICES ASSUME ReachInv, Reset PROVE ReachInv'
    OBVIOUS
  <1> USE DEF ReachInv
  <1>2. Overtake(Rec) /\ Rec \in SUBSET Rec
    BY <1>1 DEF Reset
  <1>3. TypeOK'
    BY <1>1, <1>2, OvertakeTyped, ReachAssumption DEF Reset, TypeOK
  <1>4. \A d \in Repair : d.gen <= generation =>
          d.rec \in Rec /\ d.gen <= generation' /\ ~IsCurrent(d)'
    <2>1. generation \in Nat /\ generation' = generation + 1 /\ resetAt' = generation + 1
      BY <1>1, ReachAssumption DEF Reset, TypeOK
    <2>2. \A d \in Repair : d.gen <= generation => d.gen <= generation' /\ ~IsCurrent(d)'
      <3>1. SUFFICES ASSUME NEW d \in Repair, d.gen <= generation
                     PROVE  d.gen <= generation' /\ ~IsCurrent(d)'
        OBVIOUS
      <3>2. d.gen \in Nat
        BY RepairFields
      <3>q. QED BY <2>1, <3>1, <3>2 DEF IsCurrent
    <2>q. QED BY <2>2, RepairFields
  <1>5. RepairsFaithful'
    BY <1>1, <1>2, <1>4, OvertakeFaithful
  <1>6. RunsCounted'
    BY <1>1 DEF Reset, RunsCounted
  <1>7. ResultsKnown'
    BY <1>1, <1>2, OvertakeResults
  <1>q. QED BY <1>3, <1>5, <1>6, <1>7

(* A folded pass counts or clears the run, overtakes its record's repairs  *)
(* and keeps ReachInv.                                                     *)
LEMMA ObserveReach ==
  ASSUME ReachInv, NEW r \in Rec, NEW answered \in BOOLEAN, Observe(r, answered)
  PROVE  ReachInv'
  <1> USE DEF ReachInv
  <1>1. Overtake({r}) /\ {r} \in SUBSET Rec
    BY DEF Observe
  <1>2. /\ runs \in [Rec -> 0..K] /\ silent \in [Rec -> 0..K] /\ generation \in Nat
        /\ 0 \in 0..K
        /\ AtMostK(runs[r] + 1) \in 0..K /\ AtMostK(silent[r] + 1) \in 0..K
    <2>1. /\ runs \in [Rec -> 0..K] /\ silent \in [Rec -> 0..K] /\ generation \in Nat
          /\ 0 \in 0..K
      BY ReachAssumption DEF TypeOK
    <2>2. runs[r] + 1 \in Nat /\ silent[r] + 1 \in Nat
      BY <2>1, ReachAssumption
    <2>q. QED BY <2>1, <2>2, AtMostKType
  <1>3. TypeOK'
    <2>1. runs' \in [Rec -> 0..K] /\ silent' \in [Rec -> 0..K]
      BY <1>2 DEF Observe
    <2>2. generation' \in 0..MaxGen /\ resetAt' \in 0..generation'
      BY ReachAssumption DEF Observe, TypeOK
    <2>3. latest' \in [Rec -> 0..generation']
      BY <1>2 DEF Observe, TypeOK
    <2>4. shown' \in [Rec -> {"unknown", "reachable", "unreachable"}]
      BY DEF Observe, TypeOK
    <2>q. QED BY <1>1, <2>1, <2>2, <2>3, <2>4, OvertakeTyped DEF TypeOK
  <1>4. \A d \in Repair : d.gen <= generation =>
          /\ d.gen <= generation'
          /\ d.rec \in {r} => ~IsCurrent(d)'
          /\ d.rec \notin {r} => (IsCurrent(d)' <=> IsCurrent(d))
    <2>1. SUFFICES ASSUME NEW d \in Repair, d.gen <= generation
                   PROVE  /\ d.gen <= generation'
                          /\ d.rec \in {r} => ~IsCurrent(d)'
                          /\ d.rec \notin {r} => (IsCurrent(d)' <=> IsCurrent(d))
      OBVIOUS
    <2>2. d.gen \in Nat /\ d.rec \in Rec /\ generation' = generation + 1 /\ resetAt' = resetAt
      BY RepairFields DEF Observe
    <2>3. latest'[d.rec] = IF d.rec = r THEN generation + 1 ELSE latest[d.rec]
      BY <2>2 DEF Observe, TypeOK
    <2>q. QED BY <1>2, <2>1, <2>2, <2>3 DEF IsCurrent
  <1>5. RepairsFaithful'
    BY <1>1, <1>4, OvertakeFaithful
  <1>6. RunsCounted'
    <2>1. AtMostK(runs[r] + 1) <= AtMostK(silent[r] + 1)
      BY <1>2, AtMostKMonotone DEF RunsCounted
    <2>q. QED BY <1>2, <2>1 DEF Observe, RunsCounted
  <1>7. ResultsKnown'
    BY <1>1, OvertakeResults
  <1>q. QED BY <1>3, <1>5, <1>6, <1>7

(* A dispatched repair carries the generation it was dispatched at,        *)
(* overtaken by nothing yet.                                               *)
LEMMA DispatchReach == ASSUME ReachInv, NEW r \in Rec, DispatchRepair(r) PROVE ReachInv'
  <1> USE DEF ReachInv
  <1>1. repair' \in Repair /\ repair'.rec = r /\ repair'.gen = generation /\ ~repair'.overtaken
    BY DEF DispatchRepair, TypeOK, Repair
  <1>2. TypeOK'
    BY <1>1 DEF DispatchRepair, TypeOK
  <1>3. Faithful(repair)'
    BY <1>1 DEF DispatchRepair, TypeOK, Faithful, IsCurrent
  <1>4. RepairsFaithful' /\ RunsCounted'
    BY <1>3 DEF DispatchRepair, RepairsFaithful, RunsCounted, Faithful, IsCurrent
  <1>5. ResultsKnown'
    BY DEF DispatchRepair, ResultsKnown
  <1>q. QED BY <1>2, <1>4, <1>5

(* A repair that ends sends a result of a known kind.                      *)
LEMMA RepairEndsReach == ReachInv /\ RepairEnds => ReachInv'
  <1>1. SUFFICES ASSUME ReachInv, RepairEnds PROVE ReachInv'
    OBVIOUS
  <1> USE DEF ReachInv
  <1>2. PICK result \in Result : done' = Append(done, [repair EXCEPT !.result = result])
    BY <1>1 DEF RepairEnds
  <1> DEFINE ended == [repair EXCEPT !.result = result]
  <1>3. repair \in Repair /\ Faithful(repair)
    BY <1>1 DEF RepairEnds, TypeOK, RepairsFaithful
  <1>4. ended \in Repair
    BY <1>3 DEF Repair
  <1>5. ended.rec = repair.rec /\ ended.gen = repair.gen /\ ended.overtaken = repair.overtaken
    BY <1>3 DEF Repair
  <1>6. Faithful(ended)
    BY <1>3, <1>5 DEF Faithful, IsCurrent
  <1> HIDE DEF ended
  <1>7. done' = Append(done, ended)
    BY <1>2 DEF ended
  <1>8. TypeOK'
    BY <1>1, <1>4, <1>7, ReachAssumption DEF RepairEnds, TypeOK
  <1>9. \A d : Faithful(d)' <=> Faithful(d)
    BY <1>1 DEF RepairEnds, Faithful, IsCurrent
  <1>10. \A i \in DOMAIN done' : Faithful(done'[i])
    BY <1>1, <1>6, <1>7 DEF TypeOK, RepairsFaithful
  <1>11. repair' = None
    BY <1>1 DEF RepairEnds
  <1>12. RepairsFaithful'
    BY <1>9, <1>10, <1>11 DEF RepairsFaithful
  <1>13. RunsCounted'
    BY <1>1 DEF RepairEnds, RunsCounted
  <1>14. ended.result \in Result
    BY <1>3 DEF ended, Repair
  <1>15. ResultsKnown'
    BY <1>1, <1>4, <1>7, <1>14 DEF TypeOK, ResultsKnown
  <1>q. QED BY <1>8, <1>12, <1>13, <1>15

(* The result the loop folds is the oldest one. *)
LEMMA FoldRepairHead ==
  ASSUME TypeOK, FoldRepair
  PROVE  /\ Head(done) \in Repair /\ Head(done) = done[1] /\ 1 \in DOMAIN done
         /\ done' \in Seq(Repair) /\ Len(done') <= MaxDone
         /\ \A i \in DOMAIN done' : i + 1 \in DOMAIN done /\ done'[i] = done[i + 1]
  BY ReachAssumption DEF TypeOK, FoldRepair

(* Folding a result keeps ReachInv, whether it is current or not.          *)
LEMMA FoldRepairReach == ReachInv /\ FoldRepair => ReachInv'
  <1>1. SUFFICES ASSUME ReachInv, FoldRepair PROVE ReachInv'
    OBVIOUS
  <1> USE DEF ReachInv
  <1>2. Head(done).rec \in Rec /\ done' \in Seq(Repair) /\ Len(done') <= MaxDone
    BY <1>1, FoldRepairHead, RepairFields
  <1>3. TypeOK'
    <2>1. UNCHANGED <<generation, latest, resetAt, repair>>
      BY <1>1 DEF FoldRepair
    <2>2. runs' = runs \/ runs' = [runs EXCEPT ![Head(done).rec] = 0]
      BY <1>1 DEF FoldRepair
    <2>3. silent' = silent \/ silent' = [silent EXCEPT ![Head(done).rec] = 0]
      BY <1>1 DEF FoldRepair
    <2>4. \/ shown' = shown
          \/ \E v \in {"reachable", "unreachable"} : shown' = [shown EXCEPT ![Head(done).rec] = v]
      BY <1>1 DEF FoldRepair
    <2>5. 0 \in 0..K
      BY ReachAssumption
    <2>6. runs' \in [Rec -> 0..K] /\ silent' \in [Rec -> 0..K]
      BY <1>1, <1>2, <2>2, <2>3, <2>5 DEF TypeOK
    <2>7. shown' \in [Rec -> {"unknown", "reachable", "unreachable"}]
      BY <1>1, <1>2, <2>4 DEF TypeOK
    <2>q. QED BY <1>1, <1>2, <2>1, <2>6, <2>7 DEF TypeOK
  <1>4. \A d : Faithful(d)' <=> Faithful(d)
    BY <1>1 DEF FoldRepair, Faithful, IsCurrent
  <1>5. RepairsFaithful'
    BY <1>1, <1>4, FoldRepairHead DEF FoldRepair, RepairsFaithful
  <1>6. RunsCounted'
    BY <1>1, <1>2, ReachAssumption DEF FoldRepair, RunsCounted, TypeOK
  <1>7. ResultsKnown'
    BY <1>1, FoldRepairHead DEF ResultsKnown
  <1>q. QED BY <1>3, <1>5, <1>6, <1>7

(* A step that changes nothing keeps ReachInv.                             *)
LEMMA StutterReach == ReachInv /\ UNCHANGED vars => ReachInv'
  BY DEF ReachInv, TypeOK, RepairsFaithful, Faithful, IsCurrent, RunsCounted, ResultsKnown, vars

(* Every step of the specification keeps ReachInv.                         *)
LEMMA StepReach == ReachInv /\ [Next]_vars => ReachInv'
  <1>1. SUFFICES ASSUME ReachInv, [Next]_vars PROVE ReachInv'
    OBVIOUS
  <1>2. CASE Reset
    BY <1>1, <1>2, ResetReach
  <1>3. ASSUME NEW r \in Rec, DispatchRepair(r) PROVE ReachInv'
    BY <1>1, <1>3, DispatchReach
  <1>4. ASSUME NEW r \in Rec, NEW answered \in BOOLEAN, Observe(r, answered) PROVE ReachInv'
    BY <1>1, <1>4, ObserveReach
  <1>5. CASE RepairEnds
    BY <1>1, <1>5, RepairEndsReach
  <1>6. CASE FoldRepair
    BY <1>1, <1>6, FoldRepairReach
  <1>7. CASE UNCHANGED vars
    BY <1>1, <1>7, StutterReach
  <1>q. QED BY <1>1, <1>2, <1>3, <1>4, <1>5, <1>6, <1>7 DEF Next

(* The inductive invariant holds in every state of session_health.rs's     *)
(* FailedPasses and of the repair results beside it.                       *)
THEOREM ReachInvariant == Spec => []ReachInv
  BY InitReach, StepReach, PTL DEF Spec

-----------------------------------------------------------------------------
(* The properties, each about one step from a state of the invariant. *)

(* A step that takes a result off the channel is its fold, and the result  *)
(* is faithful.                                                            *)
LEMMA FoldsFacts ==
  ASSUME ReachInv, [Next]_vars, Folds
  PROVE  FoldRepair /\ Head(done) \in Repair /\ Faithful(Head(done))
  <1>1. done \in Seq(Repair) /\ done # <<>> /\ Len(done') = Len(done) - 1 /\ Len(done) \in Nat
    BY DEF ReachInv, TypeOK, Folds
  <1>2. ASSUME NEW rs \in SUBSET Rec, Overtake(rs) PROVE FALSE
    BY <1>1, <1>2, OvertakeTyped DEF ReachInv
  <1>3. ~Reset
    BY <1>2 DEF Reset
  <1>4. ASSUME NEW r \in Rec, NEW answered \in BOOLEAN, Observe(r, answered) PROVE FALSE
    BY <1>2, <1>4 DEF Observe
  <1>5. ASSUME NEW r \in Rec, DispatchRepair(r) PROVE FALSE
    BY <1>1, <1>5 DEF DispatchRepair
  <1>6. ~RepairEnds
    <2>1. SUFFICES ASSUME RepairEnds PROVE FALSE
      OBVIOUS
    <2>2. PICK d : done' = Append(done, d)
      BY <2>1 DEF RepairEnds
    <2>q. QED BY <1>1, <2>2
  <1>7. ~UNCHANGED vars
    BY <1>1 DEF vars
  <1>8. FoldRepair
    BY <1>3, <1>4, <1>5, <1>6, <1>7 DEF Next
  <1>q. QED BY <1>8, FoldRepairHead DEF ReachInv, RepairsFaithful

(* A repair the loop overtook (gui veilid_net.rs, RepairDone) changes       *)
(* nothing that is shown.                                                   *)
THEOREM OvertakenSilent == Spec => OvertakenIsSilent
  <1>1. ReachInv /\ [Next]_vars => [Folds /\ Head(done).overtaken => UNCHANGED <<shown, runs>>]_vars
    <2>1. SUFFICES ASSUME ReachInv, [Next]_vars, Folds, Head(done).overtaken
                   PROVE  UNCHANGED <<shown, runs>>
      OBVIOUS
    <2>2. FoldRepair /\ ~IsCurrent(Head(done))
      BY <2>1, FoldsFacts DEF Faithful
    <2>q. QED BY <2>2 DEF FoldRepair, Reports
  <1>q. QED BY <1>1, ReachInvariant, PTL DEF Spec, OvertakenIsSilent

(* A repair nothing overtook is shown as it ended.                          *)
THEOREM CurrentShown == Spec => CurrentIsShown
  <1> DEFINE Shows ==
        LET d == Head(done)
        IN shown'[d.rec] = CASE d.result = "reached" -> "reachable"
                             [] d.result = "unreached" -> "unreachable"
                             [] OTHER -> shown[d.rec]
  <1>1. ReachInv /\ [Next]_vars => [Folds /\ ~Head(done).overtaken => Shows]_vars
    <2>1. SUFFICES ASSUME ReachInv, [Next]_vars, Folds, ~Head(done).overtaken
                   PROVE  Shows
      OBVIOUS
    <2>2. FoldRepair /\ IsCurrent(Head(done)) /\ Head(done).rec \in Rec
      BY <2>1, FoldsFacts, RepairFields DEF Faithful
    <2>3. Head(done).result \in {"reached", "unreached", "nothing"}
      BY <2>1, FoldsFacts, FoldRepairHead DEF ReachInv, ResultsKnown, Result
    <2>q. QED BY <2>1, <2>2, <2>3 DEF FoldRepair, Reports, ReachInv, TypeOK
  <1>q. QED BY <1>1, ReachInvariant, PTL DEF Spec, CurrentIsShown

(* A pass shows a room unreachable only at K unanswered passes running      *)
(* (UNREACHABLE_AFTER_FAILED_PASSES), repairs that reached it included.     *)
THEOREM UnreachableEarned == Spec => UnreachableIsEarned
  <1> DEFINE Earned ==
        \A r \in Rec :
          shown[r] # shown'[r] /\ shown'[r] = "unreachable" /\ generation' # generation
            => silent'[r] >= K
  <1>1. ReachInv /\ [Next]_vars => [Earned]_vars
    <2>1. SUFFICES ASSUME ReachInv, [Next]_vars, NEW r \in Rec, shown[r] # shown'[r],
                          shown'[r] = "unreachable", generation' # generation
                   PROVE  silent'[r] >= K
      OBVIOUS
    <2>2. PICK s \in Rec, answered \in BOOLEAN : Observe(s, answered)
      BY <2>1 DEF Next, vars, Reset, DispatchRepair, RepairEnds, FoldRepair
    <2>3. s = r /\ ~answered /\ runs'[r] >= K
      BY <2>1, <2>2 DEF Observe, ReachInv, TypeOK
    <2>4. RunsCounted' /\ TypeOK'
      BY <2>1, StepReach DEF ReachInv
    <2>q. QED BY <2>3, <2>4, ReachAssumption DEF RunsCounted, TypeOK
  <1>q. QED BY <1>1, ReachInvariant, PTL DEF Spec, UnreachableIsEarned
=============================================================================
