----------------------------- MODULE RoomReach -----------------------------
(***************************************************************************)
(* What a front end shows of a room's reach: the runs of unanswered passes *)
(* per record (FailedPasses), and the results of repairs that come back    *)
(* through a channel of their own and may be older than the passes folded  *)
(* meanwhile.  Each repair carries the generation it was dispatched at.    *)
(*                                                                         *)
(* When a repair is dispatched is SessionRepair's; here it may be at any   *)
(* time, one running at a time.  `shown` is the last RoomReach sent.       *)
(***************************************************************************)
EXTENDS Integers, Sequences

CONSTANTS Rec,       \* the records of the rooms shown
          K,         \* UNREACHABLE_AFTER_FAILED_PASSES
          MaxGen,    \* bound on the generation
          MaxDone,   \* bound on repair results not folded yet
          None

ASSUME ReachAssumption == K \in Nat \ {0} /\ MaxGen \in Nat /\ MaxDone \in Nat \ {0}

VARIABLES
  runs,        \* FailedPasses.runs
  generation,
  latest,      \* generation of each record's latest pass, 0 for none
  resetAt,
  repair,      \* the repair running
  done,        \* RepairDone results on their way to the loop
  shown,       \* the reach last reported for each record's room
  silent       \* history: unanswered passes since the last report that the room is reachable

vars == <<runs, generation, latest, resetAt, repair, done, shown, silent>>

(* Complete and a partial repair with an answer reach the record, an error *)
(* and a partial one without any do not; a repair that found another       *)
(* running, or read nothing, says nothing.                                 *)
Result == {"reached", "unreached", "nothing"}

(* `overtaken` is history: a pass of the record, or a reset, has been      *)
(* folded since the dispatch.                                              *)
Repair == [rec : Rec, gen : 0..MaxGen, result : Result \cup {None}, overtaken : BOOLEAN]

Overtake(rs) ==
  /\ repair' = IF repair # None /\ repair.rec \in rs THEN [repair EXCEPT !.overtaken = TRUE] ELSE repair
  /\ done' = [i \in DOMAIN done |->
                IF done[i].rec \in rs THEN [done[i] EXCEPT !.overtaken = TRUE] ELSE done[i]]

-----------------------------------------------------------------------------
Reset ==
  /\ generation < MaxGen
  /\ runs' = [r \in Rec |-> 0]
  /\ latest' = [r \in Rec |-> 0]
  /\ generation' = generation + 1
  /\ resetAt' = generation + 1
  /\ silent' = [r \in Rec |-> 0]
  /\ Overtake(Rec)
  /\ UNCHANGED shown

(* Mutant: any pass of the record, its own generation included, overtakes. *)
IsCurrentStrict(d) == d.gen >= resetAt /\ latest[d.rec] < d.gen

(* Mutant: a repair is compared with the passes alone. *)
IsCurrentUnreset(d) == latest[d.rec] <= d.gen

IsCurrent(d) == d.gen >= resetAt /\ latest[d.rec] <= d.gen

AtMostK(n) == IF n > K THEN K ELSE n

(* One ordinary pass of a record that attempted a read. *)
Observe(r, answered) ==
  /\ generation < MaxGen
  /\ generation' = generation + 1
  /\ latest' = [latest EXCEPT ![r] = generation + 1]
  /\ runs' = [runs EXCEPT ![r] = IF answered THEN 0 ELSE AtMostK(@ + 1)]
  /\ silent' = [silent EXCEPT ![r] = IF answered THEN 0 ELSE AtMostK(@ + 1)]
  /\ shown' = IF answered THEN [shown EXCEPT ![r] = "reachable"]
              ELSE IF runs'[r] >= K THEN [shown EXCEPT ![r] = "unreachable"]
              ELSE shown
  /\ Overtake({r})
  /\ UNCHANGED resetAt

DispatchRepair(r) ==
  /\ repair = None
  /\ repair' = [rec |-> r, gen |-> generation, result |-> None, overtaken |-> FALSE]
  /\ UNCHANGED <<runs, generation, latest, resetAt, done, shown, silent>>

RepairEnds ==
  /\ repair # None /\ Len(done) < MaxDone
  /\ \E result \in Result : done' = Append(done, [repair EXCEPT !.result = result])
  /\ repair' = None
  /\ UNCHANGED <<runs, generation, latest, resetAt, shown, silent>>

Reports(d) == IsCurrent(d) /\ d.result # "nothing"

(* Mutant: the reach is reported and the run left to go on. *)
FoldRepairKeepsRun ==
  /\ done # <<>>
  /\ done' = Tail(done)
  /\ LET d == Head(done)
         clears == Reports(d) /\ d.result = "reached"
     IN /\ shown' = IF ~Reports(d) THEN shown
                    ELSE [shown EXCEPT ![d.rec] = IF clears THEN "reachable" ELSE "unreachable"]
        /\ runs' = runs
        /\ silent' = IF clears THEN [silent EXCEPT ![d.rec] = 0] ELSE silent
  /\ UNCHANGED <<generation, latest, resetAt, repair>>

FoldRepair ==
  /\ done # <<>>
  /\ done' = Tail(done)
  /\ LET d == Head(done)
         clears == Reports(d) /\ d.result = "reached"
     IN /\ shown' = IF ~Reports(d) THEN shown
                    ELSE [shown EXCEPT ![d.rec] = IF clears THEN "reachable" ELSE "unreachable"]
        /\ runs' = IF clears THEN [runs EXCEPT ![d.rec] = 0] ELSE runs
        /\ silent' = IF clears THEN [silent EXCEPT ![d.rec] = 0] ELSE silent
  /\ UNCHANGED <<generation, latest, resetAt, repair>>

Init ==
  /\ runs = [r \in Rec |-> 0]
  /\ generation = 0
  /\ latest = [r \in Rec |-> 0]
  /\ resetAt = 0
  /\ repair = None
  /\ done = <<>>
  /\ shown = [r \in Rec |-> "unknown"]
  /\ silent = [r \in Rec |-> 0]

Next ==
  \/ Reset
  \/ \E r \in Rec : DispatchRepair(r) \/ \E answered \in BOOLEAN : Observe(r, answered)
  \/ RepairEnds
  \/ FoldRepair

Spec == Init /\ [][Next]_vars

-----------------------------------------------------------------------------
(* Every variable has its type, and no pass is from the future. *)
TypeOK ==
  /\ runs \in [Rec -> 0..K] /\ silent \in [Rec -> 0..K]
  /\ generation \in 0..MaxGen /\ resetAt \in 0..generation
  /\ latest \in [Rec -> 0..generation]
  /\ repair \in Repair \cup {None}
  /\ done \in Seq(Repair) /\ Len(done) <= MaxDone
  /\ shown \in [Rec -> {"unknown", "reachable", "unreachable"}]

Folds == done # <<>> /\ done' = Tail(done)

(* The result of a repair dispatched before the record's latest pass, or   *)
(* before a reset, changes neither what is shown nor the run: the two      *)
(* channels deliver in any order, and the later evidence stands.           *)
OvertakenIsSilent ==
  [][Folds /\ Head(done).overtaken => UNCHANGED <<shown, runs>>]_vars

(* A repair nothing has overtaken is shown as it ended, so a room it       *)
(* healed does not wait for its next re-sweep.                             *)
CurrentIsShown ==
  [][Folds /\ ~Head(done).overtaken =>
       LET d == Head(done)
       IN shown'[d.rec] = CASE d.result = "reached" -> "reachable"
                            [] d.result = "unreached" -> "unreachable"
                            [] OTHER -> shown[d.rec]]_vars

(* A pass turns a room unreachable only as the K-th unanswered one since   *)
(* the room was last reported reachable, by a pass or by a repair.         *)
UnreachableIsEarned ==
  [][\A r \in Rec :
       shown[r] # shown'[r] /\ shown'[r] = "unreachable" /\ generation' # generation
         => silent'[r] >= K]_vars
=============================================================================
