---------------------------- MODULE RouteBudget ----------------------------
(***************************************************************************)
(* The concurrency budget of a sharer's route (veilid-net route_budget.rs) *)
(* under the fetches that draw on it (share.rs).  A download leases the    *)
(* route, a fetch of it asks for fragments over the lease, and each        *)
(* fragment's call waits for a permit: the route's window, which errors    *)
(* narrow and clean answers widen, and the pool all routes share.          *)
(*                                                                         *)
(* Downloads run on threads of their own and share the budget's one lock,  *)
(* so a step is one critical section, or one notify_waiters, which comes   *)
(* after the unlock.  Within a download fragments are futures of a single  *)
(* thread: one is inside a poll at a time, and the others rest at an await.*)
(* A download has one fetch at a time here; two chunks of one download     *)
(* are two downloads of one route, which share the account as they would.  *)
(***************************************************************************)
EXTENDS Integers, FiniteSets, Sequences

CONSTANTS
  Download,       \* the downloads
  Route,          \* routes
  SharerOf,       \* the sharer each route terminates at
  Floor,          \* W_FLOOR
  Ceil,           \* W_CEIL
  DefaultCeil,    \* what a route of an unknown sharer may climb to
  Global,         \* G_GLOBAL
  Breaches,       \* LATENCY_VALVE_BREACHES
  BreachWindow,   \* LATENCY_VALVE_WINDOW
  Retries,        \* FRAGMENT_RETRIES
  Total,          \* bound: the fragments of what each download fetches
  MaxFetches,     \* bound: fetches of a download
  None

Sharer == {SharerOf[r] : r \in Route}
Frag   == UNION {1..Total[d] : d \in Download}

ASSUME BudgetAssumption ==
  /\ IsFiniteSet(Download)
  /\ SharerOf = [r \in Route |-> SharerOf[r]]
  /\ Floor \in Nat \ {0} /\ Ceil \in Nat /\ Global \in Nat
  /\ Floor <= Ceil /\ Ceil < Global
  /\ DefaultCeil \in Floor..Ceil
  /\ Breaches \in Nat \ {0} /\ BreachWindow \in Nat \ {0}
  /\ Retries \in Nat /\ MaxFetches \in Nat
  /\ \A d \in Download : Total[d] \in Nat \ {0}

(* RouteWindow, and RouteAccount with the deaths it was opened under. *)
Window  == [width : Floor..Ceil, ceiling : Floor..Ceil, healthy : Nat, recent : Seq(BOOLEAN),
            collapsed : BOOLEAN]
Account == [inFlight : Nat, refs : Nat \ {0}, window : Window, known : SUBSET (Floor..Ceil)]

ASSUME NoneAssumption == None \notin Route \cup Nat \cup Account

VARIABLES
  account,   \* RouteAccount, per route, or None
  learned,   \* ceilings: the learned ceiling of a sharer, or None
  pool,      \* global_in_flight
  lease,     \* the route each download has leased, or None
  fetch,     \* how its fetch stands
  frag,      \* its fragment futures
  left,      \* fetches it may still start
  abandoned, \* calls the actor still has out though their permit was dropped
  kills      \* history: the widths at which a sharer's routes have died

vars == <<account, learned, pool, lease, fetch, frag, left, abandoned, kills>>

-----------------------------------------------------------------------------
(* RouteWindow *)

AtLeast(a, b) == IF a < b THEN b ELSE a
AtMost(a, b)  == IF a < b THEN a ELSE b

NewWindow(ceiling) ==
  [width |-> Floor, ceiling |-> AtMost(AtLeast(ceiling, Floor), Ceil),
   healthy |-> 0, recent |-> <<>>, collapsed |-> FALSE]

Halved(n) == AtLeast(n \div 2, Floor)

(* What a death at this width teaches: half of it, never more than before. *)
Learned(w) == AtMost(Halved(w.width), w.ceiling)

Collapse(w) ==
  IF w.collapsed THEN [w EXCEPT !.healthy = 0, !.recent = <<>>]
  ELSE [width |-> Floor, ceiling |-> Learned(w), healthy |-> 0, recent |-> <<>>,
        collapsed |-> TRUE]

LastOnes(q) == SubSeq(q, AtLeast(Len(q) - BreachWindow + 1, 1), Len(q))
BreachCount(q) == Cardinality({i \in DOMAIN q : q[i]})

(* A clean answer counts towards a wider window, one widening a window's   *)
(* worth of them; a slow one only towards the valve.                       *)
Clean(w) ==
  IF w.healthy + 1 < w.width THEN [w EXCEPT !.healthy = @ + 1]
  ELSE IF w.width < w.ceiling
       THEN [w EXCEPT !.width = @ + 1, !.healthy = 0, !.collapsed = FALSE]
       ELSE [w EXCEPT !.healthy = 0]

Completed(w, slow) ==
  LET recent == LastOnes(Append(w.recent, slow))
  IN  IF BreachCount(recent) >= Breaches
      THEN [w EXCEPT !.width = Halved(@), !.healthy = 0, !.recent = <<>>]
      ELSE IF slow THEN [w EXCEPT !.recent = recent]
      ELSE Clean([w EXCEPT !.recent = recent])

-----------------------------------------------------------------------------
(* The registry *)

(* Mutant: a leased route starts from the default, whatever was learned. *)
SeedDefault(s) == DefaultCeil

Seed(s) == IF learned[s] = None THEN DefaultCeil ELSE learned[s]

Idle  == [at |-> "idle", tries |-> 0, woken |-> FALSE, ok |-> FALSE]
Start == [at |-> "start", tries |-> 0, woken |-> FALSE, ok |-> FALSE]
Due   == [at |-> "due", tries |-> 0, woken |-> FALSE, ok |-> FALSE]

(* Stages inside a poll; at the others a future rests at an await.         *)
MidPoll == {"refused", "freed", "answered", "observed", "dropped"}
AtRest(d) == \A i \in Frag : frag[d][i].at \notin MidPoll

At(d, i, stage) == frag[d][i].at = stage

(* The account of a route exists while a download has it leased. *)
Joined(a, r) ==
  IF a = None THEN [inFlight |-> 0, refs |-> 1, window |-> NewWindow(Seed(SharerOf[r])),
                    known |-> kills[SharerOf[r]]]
  ELSE [a EXCEPT !.refs = @ + 1]
Parted(a) == IF a.refs = 1 THEN None ELSE [a EXCEPT !.refs = @ - 1]

Lease(d, r) ==
  /\ lease[d] = None /\ left[d] > 0
  /\ lease' = [lease EXCEPT ![d] = r]
  /\ account' = [account EXCEPT ![r] = Joined(@, r)]
  /\ UNCHANGED <<learned, pool, fetch, frag, left, abandoned, kills>>

(* Dropping the lease, once no future of the download is left. *)
DropLease(d) ==
  /\ lease[d] # None /\ fetch[d] = "none"
  /\ lease' = [lease EXCEPT ![d] = None]
  /\ account' = [account EXCEPT ![lease[d]] = Parted(@)]
  /\ UNCHANGED <<learned, pool, fetch, frag, left, abandoned, kills>>

HasRoom(r) == account[r] # None /\ account[r].inFlight < account[r].window.width

(* Mutant: the account forgets to take its slot back. *)
ReturnedToPoolOnly(r) == account

(* A slot given back: the guarded decrement of BudgetPermit::drop. *)
OneFewer(a) == IF a = None THEN None ELSE [a EXCEPT !.inFlight = AtLeast(@ - 1, 0)]
Returned(r) == [account EXCEPT ![r] = OneFewer(@)]

(* Mutant: a future registers when it goes to sleep, not before. *)
WokenAsleep(fs) ==
  [e \in Download |-> [j \in Frag |->
     IF fs[e][j].at = "wait" THEN [fs[e][j] EXCEPT !.woken = TRUE] ELSE fs[e][j]]]

(* notify_waiters reaches the futures that have registered, those refused  *)
(* that do not sleep yet included.                                         *)
Woken(fs) ==
  [e \in Download |-> [j \in Frag |->
     IF fs[e][j].at \in {"refused", "wait"} THEN [fs[e][j] EXCEPT !.woken = TRUE] ELSE fs[e][j]]]

-----------------------------------------------------------------------------
(* A fragment: call_fragment_budgeted and its caller *)

(* The top of acquire's loop, on a new future, one whose backoff has       *)
(* passed, or one that was woken: it registers, then checks.  A wakeup in  *)
(* between would only make it check again.                                 *)
Asks(d, i) ==
  /\ AtRest(d) /\ fetch[d] = "running"
  /\ \/ At(d, i, "start") \/ At(d, i, "backoff")
     \/ At(d, i, "wait") /\ frag[d][i].woken

Admit(d, i) ==
  /\ Asks(d, i)
  /\ HasRoom(lease[d]) /\ pool < Global
  /\ pool' = pool + 1
  /\ account' = [account EXCEPT ![lease[d]].inFlight = @ + 1]
  /\ frag' = [frag EXCEPT ![d][i].at = "call", ![d][i].woken = FALSE]
  /\ UNCHANGED <<learned, lease, fetch, left, abandoned, kills>>

Refuse(d, i) ==
  /\ Asks(d, i)
  /\ ~(HasRoom(lease[d]) /\ pool < Global)
  /\ frag' = [frag EXCEPT ![d][i].at = "refused", ![d][i].woken = FALSE]
  /\ UNCHANGED <<account, learned, pool, lease, fetch, left, abandoned, kills>>

(* The lock is free again; the future awaits its wakeup. *)
Sleep(d, i) ==
  /\ At(d, i, "refused")
  /\ frag' = [frag EXCEPT ![d][i].at = "wait"]
  /\ UNCHANGED <<account, learned, pool, lease, fetch, left, abandoned, kills>>

(* The call is answered or fails, and the permit is dropped, first thing.  *)
CallEnds(d, i) ==
  /\ AtRest(d) /\ fetch[d] = "running" /\ At(d, i, "call")
  /\ \E ok \in BOOLEAN : frag' = [frag EXCEPT ![d][i].at = "freed", ![d][i].ok = ok]
  /\ account' = Returned(lease[d])
  /\ pool' = pool - 1
  /\ UNCHANGED <<learned, lease, fetch, left, abandoned, kills>>

(* The permit's notify_waiters, and where the loop goes on the result: the *)
(* last failure is the future's own, kept until the fetch takes it.        *)
PermitNotifies(d, i) ==
  /\ At(d, i, "freed")
  /\ LET goes(at) == Woken([frag EXCEPT ![d][i].at = at])
     IN  \/ frag[d][i].ok /\ frag' = goes("answered")
         \/ /\ ~frag[d][i].ok /\ frag[d][i].tries < Retries
            /\ frag' = [goes("backoff") EXCEPT ![d][i].tries = @ + 1]
         \/ ~frag[d][i].ok /\ frag[d][i].tries = Retries /\ frag' = goes("died")
  /\ UNCHANGED <<account, learned, pool, lease, fetch, left, abandoned, kills>>

(* RouteLease::observe of a completion, and its notify_waiters. *)
Observe(d, i) ==
  /\ At(d, i, "answered")
  /\ \E slow \in BOOLEAN :
       account' = [account EXCEPT ![lease[d]].window = Completed(@, slow)]
  /\ frag' = [frag EXCEPT ![d][i].at = "observed"]
  /\ UNCHANGED <<learned, pool, lease, fetch, left, abandoned, kills>>

(* The rest of the fragments go through buffered(W_CEIL): so many futures   *)
(* at once, counting those whose result is not yet yielded, and results    *)
(* are yielded in order, so the next future starts once the fragment Ceil  *)
(* before it and all the earlier ones are done.                            *)
Yielded(d, i, k) == k = i \/ At(d, k, "idle")
Refill(d, i) ==
  [j \in Frag |->
     IF j = i THEN Idle
     ELSE IF i = 1 /\ j \in 2..Total[d] THEN IF j <= Ceil + 1 THEN Start ELSE Due
     ELSE IF At(d, j, "due") /\ \A k \in 2..(j - Ceil) : Yielded(d, i, k) THEN Start
     ELSE Woken(frag)[d][j]]

(* What was answered decodes, and the first fragment says how many there   *)
(* are, or a later one makes room for more; or it does not, for want of    *)
(* the content or by its bytes, or because the fragment has vanished,      *)
(* which counts as transport.                                              *)
ObserveNotifies(d, i) ==
  /\ At(d, i, "observed")
  /\ \/ frag' = [Woken(frag) EXCEPT ![d] = Refill(d, i)]
     \/ \E how \in {"quiet"} \cup (IF i = 1 THEN {} ELSE {"died"}) :
          frag' = [Woken(frag) EXCEPT ![d][i].at = how]
  /\ UNCHANGED <<account, learned, pool, lease, fetch, left, abandoned, kills>>

-----------------------------------------------------------------------------
(* A fetch: fetch_sealed_budgeted *)

StartFetch(d) ==
  /\ lease[d] # None /\ fetch[d] = "none" /\ left[d] > 0
  /\ fetch' = [fetch EXCEPT ![d] = "running"]
  /\ left' = [left EXCEPT ![d] = @ - 1]
  /\ frag' = [frag EXCEPT ![d][1] = Start]
  /\ UNCHANGED <<account, learned, pool, lease, abandoned, kills>>

Empty(d) == \A i \in Frag : At(d, i, "idle")

FetchComplete(d) ==
  /\ fetch[d] = "running" /\ Empty(d)
  /\ fetch' = [fetch EXCEPT ![d] = "none"]
  /\ UNCHANGED <<account, learned, pool, lease, frag, left, abandoned, kills>>

(* The stream yields in request order: a failure waits for every fragment  *)
(* before it, and the earliest one says how the fetch fails.               *)
TakeFailure(d, i) ==
  /\ fetch[d] = "running" /\ AtRest(d)
  /\ frag[d][i].at \in {"died", "quiet"}
  /\ \A j \in 1..(i - 1) : At(d, j, "idle")
  /\ fetch' = [fetch EXCEPT ![d] = frag[d][i].at]
  /\ UNCHANGED <<account, learned, pool, lease, frag, left, abandoned, kills>>

(* The engine drops a fetch that is still running: an integrity failure    *)
(* elsewhere in the download, or a panic.                                  *)
Cancel(d) ==
  /\ fetch[d] = "running" /\ AtRest(d)
  /\ fetch' = [fetch EXCEPT ![d] = "quiet"]
  /\ UNCHANGED <<account, learned, pool, lease, frag, left, abandoned, kills>>

(* try_collect has returned, or the fetch is dropped: each future goes,    *)
(* with its permit.  The call it had made goes on in the actor.            *)
DropFragment(d, i) ==
  /\ fetch[d] \in {"died", "quiet"} /\ AtRest(d) /\ ~At(d, i, "idle")
  /\ IF At(d, i, "call")
     THEN /\ account' = Returned(lease[d])
          /\ pool' = pool - 1
          /\ abandoned' = [abandoned EXCEPT ![lease[d]] = @ + 1]
          /\ frag' = [frag EXCEPT ![d][i].at = "dropped"]
     ELSE /\ frag' = [frag EXCEPT ![d][i] = Idle]
          /\ UNCHANGED <<account, pool, abandoned>>
  /\ UNCHANGED <<learned, lease, fetch, left, kills>>

DropNotifies(d, i) ==
  /\ At(d, i, "dropped")
  /\ frag' = [Woken(frag) EXCEPT ![d][i] = Idle]
  /\ UNCHANGED <<account, learned, pool, lease, fetch, left, abandoned, kills>>

(* A transport failure is observed once per fetch, after its futures have  *)
(* gone; the first one of a collapse is remembered for the sharer.         *)
ObserveFailed(d) ==
  /\ fetch[d] = "died" /\ Empty(d)
  /\ LET r == lease[d]
         s == SharerOf[r]
         w == account[r].window
     IN  /\ account' = [account EXCEPT ![r].window = Collapse(w),
                                       ![r].known = IF w.collapsed THEN @ ELSE @ \cup {w.width}]
         /\ learned' = IF w.collapsed THEN learned
                       ELSE [learned EXCEPT ![s] =
                               AtMost(IF @ = None THEN Ceil ELSE @, Learned(w))]
         /\ kills' = IF w.collapsed THEN kills ELSE [kills EXCEPT ![s] = @ \cup {w.width}]
  /\ fetch' = [fetch EXCEPT ![d] = "observed"]
  /\ UNCHANGED <<pool, lease, frag, left, abandoned>>

FetchFails(d) ==
  /\ \/ fetch[d] = "observed" /\ frag' = Woken(frag)
     \/ fetch[d] = "quiet" /\ Empty(d) /\ UNCHANGED frag
  /\ fetch' = [fetch EXCEPT ![d] = "none"]
  /\ UNCHANGED <<account, learned, pool, lease, left, abandoned, kills>>

(* The actor's call comes back to nobody. *)
AbandonedEnds(r) ==
  /\ abandoned[r] > 0
  /\ abandoned' = [abandoned EXCEPT ![r] = @ - 1]
  /\ UNCHANGED <<account, learned, pool, lease, fetch, frag, left, kills>>

-----------------------------------------------------------------------------
Init ==
  /\ account = [r \in Route |-> None]
  /\ learned = [s \in Sharer |-> None]
  /\ pool = 0
  /\ lease = [d \in Download |-> None]
  /\ fetch = [d \in Download |-> "none"]
  /\ frag = [d \in Download |-> [i \in Frag |-> Idle]]
  /\ left = [d \in Download |-> MaxFetches]
  /\ abandoned = [r \in Route |-> 0]
  /\ kills = [s \in Sharer |-> {}]

Fragment(d, i) ==
  \/ Admit(d, i) \/ Refuse(d, i) \/ Sleep(d, i) \/ CallEnds(d, i) \/ PermitNotifies(d, i)
  \/ Observe(d, i) \/ ObserveNotifies(d, i) \/ TakeFailure(d, i)
  \/ DropFragment(d, i) \/ DropNotifies(d, i)

Fetch(d) ==
  \/ StartFetch(d) \/ Cancel(d) \/ FetchComplete(d) \/ ObserveFailed(d) \/ FetchFails(d)
  \/ \E i \in Frag : Fragment(d, i)

Next ==
  \/ \E d \in Download : DropLease(d) \/ Fetch(d) \/ \E r \in Route : Lease(d, r)
  \/ \E r \in Route : AbandonedEnds(r)

Spec == Init /\ [][Next]_vars

-----------------------------------------------------------------------------
Holders(r) == {p \in Download \X Frag : lease[p[1]] = r /\ At(p[1], p[2], "call")}

Stage == {"idle", "due", "start", "backoff", "wait", "refused", "call", "freed", "answered",
          "observed", "dropped", "died", "quiet"}

TypeOK ==
  /\ account \in [Route -> Account \cup {None}]
  /\ learned \in [Sharer -> (Floor..Ceil) \cup {None}]
  /\ pool \in Nat
  /\ lease \in [Download -> Route \cup {None}]
  /\ fetch \in [Download -> {"none", "running", "died", "quiet", "observed"}]
  /\ frag \in [Download ->
       [Frag -> [at : Stage, tries : 0..Retries, woken : BOOLEAN, ok : BOOLEAN]]]
  /\ left \in [Download -> 0..MaxFetches]
  /\ abandoned \in [Route -> Nat]
  /\ kills \in [Sharer -> SUBSET (Floor..Ceil)]

(* Whatever way a call ends, by an answer, a failure or the drop of its    *)
(* future, and however leases of the route come and go, its account and    *)
(* the pool count exactly the permits that are held (BudgetPermit::drop,   *)
(* RouteLease::drop): a slot that leaked would never come back, and an     *)
(* account made anew over permits still held would let too many in.        *)
SlotsAccounted ==
  /\ pool = Cardinality(UNION {Holders(r) : r \in Route})
  /\ \A r \in Route :
       Cardinality(Holders(r)) = IF account[r] = None THEN 0 ELSE account[r].inFlight

(* Nobody sleeps over a free slot: where a fragment waits and has not been *)
(* woken though its route and the pool have room, a notify is still to     *)
(* come (acquire registers before it checks; every release and every       *)
(* widening notifies, after the unlock).                                   *)
NotifyOwed ==
  \E d \in Download :
    \/ fetch[d] = "observed"
    \/ \E i \in Frag : frag[d][i].at \in {"freed", "observed", "dropped"}
NoSleeperMissed ==
  \A d \in Download, i \in Frag :
    At(d, i, "wait") /\ ~frag[d][i].woken /\ HasRoom(lease[d]) /\ pool < Global => NotifyOwed

(* A sharer's route that has died at some width is remembered: the account *)
(* that saw it, and every account of a route of that sharer opened later,  *)
(* rotated or not, stays at half that width (DL-ISC-2).                    *)
DeathRemembered ==
  \A r \in Route : account[r] # None =>
    \A k \in account[r].known : account[r].window.width <= Halved(k)

(* route_budget.rs: "This module caps the exact physical quantity with a   *)
(* SINGLE per-route budget"; share.rs: "total in-flight app_calls to the   *)
(* route stay <= W(route)".  With the window pinned at the floor, as       *)
(* shipped, that is the calls the actor has out over a route.              *)
CallsWithinWindow ==
  \A r \in Route : Cardinality(Holders(r)) + abandoned[r] <= Ceil
=============================================================================
