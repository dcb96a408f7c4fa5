------------------------- MODULE ShareRoutesProofs -------------------------
(***************************************************************************)
(* The safety properties of ShareRoutes, for any number of previews and    *)
(* downloads, any adverts in any order and any number of generations.      *)
(*                                                                         *)
(* RoutesInv ties the guard to the tasks: its count is the number of       *)
(* previews spawned and not folded, which holds only because each outcome  *)
(* is folded once, in the channel of its kind (OutcomesOnce); a route is   *)
(* deferred only while a preview runs, and a share that is gone keeps its  *)
(* guard entry only until its last preview is folded.                      *)
(***************************************************************************)
EXTENDS ShareRoutes, FiniteSetTheorems, TLAPS

(* Each outcome on its way is of a task that ended, once.                  *)
OutcomesOnce ==
  /\ \A k \in Kind : \A i \in DOMAIN done[k] :
       /\ task[done[k][i]] # None
       /\ task[done[k][i]].kind = k
       /\ task[done[k][i]].stage = "ended"
       /\ task[done[k][i]].outcome # None
       /\ k = "fetch" => task[done[k][i]].outcome # "other"
  /\ \A k \in Kind : \A i, j \in DOMAIN done[k] : done[k][i] = done[k][j] => i = j

(* A supersede waits only for a preview that runs.                         *)
DeferredWhileUsed == guard # None /\ guard.inFlight = 0 => guard.pending = None

(* Of a share that is gone the guard keeps what its last previews free.    *)
GoneIsLeaving ==
  discovered = None =>
    /\ parked = None
    /\ guard # None => guard.withdrawn /\ guard.inFlight > 0

RoutesInv ==
  TypeOK /\ OutcomesOnce /\ CountIsExact /\ DeferredWhileUsed /\ GoneIsLeaving

-----------------------------------------------------------------------------
(* The absent value is none of the records it stands beside.               *)
LEMMA NoneFacts ==
  /\ None \notin Nat /\ None \notin Route /\ None \notin Entry /\ None \notin Work
  /\ None \notin Outcome /\ None \notin Blob
  /\ Blob \subseteq Nat
  /\ MaxGen \in Nat
  BY NoneIsAbsent, RoutesAssumption DEF Blob

(* The fields of what the variables hold. *)
LEMMA Fields ==
  /\ \A d \in Route : d.blob \in Blob /\ d.gen \in 1..MaxGen /\ d.unresolved \in BOOLEAN
  /\ \A e \in Entry : /\ e.route \in Blob \cup {None} /\ e.pending \in Blob \cup {None}
                      /\ e.inFlight \in 0..Cardinality(Task) /\ e.withdrawn \in BOOLEAN
  /\ \A w \in Work : /\ w.kind \in Kind /\ w.blob \in Blob /\ w.gen \in 1..MaxGen
                     /\ w.stage \in {"spawned", "streaming", "ended"}
                     /\ w.outcome \in Outcome \cup {None}
  <1>1. \A d \in Route : d.blob \in Blob /\ d.gen \in 1..MaxGen /\ d.unresolved \in BOOLEAN
    BY DEF Route
  <1>2. \A e \in Entry : /\ e.route \in Blob \cup {None} /\ e.pending \in Blob \cup {None}
                         /\ e.inFlight \in 0..Cardinality(Task) /\ e.withdrawn \in BOOLEAN
    BY DEF Entry
  <1>3. \A w \in Work : /\ w.kind \in Kind /\ w.blob \in Blob /\ w.gen \in 1..MaxGen
                        /\ w.stage \in {"spawned", "streaming", "ended"}
                        /\ w.outcome \in Outcome \cup {None}
    BY DEF Work
  <1> QED BY <1>1, <1>2, <1>3

(* The previews under way are finitely many. *)
LEMMA PreviewsFinite ==
  /\ IsFiniteSet(Previews)
  /\ Cardinality(Task) \in Nat
  /\ Cardinality(Previews) \in 0..Cardinality(Task)
  <1>1. IsFiniteSet(Task) /\ Previews \subseteq Task
    BY RoutesAssumption DEF Previews
  <1>2. IsFiniteSet(Previews) /\ Cardinality(Previews) <= Cardinality(Task)
    BY <1>1, FS_Subset
  <1>3. Cardinality(Task) \in Nat /\ Cardinality(Previews) \in Nat
    BY <1>1, <1>2, FS_CardinalityType
  <1> QED BY <1>2, <1>3

-----------------------------------------------------------------------------
(* The guard.  GuardStep says what each of its methods may make of the     *)
(* entry when n previews are under way afterwards.                         *)

GuardSound(n, share) ==
  /\ guard' \in Entry \cup {None}
  /\ releasing' \subseteq Blob /\ known' \subseteq Blob
  /\ n = (IF guard' = None THEN 0 ELSE guard'.inFlight)
  /\ guard' # None /\ guard'.inFlight = 0 => guard'.pending = None
  /\ share = None /\ guard' # None => guard'.withdrawn /\ guard'.inFlight > 0
  /\ releasing' # releasing => n = 0

GuardInv ==
  /\ guard \in Entry \cup {None}
  /\ releasing \subseteq Blob /\ known \subseteq Blob
  /\ DeferredWhileUsed
  /\ CountIsExact

(* Counting, and giving the entry a route, changes nothing else of it. *)
CountedIn(e, n) == [e EXCEPT !.inFlight = n, !.withdrawn = FALSE]
CountedOut(e, n, b) == [e EXCEPT !.inFlight = n, !.route = b]

LEMMA EntryWith ==
  ASSUME NEW e \in Entry, NEW n \in 0..Cardinality(Task), NEW b \in Blob \cup {None}
  PROVE  /\ CountedIn(e, n) \in Entry /\ CountedIn(e, n).inFlight = n
         /\ CountedOut(e, n, b) \in Entry /\ CountedOut(e, n, b).inFlight = n
         /\ CountedOut(e, n, b).withdrawn = e.withdrawn
         /\ CountedOut(e, n, b).route = b /\ CountedOut(e, n, b).pending = e.pending
  <1>1. CountedIn(e, n) \in Entry /\ CountedIn(e, n).inFlight = n
    BY DEF Entry, CountedIn
  <1>2. CountedOut(e, n, b) \in Entry /\ CountedOut(e, n, b).inFlight = n
    BY DEF Entry, CountedOut
  <1>3. /\ CountedOut(e, n, b).withdrawn = e.withdrawn
        /\ CountedOut(e, n, b).route = b /\ CountedOut(e, n, b).pending = e.pending
    BY DEF Entry, CountedOut
  <1> QED BY <1>1, <1>2, <1>3

(* A preview is counted in. *)
LEMMA StartedSound ==
  ASSUME GuardInv, NoteFetchStarted, Cardinality(Previews) + 1 <= Cardinality(Task)
  PROVE  \A share : share # None => GuardSound(Cardinality(Previews) + 1, share)
  <1> DEFINE e == IF guard = None THEN FreshEntry ELSE guard
             g == [e EXCEPT !.inFlight = @ + 1, !.withdrawn = FALSE]
  <1>1. Cardinality(Previews) \in Nat /\ Cardinality(Task) \in Nat
    BY PreviewsFinite
  <1>2. e \in Entry /\ e.inFlight = Cardinality(Previews)
    BY <1>1, NoneFacts DEF GuardInv, CountIsExact, FreshEntry, Entry
  <1>3. g \in Entry /\ g.inFlight = Cardinality(Previews) + 1
    <2> HIDE DEF e
    <2>1. e.inFlight + 1 \in 0..Cardinality(Task)
      BY <1>1, <1>2
    <2>2. g = CountedIn(e, e.inFlight + 1)
      BY DEF CountedIn
    <2> QED BY <1>2, <2>1, <2>2, EntryWith
  <1>4. guard' = g /\ releasing' = releasing /\ known' = known
    BY DEF NoteFetchStarted, Guarded
  <1>5. g # None
    BY <1>3, NoneFacts
  <1> HIDE DEF g
  <1> QED BY <1>1, <1>3, <1>4, <1>5 DEF GuardSound, GuardInv

(* A preview is counted out: with the last one go the deferred route and,  *)
(* of a withdrawn share, the route it still has.                           *)
LEMMA FinishedSound ==
  ASSUME GuardInv, NEW route \in Blob \cup {None}, NoteFetchFinished(route),
         Cardinality(Previews) # 0,
         NEW share, share = None /\ guard # None => guard.withdrawn
  PROVE  GuardSound(Cardinality(Previews) - 1, share)
  <1> DEFINE counted == [guard EXCEPT !.inFlight = IF @ = 0 THEN 0 ELSE @ - 1,
                                      !.route = IF route = None THEN @ ELSE route]
             leaving == counted.withdrawn /\ counted.route # None
             rest == [counted EXCEPT !.pending = None,
                                     !.route = IF leaving THEN None ELSE @]
             free == Some(counted.pending) \cup (IF leaving THEN {counted.route} ELSE {})
  <1>1. Cardinality(Previews) \in Nat /\ Cardinality(Task) \in Nat
    BY PreviewsFinite
  <1>2. guard # None /\ guard \in Entry /\ guard.inFlight = Cardinality(Previews)
    BY <1>1 DEF GuardInv, CountIsExact
  <1> DEFINE left == IF guard.inFlight = 0 THEN 0 ELSE guard.inFlight - 1
             given == IF route = None THEN guard.route ELSE route
  <1>8. left = Cardinality(Previews) - 1 /\ left \in 0..Cardinality(Task)
    BY <1>1, <1>2, PreviewsFinite
  <1>9. given \in Blob \cup {None}
    BY <1>2, Fields
  <1>10. counted = CountedOut(guard, left, given)
    BY DEF CountedOut
  <1> HIDE DEF left, given, counted
  <1>3. counted \in Entry
    BY <1>2, <1>8, <1>9, <1>10, EntryWith
  <1>4. counted.inFlight = Cardinality(Previews) - 1 /\ counted.withdrawn = guard.withdrawn
    BY <1>2, <1>8, <1>9, <1>10, EntryWith
  <1>5. Some(route) \subseteq Blob
    BY DEF Some
  <1>6. CASE counted.inFlight # 0
    <2>1. guard' = counted /\ releasing' = releasing \cup {}
         /\ known' = (known \cup Some(route)) \ {}
      BY <1>2, <1>6 DEF counted, NoteFetchFinished, Guarded
    <2>2. guard' # None
      BY <1>3, <2>1, NoneFacts
    <2> QED BY <1>1, <1>2, <1>3, <1>4, <1>5, <1>6, <2>1, <2>2 DEF GuardSound, GuardInv
  <1>7. CASE counted.inFlight = 0
    <2>1. guard' = Gc(rest) /\ releasing' = releasing \cup free
         /\ known' = (known \cup Some(route)) \ free
      BY <1>2, <1>7 DEF counted, NoteFetchFinished, Guarded
    <2>2. rest \in Entry
      BY <1>3 DEF Entry
    <2>3. rest.inFlight = 0 /\ rest.pending = None /\ rest.withdrawn = counted.withdrawn
      BY <1>3, <1>7 DEF Entry
    <2>4. counted.withdrawn => rest.route = None
      BY <1>3 DEF Entry
    <2>5. free \subseteq Blob
      BY <1>3, Fields DEF Some
    <2> HIDE DEF rest, free
    <2>6. guard' = None \/ guard' = rest
      BY <2>1 DEF Gc
    <2>7. counted.withdrawn => guard' = None
      BY <2>1, <2>3, <2>4 DEF Gc
    <2>8. Cardinality(Previews) - 1 = 0
      BY <1>4, <1>7
    <2>9. releasing' \subseteq Blob /\ known' \subseteq Blob
      BY <1>5, <2>1, <2>5 DEF GuardInv
    <2>10. share = None => guard' = None
      BY <1>2, <1>4, <2>7
    <2> QED BY <2>2, <2>3, <2>6, <2>8, <2>9, <2>10 DEF GuardSound
  <1> QED BY <1>6, <1>7

(* A rotated advert supersedes the route held: at once, where no preview   *)
(* runs, and else with the last one.                                       *)
LEMMA ReplacedSound ==
  ASSUME GuardInv, NoteAdvertReplaced,
         NEW share, share # None
  PROVE  GuardSound(Cardinality(Previews), share)
  <1>1. Cardinality(Previews) \in Nat
    BY PreviewsFinite
  <1>2. CASE Held = None /\ UnchangedGuard
    BY <1>1, <1>2 DEF GuardSound, GuardInv, UnchangedGuard, CountIsExact, DeferredWhileUsed
  <1>3. CASE Held # None /\ ~(Held = None /\ UnchangedGuard)
    <2> DEFINE bare == [guard EXCEPT !.route = None]
               deferred == [guard EXCEPT !.route = None, !.pending = guard.route]
    <2>1. guard \in Entry /\ guard # None /\ guard.route \in Blob
      BY <1>3, Fields DEF Held, GuardInv
    <2>2. guard.inFlight = Cardinality(Previews)
      BY <2>1 DEF GuardInv, CountIsExact
    <2>3. bare \in Entry /\ bare.inFlight = guard.inFlight /\ bare.pending = guard.pending
      BY <2>1 DEF Entry
    <2>4. deferred \in Entry /\ deferred.inFlight = guard.inFlight
      BY <2>1 DEF Entry
    <2>5. bare # None /\ deferred # None
      BY <2>3, <2>4, NoneFacts
    <2>6. CASE guard.inFlight = 0
      <3>1. guard' = Gc(bare) /\ releasing' = releasing \cup {guard.route}
           /\ known' = (known \cup {}) \ ({guard.route} \cup {})
        BY <1>3, <2>6 DEF NoteAdvertReplaced, Guarded
      <3> HIDE DEF bare
      <3>2. guard' \in {None, bare}
        BY <3>1 DEF Gc
      <3> QED BY <2>1, <2>2, <2>3, <2>6, <3>1, <3>2 DEF GuardSound, GuardInv, DeferredWhileUsed
    <2>7. CASE guard.inFlight # 0 /\ guard.pending = None
      <3>1. guard' = deferred /\ releasing' = releasing \cup {}
           /\ known' = (known \cup {}) \ ({} \cup {})
        BY <1>3, <2>7 DEF NoteAdvertReplaced, Guarded
      <3> HIDE DEF deferred
      <3> QED BY <2>2, <2>4, <2>5, <2>7, <3>1 DEF GuardSound, GuardInv
    <2>8. CASE guard.inFlight # 0 /\ guard.pending # None
      <3>1. guard' = bare /\ releasing' = releasing \cup {}
           /\ known' = (known \cup {}) \ ({} \cup {guard.route})
        BY <1>3, <2>8 DEF NoteAdvertReplaced, Guarded
      <3> HIDE DEF bare
      <3> QED BY <2>2, <2>3, <2>5, <2>8, <3>1 DEF GuardSound, GuardInv
    <2> QED BY <2>6, <2>7, <2>8
  <1> QED BY <1>2, <1>3 DEF NoteAdvertReplaced

(* A withdrawal frees the route held, or leaves it to the last preview.    *)
LEMMA WithdrawnSound ==
  ASSUME GuardInv, NoteShareWithdrawn
  PROVE  \A share : GuardSound(Cardinality(Previews), share)
  <1>1. Cardinality(Previews) \in Nat
    BY PreviewsFinite
  <1>2. CASE guard = None
    BY <1>1, <1>2 DEF NoteShareWithdrawn, GuardSound, GuardInv, UnchangedGuard, CountIsExact
  <1>3. CASE guard # None
    <2> DEFINE marked == [guard EXCEPT !.withdrawn = TRUE]
    <2>1. guard \in Entry /\ guard.inFlight = Cardinality(Previews)
      BY <1>3 DEF GuardInv, CountIsExact
    <2>2. marked \in Entry /\ marked.inFlight = guard.inFlight /\ marked.withdrawn
      BY <2>1 DEF Entry
    <2>3. Some(guard.route) \subseteq Blob
      BY <2>1, Fields DEF Some
    <2>4. CASE guard.inFlight = 0
      <3>1. guard' = None /\ releasing' = releasing \cup Some(guard.route)
           /\ known' = (known \cup {}) \ (Some(guard.route) \cup {})
        BY <1>3, <2>4 DEF NoteShareWithdrawn, Guarded
      <3> QED BY <2>1, <2>3, <2>4, <3>1 DEF GuardSound, GuardInv
    <2>5. CASE guard.inFlight # 0
      <3>1. guard' = marked /\ releasing' = releasing \cup {}
           /\ known' = (known \cup {}) \ ({} \cup {})
        BY <1>3, <2>5 DEF NoteShareWithdrawn, Guarded
      <3>2. guard' # None
        BY <2>2, <3>1, NoneFacts
      <3> HIDE DEF marked
      <3> QED BY <1>1, <2>1, <2>2, <2>5, <3>1, <3>2 DEF GuardSound, GuardInv
    <2> QED BY <2>4, <2>5
  <1> QED BY <1>2, <1>3
-----------------------------------------------------------------------------
(* The tasks. *)

(* One task changes, the others do not. *)
LEMMA TaskSet ==
  ASSUME TypeOK, NEW t \in Task, NEW w \in Work \cup {None}, task' = [task EXCEPT ![t] = w]
  PROVE  /\ task' \in [Task -> Work \cup {None}]
         /\ task'[t] = w
         /\ \A u \in Task : u # t => task'[u] = task[u]
  BY DEF TypeOK

(* The outcomes on their way stand while the tasks that ended do. *)
LEMMA OutcomesKept ==
  ASSUME TypeOK, OutcomesOnce, done' = done,
         \A t \in Task : task[t] # None /\ task[t].stage = "ended" => task'[t] = task[t]
  PROVE  OutcomesOnce'
  <1>1. \A k \in Kind : \A i \in DOMAIN done[k] : done[k][i] \in Task
    BY DEF TypeOK
  <1> QED BY <1>1 DEF OutcomesOnce

(* The first outcome of a channel leaves it; what is behind stays once. *)
LEMMA TakenFacts ==
  ASSUME TypeOK, OutcomesOnce, NEW t \in Task, NEW kind \in Kind, Taken(t, kind)
  PROVE  /\ task[t] \in Work /\ task[t].kind = kind /\ task[t].outcome \in Outcome
         /\ kind = "fetch" => task[t].outcome # "other"
         /\ task' \in [Task -> Work \cup {None}] /\ task'[t] = None
         /\ \A u \in Task : u # t => task'[u] = task[u]
         /\ done' \in [Kind -> Seq(Task)]
         /\ OutcomesOnce'
  <1>1. done[kind] \in Seq(Task) /\ done[kind] # <<>> /\ Head(done[kind]) = t
    BY DEF TypeOK, Taken
  <1>2. 1 \in DOMAIN done[kind] /\ done[kind][1] = t
    BY <1>1
  <1>3. /\ task[t] \in Work /\ task[t].kind = kind /\ task[t].outcome \in Outcome
        /\ kind = "fetch" => task[t].outcome # "other"
    BY <1>2, Fields DEF TypeOK, OutcomesOnce
  <1>4. /\ task' \in [Task -> Work \cup {None}] /\ task'[t] = None
        /\ \A u \in Task : u # t => task'[u] = task[u]
    BY TaskSet DEF Taken
  <1>5. done'[kind] = Tail(done[kind]) /\ \A k \in Kind : k # kind => done'[k] = done[k]
    BY DEF TypeOK, Taken
  <1>6. /\ Tail(done[kind]) \in Seq(Task)
        /\ \A i \in DOMAIN Tail(done[kind]) :
             /\ i \in Nat /\ i + 1 \in DOMAIN done[kind]
             /\ Tail(done[kind])[i] = done[kind][i + 1]
    BY <1>1
  <1>7. done' \in [Kind -> Seq(Task)]
    BY <1>1, <1>6 DEF TypeOK, Taken
  <1>8. \A k \in Kind : \A i, j \in DOMAIN done'[k] : done'[k][i] = done'[k][j] => i = j
    <2>1. ASSUME NEW i \in DOMAIN done'[kind], NEW j \in DOMAIN done'[kind],
                 done'[kind][i] = done'[kind][j]
          PROVE  i = j
      <3>1. i + 1 = j + 1
        BY <1>5, <1>6, <2>1 DEF OutcomesOnce
      <3> QED BY <1>5, <1>6, <3>1
    <2> QED BY <1>5, <2>1 DEF OutcomesOnce
  <1>9. \A k \in Kind : \A i \in DOMAIN done'[k] : done'[k][i] \in Task \ {t}
    <2>1. ASSUME NEW i \in DOMAIN done'[kind] PROVE done'[kind][i] \in Task \ {t}
      <3>1. done[kind][i + 1] # t
        BY <1>2, <1>5, <1>6 DEF OutcomesOnce
      <3> QED BY <1>1, <1>5, <1>6, <3>1
    <2>2. ASSUME NEW k \in Kind, k # kind, NEW i \in DOMAIN done'[k]
          PROVE  done'[k][i] \in Task \ {t}
      <3>1. task[done[k][i]].kind = k /\ done[k][i] \in Task
        BY <1>5, <2>2 DEF OutcomesOnce, TypeOK
      <3> QED BY <1>3, <1>5, <2>2, <3>1
    <2> QED BY <2>1, <2>2
  <1>10. \A k \in Kind : \A i \in DOMAIN done'[k] :
           \E j \in DOMAIN done[k] : done'[k][i] = done[k][j]
    BY <1>5, <1>6
  <1>11. \A k \in Kind : \A i \in DOMAIN done'[k] :
           /\ task'[done'[k][i]] # None
           /\ task'[done'[k][i]].kind = k
           /\ task'[done'[k][i]].stage = "ended"
           /\ task'[done'[k][i]].outcome # None
           /\ k = "fetch" => task'[done'[k][i]].outcome # "other"
    BY <1>4, <1>9, <1>10 DEF OutcomesOnce
  <1>12. OutcomesOnce'
    BY <1>8, <1>11 DEF OutcomesOnce
  <1> QED BY <1>3, <1>4, <1>7, <1>12

(* The previews under way change with a spawn and a fold only. *)
LEMMA PreviewsKept ==
  ASSUME \A t \in Task : /\ task'[t] # None <=> task[t] # None
                         /\ task[t] # None => task'[t].kind = task[t].kind
  PROVE  Previews' = Previews
  BY DEF Previews

-----------------------------------------------------------------------------
(* The parts of RoutesInv the guard's methods rest on, and those they give *)
(* back.                                                                   *)
LEMMA GuardPart == RoutesInv => GuardInv
  BY DEF RoutesInv, TypeOK, GuardInv

RestTyped ==
  /\ catalog \in Listing \cup {None}
  /\ discovered \in Route \cup {None}
  /\ parked \in 1..MaxGen \cup {None}
  /\ generation \in 0..MaxGen
  /\ task \in [Task -> Work \cup {None}]
  /\ done \in [Kind -> Seq(Task)]
  /\ imported \subseteq Blob

(* A step the guard has part in, seen from its two halves. *)
LEMMA Combine ==
  ASSUME RestTyped', OutcomesOnce', GuardSound(Cardinality(Previews'), discovered'),
         discovered' = None => parked' = None
  PROVE  RoutesInv'
  BY DEF RestTyped, GuardSound, RoutesInv, TypeOK, CountIsExact, DeferredWhileUsed, GoneIsLeaving

(* A step that leaves the guard alone. *)
LEMMA UnchangedSound ==
  ASSUME RoutesInv, UnchangedGuard, NEW share, share = None => discovered = None
  PROVE  GuardSound(Cardinality(Previews), share)
  <1>1. Cardinality(Previews) = IF guard = None THEN 0 ELSE guard.inFlight
    BY DEF RoutesInv, CountIsExact
  <1>2. share = None /\ guard # None => guard.withdrawn /\ guard.inFlight > 0
    BY DEF RoutesInv, GoneIsLeaving
  <1>3. guard # None /\ guard.inFlight = 0 => guard.pending = None
    BY DEF RoutesInv, DeferredWhileUsed
  <1>4. guard \in Entry \cup {None} /\ releasing \subseteq Blob /\ known \subseteq Blob
    BY DEF RoutesInv, TypeOK
  <1> QED BY <1>1, <1>2, <1>3, <1>4 DEF UnchangedGuard, GuardSound
-----------------------------------------------------------------------------
(* One lemma for each action. *)

(* Nothing is known, held, running or on its way at first. *)
LEMMA InitRoutes == Init => RoutesInv
  <1>1. SUFFICES ASSUME Init PROVE RoutesInv
    OBVIOUS
  <1>2. Previews = {} /\ Cardinality(Previews) = 0
    BY <1>1, FS_EmptySet DEF Init, Previews
  <1>3. TypeOK
    BY <1>1, NoneFacts DEF Init, TypeOK
  <1>4. OutcomesOnce
    BY <1>1 DEF Init, OutcomesOnce
  <1> QED BY <1>1, <1>2, <1>3, <1>4 DEF Init, RoutesInv, CountIsExact, DeferredWhileUsed, GoneIsLeaving

(* What an advert says. *)
LEMMA AdvertFields ==
  \A a \in Adverts : /\ a.at \in Nat /\ a.blob \in Blob
                     /\ [at |-> a.at, meta |-> a.meta] \in Listing
  BY RoutesAssumption DEF Blob, Listing

(* An advert read again, a newer one or an older one of another route. *)
LEMMA ReadAdvertRoutes ==
  ASSUME RoutesInv, NEW a \in Adverts, ReadAdvert(a)
  PROVE  RoutesInv' /\ GuardSound(Cardinality(Previews'), discovered')
  <1> DEFINE rotated == discovered # None /\ discovered.blob # a.blob
             fresh == [blob |-> a.blob, gen |-> generation + 1,
                       unresolved |-> ~rotated /\ discovered # None /\ discovered.unresolved]
  <1>1. /\ UNCHANGED <<task, done, imported>>
        /\ catalog' = [at |-> a.at, meta |-> a.meta] \/ catalog' = catalog
        /\ \/ FoldAdvert(a, rotated)
           \/ UNCHANGED <<generation, discovered, parked>> /\ UnchangedGuard
    BY DEF ReadAdvert
  <1>2. Previews' = Previews
    BY <1>1 DEF Previews
  <1>3. OutcomesOnce'
    BY <1>1 DEF RoutesInv, OutcomesOnce
  <1>4. catalog' \in Listing \cup {None}
    BY <1>1, AdvertFields DEF RoutesInv, TypeOK
  <1>5. CASE UNCHANGED <<generation, discovered, parked>> /\ UnchangedGuard
    <2>1. GuardSound(Cardinality(Previews'), discovered')
      BY <1>2, <1>5, UnchangedSound
    <2>2. RestTyped'
      BY <1>1, <1>4, <1>5 DEF RoutesInv, TypeOK, RestTyped
    <2>3. discovered' = None => parked' = None
      BY <1>5 DEF RoutesInv, GoneIsLeaving
    <2> QED BY <1>3, <2>1, <2>2, <2>3, Combine
  <1>6. CASE FoldAdvert(a, rotated)
    <2>1. /\ generation < MaxGen /\ generation' = generation + 1
          /\ discovered' = fresh
          /\ parked' = None \/ parked' = parked
          /\ IF rotated THEN NoteAdvertReplaced ELSE UnchangedGuard
      <3>1. generation < MaxGen /\ generation' = generation + 1
        BY <1>6 DEF FoldAdvert
      <3>2. discovered' = fresh
        BY <1>6, Zenon DEF FoldAdvert
      <3>3. parked' = None \/ parked' = parked
        BY <1>6 DEF FoldAdvert
      <3>4. IF rotated THEN NoteAdvertReplaced ELSE UnchangedGuard
        BY <1>6 DEF FoldAdvert
      <3> HIDE DEF rotated, fresh
      <3> QED BY <3>1, <3>2, <3>3, <3>4
    <2>2. generation' \in 1..MaxGen
      BY <2>1, NoneFacts DEF RoutesInv, TypeOK
    <2>3. fresh.unresolved \in BOOLEAN
      BY Fields DEF RoutesInv, TypeOK
    <2>4. discovered' \in Route /\ discovered' # None
      <3> DEFINE mark == ~rotated /\ discovered # None /\ discovered.unresolved
      <3>1. mark \in BOOLEAN /\ discovered' = [blob |-> a.blob, gen |-> generation', unresolved |-> mark]
        BY <2>1
      <3>2. a.blob \in Blob
        BY AdvertFields
      <3> HIDE DEF mark
      <3>3. discovered' \in Route
        BY <2>2, <3>1, <3>2 DEF Route
      <3> QED BY <3>3, NoneFacts
    <2>5. RestTyped'
      BY <1>1, <1>4, <2>1, <2>2, <2>4 DEF RoutesInv, TypeOK, RestTyped
    <2>6. CASE rotated
      <3>1. GuardSound(Cardinality(Previews'), discovered')
        BY <1>2, <2>1, <2>4, <2>6, GuardPart, ReplacedSound
      <3> QED BY <1>3, <2>4, <2>5, <3>1, Combine
    <2>7. CASE ~rotated
      <3>1. GuardSound(Cardinality(Previews'), discovered')
        BY <1>2, <2>1, <2>4, <2>7, UnchangedSound
      <3> QED BY <1>3, <2>4, <2>5, <3>1, Combine
    <2> QED BY <2>6, <2>7
  <1> QED BY <1>1, <1>5, <1>6

(* A withdrawal takes the share and its retry away. *)
LEMMA ReadWithdrawRoutes ==
  ASSUME RoutesInv, NEW a \in Adverts, ReadWithdraw(a)
  PROVE  RoutesInv' /\ GuardSound(Cardinality(Previews'), discovered')
  <1>1. /\ catalog' = None /\ discovered' = None /\ parked' = None
        /\ NoteShareWithdrawn /\ UNCHANGED <<generation, task, done, imported>>
    BY DEF ReadWithdraw
  <1>2. Previews' = Previews
    BY <1>1 DEF Previews
  <1>3. OutcomesOnce'
    BY <1>1 DEF RoutesInv, OutcomesOnce
  <1>4. RestTyped'
    BY <1>1 DEF RoutesInv, TypeOK, RestTyped
  <1>5. GuardSound(Cardinality(Previews'), discovered')
    BY <1>1, <1>2, GuardPart, WithdrawnSound
  <1> QED BY <1>1, <1>3, <1>4, <1>5, Combine

(* What only the catalog, the parked retry or the transport sees. *)
LEMMA AsideRoutes ==
  ASSUME RoutesInv, Prune \/ ProcessParked \/ \E r \in Blob : ReleaseRoute(r)
  PROVE  RoutesInv'
  <1>1. /\ UNCHANGED <<discovered, generation, guard, task, done, known>>
        /\ catalog' \in {catalog, None} /\ parked' \in {parked, None}
        /\ imported' \subseteq imported /\ releasing' \subseteq releasing
    BY DEF Prune, ProcessParked, ReleaseRoute
  <1>2. TypeOK'
    BY <1>1 DEF RoutesInv, TypeOK
  <1>3. OutcomesOnce' /\ DeferredWhileUsed' /\ GoneIsLeaving'
    BY <1>1 DEF RoutesInv, OutcomesOnce, DeferredWhileUsed, GoneIsLeaving
  <1>4. CountIsExact'
    <2>1. Previews' = Previews
      BY <1>1 DEF Previews
    <2> QED BY <1>1, <2>1 DEF RoutesInv, CountIsExact
  <1> QED BY <1>2, <1>3, <1>4 DEF RoutesInv

(* A preview or a download is spawned over the route the share now has.    *)
LEMMA SpawnFacts ==
  ASSUME RoutesInv, NEW t \in Task, NEW kind \in Kind, task[t] = None, discovered # None,
         Spawned(t, kind)
  PROVE  /\ task' \in [Task -> Work \cup {None}]
         /\ task'[t] # None /\ task'[t].kind = kind
         /\ \A u \in Task : u # t => task'[u] = task[u]
  <1> DEFINE w == [kind |-> kind, blob |-> discovered.blob, gen |-> discovered.gen,
                   stage |-> "spawned", outcome |-> None]
  <1>1. w \in Work /\ w.kind = kind
    BY Fields DEF RoutesInv, TypeOK, Work
  <1>2. w # None
    BY <1>1, NoneFacts
  <1>3. task' = [task EXCEPT ![t] = w]
    BY DEF Spawned
  <1> HIDE DEF w
  <1> QED BY <1>1, <1>2, <1>3, TaskSet DEF RoutesInv

(* A preview is counted when it is spawned. *)
LEMMA SpawnFetchRoutes ==
  ASSUME RoutesInv, NEW t \in Task, SpawnFetchShare(t)
  PROVE  RoutesInv'
  <1>1. /\ task[t] = None /\ discovered # None /\ Spawned(t, "fetch") /\ NoteFetchStarted
        /\ UNCHANGED <<catalog, discovered, parked, generation, done, imported>>
    BY DEF SpawnFetchShare
  <1>2. /\ task' \in [Task -> Work \cup {None}]
        /\ task'[t] # None /\ task'[t].kind = "fetch"
        /\ \A u \in Task : u # t => task'[u] = task[u]
    BY <1>1, SpawnFacts DEF Kind
  <1>3. Previews' = Previews \cup {t} /\ t \notin Previews
    BY <1>1, <1>2 DEF Previews
  <1>4. Cardinality(Previews') = Cardinality(Previews) + 1
    BY <1>3, PreviewsFinite, FS_AddElement
  <1>5. Cardinality(Previews') <= Cardinality(Task)
    <2>1. IsFiniteSet(Task) /\ Previews' \subseteq Task
      BY RoutesAssumption DEF Previews
    <2> QED BY <2>1, FS_Subset
  <1>6. GuardSound(Cardinality(Previews'), discovered')
    BY <1>1, <1>4, <1>5, GuardPart, StartedSound
  <1>7. OutcomesOnce'
    BY <1>1, <1>2, OutcomesKept DEF RoutesInv
  <1>8. RestTyped'
    BY <1>1, <1>2 DEF RoutesInv, TypeOK, RestTyped
  <1> QED BY <1>1, <1>6, <1>7, <1>8, Combine

(* What concerns the tasks and not the previews' number: a download is     *)
(* spawned, a route is imported, a task ends.                              *)
LEMMA QuietRoutes ==
  ASSUME RoutesInv, UNCHANGED <<catalog, discovered, parked, generation>>, UnchangedGuard,
         task' \in [Task -> Work \cup {None}], done' \in [Kind -> Seq(Task)],
         imported' \subseteq Blob,
         OutcomesOnce', Previews' = Previews
  PROVE  RoutesInv'
  <1>1. RestTyped'
    BY DEF RoutesInv, TypeOK, RestTyped
  <1>2. GuardSound(Cardinality(Previews'), discovered')
    BY UnchangedSound
  <1>3. discovered' = None => parked' = None
    BY DEF RoutesInv, GoneIsLeaving
  <1> QED BY <1>1, <1>2, <1>3, Combine

(* A download is not counted by the guard. *)
LEMMA SpawnConfirmRoutes ==
  ASSUME RoutesInv, NEW t \in Task, SpawnConfirmFetch(t)
  PROVE  RoutesInv'
  <1>1. /\ task[t] = None /\ discovered # None /\ Spawned(t, "download") /\ UnchangedGuard
        /\ UNCHANGED <<catalog, discovered, parked, generation, done, imported>>
    BY DEF SpawnConfirmFetch
  <1>2. /\ task' \in [Task -> Work \cup {None}]
        /\ task'[t] # None /\ task'[t].kind = "download"
        /\ \A u \in Task : u # t => task'[u] = task[u]
    BY <1>1, SpawnFacts DEF Kind
  <1>3. Previews' = Previews
    BY <1>1, <1>2 DEF Previews
  <1>4. OutcomesOnce'
    BY <1>1, <1>2, OutcomesKept DEF RoutesInv
  <1>5. done' \in [Kind -> Seq(Task)] /\ imported' \subseteq Blob
    BY <1>1 DEF RoutesInv, TypeOK
  <1> QED BY <1>1, <1>2, <1>3, <1>4, <1>5, QuietRoutes

(* A task imports its route and streams over it. *)
LEMMA ImportRoutes ==
  ASSUME RoutesInv, NEW t \in Task, ImportRoute(t)
  PROVE  RoutesInv'
  <1> DEFINE w == [task[t] EXCEPT !.stage = "streaming"]
  <1>1. /\ task[t] # None /\ task[t].stage = "spawned"
        /\ task' = [task EXCEPT ![t] = w]
        /\ imported' = imported \cup {task[t].blob}
        /\ UNCHANGED <<catalog, discovered, parked, generation, done>> /\ UnchangedGuard
    BY DEF ImportRoute, UnchangedGuard
  <1>2. task[t] \in Work /\ task[t].blob \in Blob
    BY <1>1, Fields DEF RoutesInv, TypeOK
  <1>3. w \in Work /\ w.kind = task[t].kind
    BY <1>2 DEF Work
  <1>4. w # None
    BY <1>3, NoneFacts
  <1> HIDE DEF w
  <1>5. /\ task' \in [Task -> Work \cup {None}] /\ task'[t] = w
        /\ \A u \in Task : u # t => task'[u] = task[u]
    BY <1>1, <1>3, TaskSet DEF RoutesInv
  <1>6. Previews' = Previews
    BY <1>1, <1>3, <1>4, <1>5, PreviewsKept
  <1>7. OutcomesOnce'
    BY <1>1, <1>5, OutcomesKept DEF RoutesInv
  <1>8. done' \in [Kind -> Seq(Task)] /\ imported' \subseteq Blob
    BY <1>1, <1>2 DEF RoutesInv, TypeOK
  <1> QED BY <1>1, <1>5, <1>6, <1>7, <1>8, QuietRoutes

(* A task ends once, and reports in the channel of its kind. *)
LEMMA EndTaskRoutes ==
  ASSUME RoutesInv, NEW t \in Task, NEW outcome \in Outcome, EndTask(t, outcome)
  PROVE  RoutesInv'
  <1> DEFINE w == [task[t] EXCEPT !.stage = "ended", !.outcome = outcome]
             kind == task[t].kind
  <1>1. /\ task[t] # None /\ task[t].stage # "ended"
        /\ task' = [task EXCEPT ![t] = w]
        /\ done' = [done EXCEPT ![kind] = Append(done[kind], t)]
        /\ UNCHANGED <<catalog, discovered, parked, generation, imported>> /\ UnchangedGuard
    BY DEF EndTask, UnchangedGuard
  <1>2. task[t] \in Work /\ kind \in Kind
    BY <1>1, Fields DEF RoutesInv, TypeOK
  <1>3. w \in Work /\ w.kind = kind /\ w.stage = "ended" /\ w.outcome = outcome
    BY <1>2 DEF Work
  <1>4. w # None /\ outcome # None
    BY <1>3, NoneFacts
  <1>16. kind = "fetch" => outcome # "other"
    BY DEF EndTask
  <1> HIDE DEF w
  <1>5. /\ task' \in [Task -> Work \cup {None}] /\ task'[t] = w
        /\ \A u \in Task : u # t => task'[u] = task[u]
    BY <1>1, <1>3, TaskSet DEF RoutesInv
  <1>6. Previews' = Previews
    BY <1>1, <1>3, <1>4, <1>5, PreviewsKept
  <1>7. done[kind] \in Seq(Task) /\ done \in [Kind -> Seq(Task)]
    BY <1>2 DEF RoutesInv, TypeOK
  <1>8. \A k \in Kind : \A i \in DOMAIN done[k] : done[k][i] \in Task /\ done[k][i] # t
    BY <1>1, <1>7 DEF RoutesInv, OutcomesOnce
  <1> HIDE DEF kind
  <1>9. /\ done' \in [Kind -> Seq(Task)]
        /\ done'[kind] = Append(done[kind], t)
        /\ \A k \in Kind : k # kind => done'[k] = done[k]
    BY <1>1, <1>2, <1>7
  <1>10. /\ Len(done[kind]) \in Nat /\ DOMAIN done[kind] = 1..Len(done[kind])
         /\ DOMAIN done'[kind] = 1..Len(done[kind]) + 1
         /\ done'[kind][Len(done[kind]) + 1] = t
         /\ \A i \in DOMAIN done[kind] : done'[kind][i] = done[kind][i]
    BY <1>7, <1>9
  <1>11. \A k \in Kind : \A i, j \in DOMAIN done'[k] : done'[k][i] = done'[k][j] => i = j
    <2>1. ASSUME NEW i \in DOMAIN done'[kind], NEW j \in DOMAIN done'[kind],
                 done'[kind][i] = done'[kind][j]
          PROVE  i = j
      <3>1. CASE i \in DOMAIN done[kind] /\ j \in DOMAIN done[kind]
        BY <1>2, <1>10, <2>1, <3>1 DEF RoutesInv, OutcomesOnce
      <3>2. CASE i \notin DOMAIN done[kind] \/ j \notin DOMAIN done[kind]
        BY <1>2, <1>8, <1>10, <2>1, <3>2
      <3> QED BY <3>1, <3>2
    <2> QED BY <1>9, <2>1 DEF RoutesInv, OutcomesOnce
  <1>12. \A k \in Kind : \A i \in DOMAIN done'[k] :
           \/ k = kind /\ done'[k][i] = t
           \/ \E j \in DOMAIN done[k] : done'[k][i] = done[k][j]
    BY <1>9, <1>10
  <1>13. \A k \in Kind : \A i \in DOMAIN done'[k] :
           /\ task'[done'[k][i]] # None
           /\ task'[done'[k][i]].kind = k
           /\ task'[done'[k][i]].stage = "ended"
           /\ task'[done'[k][i]].outcome # None
           /\ k = "fetch" => task'[done'[k][i]].outcome # "other"
    BY <1>3, <1>4, <1>5, <1>8, <1>12, <1>16 DEF RoutesInv, OutcomesOnce
  <1>14. OutcomesOnce'
    BY <1>11, <1>13 DEF OutcomesOnce
  <1>15. imported' \subseteq Blob
    BY <1>1 DEF RoutesInv, TypeOK
  <1> QED BY <1>1, <1>5, <1>6, <1>9, <1>14, <1>15, QuietRoutes

(* A share is marked unresolved and its retry parked, or both are cleared. *)
LEMMA MarkFacts ==
  ASSUME RoutesInv, MarkShareUnresolved \/ ClearShareUnresolved \/ UNCHANGED <<discovered, parked>>
  PROVE  /\ discovered' \in Route \cup {None} /\ parked' \in 1..MaxGen \cup {None}
         /\ discovered' = None <=> discovered = None
         /\ discovered' = None => parked' = None
  <1>1. discovered \in Route \cup {None} /\ parked \in 1..MaxGen \cup {None}
    BY DEF RoutesInv, TypeOK
  <1>2. CASE discovered = None
    BY <1>1, <1>2 DEF MarkShareUnresolved, ClearShareUnresolved, RoutesInv, GoneIsLeaving
  <1>3. CASE discovered # None
    <2>1. discovered \in Route /\ discovered.gen \in 1..MaxGen
      BY <1>1, <1>3, Fields
    <2>2. \A b \in BOOLEAN : [discovered EXCEPT !.unresolved = b] \in Route
      BY <2>1 DEF Route
    <2>3. \E b \in BOOLEAN : discovered' \in {discovered, [discovered EXCEPT !.unresolved = b]}
      BY <1>3 DEF MarkShareUnresolved, ClearShareUnresolved
    <2>4. discovered' \in Route /\ discovered' # None
      BY <2>1, <2>2, <2>3, NoneFacts
    <2>5. parked' \in {discovered.gen, None, parked}
      BY <1>3 DEF MarkShareUnresolved, ClearShareUnresolved
    <2> QED BY <1>1, <1>3, <2>1, <2>4, <2>5
  <1> QED BY <1>2, <1>3

(* The fold of a preview's outcome counts it out, whatever it came to.     *)
LEMMA FoldFetchRoutes ==
  ASSUME RoutesInv, NEW t \in Task, FoldFetchOutcome(t)
  PROVE  /\ RoutesInv'
         /\ t \in Previews /\ Previews' = Previews \ {t}
         /\ GuardSound(Cardinality(Previews'), discovered')
  <1>1. Taken(t, "fetch") /\ UNCHANGED <<catalog, generation, imported>>
    BY DEF FoldFetchOutcome
  <1>2. /\ task[t] \in Work /\ task[t].kind = "fetch" /\ task[t].outcome \in Outcome
        /\ task' \in [Task -> Work \cup {None}] /\ task'[t] = None
        /\ \A u \in Task : u # t => task'[u] = task[u]
        /\ done' \in [Kind -> Seq(Task)]
        /\ OutcomesOnce'
    BY <1>1, TakenFacts DEF RoutesInv, Kind
  <1>3. t \in Previews /\ Previews' = Previews \ {t}
    BY <1>2, NoneFacts DEF Previews
  <1>4. Cardinality(Previews') = Cardinality(Previews) - 1 /\ Cardinality(Previews) # 0
    <2>1. Cardinality(Previews') = Cardinality(Previews) - 1
      BY <1>3, PreviewsFinite, FS_RemoveElement
    <2>2. Cardinality(Previews) # 0
      BY <1>3, PreviewsFinite, FS_EmptySet
    <2> QED BY <2>1, <2>2
  <1>5. task[t].blob \in Blob /\ task[t].gen \in 1..MaxGen
    BY <1>2, Fields
  <1>6. discovered = None /\ guard # None => guard.withdrawn
    BY DEF RoutesInv, GoneIsLeaving
  <1>7. CASE FoldStale(t)
    <2>1. NoteFetchFinished(None) /\ discovered' = discovered
      BY <1>7 DEF FoldStale
    <2>2. GuardSound(Cardinality(Previews'), discovered')
      BY <1>4, <1>6, <2>1, GuardPart, FinishedSound
    <2>3. parked' \in 1..MaxGen \cup {None} /\ (discovered' = None => parked' = None)
      BY <1>5, <1>7 DEF FoldStale, RoutesInv, TypeOK, GoneIsLeaving
    <2>4. RestTyped'
      BY <1>1, <1>2, <2>1, <2>3 DEF RoutesInv, TypeOK, RestTyped
    <2> QED BY <1>2, <1>3, <2>2, <2>3, <2>4, Combine
  <1>8. CASE FoldLive(t) /\ discovered # None
    <2>1. \E route \in Blob \cup {None} : NoteFetchFinished(route)
      BY <1>5, <1>8 DEF FoldLive
    <2>2. /\ discovered' \in Route \cup {None} /\ parked' \in 1..MaxGen \cup {None}
          /\ discovered' # None
      BY <1>8, MarkFacts DEF FoldLive
    <2>3. GuardSound(Cardinality(Previews'), discovered')
      BY <1>4, <2>1, <2>2, GuardPart, FinishedSound
    <2>4. RestTyped'
      BY <1>1, <1>2, <2>2 DEF RoutesInv, TypeOK, RestTyped
    <2> QED BY <1>2, <1>3, <2>2, <2>3, <2>4, Combine
  <1> QED BY <1>7, <1>8 DEF FoldFetchOutcome

(* The fold of a download's outcome. *)
LEMMA FoldConfirmRoutes ==
  ASSUME RoutesInv, NEW t \in Task, FoldConfirmOutcome(t)
  PROVE  RoutesInv'
  <1>1. /\ Taken(t, "download") /\ UNCHANGED <<catalog, generation, imported>> /\ UnchangedGuard
        /\ MarkShareUnresolved \/ ClearShareUnresolved \/ UNCHANGED <<discovered, parked>>
    BY DEF FoldConfirmOutcome, UnchangedGuard
  <1>2. /\ task[t] \in Work /\ task[t].kind = "download"
        /\ task' \in [Task -> Work \cup {None}] /\ task'[t] = None
        /\ \A u \in Task : u # t => task'[u] = task[u]
        /\ done' \in [Kind -> Seq(Task)]
        /\ OutcomesOnce'
    BY <1>1, TakenFacts DEF RoutesInv, Kind
  <1>3. Previews' = Previews
    BY <1>2 DEF Previews
  <1>4. /\ discovered' \in Route \cup {None} /\ parked' \in 1..MaxGen \cup {None}
        /\ discovered' = None => discovered = None /\ parked' = None
    BY <1>1, MarkFacts
  <1>5. GuardSound(Cardinality(Previews'), discovered')
    BY <1>1, <1>3, <1>4, UnchangedSound
  <1>6. RestTyped'
    BY <1>1, <1>2, <1>4 DEF RoutesInv, TypeOK, RestTyped
  <1> QED BY <1>2, <1>4, <1>5, <1>6, Combine

(* Every step of the specification keeps RoutesInv. *)
LEMMA StepRoutes == RoutesInv /\ [Next]_vars => RoutesInv'
  <1>1. SUFFICES ASSUME RoutesInv, [Next]_vars PROVE RoutesInv'
    OBVIOUS
  <1>2. ASSUME NEW a \in Adverts, ReadAdvert(a) \/ ReadWithdraw(a) PROVE RoutesInv'
    BY <1>1, <1>2, ReadAdvertRoutes, ReadWithdrawRoutes
  <1>3. CASE Prune \/ ProcessParked \/ \E r \in Blob : ReleaseRoute(r)
    BY <1>1, <1>3, AsideRoutes
  <1>4. ASSUME NEW t \in Task, TaskStep(t) PROVE RoutesInv'
    BY <1>1, <1>4, SpawnFetchRoutes, SpawnConfirmRoutes, ImportRoutes, EndTaskRoutes,
       FoldFetchRoutes, FoldConfirmRoutes DEF TaskStep
  <1>5. CASE UNCHANGED vars
    <2>1. Previews' = Previews
      BY <1>5 DEF vars, Previews
    <2> QED BY <1>1, <1>5, <2>1 DEF vars, RoutesInv, TypeOK, OutcomesOnce, CountIsExact,
                                   DeferredWhileUsed, GoneIsLeaving
  <1> QED BY <1>1, <1>2, <1>3, <1>4, <1>5 DEF Next

(* The invariant of the guard and the tasks, in every reachable state.     *)
THEOREM RoutesInvariant == Spec => []RoutesInv
  BY InitRoutes, StepRoutes, PTL DEF Spec

-----------------------------------------------------------------------------
(* The state of the catalog, the guard and the tasks keeps its type.       *)
THEOREM TypeCorrect == Spec => []TypeOK
  <1>1. RoutesInv => TypeOK
    BY DEF RoutesInv
  <1> QED BY <1>1, RoutesInvariant, PTL

(* CountIsExact: note_fetch_started and note_fetch_finished pair up        *)
(* through every rotation, withdrawal and failure.                         *)
THEOREM CountExact == Spec => []CountIsExact
  <1>1. RoutesInv => CountIsExact
    BY DEF RoutesInv
  <1> QED BY <1>1, RoutesInvariant, PTL

(* GoneIsForgotten: the last of a withdrawn share's previews takes its     *)
(* guard entry with it.                                                    *)
THEOREM GoneForgotten == Spec => []GoneIsForgotten
  <1>1. RoutesInv => GoneIsForgotten
    <2>1. SUFFICES ASSUME RoutesInv, discovered = None, Previews = {}
                   PROVE  parked = None /\ guard = None
      BY DEF GoneIsForgotten
    <2>2. Cardinality(Previews) = 0
      BY <2>1, FS_EmptySet
    <2> QED BY <2>1, <2>2 DEF RoutesInv, CountIsExact, GoneIsLeaving
  <1> QED BY <1>1, RoutesInvariant, PTL

(* Which steps end where: all but those of adverts and folds leave the     *)
(* share, and all but those and a spawn the guard.                         *)
LEMMA QuietSteps ==
  ASSUME NEW t \in Task,
         \/ Prune \/ ProcessParked \/ \E r \in Blob : ReleaseRoute(r)
         \/ SpawnFetchShare(t) \/ SpawnConfirmFetch(t) \/ ImportRoute(t)
         \/ \E outcome \in Outcome : EndTask(t, outcome)
         \/ UNCHANGED vars
  PROVE  /\ discovered' = discovered /\ releasing' \subseteq releasing
         /\ SpawnFetchShare(t) \/ UNCHANGED <<guard, known>>
  BY DEF Prune, ProcessParked, ReleaseRoute, SpawnFetchShare, SpawnConfirmFetch, ImportRoute,
         EndTask, vars, UnchangedGuard, NoteFetchStarted, Guarded

(* The ways a step goes. *)
LEMMA StepWays ==
  ASSUME [Next]_vars
  PROVE  \/ \E a \in Adverts : ReadAdvert(a) \/ ReadWithdraw(a)
         \/ \E t \in Task : FoldFetchOutcome(t) \/ FoldConfirmOutcome(t)
         \/ /\ discovered' = discovered /\ releasing' \subseteq releasing
            /\ (\E t \in Task : SpawnFetchShare(t)) \/ UNCHANGED <<guard, known>>
  <1>1. CASE Prune \/ ProcessParked \/ (\E r \in Blob : ReleaseRoute(r)) \/ UNCHANGED vars
    BY <1>1 DEF Prune, ProcessParked, ReleaseRoute, vars
  <1>2. ASSUME NEW t \in Task, TaskStep(t), ~FoldFetchOutcome(t), ~FoldConfirmOutcome(t)
        PROVE  /\ discovered' = discovered /\ releasing' \subseteq releasing
               /\ SpawnFetchShare(t) \/ UNCHANGED <<guard, known>>
    BY <1>2, QuietSteps DEF TaskStep
  <1> QED BY <1>1, <1>2 DEF Next

(* NotReleasedUnderPreview: the guard hands a route back at once when it counts no  *)
(* preview, else with the last one.                                        *)
THEOREM ReleaseWaits == Spec => NotReleasedUnderPreview
  <1>1. RoutesInv /\ RoutesInv' /\ [Next]_vars
          => [\A r \in releasing' \ releasing :
                ~\E t \in Previews : Streaming(t)' /\ task'[t].blob = r]_vars
    <2>1. SUFFICES ASSUME RoutesInv, [Next]_vars, releasing' # releasing, ~(releasing' \subseteq releasing)
                   PROVE  \A t \in Previews : ~Streaming(t)'
      OBVIOUS
    <2>2. \A n : Cardinality(Previews) = 0 => Previews = {}
      BY PreviewsFinite, FS_EmptySet
    <2>3. ASSUME NEW a \in Adverts, ReadAdvert(a) \/ ReadWithdraw(a)
          PROVE  Previews = {}
      <3>1. task' = task
        BY <2>3 DEF ReadAdvert, ReadWithdraw
      <3>2. Previews' = Previews
        BY <3>1 DEF Previews
      <3>3. GuardSound(Cardinality(Previews), discovered')
        BY <2>1, <2>3, <3>2, ReadAdvertRoutes, ReadWithdrawRoutes
      <3> QED BY <2>1, <2>2, <3>3 DEF GuardSound
    <2>4. ASSUME NEW t \in Task, FoldFetchOutcome(t) PROVE \A u \in Previews : ~Streaming(u)'
      <3>1. t \in Previews /\ Previews' = Previews \ {t} /\ GuardSound(Cardinality(Previews'), discovered')
        BY <2>1, <2>4, FoldFetchRoutes
      <3>2. Cardinality(Previews') = 0
        BY <2>1, <3>1 DEF GuardSound
      <3>3. IsFiniteSet(Previews')
        BY <3>1, PreviewsFinite, FS_RemoveElement
      <3>4. Previews = {t}
        BY <3>1, <3>2, <3>3, FS_EmptySet
      <3>5. task'[t] = None
        BY <2>1, <2>4, TakenFacts DEF FoldFetchOutcome, RoutesInv, Kind
      <3> QED BY <3>4, <3>5 DEF Streaming
    <2>5. ASSUME NEW t \in Task, FoldConfirmOutcome(t) PROVE FALSE
      BY <2>1, <2>5 DEF FoldConfirmOutcome
    <2> QED BY <2>1, <2>3, <2>4, <2>5, StepWays
  <1> QED BY <1>1, RoutesInvariant, PTL DEF Spec, NotReleasedUnderPreview

(* ResolvedStays: an advert clears the mark or carries it on, a stale      *)
(* preview leaves it, so only a failure sets it: a preview's of the advert *)
(* the share now has, or a download's.                                     *)
THEOREM StaysResolved == Spec => ResolvedStays
  <1>1. RoutesInv /\ [Next]_vars
          => [discovered # None /\ ~discovered.unresolved /\ discovered' # None /\ discovered'.unresolved
                => \E t \in Task : Unresolves(t)]_vars
    <2>1. SUFFICES ASSUME RoutesInv, [Next]_vars, discovered # None, ~discovered.unresolved,
                          discovered' # None, discovered'.unresolved
                   PROVE  \E t \in Task : Unresolves(t)
      OBVIOUS
    <2>2. ASSUME NEW a \in Adverts, ReadAdvert(a) PROVE FALSE
      <3> DEFINE rotated == discovered # None /\ discovered.blob # a.blob
      <3>1. discovered' = discovered \/ FoldAdvert(a, rotated)
        BY <2>2 DEF ReadAdvert
      <3> HIDE DEF rotated
      <3>2. FoldAdvert(a, rotated) =>
              discovered'.unresolved = (~rotated /\ discovered # None /\ discovered.unresolved)
        BY DEF FoldAdvert
      <3> QED BY <2>1, <3>1, <3>2
    <2>3. ASSUME NEW a \in Adverts, ReadWithdraw(a) PROVE FALSE
      BY <2>1, <2>3 DEF ReadWithdraw
    <2>4. discovered \in Route
      BY <2>1 DEF RoutesInv, TypeOK
    <2>5. ~ClearShareUnresolved
      BY <2>1, <2>4 DEF ClearShareUnresolved, Route
    <2>6. ASSUME NEW t \in Task, FoldFetchOutcome(t) PROVE Unresolves(t)
      <3>1. task[t] # None /\ task'[t] = None
        BY <2>1, <2>6, TakenFacts, NoneFacts DEF FoldFetchOutcome, RoutesInv, Kind
      <3>2. ~FoldStale(t)
        BY <2>1 DEF FoldStale
      <3>3. discovered.gen = task[t].gen /\ FoldLive(t)
        BY <2>6, <3>2 DEF FoldFetchOutcome
      <3>4. task[t].outcome # "success"
        BY <2>5, <3>3 DEF FoldLive
      <3>5. task[t].outcome # "other"
        BY <2>1, <2>6, TakenFacts DEF FoldFetchOutcome, RoutesInv, Kind
      <3>6. task[t].outcome \in Outcome
        BY <2>1, <2>6, TakenFacts DEF FoldFetchOutcome, RoutesInv, Kind
      <3> QED BY <3>1, <3>3, <3>4, <3>5, <3>6 DEF Unresolves, Outcome
    <2>7. ASSUME NEW t \in Task, FoldConfirmOutcome(t) PROVE Unresolves(t)
      <3>1. task[t] # None /\ task'[t] = None /\ task[t].kind = "download"
        BY <2>1, <2>7, TakenFacts, NoneFacts DEF FoldConfirmOutcome, RoutesInv, Kind
      <3>2. task[t].outcome \in Failure
        BY <2>1, <2>5, <2>7 DEF FoldConfirmOutcome
      <3> QED BY <3>1, <3>2 DEF Unresolves
    <2> QED BY <2>1, <2>2, <2>3, <2>6, <2>7, StepWays
  <1> QED BY <1>1, RoutesInvariant, PTL DEF Spec, ResolvedStays

-----------------------------------------------------------------------------
(* What the guard was told of it holds.  HeldBy is what an entry holds.    *)
HeldBy(e) == IF e = None THEN {} ELSE {e.route, e.pending}

(* Holds, of the entry. *)
LEMMA HoldsOf ==
  /\ Holds <=> known \subseteq HeldBy(guard)
  /\ Holds' <=> known' \subseteq HeldBy(guard')
  BY DEF Holds, HeldBy

(* A spawned preview changes the count only. *)
LEMMA SpawnKeepsHold ==
  ASSUME RoutesInv, RoutesInv', Holds, NEW t \in Task, SpawnFetchShare(t)
  PROVE  Holds'
  <1>1. /\ task[t] = None /\ discovered # None /\ Spawned(t, "fetch") /\ NoteFetchStarted
    BY DEF SpawnFetchShare
  <1>2. t \in Previews'
    BY <1>1, SpawnFacts DEF Previews, Kind
  <1>3. IsFiniteSet(Previews')
    <2>1. IsFiniteSet(Task) /\ Previews' \subseteq Task
      BY RoutesAssumption DEF Previews
    <2> QED BY <2>1, FS_Subset
  <1>4. Cardinality(Previews') # 0
    BY <1>2, <1>3, FS_EmptySet
  <1>5. guard' # None
    BY <1>4 DEF RoutesInv, CountIsExact
  <1>6. CASE guard = None
    <2>1. known' = {}
      BY <1>1, <1>6, HoldsOf DEF NoteFetchStarted, Guarded, HeldBy
    <2> QED BY <2>1, HoldsOf
  <1>7. CASE guard # None
    <2>1. guard \in Entry
      BY <1>7 DEF RoutesInv, TypeOK
    <2>2. guard' = CountedIn(guard, guard.inFlight + 1) /\ known' = known
      BY <1>1, <1>7 DEF NoteFetchStarted, Guarded, CountedIn
    <2>3. guard'.route = guard.route /\ guard'.pending = guard.pending
      BY <2>1, <2>2 DEF Entry, CountedIn
    <2> QED BY <1>5, <1>7, <2>2, <2>3, HoldsOf DEF HeldBy
  <1> QED BY <1>6, <1>7

(* A rotation defers the route held, frees it or leaves it to the          *)
(* transport's cache; a withdrawal frees it or leaves it in place.         *)
LEMMA AdvertKeepsHold ==
  ASSUME RoutesInv, RoutesInv', Holds, NoteAdvertReplaced \/ NoteShareWithdrawn
  PROVE  Holds'
  <1>1. known \subseteq Blob /\ None \notin Blob
    BY NoneFacts DEF RoutesInv, TypeOK
  <1>2. CASE UnchangedGuard
    BY <1>2 DEF UnchangedGuard, Holds
  <1>3. CASE guard # None /\ ~UnchangedGuard
    <2>1. guard \in Entry /\ known \subseteq {guard.route, guard.pending}
      BY <1>3, HoldsOf DEF RoutesInv, TypeOK, HeldBy
    <2>2. CASE guard.inFlight = 0
      <3>1. known \subseteq {guard.route}
        BY <1>1, <1>3, <2>1, <2>2 DEF RoutesInv, DeferredWhileUsed
      <3>2. known' = {}
        BY <1>1, <1>3, <2>2, <3>1 DEF NoteAdvertReplaced, NoteShareWithdrawn, Guarded, Some
      <3> QED BY <3>2, HoldsOf
    <2>3. CASE guard.inFlight # 0 /\ NoteAdvertReplaced
      <3> DEFINE bare == [guard EXCEPT !.route = None]
                 deferred == [guard EXCEPT !.route = None, !.pending = guard.route]
      <3>1. bare \in Entry /\ bare.pending = guard.pending
        BY <2>1 DEF Entry
      <3>2. deferred \in Entry /\ deferred.pending = guard.route
        BY <2>1, Fields DEF Entry
      <3>3. bare # None /\ deferred # None
        BY <3>1, <3>2, NoneFacts
      <3>4. CASE guard.pending = None
        <4>1. guard' = deferred /\ known' = known
          BY <1>3, <2>3, <3>4 DEF NoteAdvertReplaced, Guarded
        <4>2. known' \subseteq {guard.route}
          BY <1>1, <2>1, <3>4, <4>1
        <4> HIDE DEF deferred
        <4> QED BY <3>2, <3>3, <4>1, <4>2, HoldsOf DEF HeldBy
      <3>5. CASE guard.pending # None
        <4>1. guard' = bare /\ known' = known \ {guard.route}
          BY <1>3, <2>3, <3>5 DEF NoteAdvertReplaced, Guarded
        <4>2. known' \subseteq {guard.pending}
          BY <2>1, <4>1
        <4> HIDE DEF bare
        <4> QED BY <3>1, <3>3, <4>1, <4>2, HoldsOf DEF HeldBy
      <3> QED BY <3>4, <3>5
    <2>4. CASE guard.inFlight # 0 /\ NoteShareWithdrawn
      <3> DEFINE marked == [guard EXCEPT !.withdrawn = TRUE]
      <3>1. guard' = marked /\ known' = known
        BY <1>3, <2>4 DEF NoteShareWithdrawn, Guarded
      <3>2. marked \in Entry /\ marked.route = guard.route /\ marked.pending = guard.pending
        BY <2>1 DEF Entry
      <3>3. marked # None
        BY <3>2, NoneFacts
      <3> HIDE DEF marked
      <3> QED BY <2>1, <3>1, <3>2, <3>3, HoldsOf DEF HeldBy
    <2> QED BY <2>2, <2>3, <2>4
  <1>4. guard = None => UnchangedGuard
    BY DEF NoteAdvertReplaced, NoteShareWithdrawn, Held
  <1> QED BY <1>2, <1>3, <1>4

(* A preview counted out with the route held, or with none, keeps it or    *)
(* frees it with the deferred one.                                         *)
LEMMA FinishKeepsHold ==
  ASSUME RoutesInv, Holds, guard # None, NEW blob \in Blob, NEW route \in {blob, None},
         NoteFetchFinished(route), Held \in {None, blob}
  PROVE  Holds'
  <1> DEFINE left == IF guard.inFlight = 0 THEN 0 ELSE guard.inFlight - 1
             given == IF route = None THEN guard.route ELSE route
             counted == [guard EXCEPT !.inFlight = IF @ = 0 THEN 0 ELSE @ - 1,
                                      !.route = IF route = None THEN @ ELSE route]
             leaving == counted.withdrawn /\ counted.route # None
             rest == [counted EXCEPT !.pending = None,
                                     !.route = IF leaving THEN None ELSE @]
             free == Some(counted.pending) \cup (IF leaving THEN {counted.route} ELSE {})
  <1>1. known \subseteq Blob /\ None \notin Blob
    BY NoneFacts DEF RoutesInv, TypeOK
  <1>2. guard \in Entry /\ guard.route \in {None, blob} /\ known \subseteq {guard.route, guard.pending}
    BY HoldsOf DEF RoutesInv, TypeOK, HeldBy, Held
  <1>3. given \in {None, blob} /\ (guard.route # None => given = guard.route)
    BY <1>2
  <1>4. left \in 0..Cardinality(Task)
    BY <1>2, Fields, PreviewsFinite
  <1>5. counted = CountedOut(guard, left, given)
    BY DEF CountedOut
  <1>6. known \cup Some(route) \subseteq {given, guard.pending}
    BY <1>1, <1>2, <1>3 DEF Some
  <1> HIDE DEF left, given, counted
  <1>7. counted \in Entry /\ counted.route = given /\ counted.pending = guard.pending
    BY <1>2, <1>3, <1>4, <1>5, EntryWith
  <1>8. counted # None
    BY <1>7, NoneFacts
  <1>9. CASE counted.inFlight # 0
    <2>1. guard' = counted /\ known' = (known \cup Some(route)) \ {}
      BY <1>9 DEF counted, NoteFetchFinished, Guarded
    <2> QED BY <1>6, <1>7, <1>8, <2>1, HoldsOf DEF HeldBy
  <1>10. CASE counted.inFlight = 0
    <2>1. guard' = Gc(rest) /\ known' = (known \cup Some(route)) \ free
      BY <1>10 DEF counted, NoteFetchFinished, Guarded
    <2>2. known' \subseteq Blob
      BY <1>1, <2>1 DEF Some
    <2>3. known' \subseteq {given} /\ (leaving => known' = {})
      BY <1>1, <1>6, <1>7, <2>1, <2>2 DEF Some
    <2>4. CASE known' = {}
      BY <2>4, HoldsOf
    <2>5. CASE known' # {}
      <3>1. ~leaving /\ given # None
        BY <1>1, <2>2, <2>3, <2>5
      <3>2. rest \in Entry /\ rest.route = given
        BY <1>7, <3>1 DEF Entry
      <3> HIDE DEF rest
      <3>3. guard' = rest /\ rest # None
        BY <2>1, <3>1, <3>2, NoneFacts DEF Gc
      <3> QED BY <2>3, <3>2, <3>3, HoldsOf DEF HeldBy
    <2> QED BY <2>4, <2>5
  <1> QED BY <1>9, <1>10

(* NothingForgotten: what the guard was told of it hands back, but for the *)
(* two exceptions the property names.                                      *)
THEOREM NothingLost == Spec => NothingForgotten
  <1>1. RoutesInv /\ RoutesInv' /\ [Next]_vars
          => [Holds => Holds' \/ \E t \in Previews : Overwrites(t)]_vars
    <2>1. SUFFICES ASSUME RoutesInv, RoutesInv', [Next]_vars, Holds
                   PROVE  Holds' \/ \E t \in Previews : Overwrites(t)
      OBVIOUS
    <2>2. UNCHANGED <<guard, known>> => Holds'
      BY <2>1 DEF Holds
    <2>3. ASSUME NEW a \in Adverts, ReadAdvert(a) \/ ReadWithdraw(a) PROVE Holds'
      <3>1. NoteAdvertReplaced \/ NoteShareWithdrawn \/ UNCHANGED <<guard, known>>
        BY <2>3 DEF ReadAdvert, ReadWithdraw, FoldAdvert, UnchangedGuard
      <3> QED BY <2>1, <2>2, <3>1, AdvertKeepsHold
    <2>4. ASSUME NEW t \in Task, FoldConfirmOutcome(t) PROVE Holds'
      BY <2>2, <2>4 DEF FoldConfirmOutcome
    <2>5. ASSUME NEW t \in Task, FoldFetchOutcome(t), ~Overwrites(t) PROVE Holds'
      <3>1. t \in Previews /\ task[t] \in Work /\ task'[t] = None
        BY <2>1, <2>5, FoldFetchRoutes, TakenFacts DEF FoldFetchOutcome, RoutesInv, Kind
      <3>2. task[t].blob \in Blob /\ task[t] # None
        BY <3>1, Fields, NoneFacts
      <3>3. Held \in Blob \cup {None}
        BY <2>1, Fields DEF Held, RoutesInv, TypeOK
      <3>4. guard # None
        <4>1. Cardinality(Previews) # 0
          BY <3>1, PreviewsFinite, FS_EmptySet
        <4> QED BY <2>1, <4>1 DEF RoutesInv, CountIsExact
      <3>5. CASE NoteFetchFinished(None)
        <4> DEFINE blob == IF Held = None THEN task[t].blob ELSE Held
        <4>1. blob \in Blob /\ Held \in {None, blob}
          BY <3>2, <3>3
        <4> HIDE DEF blob
        <4> QED BY <2>1, <3>4, <3>5, <4>1, FinishKeepsHold
      <3>6. CASE ~NoteFetchFinished(None)
        <4>1. /\ discovered # None /\ discovered.gen = task[t].gen
              /\ task[t].outcome # "importFailed" /\ NoteFetchFinished(task[t].blob)
          BY <2>5, <3>6 DEF FoldFetchOutcome, FoldLive, FoldStale
        <4>2. Held \in {None, task[t].blob}
          BY <2>5, <3>1, <3>2, <4>1 DEF Overwrites
        <4> QED BY <2>1, <3>2, <3>4, <4>1, <4>2, FinishKeepsHold
      <3> QED BY <3>5, <3>6
    <2>6. \A t \in Task : FoldFetchOutcome(t) => t \in Previews
      BY <2>1, FoldFetchRoutes
    <2> QED BY <2>1, <2>2, <2>3, <2>4, <2>5, <2>6, StepWays, SpawnKeepsHold
  <1> QED BY <1>1, RoutesInvariant, PTL DEF Spec, NothingForgotten
=============================================================================
