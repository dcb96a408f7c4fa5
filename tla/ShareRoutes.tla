---------------------------- MODULE ShareRoutes ----------------------------
(***************************************************************************)
(* One discovered share at a consumer: the catalog entry and the route its *)
(* adverts bring (share_catalog.rs, apply_discovery), the previews and     *)
(* downloads that run over an imported route off the actor loop, the park  *)
(* of a failed browse (browse_retry.rs) and the guard that decides when a  *)
(* superseded route may be released (route_guard.rs).                      *)
(*                                                                         *)
(* Shares are keyed apart everywhere in this code, so one share stands for *)
(* all of them.  A route id is the number of the blob it was imported from *)
(* (importing a blob again gives the same id); a sharer's later blob has   *)
(* the higher number.  Every fold runs to its end on the loop, the release *)
(* of what it freed included in the spawning of the release task.          *)
(***************************************************************************)
EXTENDS Integers, Sequences, FiniteSets

CONSTANTS Task,      \* spawned previews and downloads
          Kinds,     \* what the user starts: subset of {"fetch", "download"}
          Adverts,   \* what the lobby record holds, to be read in any order
          Expires,   \* may the share go unheard for the catalog's TTL
          MaxGen,    \* bound on the folds of an advert
          None

ASSUME RoutesAssumption ==
  /\ Kinds \subseteq {"fetch", "download"}
  /\ Adverts \subseteq [at : Nat, blob : Nat, meta : Nat, withdraw : BOOLEAN]
  /\ Expires \in BOOLEAN
  /\ MaxGen \in Nat
  /\ IsFiniteSet(Task)

VARIABLES
  catalog,     \* the catalog's entry: announced_unix_ms, its metadata by number
  discovered,  \* the route an advert brought, its generation, the unresolved mark
  parked,      \* the generation of the parked retry
  generation,  \* next_generation
  guard,       \* the share's GuardEntry
  task,        \* the spawned tasks
  done,        \* outcomes on their way to the loop, by kind
  imported,    \* routes the transport holds
  releasing,   \* release tasks spawned and not yet run
  known        \* history: routes the guard was given and owes the release of

vars == <<catalog, discovered, parked, generation, guard, task, done,
          imported, releasing, known>>

Blob == {a.blob : a \in Adverts}
Listing == [at : Nat, meta : Nat]
Kind == {"fetch", "download"}
Failure == {"importFailed", "manifestFailed"}
Outcome == {"success", "other"} \cup Failure

Route == [blob : Blob, gen : 1..MaxGen, unresolved : BOOLEAN]
Entry == [route : Blob \cup {None}, inFlight : 0..Cardinality(Task),
          pending : Blob \cup {None}, withdrawn : BOOLEAN]
Work == [kind : Kind, blob : Blob, gen : 1..MaxGen, stage : {"spawned", "streaming", "ended"},
         outcome : Outcome \cup {None}]

(* None is the absent value of every Option here. *)
ASSUME NoneIsAbsent == None \notin Nat \cup Listing \cup Route \cup Entry \cup Work \cup Outcome

Some(x) == {x} \ {None}

-----------------------------------------------------------------------------
(* The guard.  Each operator is the step of the guard in one of its        *)
(* methods: `free' becomes the routes it hands back for release, `learnt'  *)
(* the one it is given, `waived' the one it leaves to the transport's      *)
(* cache on a second supersede.                                            *)

Gc(e) == IF e.route = None /\ e.inFlight = 0 /\ e.pending = None THEN None ELSE e
FreshEntry == [route |-> None, inFlight |-> 0, pending |-> None, withdrawn |-> FALSE]

Guarded(e, free, learnt, waived) ==
  /\ guard' = e
  /\ releasing' = releasing \cup free
  /\ known' = (known \cup learnt) \ (free \cup waived)

UnchangedGuard == UNCHANGED <<guard, releasing, known>>
Held == IF guard = None THEN None ELSE guard.route

NoteFetchStarted ==
  LET e == IF guard = None THEN FreshEntry ELSE guard
  IN  Guarded([e EXCEPT !.inFlight = @ + 1, !.withdrawn = FALSE], {}, {}, {})

(* Mutant: the deferred release fires with the first fetch that finishes.  *)
NoteFetchFinishedEarly(route) ==
  LET counted == [guard EXCEPT !.inFlight = @ - 1,
                               !.route = IF route = None THEN @ ELSE route]
      free == Some(counted.pending) \cup (IF counted.withdrawn THEN Some(counted.route) ELSE {})
  IN  Guarded(Gc([counted EXCEPT !.pending = None,
                                 !.route = IF counted.withdrawn THEN None ELSE @]),
              free, Some(route), {})

NoteFetchFinished(route) ==
  IF guard = None
  THEN Guarded(IF route = None THEN None ELSE [FreshEntry EXCEPT !.route = route],
               {}, Some(route), {})
  ELSE LET counted == [guard EXCEPT !.inFlight = IF @ = 0 THEN 0 ELSE @ - 1,
                                    !.route = IF route = None THEN @ ELSE route]
           leaving == counted.withdrawn /\ counted.route # None
           free == Some(counted.pending) \cup (IF leaving THEN {counted.route} ELSE {})
       IN  IF counted.inFlight # 0
           THEN Guarded(counted, {}, Some(route), {})
           ELSE Guarded(Gc([counted EXCEPT !.pending = None,
                                           !.route = IF leaving THEN None ELSE @]),
                        free, Some(route), {})

(* Mutant: the deferred slot is overwritten, as is the route it held.      *)
NoteAdvertReplacedForgets ==
  IF Held = None THEN UnchangedGuard
  ELSE Guarded(Gc([guard EXCEPT !.route = None]), {}, {}, {})

NoteAdvertReplaced ==
  \/ Held = None /\ UnchangedGuard
  \/ /\ Held # None
     /\ IF guard.inFlight = 0
        THEN Guarded(Gc([guard EXCEPT !.route = None]), {guard.route}, {}, {})
        ELSE IF guard.pending = None
        THEN Guarded([guard EXCEPT !.route = None, !.pending = guard.route], {}, {}, {})
        ELSE Guarded([guard EXCEPT !.route = None], {}, {}, {guard.route})

NoteShareWithdrawn ==
  \/ guard = None /\ UnchangedGuard
  \/ /\ guard # None
     /\ IF guard.inFlight = 0
        THEN Guarded(None, Some(guard.route), {}, {})
        ELSE Guarded([guard EXCEPT !.withdrawn = TRUE], {}, {}, {})

-----------------------------------------------------------------------------
(* Adverts.  What the catalog makes of one: an older announcement leaves   *)
(* it Unchanged, and so does one of the same time, unless its metadata     *)
(* differs.                                                                *)
Refreshes(a) ==
  /\ ~a.withdraw
  /\ \/ catalog = None \/ a.at > catalog.at
     \/ a.at = catalog.at /\ a.meta # catalog.meta
Removes(a) == a.withdraw /\ catalog # None /\ a.at >= catalog.at

FoldAdvert(a, rotated) ==
  /\ generation < MaxGen
  /\ generation' = generation + 1
  /\ discovered' = [blob |-> a.blob, gen |-> generation + 1,
                    unresolved |-> ~rotated /\ discovered # None /\ discovered.unresolved]
  /\ parked' = IF rotated THEN None ELSE parked
  /\ IF rotated THEN NoteAdvertReplaced ELSE UnchangedGuard

(* The route is compared whatever the catalog made of the announcement.    *)
ReadAdvert(a) ==
  LET rotated == discovered # None /\ discovered.blob # a.blob
  IN  /\ ~a.withdraw
      /\ catalog' = IF Refreshes(a) THEN [at |-> a.at, meta |-> a.meta] ELSE catalog
      /\ IF Refreshes(a) \/ rotated
         THEN FoldAdvert(a, rotated)
         ELSE UNCHANGED <<generation, discovered, parked>> /\ UnchangedGuard
      /\ UNCHANGED <<task, done, imported>>

(* Mutant: the guard is not told of a withdrawal.                          *)
ReadWithdrawUntold(a) ==
  /\ Removes(a)
  /\ catalog' = None /\ discovered' = None /\ parked' = None
  /\ UnchangedGuard
  /\ UNCHANGED <<generation, task, done, imported>>

ReadWithdraw(a) ==
  /\ Removes(a)
  /\ catalog' = None /\ discovered' = None /\ parked' = None
  /\ NoteShareWithdrawn
  /\ UNCHANGED <<generation, task, done, imported>>

(* The prune timer ages the share out of the catalog, and out of that only. *)
Prune ==
  /\ Expires /\ catalog # None
  /\ catalog' = None
  /\ UNCHANGED <<discovered, parked, generation, guard, task, done, imported, releasing, known>>

-----------------------------------------------------------------------------
(* Previews and downloads                                                  *)

Spawned(t, kind) ==
  task' = [task EXCEPT ![t] = [kind |-> kind, blob |-> discovered.blob, gen |-> discovered.gen,
                               stage |-> "spawned", outcome |-> None]]

(* A preview is counted by the guard, a download is not.                   *)
SpawnFetchShare(t) ==
  /\ "fetch" \in Kinds /\ task[t] = None /\ discovered # None
  /\ Spawned(t, "fetch")
  /\ NoteFetchStarted
  /\ UNCHANGED <<catalog, discovered, parked, generation, done, imported>>

SpawnConfirmFetch(t) ==
  /\ "download" \in Kinds /\ task[t] = None /\ discovered # None
  /\ Spawned(t, "download")
  /\ UnchangedGuard
  /\ UNCHANGED <<catalog, discovered, parked, generation, done, imported>>

ImportRoute(t) ==
  /\ task[t] # None /\ task[t].stage = "spawned"
  /\ task' = [task EXCEPT ![t].stage = "streaming"]
  /\ imported' = imported \cup {task[t].blob}
  /\ UNCHANGED <<catalog, discovered, parked, generation, guard, done, releasing, known>>

(* The task reports how it ended: the import failed, the manifest or the   *)
(* download came through, or not (it cannot over a released route), a      *)
(* panic (a failed import for a preview, a local failure for a download)   *)
(* or, for a download, a local or integrity failure.                       *)
EndTask(t, outcome) ==
  /\ task[t] # None /\ task[t].stage # "ended"
  /\ \/ outcome = "importFailed" /\ (task[t].stage = "spawned" \/ task[t].kind = "fetch")
     \/ outcome = "other" /\ task[t].kind = "download"
     \/ task[t].stage = "streaming" /\ outcome = "manifestFailed"
     \/ task[t].stage = "streaming" /\ outcome = "success" /\ task[t].blob \in imported
  /\ task' = [task EXCEPT ![t].stage = "ended", ![t].outcome = outcome]
  /\ done' = [done EXCEPT ![task[t].kind] = Append(@, t)]
  /\ UNCHANGED <<catalog, discovered, parked, generation, guard, imported, releasing, known>>

MarkShareUnresolved ==
  \/ discovered = None /\ UNCHANGED <<discovered, parked>>
  \/ /\ discovered # None
     /\ discovered' = [discovered EXCEPT !.unresolved = TRUE]
     /\ parked' = discovered.gen

ClearShareUnresolved ==
  /\ parked' = None
  /\ discovered' = IF discovered = None THEN None ELSE [discovered EXCEPT !.unresolved = FALSE]

Taken(t, kind) ==
  /\ done[kind] # <<>> /\ Head(done[kind]) = t
  /\ done' = [done EXCEPT ![kind] = Tail(@)]
  /\ task' = [task EXCEPT ![t] = None]

(* A newer advert or a withdrawal has overtaken the preview: its outcome   *)
(* and its route are dropped; only a share that is still unresolved parks. *)
FoldStale(t) ==
  /\ NoteFetchFinished(None)
  /\ parked' = IF discovered # None /\ discovered.unresolved THEN task[t].gen ELSE parked
  /\ UNCHANGED discovered

FoldLive(t) ==
  /\ NoteFetchFinished(IF task[t].outcome = "importFailed" THEN None ELSE task[t].blob)
  /\ IF task[t].outcome = "success" THEN ClearShareUnresolved ELSE MarkShareUnresolved

(* Mutant: the generation is not compared, only that the share is there.   *)
FoldFetchOutcomeAnyGeneration(t) ==
  /\ Taken(t, "fetch")
  /\ IF discovered # None THEN FoldLive(t) ELSE FoldStale(t)
  /\ UNCHANGED <<catalog, generation, imported>>

FoldFetchOutcome(t) ==
  /\ Taken(t, "fetch")
  /\ IF discovered # None /\ discovered.gen = task[t].gen THEN FoldLive(t) ELSE FoldStale(t)
  /\ UNCHANGED <<catalog, generation, imported>>

FoldConfirmOutcome(t) ==
  /\ Taken(t, "download")
  /\ CASE task[t].outcome = "success" -> ClearShareUnresolved
       [] task[t].outcome \in Failure -> MarkShareUnresolved
       [] OTHER -> UNCHANGED <<discovered, parked>>
  /\ UNCHANGED <<catalog, generation, guard, imported, releasing, known>>

-----------------------------------------------------------------------------
(* The cursor tick looks at the parked retry: it goes with its share, with *)
(* a newer advert, or when its window has passed, and else it waits.       *)
ProcessParked ==
  /\ parked # None
  /\ parked' = None
  /\ UNCHANGED <<catalog, discovered, generation, guard, task, done, imported, releasing, known>>

ReleaseRoute(r) ==
  /\ r \in releasing
  /\ releasing' = releasing \ {r}
  /\ imported' = imported \ {r}
  /\ UNCHANGED <<catalog, discovered, parked, generation, guard, task, done, known>>

-----------------------------------------------------------------------------
Init ==
  /\ catalog = None /\ discovered = None /\ parked = None
  /\ generation = 0 /\ guard = None
  /\ task = [t \in Task |-> None]
  /\ done = [k \in Kind |-> <<>>]
  /\ imported = {} /\ releasing = {} /\ known = {}

TaskStep(t) ==
  \/ SpawnFetchShare(t) \/ SpawnConfirmFetch(t) \/ ImportRoute(t)
  \/ \E outcome \in Outcome : EndTask(t, outcome)
  \/ FoldFetchOutcome(t) \/ FoldConfirmOutcome(t)

Next ==
  \/ \E a \in Adverts : ReadAdvert(a) \/ ReadWithdraw(a)
  \/ Prune
  \/ \E t \in Task : TaskStep(t)
  \/ ProcessParked
  \/ \E r \in Blob : ReleaseRoute(r)

Spec == Init /\ [][Next]_vars

-----------------------------------------------------------------------------
(* The state stays within its types.                                       *)
TypeOK ==
  /\ catalog \in Listing \cup {None}
  /\ discovered \in Route \cup {None}
  /\ parked \in 1..MaxGen \cup {None}
  /\ generation \in 0..MaxGen
  /\ guard \in Entry \cup {None}
  /\ task \in [Task -> Work \cup {None}]
  /\ done \in [Kind -> Seq(Task)]
  /\ imported \subseteq Blob /\ releasing \subseteq Blob /\ known \subseteq Blob

Streaming(t) == task[t] # None /\ task[t].stage = "streaming"
Previews == {t \in Task : task[t] # None /\ task[t].kind = "fetch"}

(* The guard's count is the number of previews spawned and not yet folded, *)
(* whatever was withdrawn, re-added, overtaken or failed in between: a     *)
(* count too high keeps a dead route for ever, one too low frees a live    *)
(* one.                                                                    *)
CountIsExact == Cardinality(Previews) = IF guard = None THEN 0 ELSE guard.inFlight

(* The guard hands no route back for release while a preview streams over  *)
(* it: not at a rotation or a withdrawal, and not when another preview of  *)
(* the share ends, but with the last one it counts (route_guard.rs).  Only *)
(* previews are counted: of a download this says nothing, and a rotation   *)
(* may release the route one streams over.                                 *)
NotReleasedUnderPreview ==
  [][\A r \in releasing' \ releasing :
       ~\E t \in Previews : Streaming(t)' /\ task'[t].blob = r]_vars

(* A share that no advert gives a route any more, and none of whose        *)
(* previews is left, has left nothing behind: no retry and no guard entry. *)
GoneIsForgotten ==
  discovered = None /\ Previews = {} => parked = None /\ guard = None

(* Every route the guard was told of it still holds, until it hands it     *)
(* back for release.  The two exceptions it makes are a second supersede   *)
(* during one preview, and a preview of a share announced again after its  *)
(* withdrawal that reports a route, in its advert's own time, while the    *)
(* withdrawn one is still held.  A preview overtaken by an advert, or one  *)
(* that imported nothing, forgets no route.                                *)
Holds == known \subseteq IF guard = None THEN {} ELSE {guard.route, guard.pending}
Overwrites(t) ==
  /\ task[t] # None /\ task'[t] = None /\ task[t].outcome # "importFailed"
  /\ discovered # None /\ discovered.gen = task[t].gen
  /\ Held \notin {None, task[t].blob}
NothingForgotten ==
  [][Holds => Holds' \/ \E t \in Previews : Overwrites(t)]_vars

(* A resolved share is marked unresolved only by a failure, never by an    *)
(* advert or the end of a task that failed otherwise, and a preview's      *)
(* failure counts only under the advert it was started from: one that a    *)
(* newer advert has overtaken leaves the share resolved.  A download's     *)
(* failure counts however old the route it streamed over                   *)
(* (fold_confirm_outcome compares no generation).                          *)
Unresolves(t) ==
  /\ task[t] # None /\ task'[t] = None /\ task[t].outcome \in Failure
  /\ task[t].kind = "fetch" => task[t].gen = discovered.gen
ResolvedStays ==
  [][discovered # None /\ ~discovered.unresolved /\ discovered' # None /\ discovered'.unresolved
       => \E t \in Task : Unresolves(t)]_vars
=============================================================================
