------------------------- MODULE RouteBudgetProofs -------------------------
(***************************************************************************)
(* The safety properties of RouteBudget, for any number of downloads,      *)
(* routes, fragments and retries and any widths, pool and valve.           *)
(*                                                                         *)
(* SlotsAccounted counts permits by the stage of the fragments that hold   *)
(* them, and rests on Leased (a fragment exists only under a lease) and    *)
(* RefsCounted (an account exists exactly while its route is leased, so it *)
(* is not made anew over a permit still held).  NoSleeperMissed needs to   *)
(* be widened to a future between its check and its sleep.  LearnedHalf    *)
(* says where a death is remembered once its account is gone.              *)
(***************************************************************************)
EXTENDS RouteBudget, FiniteSetTheorems, TLAPS

(* A fragment has a future only while its download has a fetch, and a      *)
(* fetch only under a lease; the first fragment goes before the others.    *)
Leased ==
  \A d \in Download :
    /\ fetch[d] # "none" => lease[d] # None
    /\ fetch[d] \in {"none", "observed"} => Empty(d)
    /\ 1 \in Frag /\ ~At(d, 1, "idle") => \A j \in Frag \ {1} : At(d, j, "idle")

Leases(r) == {d \in Download : lease[d] = r}

(* An account is kept exactly while its route is leased. *)
RefsCounted ==
  \A r \in Route :
    IF account[r] = None THEN Leases(r) = {}
    ELSE account[r].refs = Cardinality(Leases(r))

(* NoSleeperMissed, of those about to sleep too. *)
NobodyMissed ==
  \A d \in Download, i \in Frag :
    frag[d][i].at \in {"refused", "wait"} /\ ~frag[d][i].woken
      /\ HasRoom(lease[d]) /\ pool < Global => NotifyOwed

(* What a sharer's deaths taught outlives the account that saw them. *)
LearnedHalf ==
  /\ \A s \in Sharer : \A k \in kills[s] :
       learned[s] # None /\ learned[s] <= Halved(k)
  /\ \A r \in Route : account[r] # None =>
       /\ account[r].window.width <= account[r].window.ceiling
       /\ \A k \in account[r].known : account[r].window.ceiling <= Halved(k)

BudgetInv ==
  TypeOK /\ Leased /\ RefsCounted /\ SlotsAccounted /\ NobodyMissed /\ LearnedHalf

-----------------------------------------------------------------------------
(* Fragments *)

LEMMA FragFacts ==
  /\ IsFiniteSet(Frag) /\ Frag \subseteq Nat
  /\ Download # {} => 1 \in Frag
<1> DEFINE Sets == {1..Total[d] : d \in Download}
<1>1. ASSUME NEW d \in Download PROVE 1..Total[d] \subseteq Nat /\ 1 \in 1..Total[d]
  <2>1. Total[d] \in Nat \ {0}
    BY BudgetAssumption
  <2> QED BY <2>1
<1>2. IsFiniteSet(Sets)
  <2>1. IsFiniteSet(Download)
    BY BudgetAssumption
  <2> DEFINE f == [d \in Download |-> 1..Total[d]]
  <2>2. f \in Surjection(Download, Sets)
    <3>1. f \in [Download -> Sets]
      OBVIOUS
    <3>2. ASSUME NEW x \in Sets PROVE \E d \in Download : f[d] = x
      OBVIOUS
    <3> QED BY <3>1, <3>2 DEF Surjection
  <2> HIDE DEF Sets, f
  <2> QED BY <2>1, <2>2, FS_Surjection
<1>3. \A T \in Sets : IsFiniteSet(T)
  <2> SUFFICES ASSUME NEW d \in Download PROVE IsFiniteSet(1..Total[d])
    OBVIOUS
  <2>1. 1 \in Int /\ Total[d] \in Int
    BY BudgetAssumption
  <2> QED BY <2>1, FS_Interval
<1>4. IsFiniteSet(Frag)
  <2>1. Frag = UNION Sets
    BY DEF Frag
  <2> HIDE DEF Sets
  <2> QED BY <1>2, <1>3, <2>1, FS_UNION
<1>5. Frag \subseteq Nat
  BY <1>1 DEF Frag
<1>6. Download # {} => 1 \in Frag
  BY <1>1 DEF Frag
<1> QED BY <1>4, <1>5, <1>6

(* What the invariants say of the fragments, they say of their stages.     *)
Moves(d, i, stage) ==
  /\ frag'[d][i].at = stage
  /\ \A e \in Download, j \in Frag : (e # d \/ j # i) => frag'[e][j].at = frag[e][j].at

FragType == [at : Stage, tries : 0..Retries, woken : BOOLEAN, ok : BOOLEAN]

FragsType == [Download -> [Frag -> FragType]]

LEMMA WokenFacts ==
  ASSUME NEW fs \in [Download -> [Frag -> FragType]]
  PROVE  /\ Woken(fs) \in [Download -> [Frag -> FragType]]
         /\ \A e \in Download, j \in Frag :
              /\ Woken(fs)[e][j].at = fs[e][j].at
              /\ Woken(fs)[e][j].at \in {"refused", "wait"} => Woken(fs)[e][j].woken
              /\ Woken(fs)[e][j].tries = fs[e][j].tries
              /\ Woken(fs)[e][j].ok = fs[e][j].ok
<1> DEFINE one(e, j) == IF fs[e][j].at \in {"refused", "wait"}
                        THEN [fs[e][j] EXCEPT !.woken = TRUE] ELSE fs[e][j]
<1>1. Woken(fs) = [e \in Download |-> [j \in Frag |-> one(e, j)]]
  BY DEF Woken
<1>2. ASSUME NEW e \in Download, NEW j \in Frag
      PROVE  /\ one(e, j) \in FragType
             /\ one(e, j).at = fs[e][j].at
             /\ one(e, j).at \in {"refused", "wait"} => one(e, j).woken
             /\ one(e, j).tries = fs[e][j].tries
             /\ one(e, j).ok = fs[e][j].ok
  <2>1. fs[e][j] \in FragType
    OBVIOUS
  <2> QED BY <2>1 DEF FragType
<1> HIDE DEF one
<1> QED BY <1>1, <1>2

-----------------------------------------------------------------------------
(* Windows *)

LEMMA HalvedFacts ==
  ASSUME NEW w \in Floor..Ceil
  PROVE  Halved(w) \in Floor..Ceil /\ Halved(w) <= w
  BY BudgetAssumption DEF Halved, AtLeast

LEMMA NewWindowFacts ==
  ASSUME NEW c \in Floor..Ceil
  PROVE  NewWindow(c) \in Window /\ NewWindow(c).width = Floor /\ NewWindow(c).ceiling = c
<1>1. AtMost(AtLeast(c, Floor), Ceil) = c /\ Floor \in Floor..Ceil
  BY BudgetAssumption DEF AtMost, AtLeast
<1>2. <<>> \in Seq(BOOLEAN)
  OBVIOUS
<1> QED BY <1>1, <1>2 DEF NewWindow, Window

LEMMA CollapseFacts ==
  ASSUME NEW w \in Window
  PROVE  /\ Collapse(w) \in Window
         /\ Collapse(w).ceiling <= w.ceiling
         /\ w.width <= w.ceiling => Collapse(w).width <= Collapse(w).ceiling
         /\ ~w.collapsed => Collapse(w).ceiling = Learned(w)
         /\ Learned(w) \in Floor..Ceil /\ Learned(w) <= Halved(w.width)
<1>1. Learned(w) \in Floor..Ceil /\ Learned(w) <= Halved(w.width) /\ Learned(w) <= w.ceiling
  BY HalvedFacts, BudgetAssumption DEF Learned, AtMost, Window
<1>2. Floor \in Floor..Ceil /\ <<>> \in Seq(BOOLEAN) /\ 0 \in Nat
  BY BudgetAssumption
<1>3. CASE w.collapsed
  <2>1. Collapse(w) = [w EXCEPT !.healthy = 0, !.recent = <<>>]
    BY <1>3 DEF Collapse
  <2>2. Collapse(w) \in Window /\ Collapse(w).ceiling = w.ceiling /\ Collapse(w).width = w.width
    BY <1>2, <2>1 DEF Window
  <2> QED BY <1>1, <1>3, <2>2, BudgetAssumption DEF Window
<1>4. CASE ~w.collapsed
  <2>1. Collapse(w) = [width |-> Floor, ceiling |-> Learned(w), healthy |-> 0, recent |-> <<>>,
                       collapsed |-> TRUE]
    BY <1>4 DEF Collapse
  <2>2. Collapse(w) \in Window /\ Collapse(w).ceiling = Learned(w) /\ Collapse(w).width = Floor
    BY <1>1, <1>2, <2>1 DEF Window
  <2> QED BY <1>1, <2>2, BudgetAssumption
<1> QED BY <1>3, <1>4, <1>1

LEMMA LastOnesFacts ==
  ASSUME NEW q \in Seq(BOOLEAN)
  PROVE  LastOnes(q) \in Seq(BOOLEAN)
<1> DEFINE m == AtLeast(Len(q) - BreachWindow + 1, 1)
<1>1. m \in Nat \ {0}
  BY BudgetAssumption DEF AtLeast
<1> HIDE DEF m
<1>2. SubSeq(q, m, Len(q)) \in Seq(BOOLEAN)
  BY <1>1
<1> QED BY <1>2 DEF LastOnes, m

LEMMA WindowFields ==
  ASSUME NEW w \in Window
  PROVE  /\ w.width \in Floor..Ceil /\ w.ceiling \in Floor..Ceil /\ w.healthy \in Nat
         /\ w.recent \in Seq(BOOLEAN) /\ w.collapsed \in BOOLEAN
  BY DEF Window

(* The three ways a completion moves a window, by what they set. *)
Narrow(w, n) == [w EXCEPT !.width = n, !.healthy = 0, !.recent = <<>>]
Widen(w, n)  == [w EXCEPT !.width = n, !.healthy = 0, !.collapsed = FALSE]
Credit(w, h) == [w EXCEPT !.healthy = h]

LEMMA NarrowFacts ==
  ASSUME NEW w \in Window, NEW n \in Floor..Ceil
  PROVE  /\ Narrow(w, n) \in Window /\ Narrow(w, n).ceiling = w.ceiling
         /\ Narrow(w, n).width = n
<1>1. <<>> \in Seq(BOOLEAN)
  OBVIOUS
<1> QED BY <1>1 DEF Narrow, Window

LEMMA WidenFacts ==
  ASSUME NEW w \in Window, NEW n \in Floor..Ceil
  PROVE  /\ Widen(w, n) \in Window /\ Widen(w, n).ceiling = w.ceiling
         /\ Widen(w, n).width = n
  BY DEF Widen, Window

LEMMA CreditFacts ==
  ASSUME NEW w \in Window, NEW n \in Nat
  PROVE  /\ Credit(w, n) \in Window /\ Credit(w, n).ceiling = w.ceiling
         /\ Credit(w, n).width = w.width
  BY DEF Credit, Window

LEMMA CompletedFacts ==
  ASSUME NEW w \in Window, NEW slow \in BOOLEAN
  PROVE  /\ Completed(w, slow) \in Window
         /\ Completed(w, slow).ceiling = w.ceiling
         /\ w.width <= w.ceiling => Completed(w, slow).width <= w.ceiling
<1> DEFINE recent == LastOnes(Append(w.recent, slow))
           v == [w EXCEPT !.recent = recent]
<1>1. recent \in Seq(BOOLEAN) /\ <<>> \in Seq(BOOLEAN)
  <2>1. Append(w.recent, slow) \in Seq(BOOLEAN)
    BY WindowFields
  <2>2. LastOnes(Append(w.recent, slow)) \in Seq(BOOLEAN)
    BY <2>1, LastOnesFacts
  <2> QED BY <2>2
<1> HIDE DEF recent
<1>2. v \in Window /\ v.width = w.width /\ v.ceiling = w.ceiling
  BY <1>1 DEF Window
<1> HIDE DEF v
<1>3. /\ Clean(v) \in Window /\ Clean(v).ceiling = v.ceiling
      /\ v.width <= v.ceiling => Clean(v).width <= v.ceiling
  <2>1. CASE v.healthy + 1 < v.width
    <3>1. Clean(v) = Credit(v, v.healthy + 1)
      BY <2>1 DEF Clean, Credit
    <3>2. v.healthy + 1 \in Nat
      BY <1>2, WindowFields
    <3>3. /\ Credit(v, v.healthy + 1) \in Window
          /\ Credit(v, v.healthy + 1).ceiling = v.ceiling
          /\ Credit(v, v.healthy + 1).width = v.width
      BY <1>2, <3>2, CreditFacts
    <3> QED BY <3>1, <3>3
  <2>2. CASE ~(v.healthy + 1 < v.width) /\ v.width < v.ceiling
    <3>1. Clean(v) = Widen(v, v.width + 1)
      BY <2>2 DEF Clean, Widen
    <3>2. v.width + 1 \in Floor..Ceil /\ v.width + 1 <= v.ceiling
      BY <1>2, <2>2, BudgetAssumption DEF Window
    <3> QED BY <1>2, <3>1, <3>2, WidenFacts
  <2>3. CASE ~(v.healthy + 1 < v.width) /\ ~(v.width < v.ceiling)
    <3>1. Clean(v) = Credit(v, 0)
      BY <2>3 DEF Clean, Credit
    <3>2. /\ Credit(v, 0) \in Window /\ Credit(v, 0).ceiling = v.ceiling
          /\ Credit(v, 0).width = v.width
      BY <1>2, CreditFacts
    <3> QED BY <3>1, <3>2
  <2> QED BY <2>1, <2>2, <2>3
<1>4. CASE BreachCount(recent) >= Breaches
  <2>1. Completed(w, slow) = Narrow(w, Halved(w.width))
    BY <1>4 DEF Completed, Narrow, recent
  <2>2. Halved(w.width) \in Floor..Ceil /\ Halved(w.width) <= w.width
    BY HalvedFacts DEF Window
  <2>3. /\ Completed(w, slow) \in Window /\ Completed(w, slow).ceiling = w.ceiling
        /\ Completed(w, slow).width = Halved(w.width)
    BY <2>1, <2>2, NarrowFacts
  <2>4. w.width \in Int /\ w.ceiling \in Int /\ Halved(w.width) \in Int
    BY <2>2, WindowFields
  <2> QED BY <2>2, <2>3, <2>4
<1>5. CASE ~(BreachCount(recent) >= Breaches) /\ slow
  BY <1>2, <1>5 DEF Completed, recent, v
<1>6. CASE ~(BreachCount(recent) >= Breaches) /\ ~slow
  BY <1>2, <1>3, <1>6 DEF Completed, recent, v
<1> QED BY <1>4, <1>5, <1>6

-----------------------------------------------------------------------------
(* Leases and accounts *)

Base == TypeOK /\ Leased /\ RefsCounted

LEMMA HasFrags ==
  ASSUME TypeOK PROVE frag \in FragsType
  BY DEF TypeOK, FragsType, FragType

LEMMA HasAccount ==
  ASSUME Base, NEW d \in Download, lease[d] # None
  PROVE  lease[d] \in Route /\ account[lease[d]] \in Account /\ account[lease[d]] # None
<1>1. lease[d] \in Route
  BY DEF Base, TypeOK
<1>2. d \in Leases(lease[d])
  BY DEF Leases
<1>3. account[lease[d]] # None
  BY <1>1, <1>2 DEF Base, RefsCounted
<1> QED BY <1>1, <1>3 DEF Base, TypeOK

LEMMA RefsKept ==
  ASSUME RefsCounted, lease' = lease,
         \A r \in Route : /\ account'[r] = None <=> account[r] = None
                          /\ account[r] # None => account'[r].refs = account[r].refs
  PROVE  RefsCounted'
  BY DEF RefsCounted, Leases

(* What a step does to the account of one route. *)
Kept(r) == account'[r] = account[r]
Held(r, n) ==
  /\ account'[r] \in Account /\ account'[r].inFlight = n
  /\ account'[r].refs = account[r].refs /\ account'[r].window = account[r].window
  /\ account'[r].known = account[r].known
Seen(r, w, ks) ==
  /\ account'[r] \in Account /\ account'[r].inFlight = account[r].inFlight
  /\ account'[r].refs = account[r].refs /\ account'[r].window = w /\ account'[r].known = ks
AtOne(r) == \A q \in Route \ {r} : Kept(q)

LEMMA HeldFacts ==
  ASSUME TypeOK, NEW r \in Route, account[r] \in Account, NEW n \in Nat,
         account' = [account EXCEPT ![r].inFlight = n]
  PROVE  /\ Held(r, n) /\ AtOne(r)
         /\ account' \in [Route -> Account \cup {None}]
<1> DEFINE a == [account[r] EXCEPT !.inFlight = n]
<1>1. a \in Account /\ a.inFlight = n /\ a.refs = account[r].refs
      /\ a.window = account[r].window /\ a.known = account[r].known
  BY DEF Account
<1>2. account' = [account EXCEPT ![r] = a]
  OBVIOUS
<1> HIDE DEF a
<1> QED BY <1>1, <1>2 DEF Held, AtOne, Kept, TypeOK

LEMMA SeenFacts ==
  ASSUME TypeOK, NEW r \in Route, account[r] \in Account, NEW w \in Window,
         NEW ks \in SUBSET (Floor..Ceil),
         \/ account' = [account EXCEPT ![r].window = w, ![r].known = ks]
         \/ account' = [account EXCEPT ![r].window = w] /\ ks = account[r].known
  PROVE  /\ Seen(r, w, ks) /\ AtOne(r)
         /\ account' \in [Route -> Account \cup {None}]
<1> DEFINE a == [account[r] EXCEPT !.window = w, !.known = ks]
           b == [account[r] EXCEPT !.window = w]
<1>1. CASE account' = [account EXCEPT ![r].window = w, ![r].known = ks]
  <2>1. a \in Account /\ a.inFlight = account[r].inFlight /\ a.refs = account[r].refs
        /\ a.window = w /\ a.known = ks
    BY DEF Account
  <2>2. account' = [account EXCEPT ![r] = a]
    BY <1>1 DEF TypeOK
  <2> HIDE DEF a
  <2> QED BY <2>1, <2>2 DEF Seen, AtOne, Kept, TypeOK
<1>2. CASE account' = [account EXCEPT ![r].window = w] /\ ks = account[r].known
  <2>1. b \in Account /\ b.inFlight = account[r].inFlight /\ b.refs = account[r].refs
        /\ b.window = w /\ b.known = ks
    BY <1>2 DEF Account
  <2>2. account' = [account EXCEPT ![r] = b]
    BY <1>2
  <2> HIDE DEF b
  <2> QED BY <2>1, <2>2 DEF Seen, AtOne, Kept, TypeOK
<1> QED BY <1>1, <1>2

(* A step of one fragment inside a running fetch. *)
LEMMA FragmentBase ==
  ASSUME Base, NEW d \in Download, NEW i \in Frag, NEW stage \in Stage,
         ~At(d, i, "idle"), fetch[d] # "none",
         Moves(d, i, stage), lease' = lease, fetch' = fetch,
         frag' \in FragsType,
         account' \in [Route -> Account \cup {None}],
         pool' \in Nat, learned' = learned, left' = left, kills' = kills,
         abandoned' \in [Route -> Nat],
         \A r \in Route : /\ account'[r] = None <=> account[r] = None
                          /\ account[r] # None => account'[r].refs = account[r].refs
  PROVE  Base'
<1>1. TypeOK'
  BY DEF Base, TypeOK, FragType, FragsType
<1>2. ASSUME NEW e \in Download
      PROVE  (/\ fetch[e] # "none" => lease[e] # None
              /\ fetch[e] \in {"none", "observed"} => Empty(e)
              /\ 1 \in Frag /\ ~At(e, 1, "idle") => \A j \in Frag \ {1} : At(e, j, "idle"))'
  <2>1. CASE e # d
    <3>1. \A j \in Frag : frag'[e][j].at = frag[e][j].at
      BY <2>1 DEF Moves
    <3> QED BY <3>1 DEF Base, Leased, Empty, At
  <2>2. CASE e = d
    <3>1. lease[d] # None /\ fetch[d] \notin {"none", "observed"}
      BY DEF Base, Leased, Empty
    <3>2. ASSUME 1 \in Frag, ~At(d, 1, "idle")', NEW j \in Frag \ {1} PROVE At(d, j, "idle")'
      <4>1. CASE i = 1
        BY <3>2, <4>1 DEF Base, Leased, Moves, At
      <4>2. CASE i # 1
        <5>1. At(d, i, "idle")
          BY <3>2, <4>2 DEF Base, Leased, Moves, At
        <5> QED BY <5>1
      <4> QED BY <4>1, <4>2
    <3> QED BY <2>2, <3>1, <3>2
  <2> QED BY <2>1, <2>2
<1>3. Leased'
  BY <1>2 DEF Leased, Frag
<1>4. RefsCounted'
  BY RefsKept DEF Base
<1> QED BY <1>1, <1>3, <1>4 DEF Base

(* A move of one fragment that leaves the others as they are, or wakes     *)
(* whoever waits.                                                          *)
Alone(d, i) ==
  \A e \in Download, j \in Frag : (e # d \/ j # i) => frag'[e][j] = frag[e][j]
Rings ==
  \A e \in Download, j \in Frag :
    frag'[e][j].at \in {"refused", "wait"} => frag'[e][j].woken

LEMMA AloneFacts ==
  ASSUME TypeOK, NEW d \in Download, NEW i \in Frag, NEW v \in FragType,
         frag' = [frag EXCEPT ![d][i] = v]
  PROVE  frag' \in FragsType /\ Moves(d, i, v.at) /\ Alone(d, i) /\ frag'[d][i] = v
<1>1. frag \in FragsType
  BY HasFrags
<1>2. /\ frag' \in FragsType /\ frag'[d][i] = v
      /\ \A e \in Download, j \in Frag : (e # d \/ j # i) => frag'[e][j] = frag[e][j]
  BY <1>1 DEF FragsType
<1> QED BY <1>2 DEF Moves, Alone

LEMMA RingsFacts ==
  ASSUME TypeOK, NEW d \in Download, NEW i \in Frag, NEW v \in FragType,
         frag' = Woken([frag EXCEPT ![d][i] = v])
  PROVE  frag' \in FragsType /\ Moves(d, i, v.at) /\ Rings
<1> DEFINE fs == [frag EXCEPT ![d][i] = v]
<1>1. frag \in FragsType
  BY HasFrags
<1>2. /\ fs \in FragsType /\ fs[d][i] = v
      /\ \A e \in Download, j \in Frag : (e # d \/ j # i) => fs[e][j] = frag[e][j]
  BY <1>1 DEF FragsType
<1> HIDE DEF fs
<1>3. fs \in [Download -> [Frag -> FragType]]
  BY <1>2 DEF FragsType
<1>4. frag' = Woken(fs)
  BY DEF fs
<1>5. frag' \in FragsType
  BY <1>3, <1>4, WokenFacts DEF FragsType
<1>6. \A e \in Download, j \in Frag :
        /\ frag'[e][j].at = fs[e][j].at
        /\ frag'[e][j].at \in {"refused", "wait"} => frag'[e][j].woken
  BY <1>3, <1>4, WokenFacts
<1> QED BY <1>2, <1>5, <1>6 DEF Moves, Rings

LEMMA AdmitBase ==
  ASSUME Base, NEW d \in Download, NEW i \in Frag, Admit(d, i)
  PROVE  /\ Base' /\ Moves(d, i, "call") /\ Alone(d, i)
         /\ lease[d] \in Route /\ account[lease[d]] \in Account /\ account[lease[d]] # None
         /\ Held(lease[d], account[lease[d]].inFlight + 1) /\ AtOne(lease[d])
<1> DEFINE v == [frag[d][i] EXCEPT !.at = "call", !.woken = FALSE]
<1>1. fetch[d] # "none" /\ ~At(d, i, "idle")
  BY DEF Admit, Asks, At
<1>2. lease[d] \in Route /\ account[lease[d]] \in Account /\ account[lease[d]] # None
  BY <1>1, HasAccount DEF Base, Leased
<1>3. account[lease[d]].inFlight + 1 \in Nat
  BY <1>2 DEF Account
<1>4. /\ Held(lease[d], account[lease[d]].inFlight + 1) /\ AtOne(lease[d])
      /\ account' \in [Route -> Account \cup {None}]
  BY <1>2, <1>3, HeldFacts DEF Admit, Base
<1>5. frag \in FragsType /\ frag[d][i] \in FragType
  BY HasFrags DEF Base, FragsType
<1>6. /\ v \in FragType /\ v.at = "call"
      /\ frag' = [frag EXCEPT ![d][i] = v]
  BY <1>5 DEF Admit, FragsType, FragType, Stage
<1> HIDE DEF v
<1>7. frag' \in FragsType /\ Moves(d, i, "call") /\ Alone(d, i)
  BY <1>6, AloneFacts DEF Base
<1>8. \A r \in Route : /\ account'[r] = None <=> account[r] = None
                       /\ account[r] # None => account'[r].refs = account[r].refs
  BY <1>2, <1>4, NoneAssumption DEF Held, AtOne, Kept
<1>9. /\ lease' = lease /\ fetch' = fetch /\ learned' = learned /\ left' = left
      /\ kills' = kills /\ pool' \in Nat /\ abandoned' \in [Route -> Nat]
      /\ "call" \in Stage
  BY DEF Admit, Base, TypeOK, Stage
<1>10. Base'
  BY <1>1, <1>4, <1>7, <1>8, <1>9, FragmentBase
<1> QED BY <1>2, <1>4, <1>7, <1>10

LEMMA RefuseBase ==
  ASSUME Base, NEW d \in Download, NEW i \in Frag, Refuse(d, i)
  PROVE  Base' /\ Moves(d, i, "refused") /\ Alone(d, i) /\ account' = account
<1> DEFINE v == [frag[d][i] EXCEPT !.at = "refused", !.woken = FALSE]
<1>1. fetch[d] # "none" /\ ~At(d, i, "idle")
  BY DEF Refuse, Asks, At, Base, Leased, Empty
<1>2. frag \in FragsType /\ frag[d][i] \in FragType
  BY HasFrags DEF Base, FragsType
<1>3. /\ v \in FragType /\ v.at = "refused"
      /\ frag' = [frag EXCEPT ![d][i] = v]
  BY <1>2 DEF Refuse, FragsType, FragType, Stage
<1> HIDE DEF v
<1>4. frag' \in FragsType /\ Moves(d, i, "refused") /\ Alone(d, i)
  BY <1>3, AloneFacts DEF Base
<1>5. /\ lease' = lease /\ fetch' = fetch /\ learned' = learned /\ left' = left
      /\ kills' = kills /\ pool' = pool /\ abandoned' = abandoned /\ account' = account
  BY DEF Refuse
<1>6. /\ account' \in [Route -> Account \cup {None}] /\ pool' \in Nat
      /\ abandoned' \in [Route -> Nat] /\ "refused" \in Stage
  BY <1>5 DEF Base, TypeOK, Stage
<1>7. Base'
  BY <1>1, <1>4, <1>5, <1>6, FragmentBase
<1> QED BY <1>4, <1>5, <1>7

LEMMA SleepBase ==
  ASSUME Base, NEW d \in Download, NEW i \in Frag, Sleep(d, i)
  PROVE  Base' /\ Moves(d, i, "wait") /\ Alone(d, i) /\ account' = account
<1> DEFINE v == [frag[d][i] EXCEPT !.at = "wait"]
<1>1. fetch[d] # "none" /\ ~At(d, i, "idle")
  BY DEF Sleep, At, Base, Leased, Empty
<1>2. frag \in FragsType /\ frag[d][i] \in FragType
  BY HasFrags DEF Base, FragsType
<1>3. /\ v \in FragType /\ v.at = "wait"
      /\ frag' = [frag EXCEPT ![d][i] = v]
  BY <1>2 DEF Sleep, FragsType, FragType, Stage
<1> HIDE DEF v
<1>4. frag' \in FragsType /\ Moves(d, i, "wait") /\ Alone(d, i)
  BY <1>3, AloneFacts DEF Base
<1>5. /\ lease' = lease /\ fetch' = fetch /\ learned' = learned /\ left' = left
      /\ kills' = kills /\ pool' = pool /\ abandoned' = abandoned /\ account' = account
  BY DEF Sleep
<1>6. /\ account' \in [Route -> Account \cup {None}] /\ pool' \in Nat
      /\ abandoned' \in [Route -> Nat] /\ "wait" \in Stage
  BY <1>5 DEF Base, TypeOK, Stage
<1>7. Base'
  BY <1>1, <1>4, <1>5, <1>6, FragmentBase
<1> QED BY <1>4, <1>5, <1>7

LEMMA ReturnedFacts ==
  ASSUME TypeOK, NEW r \in Route, account[r] \in Account, account[r] # None,
         account' = Returned(r)
  PROVE  /\ Held(r, AtLeast(account[r].inFlight - 1, 0)) /\ AtOne(r)
         /\ account' \in [Route -> Account \cup {None}]
<1> DEFINE n == AtLeast(account[r].inFlight - 1, 0)
           a == OneFewer(account[r])
<1>1. n \in Nat
  BY DEF Account, AtLeast
<1>2. a = [account[r] EXCEPT !.inFlight = n]
  BY DEF OneFewer
<1>3. account' = [account EXCEPT ![r] = a]
  BY DEF Returned
<1> HIDE DEF n
<1>4. a \in Account /\ a.inFlight = n /\ a.refs = account[r].refs
      /\ a.window = account[r].window /\ a.known = account[r].known
  BY <1>1, <1>2 DEF Account
<1> HIDE DEF a
<1>5. /\ Held(r, n) /\ AtOne(r)
      /\ account' \in [Route -> Account \cup {None}]
  BY <1>3, <1>4 DEF Held, AtOne, Kept, TypeOK
<1> QED BY <1>5 DEF n

LEMMA CallEndsBase ==
  ASSUME Base, NEW d \in Download, NEW i \in Frag, CallEnds(d, i), pool > 0
  PROVE  /\ Base' /\ Moves(d, i, "freed") /\ Alone(d, i)
         /\ lease[d] \in Route /\ account[lease[d]] \in Account /\ account[lease[d]] # None
         /\ Held(lease[d], AtLeast(account[lease[d]].inFlight - 1, 0)) /\ AtOne(lease[d])
<1>1. fetch[d] # "none" /\ ~At(d, i, "idle")
  BY DEF CallEnds, At
<1>2. lease[d] \in Route /\ account[lease[d]] \in Account /\ account[lease[d]] # None
  BY <1>1, HasAccount DEF Base, Leased
<1>3. /\ Held(lease[d], AtLeast(account[lease[d]].inFlight - 1, 0)) /\ AtOne(lease[d])
      /\ account' \in [Route -> Account \cup {None}]
  BY <1>2, ReturnedFacts DEF CallEnds, Base
<1>4. PICK ok \in BOOLEAN : frag' = [frag EXCEPT ![d][i].at = "freed", ![d][i].ok = ok]
  BY DEF CallEnds
<1> DEFINE v == [frag[d][i] EXCEPT !.at = "freed", !.ok = ok]
<1>5. frag \in FragsType /\ frag[d][i] \in FragType
  BY HasFrags DEF Base, FragsType
<1>6. /\ v \in FragType /\ v.at = "freed"
      /\ frag' = [frag EXCEPT ![d][i] = v]
  BY <1>4, <1>5 DEF FragsType, FragType, Stage
<1> HIDE DEF v
<1>7. frag' \in FragsType /\ Moves(d, i, "freed") /\ Alone(d, i)
  BY <1>6, AloneFacts DEF Base
<1>8. \A r \in Route : /\ account'[r] = None <=> account[r] = None
                       /\ account[r] # None => account'[r].refs = account[r].refs
  BY <1>2, <1>3, NoneAssumption DEF Held, AtOne, Kept
<1>9. /\ lease' = lease /\ fetch' = fetch /\ learned' = learned /\ left' = left
      /\ kills' = kills /\ pool' \in Nat /\ abandoned' \in [Route -> Nat]
      /\ "freed" \in Stage
  BY DEF CallEnds, Base, TypeOK, Stage
<1>10. Base'
  BY <1>1, <1>3, <1>7, <1>8, <1>9, FragmentBase
<1> QED BY <1>2, <1>3, <1>7, <1>10

Put(fs, d, i, v) == [fs EXCEPT ![d][i] = v]

LEMMA OneMoved ==
  ASSUME NEW fs \in FragsType, NEW d \in Download, NEW i \in Frag, NEW v \in FragType
  PROVE  /\ Put(fs, d, i, v) \in FragsType /\ Put(fs, d, i, v)[d][i] = v
         /\ \A e \in Download, j \in Frag :
              (e # d \/ j # i) => Put(fs, d, i, v)[e][j] = fs[e][j]
  BY DEF FragsType, Put

(* A future that is moved after the others have been woken. *)
LEMMA RungFacts ==
  ASSUME TypeOK, NEW d \in Download, NEW i \in Frag, NEW v \in FragType,
         v.at \notin {"refused", "wait"},
         frag' = Put(Woken(frag), d, i, v)
  PROVE  frag' \in FragsType /\ Moves(d, i, v.at) /\ Rings
<1> DEFINE fs == Woken(frag)
<1>1. frag \in [Download -> [Frag -> FragType]]
  BY HasFrags DEF FragsType
<1>2. /\ fs \in [Download -> [Frag -> FragType]]
      /\ \A e \in Download, j \in Frag :
           /\ fs[e][j].at = frag[e][j].at
           /\ fs[e][j].at \in {"refused", "wait"} => fs[e][j].woken
  BY <1>1, WokenFacts
<1>3. fs \in FragsType
  BY <1>2 DEF FragsType
<1>4. frag' = Put(fs, d, i, v)
  OBVIOUS
<1> HIDE DEF fs
<1>5. /\ frag' \in FragsType /\ frag'[d][i] = v
      /\ \A e \in Download, j \in Frag : (e # d \/ j # i) => frag'[e][j] = fs[e][j]
  BY <1>3, <1>4, OneMoved
<1>6. Moves(d, i, v.at)
  BY <1>2, <1>5 DEF Moves
<1>7. Rings
  BY <1>2, <1>5 DEF Rings
<1> QED BY <1>5, <1>6, <1>7

(* A step of a fragment that touches neither account nor pool. *)
LEMMA FragmentOnly ==
  ASSUME Base, NEW d \in Download, NEW i \in Frag, NEW stage \in Stage,
         ~At(d, i, "idle"), fetch[d] # "none", Moves(d, i, stage), frag' \in FragsType,
         UNCHANGED <<account, learned, pool, lease, fetch, left, abandoned, kills>>
  PROVE  Base'
<1>1. /\ account' \in [Route -> Account \cup {None}] /\ pool' \in Nat
      /\ abandoned' \in [Route -> Nat]
  BY DEF Base, TypeOK
<1> QED BY <1>1, FragmentBase

LEMMA HasFetch ==
  ASSUME Base, NEW d \in Download, NEW i \in Frag, ~At(d, i, "idle")
  PROVE  fetch[d] \notin {"none", "observed"} /\ lease[d] # None
  BY DEF Base, Leased, Empty

LEMMA PermitNotifiesBase ==
  ASSUME Base, NEW d \in Download, NEW i \in Frag, PermitNotifies(d, i)
  PROVE  Base' /\ Rings /\ \E stage \in Stage \ {"call"} : Moves(d, i, stage)
<1>1. ~At(d, i, "idle") /\ fetch[d] # "none"
  BY HasFetch DEF PermitNotifies, At
<1>2. frag \in FragsType /\ frag[d][i] \in FragType
  BY HasFrags DEF Base, FragsType
<1> SUFFICES \E stage \in Stage \ {"call"} :
               frag' \in FragsType /\ Moves(d, i, stage) /\ Rings
  BY <1>1, FragmentOnly DEF PermitNotifies
<1> DEFINE v(at) == [frag[d][i] EXCEPT !.at = at]
           goes(at) == Woken([frag EXCEPT ![d][i].at = at])
<1>3. ASSUME NEW at \in Stage
      PROVE  /\ v(at) \in FragType /\ v(at).at = at
             /\ goes(at) = Woken([frag EXCEPT ![d][i] = v(at)])
  BY <1>2 DEF FragsType, FragType
<1>4. \/ \E at \in {"answered", "died"} : frag' = goes(at)
      \/ /\ frag[d][i].tries < Retries
         /\ frag' = [goes("backoff") EXCEPT ![d][i].tries = @ + 1]
  BY DEF PermitNotifies
<1>5. {"answered", "died", "backoff"} \subseteq Stage \ {"call"}
  BY DEF Stage
<1>6. CASE \E at \in {"answered", "died"} : frag' = goes(at)
  <2>1. PICK at \in {"answered", "died"} : frag' = goes(at)
    BY <1>6
  <2>2. v(at) \in FragType /\ v(at).at = at
        /\ frag' = Woken([frag EXCEPT ![d][i] = v(at)])
    BY <1>3, <1>5, <2>1
  <2> HIDE DEF v, goes
  <2>3. frag' \in FragsType /\ Moves(d, i, at) /\ Rings
    BY <2>2, RingsFacts DEF Base
  <2> QED BY <1>5, <2>3
<1>7. CASE /\ frag[d][i].tries < Retries
           /\ frag' = [goes("backoff") EXCEPT ![d][i].tries = @ + 1]
  <2> DEFINE fs == [frag EXCEPT ![d][i] = v("backoff")]
             gs == Woken(fs)
  <2>1. v("backoff") \in FragType /\ v("backoff").at = "backoff"
        /\ v("backoff").tries = frag[d][i].tries /\ goes("backoff") = gs
    BY <1>2, <1>3, <1>5 DEF FragsType, FragType
  <2>2. frag' = [gs EXCEPT ![d][i].tries = @ + 1]
    BY <1>7, <2>1
  <2> HIDE DEF v, goes
  <2>3. /\ fs \in [Download -> [Frag -> FragType]] /\ fs[d][i] = v("backoff")
        /\ \A e \in Download, j \in Frag : (e # d \/ j # i) => fs[e][j] = frag[e][j]
    BY <1>2, <2>1 DEF FragsType
  <2> HIDE DEF fs
  <2>4. /\ gs \in [Download -> [Frag -> FragType]]
        /\ \A e \in Download, j \in Frag :
             /\ gs[e][j].at = fs[e][j].at /\ gs[e][j].tries = fs[e][j].tries
             /\ gs[e][j].at \in {"refused", "wait"} => gs[e][j].woken
    BY <2>3, WokenFacts
  <2> HIDE DEF gs
  <2> DEFINE u == [gs[d][i] EXCEPT !.tries = @ + 1]
  <2>5. gs[d][i] \in FragType /\ gs[d][i].tries < Retries /\ gs[d][i].tries \in 0..Retries
    BY <1>7, <2>1, <2>3, <2>4 DEF FragType
  <2>6. gs[d][i].tries + 1 \in 0..Retries
    BY <2>5, BudgetAssumption
  <2>7. u \in FragType /\ u.at = gs[d][i].at
    BY <2>5, <2>6 DEF FragType
  <2>8. frag' = [gs EXCEPT ![d][i] = u]
    BY <2>2
  <2> HIDE DEF u
  <2>9. /\ frag' \in FragsType /\ frag'[d][i] = u
        /\ \A e \in Download, j \in Frag : (e # d \/ j # i) => frag'[e][j] = gs[e][j]
    BY <2>4, <2>7, <2>8 DEF FragsType
  <2>10. Moves(d, i, "backoff")
    BY <2>1, <2>3, <2>4, <2>7, <2>9 DEF Moves
  <2>11. Rings
    BY <2>1, <2>3, <2>4, <2>7, <2>9 DEF Rings
  <2> QED BY <1>5, <2>9, <2>10, <2>11
<1> QED BY <1>4, <1>6, <1>7

LEMMA ObserveBase ==
  ASSUME Base, NEW d \in Download, NEW i \in Frag, Observe(d, i)
  PROVE  /\ Base' /\ Moves(d, i, "observed") /\ Alone(d, i)
         /\ lease[d] \in Route /\ account[lease[d]] \in Account /\ account[lease[d]] # None
         /\ \E slow \in BOOLEAN :
              Seen(lease[d], Completed(account[lease[d]].window, slow), account[lease[d]].known)
         /\ AtOne(lease[d])
<1> DEFINE r == lease[d]
<1>1. ~At(d, i, "idle") /\ fetch[d] # "none" /\ lease[d] # None
  BY HasFetch DEF Observe, At
<1>2. r \in Route /\ account[r] \in Account /\ account[r] # None
  BY <1>1, HasAccount
<1>3. PICK slow \in BOOLEAN : account' = [account EXCEPT ![r].window = Completed(@, slow)]
  BY DEF Observe
<1> HIDE DEF r
<1> DEFINE w == Completed(account[r].window, slow)
<1>4. account' = [account EXCEPT ![r].window = w]
  BY <1>3
<1>5. account[r].window \in Window /\ account[r].known \in SUBSET (Floor..Ceil)
  BY <1>2 DEF Account
<1>6. w \in Window
  BY <1>5, CompletedFacts
<1>7. /\ Seen(r, w, account[r].known) /\ AtOne(r)
      /\ account' \in [Route -> Account \cup {None}]
  <2> HIDE DEF w
  <2> QED BY <1>2, <1>4, <1>5, <1>6, SeenFacts DEF Base
<1> DEFINE v == [frag[d][i] EXCEPT !.at = "observed"]
<1>8. frag \in FragsType /\ frag[d][i] \in FragType
  BY HasFrags DEF Base, FragsType
<1>9. /\ v \in FragType /\ v.at = "observed"
      /\ frag' = [frag EXCEPT ![d][i] = v]
  BY <1>8 DEF Observe, FragsType, FragType, Stage
<1> HIDE DEF v
<1>10. frag' \in FragsType /\ Moves(d, i, "observed") /\ Alone(d, i)
  BY <1>9, AloneFacts DEF Base
<1>11. \A q \in Route : /\ account'[q] = None <=> account[q] = None
                        /\ account[q] # None => account'[q].refs = account[q].refs
  BY <1>2, <1>7, NoneAssumption DEF Seen, AtOne, Kept
<1>12. /\ lease' = lease /\ fetch' = fetch /\ learned' = learned /\ left' = left
       /\ kills' = kills /\ pool' \in Nat /\ abandoned' \in [Route -> Nat]
       /\ "observed" \in Stage
  BY DEF Observe, Base, TypeOK, Stage
<1>13. Base'
  BY <1>1, <1>7, <1>10, <1>11, <1>12, FragmentBase
<1> QED BY <1>2, <1>7, <1>10, <1>13 DEF r

(* Callers neither come nor go. *)
SameCallers ==
  \A e \in Download, j \in Frag : (frag'[e][j].at = "call") <=> (frag[e][j].at = "call")

LEMMA ObserveNotifiesBase ==
  ASSUME Base, NEW d \in Download, NEW i \in Frag, ObserveNotifies(d, i)
  PROVE  Base' /\ Rings /\ SameCallers
<1> DEFINE fs == Woken(frag)
<1>1. ~At(d, i, "idle") /\ fetch[d] \notin {"none", "observed"} /\ lease[d] # None
  BY HasFetch DEF ObserveNotifies, At
<1>2. frag \in [Download -> [Frag -> FragType]]
  BY HasFrags DEF Base, FragsType
<1>3. /\ fs \in [Download -> [Frag -> FragType]]
      /\ \A e \in Download, j \in Frag :
           /\ fs[e][j].at = frag[e][j].at
           /\ fs[e][j].at \in {"refused", "wait"} => fs[e][j].woken
  BY <1>2, WokenFacts
<1>4. UNCHANGED <<account, learned, pool, lease, fetch, left, abandoned, kills>>
      /\ frag[d][i].at = "observed"
  BY DEF ObserveNotifies, At
<1>5. CASE \E how \in {"quiet"} \cup (IF i = 1 THEN {} ELSE {"died"}) :
             frag' = [fs EXCEPT ![d][i].at = how]
  <2>1. PICK how \in {"quiet", "died"} : frag' = [fs EXCEPT ![d][i].at = how]
    BY <1>5
  <2> DEFINE v == [fs[d][i] EXCEPT !.at = how]
  <2>2. how \in Stage /\ fs[d][i] \in FragType
    BY <1>3 DEF Stage
  <2>3. v \in FragType /\ v.at = how /\ frag' = [fs EXCEPT ![d][i] = v]
    BY <2>1, <2>2 DEF FragType
  <2> HIDE DEF v
  <2>4. frag' \in FragsType /\ Moves(d, i, how) /\ Rings
    BY <2>3, RungFacts DEF Base, Put, fs
  <2>5. SameCallers
    BY <1>4, <2>4 DEF Moves, SameCallers
  <2> QED BY <1>1, <1>4, <2>2, <2>4, <2>5, FragmentOnly
<1>6. CASE frag' = [fs EXCEPT ![d] = Refill(d, i)]
  <2> DEFINE room(j) == At(d, j, "due") /\ \A k \in 2..(j - Ceil) : Yielded(d, i, k)
             one(j) == IF j = i THEN Idle
                       ELSE IF i = 1 /\ j \in 2..Total[d]
                            THEN IF j <= Ceil + 1 THEN Start ELSE Due
                       ELSE IF room(j) THEN Start ELSE fs[d][j]
             gs == [j \in Frag |-> one(j)]
  <2>1. /\ Idle \in FragType /\ Start \in FragType /\ Due \in FragType
        /\ Idle.at = "idle" /\ Start.at = "start" /\ Due.at = "due"
    BY BudgetAssumption DEF Idle, Start, Due, FragType, Stage
  <2>2. ASSUME NEW j \in Frag
        PROVE  /\ one(j) \in FragType
               /\ one(j).at \in {frag[d][j].at, "idle", "start", "due"}
               /\ one(j).at \in {"refused", "wait"} => one(j).woken
               /\ j = i => one(j).at = "idle"
               /\ one(j).at # frag[d][j].at /\ j # i =>
                    /\ one(j).at \in {"start", "due"}
                    /\ frag[d][j].at = "due" \/ i = 1
               /\ j = 1 /\ j # i /\ frag[d][1].at = "idle" => one(j).at = "idle"
    <3> HIDE DEF room
    <3>1. room(j) => frag[d][j].at = "due"
      BY DEF room, At
    <3> QED BY <1>3, <2>1, <3>1
  <2>3a. gs = Refill(d, i)
    BY DEF Refill
  <2>3. frag' = [fs EXCEPT ![d] = gs]
    BY <1>6, <2>3a
  <2> HIDE DEF one, room
  <2>4. gs \in [Frag -> FragType] /\ \A j \in Frag : gs[j] = one(j)
    BY <2>2
  <2> HIDE DEF gs
  <2> HIDE DEF fs
  <2>5. /\ frag' \in FragsType /\ frag'[d] = gs
        /\ \A e \in Download : e # d => frag'[e] = fs[e]
    BY <1>3, <2>3, <2>4 DEF FragsType
  <2>6. \A e \in Download, j \in Frag : e # d => frag'[e][j].at = frag[e][j].at
    BY <1>3, <2>5
  <2>7. \A j \in Frag : frag'[d][j] = one(j)
    BY <2>4, <2>5
  <2>8. Rings
    <3> SUFFICES ASSUME NEW e \in Download, NEW j \in Frag,
                        frag'[e][j].at \in {"refused", "wait"}
                 PROVE  frag'[e][j].woken
      BY DEF Rings
    <3>1. CASE e = d
      BY <2>2, <2>7, <3>1
    <3>2. CASE e # d
      BY <1>3, <2>5, <3>2
    <3> QED BY <3>1, <3>2
  <2>9. i = 1 => \A j \in Frag \ {1} : frag[d][j].at = "idle"
    BY <1>1 DEF Base, Leased, At
  <2>10. SameCallers
    <3> SUFFICES ASSUME NEW e \in Download, NEW j \in Frag
                 PROVE  (frag'[e][j].at = "call") <=> (frag[e][j].at = "call")
      BY DEF SameCallers
    <3>1. CASE e = d /\ j = i
      BY <1>4, <2>2, <2>7, <3>1
    <3>2. CASE e = d /\ j # i
      BY <2>2, <2>7, <2>9, <3>2
    <3>3. CASE e # d
      BY <2>6, <3>3
    <3> QED BY <3>1, <3>2, <3>3
  <2>11. TypeOK'
    BY <1>4, <2>5 DEF Base, TypeOK, FragsType, FragType
  <2>12. Leased'
    <3>1. ASSUME NEW e \in Download
          PROVE  /\ fetch[e] # "none" => lease[e] # None
                 /\ fetch[e] \in {"none", "observed"} => Empty(e)'
                 /\ 1 \in Frag /\ ~At(e, 1, "idle")' => \A j \in Frag \ {1} : At(e, j, "idle")'
      <4>1. CASE e # d
        BY <2>6, <4>1 DEF Base, Leased, Empty, At
      <4>2. CASE e = d
        <5>1. ASSUME 1 \in Frag, ~At(d, 1, "idle")', NEW j \in Frag \ {1}
              PROVE  At(d, j, "idle")'
          <6>1. i # 1
            <7>1. one(1).at # "idle"
              BY <2>7, <5>1 DEF At
            <7> QED BY <2>2, <5>1, <7>1
          <6>2. frag[d][1].at # "idle"
            <7>1. one(1).at # "idle"
              BY <2>7, <5>1 DEF At
            <7> QED BY <2>2, <5>1, <6>1, <7>1
          <6>3. \A k \in Frag \ {1} : At(d, k, "idle")
            BY <5>1, <6>2 DEF Base, Leased, At
          <6>4. At(d, i, "idle")
            BY <6>1, <6>3
          <6> QED BY <6>4, <1>1
        <5> QED BY <1>1, <4>2, <5>1
      <4> QED BY <4>1, <4>2
    <3>2. \A e \in Download :
            (/\ fetch[e] # "none" => lease[e] # None
             /\ fetch[e] \in {"none", "observed"} => Empty(e)
             /\ 1 \in Frag /\ ~At(e, 1, "idle") => \A j \in Frag \ {1} : At(e, j, "idle"))'
      BY <1>4, <3>1
    <3> QED BY <3>2 DEF Leased, Frag
  <2>13. RefsCounted'
    BY <1>4, RefsKept DEF Base
  <2> QED BY <2>8, <2>10, <2>11, <2>12, <2>13 DEF Base
<1> QED BY <1>5, <1>6 DEF ObserveNotifies

LEMMA DropNotifiesBase ==
  ASSUME Base, NEW d \in Download, NEW i \in Frag, DropNotifies(d, i)
  PROVE  Base' /\ Rings /\ SameCallers
<1>1. ~At(d, i, "idle") /\ fetch[d] # "none"
  BY HasFetch DEF DropNotifies, At
<1>2. Idle \in FragType /\ Idle.at = "idle" /\ "idle" \in Stage
  BY BudgetAssumption DEF Idle, FragType, Stage
<1>3. frag' \in FragsType /\ Moves(d, i, "idle") /\ Rings
  BY <1>2, RungFacts DEF Base, DropNotifies, Put
<1>4. SameCallers
  BY <1>3 DEF DropNotifies, At, Moves, SameCallers
<1>5. Base'
  BY <1>1, <1>2, <1>3, FragmentOnly DEF DropNotifies
<1> QED BY <1>3, <1>4, <1>5

LEMMA DropCallBase ==
  ASSUME Base, NEW d \in Download, NEW i \in Frag, DropFragment(d, i), At(d, i, "call"),
         pool > 0
  PROVE  /\ Base' /\ Moves(d, i, "dropped") /\ Alone(d, i)
         /\ lease[d] \in Route /\ account[lease[d]] \in Account /\ account[lease[d]] # None
         /\ Held(lease[d], AtLeast(account[lease[d]].inFlight - 1, 0)) /\ AtOne(lease[d])
<1>1. fetch[d] # "none" /\ ~At(d, i, "idle") /\ lease[d] # None
  BY HasFetch DEF DropFragment
<1>2. lease[d] \in Route /\ account[lease[d]] \in Account /\ account[lease[d]] # None
  BY <1>1, HasAccount
<1>3. /\ Held(lease[d], AtLeast(account[lease[d]].inFlight - 1, 0)) /\ AtOne(lease[d])
      /\ account' \in [Route -> Account \cup {None}]
  BY <1>2, ReturnedFacts DEF DropFragment, Base
<1>4. /\ frag' = [frag EXCEPT ![d][i].at = "dropped"] /\ pool' = pool - 1
      /\ abandoned' = [abandoned EXCEPT ![lease[d]] = @ + 1]
  BY DEF DropFragment
<1> DEFINE v == [frag[d][i] EXCEPT !.at = "dropped"]
<1>5. frag \in FragsType /\ frag[d][i] \in FragType
  BY HasFrags DEF Base, FragsType
<1>6. /\ v \in FragType /\ v.at = "dropped" /\ frag' = [frag EXCEPT ![d][i] = v]
  BY <1>4, <1>5 DEF FragsType, FragType, Stage
<1> HIDE DEF v
<1>7. frag' \in FragsType /\ Moves(d, i, "dropped") /\ Alone(d, i)
  BY <1>6, AloneFacts DEF Base
<1>8. \A r \in Route : /\ account'[r] = None <=> account[r] = None
                       /\ account[r] # None => account'[r].refs = account[r].refs
  BY <1>2, <1>3, NoneAssumption DEF Held, AtOne, Kept
<1>9. /\ lease' = lease /\ fetch' = fetch /\ learned' = learned /\ left' = left
      /\ kills' = kills /\ pool' \in Nat /\ abandoned' \in [Route -> Nat]
      /\ "dropped" \in Stage
  BY <1>2, <1>4 DEF DropFragment, Base, TypeOK, Stage
<1>10. Base'
  BY <1>1, <1>3, <1>7, <1>8, <1>9, FragmentBase
<1> QED BY <1>2, <1>3, <1>7, <1>10

LEMMA DropOtherBase ==
  ASSUME Base, NEW d \in Download, NEW i \in Frag, DropFragment(d, i), ~At(d, i, "call")
  PROVE  Base' /\ Moves(d, i, "idle") /\ Alone(d, i) /\ SameCallers
         /\ UNCHANGED <<account, learned, pool, lease, fetch, left, abandoned, kills>>
<1>1. fetch[d] # "none" /\ ~At(d, i, "idle")
  BY HasFetch DEF DropFragment
<1>2. Idle \in FragType /\ Idle.at = "idle" /\ "idle" \in Stage
  BY BudgetAssumption DEF Idle, FragType, Stage
<1>3. /\ frag' = [frag EXCEPT ![d][i] = Idle]
      /\ UNCHANGED <<account, learned, pool, lease, fetch, left, abandoned, kills>>
  BY DEF DropFragment
<1>4. frag' \in FragsType /\ Moves(d, i, "idle") /\ Alone(d, i)
  BY <1>2, <1>3, AloneFacts DEF Base
<1>5. SameCallers
  BY <1>4 DEF At, Moves, SameCallers
<1>6. Base'
  BY <1>1, <1>2, <1>3, <1>4, FragmentOnly
<1> QED BY <1>3, <1>4, <1>5, <1>6

-----------------------------------------------------------------------------
(* Fetches and leases *)

(* What is said of one download's fetch and futures. *)
LeasedAt(d) ==
  /\ fetch[d] # "none" => lease[d] # None
  /\ fetch[d] \in {"none", "observed"} => Empty(d)
  /\ 1 \in Frag /\ ~At(d, 1, "idle") => \A j \in Frag \ {1} : At(d, j, "idle")

LEMMA LeasedByDownload ==
  ASSUME \A d \in Download : LeasedAt(d)'
  PROVE  Leased'
  BY DEF LeasedAt, Leased

(* A fetch moves to another of its stages. *)
LEMMA FetchBase ==
  ASSUME Base, NEW d \in Download,
         NEW stage \in {"none", "running", "died", "quiet", "observed"},
         fetch' = [fetch EXCEPT ![d] = stage],
         stage # "none" => lease[d] # None,
         stage \in {"none", "observed"} => Empty(d)',
         \/ frag' = frag
         \/ frag' \in FragsType /\ \A e \in Download, j \in Frag : frag'[e][j].at = frag[e][j].at,
         account' \in [Route -> Account \cup {None}], lease' = lease,
         learned' \in [Sharer -> (Floor..Ceil) \cup {None}], pool' = pool,
         left' \in [Download -> 0..MaxFetches], abandoned' = abandoned,
         kills' \in [Sharer -> SUBSET (Floor..Ceil)],
         \A r \in Route : /\ account'[r] = None <=> account[r] = None
                          /\ account[r] # None => account'[r].refs = account[r].refs
  PROVE  Base'
<1>1. \A e \in Download, j \in Frag : frag'[e][j].at = frag[e][j].at
  OBVIOUS
<1>2. frag' \in FragsType
  BY HasFrags DEF Base
<1>3. fetch \in [Download -> {"none", "running", "died", "quiet", "observed"}]
  BY DEF Base, TypeOK
<1>4. /\ fetch' \in [Download -> {"none", "running", "died", "quiet", "observed"}]
      /\ fetch'[d] = stage /\ \A e \in Download : e # d => fetch'[e] = fetch[e]
  BY <1>3
<1>5. /\ account' \in [Route -> Account \cup {None}]
      /\ learned' \in [Sharer -> (Floor..Ceil) \cup {None}]
      /\ pool' \in Nat /\ lease' \in [Download -> Route \cup {None}]
      /\ left' \in [Download -> 0..MaxFetches] /\ abandoned' \in [Route -> Nat]
      /\ kills' \in [Sharer -> SUBSET (Floor..Ceil)]
  BY DEF Base, TypeOK
<1>6. TypeOK'
  BY <1>2, <1>4, <1>5 DEF TypeOK, FragsType, FragType
<1>7. Leased'
  <2> SUFFICES ASSUME NEW e \in Download PROVE LeasedAt(e)'
    BY LeasedByDownload
  <2>1. \A j \in Frag : At(e, j, "idle")' <=> At(e, j, "idle")
    BY <1>1 DEF At
  <2>2. Frag' = Frag
    BY DEF Frag
  <2>3. Empty(e)' <=> Empty(e)
    BY <2>1, <2>2 DEF Empty
  <2>4. CASE e = d
    BY <1>4, <2>1, <2>2, <2>4 DEF LeasedAt, Base, Leased, At
  <2>5. CASE e # d
    BY <1>4, <2>1, <2>2, <2>3, <2>5 DEF LeasedAt, Base, Leased, At
  <2> QED BY <2>4, <2>5
<1>8. RefsCounted'
  BY RefsKept DEF Base
<1> QED BY <1>6, <1>7, <1>8 DEF Base

LEMMA SameAccounts ==
  ASSUME Base, UNCHANGED <<account, learned, pool, lease, abandoned, kills>>
  PROVE  /\ account' \in [Route -> Account \cup {None}]
         /\ learned' \in [Sharer -> (Floor..Ceil) \cup {None}]
         /\ kills' \in [Sharer -> SUBSET (Floor..Ceil)]
         /\ \A r \in Route : /\ account'[r] = None <=> account[r] = None
                             /\ account[r] # None => account'[r].refs = account[r].refs
  BY DEF Base, TypeOK

LEMMA TakeFailureBase ==
  ASSUME Base, NEW d \in Download, NEW i \in Frag, TakeFailure(d, i)
  PROVE  Base'
<1>1. PICK stage \in {"died", "quiet"} : fetch' = [fetch EXCEPT ![d] = stage]
  BY DEF TakeFailure
<1>2. lease[d] # None
  BY DEF TakeFailure, Base, Leased
<1>3. left' \in [Download -> 0..MaxFetches] /\ lease' = lease /\ pool' = pool /\ frag' = frag
      /\ abandoned' = abandoned
  BY DEF TakeFailure, Base, TypeOK
<1>4. UNCHANGED <<account, learned, pool, lease, abandoned, kills>>
  BY DEF TakeFailure
<1> QED BY <1>1, <1>2, <1>3, <1>4, SameAccounts, FetchBase

LEMMA CancelBase ==
  ASSUME Base, NEW d \in Download, Cancel(d)
  PROVE  Base'
<1>1. lease[d] # None
  BY DEF Cancel, Base, Leased
<1>2. left' \in [Download -> 0..MaxFetches] /\ lease' = lease /\ pool' = pool /\ frag' = frag
      /\ abandoned' = abandoned /\ fetch' = [fetch EXCEPT ![d] = "quiet"]
  BY DEF Cancel, Base, TypeOK
<1>3. UNCHANGED <<account, learned, pool, lease, abandoned, kills>>
  BY DEF Cancel
<1> QED BY <1>1, <1>2, <1>3, SameAccounts, FetchBase

LEMMA FetchCompleteBase ==
  ASSUME Base, NEW d \in Download, FetchComplete(d)
  PROVE  Base'
<1>1. Empty(d)'
  BY DEF FetchComplete, Empty, At, Frag
<1>2. left' \in [Download -> 0..MaxFetches] /\ lease' = lease /\ pool' = pool /\ frag' = frag
      /\ abandoned' = abandoned /\ fetch' = [fetch EXCEPT ![d] = "none"]
  BY DEF FetchComplete, Base, TypeOK
<1>3. UNCHANGED <<account, learned, pool, lease, abandoned, kills>>
  BY DEF FetchComplete
<1> QED BY <1>1, <1>2, <1>3, SameAccounts, FetchBase

LEMMA FetchFailsBase ==
  ASSUME Base, NEW d \in Download, FetchFails(d)
  PROVE  /\ Base' /\ (fetch[d] = "observed" => Rings) /\ SameCallers
         /\ fetch[d] = "observed" \/ frag' = frag
<1>1. frag \in [Download -> [Frag -> FragType]]
  BY HasFrags DEF Base, FragsType
<1>2. \/ fetch[d] = "observed" /\ frag' = Woken(frag)
      \/ fetch[d] = "quiet" /\ frag' = frag
  BY DEF FetchFails
<1>3. frag' = Woken(frag) => /\ frag' \in FragsType /\ Rings
                             /\ \A e \in Download, j \in Frag : frag'[e][j].at = frag[e][j].at
  BY <1>1, WokenFacts DEF FragsType, Rings
<1>4. \A e \in Download, j \in Frag : frag'[e][j].at = frag[e][j].at
  BY <1>2, <1>3
<1>5. Empty(d)
  BY DEF FetchFails, Base, Leased
<1>6. Empty(d)'
  BY <1>4, <1>5 DEF Empty, At, Frag
<1>7. left' \in [Download -> 0..MaxFetches] /\ lease' = lease /\ pool' = pool
      /\ abandoned' = abandoned /\ fetch' = [fetch EXCEPT ![d] = "none"]
  BY DEF FetchFails, Base, TypeOK
<1>8. UNCHANGED <<account, learned, pool, lease, abandoned, kills>>
  BY DEF FetchFails
<1>9. Base'
  BY <1>2, <1>3, <1>6, <1>7, <1>8, SameAccounts, FetchBase
<1>10. SameCallers
  BY <1>4 DEF SameCallers
<1> QED BY <1>2, <1>3, <1>9, <1>10

LEMMA StartFetchBase ==
  ASSUME Base, NEW d \in Download, StartFetch(d)
  PROVE  Base' /\ SameCallers /\ Moves(d, 1, "start") /\ Alone(d, 1)
<1>1. 1 \in Frag
  BY FragFacts
<1>2. Start \in FragType /\ Start.at = "start"
  BY BudgetAssumption DEF Start, FragType, Stage
<1>3. Empty(d) /\ lease[d] # None
  BY DEF StartFetch, Base, Leased
<1>4. frag' \in FragsType /\ Moves(d, 1, "start") /\ Alone(d, 1)
  <2>1. PICK i \in Frag : i = 1
    BY <1>1
  <2>2. PICK v \in FragType : v = Start
    BY <1>2
  <2>3. frag' = [frag EXCEPT ![d][i] = v] /\ TypeOK
    BY <2>1, <2>2 DEF StartFetch, Base
  <2>4. frag' \in FragsType /\ Moves(d, i, v.at) /\ Alone(d, i)
    BY <2>3, AloneFacts
  <2> QED BY <1>2, <2>1, <2>2, <2>4
<1>5. SameCallers
  BY <1>1, <1>3, <1>4 DEF SameCallers, Moves, Empty, At
<1>6. /\ fetch \in [Download -> {"none", "running", "died", "quiet", "observed"}]
      /\ left \in [Download -> 0..MaxFetches] /\ left[d] > 0
      /\ fetch' = [fetch EXCEPT ![d] = "running"] /\ left' = [left EXCEPT ![d] = @ - 1]
      /\ UNCHANGED <<account, learned, pool, lease, abandoned, kills>>
  BY DEF StartFetch, Base, TypeOK
<1>7. left[d] - 1 \in 0..MaxFetches
  BY <1>6, BudgetAssumption
<1>8. /\ fetch' \in [Download -> {"none", "running", "died", "quiet", "observed"}]
      /\ left' \in [Download -> 0..MaxFetches] /\ fetch'[d] = "running"
      /\ \A e \in Download : e # d => fetch'[e] = fetch[e]
  BY <1>6, <1>7
<1>9. TypeOK'
  <2>1. /\ account' \in [Route -> Account \cup {None}]
        /\ learned' \in [Sharer -> (Floor..Ceil) \cup {None}]
        /\ pool' \in Nat /\ lease' \in [Download -> Route \cup {None}]
        /\ abandoned' \in [Route -> Nat] /\ kills' \in [Sharer -> SUBSET (Floor..Ceil)]
    BY <1>6 DEF Base, TypeOK
  <2> QED BY <1>4, <1>8, <2>1 DEF TypeOK, FragsType, FragType
<1>10. Leased'
  <2> SUFFICES ASSUME NEW e \in Download PROVE LeasedAt(e)'
    BY LeasedByDownload
  <2>1. Frag' = Frag
    BY DEF Frag
  <2>2. CASE e = d
    <3>1. \A j \in Frag \ {1} : At(d, j, "idle")'
      BY <1>1, <1>3, <1>4 DEF Empty, At, Moves
    <3> QED BY <1>3, <1>6, <1>8, <2>1, <2>2, <3>1 DEF LeasedAt
  <2>3. CASE e # d
    <3>1. \A j \in Frag : At(e, j, "idle")' <=> At(e, j, "idle")
      BY <1>4, <2>3 DEF At, Moves
    <3>2. Empty(e)' <=> Empty(e)
      BY <2>1, <3>1 DEF Empty
    <3> QED BY <1>1, <1>6, <1>8, <2>1, <2>3, <3>1, <3>2 DEF LeasedAt, Base, Leased
  <2> QED BY <2>2, <2>3
<1>11. RefsCounted'
  BY <1>6, RefsKept DEF Base
<1> QED BY <1>4, <1>5, <1>9, <1>10, <1>11 DEF Base

LEMMA ObserveFailedBase ==
  ASSUME Base, NEW d \in Download, ObserveFailed(d)
  PROVE  /\ Base' /\ frag' = frag
         /\ lease[d] \in Route /\ account[lease[d]] \in Account /\ account[lease[d]] # None
         /\ AtOne(lease[d])
         /\ LET r == lease[d]
                w == account[r].window
            IN  Seen(r, Collapse(w), IF w.collapsed THEN account[r].known
                                     ELSE account[r].known \cup {w.width})
<1> DEFINE r == lease[d]
           s == SharerOf[r]
           w == account[r].window
           ks == IF w.collapsed THEN account[r].known ELSE account[r].known \cup {w.width}
           c == Collapse(w)
<1>1. r # None /\ Empty(d)
  BY DEF ObserveFailed, Base, Leased
<1>2. r \in Route /\ account[r] \in Account /\ account[r] # None
  BY <1>1, HasAccount
<1>3. w \in Window /\ w.width \in Floor..Ceil /\ account[r].known \in SUBSET (Floor..Ceil)
  BY <1>2 DEF Account, Window
<1>4. c \in Window /\ Learned(w) \in Floor..Ceil
  BY <1>3, CollapseFacts
<1>5. ks \in SUBSET (Floor..Ceil)
  BY <1>3
<1>6. account' = [account EXCEPT ![r].window = c, ![r].known = ks]
  BY DEF ObserveFailed
<1>7. /\ Seen(r, c, ks) /\ AtOne(r) /\ account' \in [Route -> Account \cup {None}]
  <2> HIDE DEF r, w, ks, c
  <2> QED BY <1>2, <1>4, <1>5, <1>6, SeenFacts DEF Base
<1>8. s \in Sharer
  BY <1>2 DEF Sharer
<1>9. learned' \in [Sharer -> (Floor..Ceil) \cup {None}]
  <2> DEFINE m == AtMost(IF learned[s] = None THEN Ceil ELSE learned[s], Learned(w))
  <2>1. learned \in [Sharer -> (Floor..Ceil) \cup {None}]
    BY DEF Base, TypeOK
  <2>2. m \in Floor..Ceil
    BY <1>4, <1>8, <2>1, BudgetAssumption DEF AtMost
  <2>3. learned' = learned \/ learned' = [learned EXCEPT ![s] = m]
    BY DEF ObserveFailed
  <2> HIDE DEF m
  <2> QED BY <2>1, <2>2, <2>3
<1>10. kills' \in [Sharer -> SUBSET (Floor..Ceil)]
  <2>1. kills \in [Sharer -> SUBSET (Floor..Ceil)]
    BY DEF Base, TypeOK
  <2>2. kills' = kills \/ kills' = [kills EXCEPT ![s] = @ \cup {w.width}]
    BY DEF ObserveFailed
  <2> HIDE DEF w, s
  <2> QED BY <1>3, <1>8, <2>1, <2>2
<1>11. \A q \in Route : /\ account'[q] = None <=> account[q] = None
                        /\ account[q] # None => account'[q].refs = account[q].refs
  BY <1>2, <1>7, NoneAssumption DEF Seen, AtOne, Kept
<1>12. /\ left' \in [Download -> 0..MaxFetches] /\ lease' = lease /\ pool' = pool
       /\ frag' = frag /\ abandoned' = abandoned /\ fetch' = [fetch EXCEPT ![d] = "observed"]
  BY DEF ObserveFailed, Base, TypeOK
<1>13. Empty(d)'
  BY <1>1, <1>12 DEF Empty, At, Frag
<1>14. Base'
  BY <1>1, <1>7, <1>9, <1>10, <1>11, <1>12, <1>13, FetchBase
<1> QED BY <1>2, <1>7, <1>12, <1>14 DEF r, w, ks, c

LEMMA LeasesFinite == \A r \in Route : IsFiniteSet(Leases(r)) /\ IsFiniteSet(Leases(r))'
<1> SUFFICES ASSUME NEW r \in Route PROVE IsFiniteSet(Leases(r)) /\ IsFiniteSet(Leases(r))'
  OBVIOUS
<1>1. Leases(r) \subseteq Download /\ Leases(r)' \subseteq Download
  BY DEF Leases
<1>2. IsFiniteSet(Download)
  BY BudgetAssumption
<1> QED BY <1>1, <1>2, FS_Subset

(* What a lease opens, or joins. *)
Opened(r) ==
  [inFlight |-> 0, refs |-> 1, window |-> NewWindow(Seed(SharerOf[r])),
   known |-> kills[SharerOf[r]]]

LEMMA OpenedFacts ==
  ASSUME TypeOK, NEW r \in Route
  PROVE  /\ Opened(r) \in Account /\ Opened(r).inFlight = 0 /\ Opened(r).refs = 1
         /\ Seed(SharerOf[r]) \in Floor..Ceil
         /\ Opened(r).window.width = Floor /\ Opened(r).window.ceiling = Seed(SharerOf[r])
         /\ Opened(r).known = kills[SharerOf[r]]
<1>1. SharerOf[r] \in Sharer
  BY DEF Sharer
<1>2. Seed(SharerOf[r]) \in Floor..Ceil
  <2>1. learned[SharerOf[r]] \in (Floor..Ceil) \cup {None}
    BY <1>1 DEF TypeOK
  <2> QED BY <2>1, BudgetAssumption DEF Seed
<1> DEFINE w == NewWindow(Seed(SharerOf[r]))
<1>3. w \in Window /\ w.width = Floor /\ w.ceiling = Seed(SharerOf[r])
  BY <1>2, NewWindowFacts
<1>4. kills[SharerOf[r]] \in SUBSET (Floor..Ceil)
  BY <1>1 DEF TypeOK
<1>5. Opened(r) = [inFlight |-> 0, refs |-> 1, window |-> w, known |-> kills[SharerOf[r]]]
  BY DEF Opened
<1> HIDE DEF w
<1> QED BY <1>2, <1>3, <1>4, <1>5 DEF Account

LEMMA JoinedFacts ==
  ASSUME NEW a \in Account, NEW r \in Route
  PROVE  /\ Joined(a, r) \in Account /\ Joined(a, r).refs = a.refs + 1
         /\ Joined(a, r).inFlight = a.inFlight /\ Joined(a, r).window = a.window
         /\ Joined(a, r).known = a.known
<1>1. a # None
  BY NoneAssumption
<1> QED BY <1>1 DEF Account, Joined

LEMMA LeaseBase ==
  ASSUME Base, NEW d \in Download, NEW r \in Route, Lease(d, r)
  PROVE  /\ Base' /\ frag' = frag /\ AtOne(r) /\ Empty(d)
         /\ lease'[d] = r /\ \A e \in Download \ {d} : lease'[e] = lease[e]
         /\ account[r] = None => account'[r] = Opened(r) /\ Leases(r) = {}
         /\ account[r] # None => /\ account'[r] # None
                                 /\ account'[r].inFlight = account[r].inFlight
                                 /\ account'[r].window = account[r].window
                                 /\ account'[r].known = account[r].known
<1> DEFINE a == Joined(account[r], r)
<1>1. account \in [Route -> Account \cup {None}] /\ lease \in [Download -> Route \cup {None}]
      /\ lease[d] = None
  BY DEF Base, TypeOK, Lease
<1>2. account' = [account EXCEPT ![r] = a]
  BY DEF Lease
<1>3. /\ a \in Account /\ a # None
      /\ account[r] = None => a = Opened(r) /\ a.refs = 1
      /\ account[r] # None => /\ a.refs = account[r].refs + 1
                              /\ a.inFlight = account[r].inFlight
                              /\ a.window = account[r].window /\ a.known = account[r].known
  <2>1. CASE account[r] = None
    <3>1. a = Opened(r)
      BY <2>1 DEF Joined, Opened
    <3> QED BY <2>1, <3>1, OpenedFacts, NoneAssumption DEF Base
  <2>2. CASE account[r] # None
    <3>1. account[r] \in Account
      BY <1>1, <2>2
    <3> QED BY <2>2, <3>1, JoinedFacts, NoneAssumption
  <2> QED BY <2>1, <2>2
<1> HIDE DEF a
<1>4. /\ account' \in [Route -> Account \cup {None}] /\ account'[r] = a
      /\ \A q \in Route \ {r} : account'[q] = account[q]
  BY <1>1, <1>2, <1>3
<1>5. /\ lease' \in [Download -> Route \cup {None}] /\ lease'[d] = r
      /\ \A e \in Download \ {d} : lease'[e] = lease[e]
  BY <1>1 DEF Lease
<1>6. UNCHANGED <<learned, pool, fetch, frag, left, abandoned, kills>>
  BY DEF Lease
<1>7. TypeOK'
  BY <1>4, <1>5, <1>6 DEF Base, TypeOK
<1>8. Leased'
  <2> SUFFICES ASSUME NEW e \in Download PROVE LeasedAt(e)'
    BY LeasedByDownload
  <2>1. Empty(e)' <=> Empty(e)
    BY <1>6 DEF Empty, At, Frag
  <2>2. lease[e] # None => lease'[e] # None
    BY <1>1, <1>5
  <2> QED BY <1>6, <2>1, <2>2 DEF LeasedAt, Base, Leased, At, Frag
<1>9. /\ Leases(r)' = Leases(r) \cup {d} /\ d \notin Leases(r)
      /\ \A q \in Route \ {r} : Leases(q)' = Leases(q)
  BY <1>1, <1>5, NoneAssumption DEF Leases
<1>10. Cardinality(Leases(r)') = Cardinality(Leases(r)) + 1
  BY <1>9, LeasesFinite, FS_AddElement
<1>11. account[r] = None => Leases(r) = {} /\ Cardinality(Leases(r)) = 0
  BY FS_EmptySet DEF Base, RefsCounted
<1>12. account[r] # None => account[r].refs = Cardinality(Leases(r))
  BY DEF Base, RefsCounted
<1>13. RefsCounted'
  <2> SUFFICES ASSUME NEW q \in Route
               PROVE  IF account'[q] = None THEN Leases(q)' = {}
                      ELSE account'[q].refs = Cardinality(Leases(q)')
    BY DEF RefsCounted
  <2>1. CASE q = r
    BY <1>3, <1>4, <1>10, <1>11, <1>12, <2>1
  <2>2. CASE q # r
    BY <1>4, <1>9, <2>2 DEF Base, RefsCounted
  <2> QED BY <2>1, <2>2
<1>14. Empty(d)
  BY <1>1 DEF Base, Leased
<1> QED BY <1>3, <1>4, <1>5, <1>6, <1>7, <1>8, <1>11, <1>13, <1>14 DEF Base, AtOne, Kept

LEMMA DropLeaseBase ==
  ASSUME Base, NEW d \in Download, DropLease(d)
  PROVE  /\ Base' /\ frag' = frag /\ Empty(d) /\ lease[d] \in Route /\ AtOne(lease[d])
         /\ lease'[d] = None /\ \A e \in Download \ {d} : lease'[e] = lease[e]
         /\ account[lease[d]] # None
         /\ account'[lease[d]] = None => Leases(lease[d]) = {d}
         /\ account'[lease[d]] # None =>
              /\ account'[lease[d]].inFlight = account[lease[d]].inFlight
              /\ account'[lease[d]].window = account[lease[d]].window
              /\ account'[lease[d]].known = account[lease[d]].known
<1>1. PICK r \in Route : r = lease[d] /\ account[r] \in Account /\ account[r] # None
  BY HasAccount DEF DropLease
<1> DEFINE a == Parted(account[r])
<1>2. account \in [Route -> Account \cup {None}] /\ lease \in [Download -> Route \cup {None}]
  BY DEF Base, TypeOK
<1>3. account' = [account EXCEPT ![r] = a]
  BY <1>1 DEF DropLease
<1>4. /\ account[r].refs = 1 => a = None
      /\ account[r].refs # 1 => /\ a \in Account /\ a # None
                                /\ a.refs = account[r].refs - 1
                                /\ a.inFlight = account[r].inFlight
                                /\ a.window = account[r].window /\ a.known = account[r].known
  <2>0. account[r].refs = 1 => Parted(account[r]) = None
    BY DEF Parted
  <2>1. ASSUME account[r].refs # 1
        PROVE  /\ Parted(account[r]) \in Account
               /\ Parted(account[r]).refs = account[r].refs - 1
               /\ Parted(account[r]).inFlight = account[r].inFlight
               /\ Parted(account[r]).window = account[r].window
               /\ Parted(account[r]).known = account[r].known
    BY <1>1, <2>1 DEF Account, Parted
  <2> QED BY <2>0, <2>1, NoneAssumption
<1> HIDE DEF a
<1>5. /\ account' \in [Route -> Account \cup {None}] /\ account'[r] = a
      /\ \A q \in Route \ {r} : account'[q] = account[q]
  BY <1>2, <1>3, <1>4
<1>6. /\ lease' \in [Download -> Route \cup {None}] /\ lease'[d] = None
      /\ \A e \in Download \ {d} : lease'[e] = lease[e]
  BY <1>2 DEF DropLease
<1>7. UNCHANGED <<learned, pool, fetch, frag, left, abandoned, kills>> /\ fetch[d] = "none"
  BY DEF DropLease
<1>8. TypeOK'
  BY <1>5, <1>6, <1>7 DEF Base, TypeOK
<1>9. Leased'
  <2> SUFFICES ASSUME NEW e \in Download PROVE LeasedAt(e)'
    BY LeasedByDownload
  <2>1. Empty(e)' <=> Empty(e)
    BY <1>7 DEF Empty, At, Frag
  <2>2. fetch[e] # "none" => lease'[e] # None
    BY <1>6, <1>7 DEF Base, Leased
  <2> QED BY <1>7, <2>1, <2>2 DEF LeasedAt, Base, Leased, At, Frag
<1>10. /\ Leases(r)' = Leases(r) \ {d} /\ d \in Leases(r)
       /\ \A q \in Route \ {r} : Leases(q)' = Leases(q)
  BY <1>1, <1>6, NoneAssumption DEF Leases
<1>11. Cardinality(Leases(r)') = Cardinality(Leases(r)) - 1
  BY <1>10, LeasesFinite, FS_RemoveElement
<1>12. account[r].refs = Cardinality(Leases(r))
  BY <1>1 DEF Base, RefsCounted
<1>13. account[r].refs = 1 => Leases(r)' = {}
  <2>1. account[r].refs = 1 => Cardinality(Leases(r)') = 0
    BY <1>11, <1>12
  <2> QED BY <2>1, LeasesFinite, FS_EmptySet
<1>14. RefsCounted'
  <2> SUFFICES ASSUME NEW q \in Route
               PROVE  IF account'[q] = None THEN Leases(q)' = {}
                      ELSE account'[q].refs = Cardinality(Leases(q)')
    BY DEF RefsCounted
  <2>1. CASE q = r
    BY <1>4, <1>5, <1>11, <1>12, <1>13, <2>1
  <2>2. CASE q # r
    BY <1>5, <1>10, <2>2 DEF Base, RefsCounted
  <2> QED BY <2>1, <2>2
<1>15. Empty(d)
  BY <1>7 DEF Base, Leased
<1>16. account'[r] = None => Leases(r) = {d}
  BY <1>4, <1>5, <1>10, <1>13
<1> QED BY <1>1, <1>4, <1>5, <1>6, <1>7, <1>8, <1>9, <1>14, <1>15, <1>16
     DEF Base, AtOne, Kept

-----------------------------------------------------------------------------
(* Permits *)

InFlight(r) == IF account[r] = None THEN 0 ELSE account[r].inFlight
Callers == UNION {Holders(r) : r \in Route}

LEMMA HoldersFinite ==
  /\ IsFiniteSet(Callers) /\ \A r \in Route : IsFiniteSet(Holders(r))
  /\ IsFiniteSet(Callers') /\ \A r \in Route : IsFiniteSet(Holders(r)')
<1>1. IsFiniteSet(Download \X Frag)
  BY BudgetAssumption, FragFacts, FS_Product
<1>2. \A r \in Route : Holders(r) \subseteq Download \X Frag
  BY DEF Holders
<1>3. \A r \in Route : Holders(r)' \subseteq Download \X Frag
  BY DEF Holders, Frag
<1>4. Callers \subseteq Download \X Frag /\ Callers' \subseteq Download \X Frag
  BY <1>2, <1>3 DEF Callers
<1> QED BY <1>1, <1>2, <1>3, <1>4, FS_Subset

LEMMA CountSame ==
  ASSUME SlotsAccounted, SameCallers, pool' = pool,
         \A d \in Download, i \in Frag : At(d, i, "call") => lease'[d] = lease[d],
         \A r \in Route : InFlight(r)' = InFlight(r)
  PROVE  SlotsAccounted'
<1>1. \A r \in Route : Holders(r)' = Holders(r)
  <2> SUFFICES ASSUME NEW r \in Route, NEW p \in Download \X Frag
               PROVE  p \in Holders(r)' <=> p \in Holders(r)
    BY DEF Holders, Frag
  <2>1. PICK d \in Download, i \in Frag : p = <<d, i>>
    OBVIOUS
  <2>2. (frag'[d][i].at = "call") <=> (frag[d][i].at = "call")
    BY DEF SameCallers
  <2>3. frag[d][i].at = "call" => lease'[d] = lease[d]
    BY DEF At
  <2>4. p \in Holders(r) <=> lease[d] = r /\ frag[d][i].at = "call"
    BY <2>1 DEF Holders, At
  <2>5. p \in Holders(r)' <=> lease'[d] = r /\ frag'[d][i].at = "call"
    BY <2>1 DEF Holders, At, Frag
  <2> QED BY <2>2, <2>3, <2>4, <2>5
<1>2. Callers' = Callers
  BY <1>1 DEF Callers
<1> QED BY <1>1, <1>2 DEF SlotsAccounted, InFlight, Callers

(* A call starts, or one ends. *)
LEMMA OneHolder ==
  ASSUME NEW d \in Download, NEW i \in Frag, NEW stage, Moves(d, i, stage), lease' = lease,
         lease[d] \in Route
  PROVE  /\ stage = "call" => /\ Holders(lease[d])' = Holders(lease[d]) \cup {<<d, i>>}
                              /\ Callers' = Callers \cup {<<d, i>>}
         /\ stage # "call" => /\ Holders(lease[d])' = Holders(lease[d]) \ {<<d, i>>}
                              /\ Callers' = Callers \ {<<d, i>>}
         /\ \A r \in Route \ {lease[d]} : Holders(r)' = Holders(r)
         /\ At(d, i, "call") <=> <<d, i>> \in Holders(lease[d])
         /\ At(d, i, "call") <=> <<d, i>> \in Callers
<1>1. ASSUME NEW r \in Route, NEW e \in Download, NEW j \in Frag
      PROVE  /\ <<e, j>> \in Holders(r) <=> lease[e] = r /\ frag[e][j].at = "call"
             /\ <<e, j>> \in Holders(r)' <=> lease[e] = r /\ frag'[e][j].at = "call"
             /\ (e # d \/ j # i) => frag'[e][j].at = frag[e][j].at
             /\ frag'[d][i].at = stage
  BY DEF Holders, At, Frag, Moves
<1>2. \A r \in Route : Holders(r) \subseteq Download \X Frag /\ Holders(r)' \subseteq Download \X Frag
  BY DEF Holders, Frag
<1>3. ASSUME NEW r \in Route, NEW p \in Download \X Frag
      PROVE  /\ p # <<d, i>> => (p \in Holders(r)' <=> p \in Holders(r))
             /\ p = <<d, i>> => (p \in Holders(r)' <=> lease[d] = r /\ stage = "call")
             /\ p = <<d, i>> => (p \in Holders(r) <=> lease[d] = r /\ frag[d][i].at = "call")
  <2>1. PICK e \in Download, j \in Frag : p = <<e, j>>
    OBVIOUS
  <2> QED BY <1>1, <2>1
<1>4. ASSUME NEW r \in Route \ {lease[d]} PROVE Holders(r)' = Holders(r)
  <2>1. \A p \in Download \X Frag : p \in Holders(r)' <=> p \in Holders(r)
    BY <1>3
  <2> QED BY <1>2, <2>1
<1>5. <<d, i>> \in Download \X Frag
  OBVIOUS
<1>6. stage = "call" => Holders(lease[d])' = Holders(lease[d]) \cup {<<d, i>>}
  BY <1>2, <1>3, <1>5
<1>7. stage # "call" => Holders(lease[d])' = Holders(lease[d]) \ {<<d, i>>}
  BY <1>2, <1>3, <1>5
<1>8. At(d, i, "call") <=> <<d, i>> \in Holders(lease[d])
  BY <1>3, <1>5 DEF At
<1>9. At(d, i, "call") <=> <<d, i>> \in Callers
  BY <1>3, <1>5, <1>8 DEF At, Callers
<1>10. \A p \in Download \X Frag : p # <<d, i>> => (p \in Callers' <=> p \in Callers)
  BY <1>3 DEF Callers
<1>11. <<d, i>> \in Callers' <=> stage = "call"
  BY <1>3, <1>5 DEF Callers
<1>12. Callers \subseteq Download \X Frag /\ Callers' \subseteq Download \X Frag
  BY <1>2 DEF Callers
<1> QED BY <1>4, <1>6, <1>7, <1>8, <1>9, <1>10, <1>11, <1>12

LEMMA CountMore ==
  ASSUME Base, SlotsAccounted, NEW d \in Download, NEW i \in Frag,
         Moves(d, i, "call"), ~At(d, i, "call"), lease' = lease, pool' = pool + 1,
         lease[d] \in Route, account[lease[d]] # None,
         Held(lease[d], account[lease[d]].inFlight + 1), AtOne(lease[d])
  PROVE  SlotsAccounted'
<1> DEFINE r == lease[d]
<1>1. /\ Cardinality(Callers') = Cardinality(Callers) + 1
      /\ Cardinality(Holders(r)') = Cardinality(Holders(r)) + 1
  <2>1. /\ Holders(r)' = Holders(r) \cup {<<d, i>>} /\ Callers' = Callers \cup {<<d, i>>}
        /\ <<d, i>> \notin Holders(r) /\ <<d, i>> \notin Callers
    BY OneHolder
  <2> QED BY <2>1, HoldersFinite, FS_AddElement
<1>2. \A q \in Route \ {r} : Holders(q)' = Holders(q) /\ account'[q] = account[q]
  BY OneHolder DEF AtOne, Kept
<1>3. account'[r] # None /\ account'[r].inFlight = account[r].inFlight + 1
  BY NoneAssumption DEF Held
<1>4. pool' = Cardinality(Callers')
  BY <1>1 DEF SlotsAccounted, Callers
<1>5. ASSUME NEW q \in Route
      PROVE  Cardinality(Holders(q)') = IF account'[q] = None THEN 0 ELSE account'[q].inFlight
  <2>1. CASE q = r
    BY <1>1, <1>3, <2>1 DEF SlotsAccounted
  <2>2. CASE q # r
    BY <1>2, <2>2 DEF SlotsAccounted
  <2> QED BY <2>1, <2>2
<1> QED BY <1>4, <1>5 DEF SlotsAccounted, Callers

LEMMA PoolPositive ==
  ASSUME Base, SlotsAccounted, NEW d \in Download, NEW i \in Frag, At(d, i, "call")
  PROVE  pool > 0 /\ lease[d] \in Route /\ account[lease[d]].inFlight > 0
<1>1. lease[d] \in Route /\ account[lease[d]] # None
  BY HasFetch, HasAccount DEF At
<1>2. <<d, i>> \in Holders(lease[d]) /\ <<d, i>> \in Callers
  BY <1>1 DEF Holders, Callers
<1>3. /\ Cardinality(Callers) \in Nat /\ Cardinality(Callers) # 0
      /\ Cardinality(Holders(lease[d])) \in Nat /\ Cardinality(Holders(lease[d])) # 0
  BY <1>1, <1>2, HoldersFinite, FS_EmptySet, FS_CardinalityType
<1> QED BY <1>1, <1>3 DEF SlotsAccounted, Callers

LEMMA CountLess ==
  ASSUME Base, SlotsAccounted, NEW d \in Download, NEW i \in Frag, NEW stage,
         Moves(d, i, stage), stage # "call", At(d, i, "call"), lease' = lease,
         pool' = pool - 1, lease[d] \in Route, account[lease[d]] # None,
         account[lease[d]] \in Account,
         Held(lease[d], AtLeast(account[lease[d]].inFlight - 1, 0)), AtOne(lease[d])
  PROVE  SlotsAccounted'
<1> DEFINE r == lease[d]
<1>1. /\ Cardinality(Callers') = Cardinality(Callers) - 1
      /\ Cardinality(Holders(r)') = Cardinality(Holders(r)) - 1
  <2>1. /\ Holders(r)' = Holders(r) \ {<<d, i>>} /\ Callers' = Callers \ {<<d, i>>}
        /\ <<d, i>> \in Holders(r) /\ <<d, i>> \in Callers
    BY OneHolder
  <2> QED BY <2>1, HoldersFinite, FS_RemoveElement
<1>2. \A q \in Route \ {r} : Holders(q)' = Holders(q) /\ account'[q] = account[q]
  BY OneHolder DEF AtOne, Kept
<1>3. account'[r] # None /\ account'[r].inFlight = account[r].inFlight - 1
  <2>1. account[r].inFlight > 0 /\ account[r].inFlight \in Nat
    BY PoolPositive DEF Account
  <2>2. AtLeast(account[r].inFlight - 1, 0) = account[r].inFlight - 1
    BY <2>1 DEF AtLeast
  <2> QED BY <2>2, NoneAssumption DEF Held
<1>4. pool' = Cardinality(Callers')
  BY <1>1 DEF SlotsAccounted, Callers
<1>5. ASSUME NEW q \in Route
      PROVE  Cardinality(Holders(q)') = IF account'[q] = None THEN 0 ELSE account'[q].inFlight
  <2>1. CASE q = r
    BY <1>1, <1>3, <2>1 DEF SlotsAccounted
  <2>2. CASE q # r
    BY <1>2, <2>2 DEF SlotsAccounted
  <2> QED BY <2>1, <2>2
<1> QED BY <1>4, <1>5 DEF SlotsAccounted, Callers

-----------------------------------------------------------------------------
(* Sleepers *)

LEMMA MissedRings ==
  ASSUME Rings PROVE NobodyMissed'
  BY DEF Rings, NobodyMissed, Frag

LEMMA OwedByFragment ==
  ASSUME NEW d \in Download, NEW i \in Frag, NEW stage \in {"freed", "observed", "dropped"},
         Moves(d, i, stage)
  PROVE  NobodyMissed'
  BY DEF Moves, NobodyMissed, NotifyOwed, Frag

LEMMA OwedByFetch ==
  ASSUME NEW d \in Download, fetch'[d] = "observed"
  PROVE  NobodyMissed'
  BY DEF NobodyMissed, NotifyOwed

Waits(e, j) == frag[e][j].at \in {"refused", "wait"} /\ ~frag[e][j].woken

LEMMA MissedKept ==
  ASSUME NobodyMissed, NotifyOwed => NotifyOwed', pool' >= pool, pool \in Nat, pool' \in Nat,
         \A e \in Download, j \in Frag :
           Waits(e, j)' => /\ Waits(e, j)
                           /\ HasRoom(lease[e])' => HasRoom(lease[e])
  PROVE  NobodyMissed'
<1> SUFFICES ASSUME NEW e \in Download, NEW j \in Frag, Waits(e, j)',
                    HasRoom(lease[e])', pool' < Global
             PROVE  NotifyOwed'
  BY DEF NobodyMissed, Frag, Waits
<1>1. Waits(e, j) /\ HasRoom(lease[e])
  OBVIOUS
<1>2. pool < Global
  BY BudgetAssumption
<1>3. NotifyOwed
  BY <1>1, <1>2 DEF NobodyMissed, Waits
<1> QED BY <1>3

(* Nothing that owes a notify is lost when one fragment moves. *)
LEMMA OwedKept ==
  ASSUME NEW d \in Download, NEW i \in Frag, NEW stage, Moves(d, i, stage),
         frag[d][i].at \notin {"freed", "observed", "dropped"},
         \A e \in Download : fetch[e] = "observed" => fetch'[e] = "observed"
  PROVE  NotifyOwed => NotifyOwed'
<1> SUFFICES ASSUME NotifyOwed PROVE NotifyOwed'
  OBVIOUS
<1>1. CASE \E e \in Download : fetch[e] = "observed"
  BY <1>1 DEF NotifyOwed
<1>2. CASE \E e \in Download, j \in Frag : frag[e][j].at \in {"freed", "observed", "dropped"}
  <2>1. PICK e \in Download, j \in Frag : frag[e][j].at \in {"freed", "observed", "dropped"}
    BY <1>2
  <2>2. frag'[e][j].at = frag[e][j].at
    BY <2>1 DEF Moves
  <2> QED BY <2>1, <2>2 DEF NotifyOwed, Frag
<1> QED BY <1>1, <1>2 DEF NotifyOwed

LEMMA WaiterLease ==
  ASSUME Base, NEW e \in Download, NEW j \in Frag, Waits(e, j)
  PROVE  lease[e] \in Route
<1>1. ~At(e, j, "idle")
  BY DEF Waits, At
<1> QED BY <1>1, HasFetch, HasAccount

LEMMA AdmitMissed ==
  ASSUME Base, NobodyMissed, NEW d \in Download, NEW i \in Frag, Admit(d, i)
  PROVE  NobodyMissed'
<1>1. /\ Moves(d, i, "call") /\ Alone(d, i)
      /\ lease[d] \in Route /\ account[lease[d]] \in Account /\ account[lease[d]] # None
      /\ Held(lease[d], account[lease[d]].inFlight + 1) /\ AtOne(lease[d])
  BY AdmitBase
<1>2. lease' = lease /\ fetch' = fetch /\ pool' = pool + 1 /\ pool \in Nat
      /\ frag[d][i].at \notin {"freed", "observed", "dropped"}
  BY DEF Admit, Asks, At, Base, TypeOK
<1>3. NotifyOwed => NotifyOwed'
  BY <1>1, <1>2, OwedKept
<1>4. ASSUME NEW q \in Route, HasRoom(q)' PROVE HasRoom(q)
  <2>1. CASE q = lease[d]
    <3>1. account[q].inFlight \in Nat /\ account[q].window \in Window
      BY <1>1, <2>1 DEF Account
    <3>2. account[q].window.width \in Floor..Ceil
      BY <3>1, WindowFields
    <3>3. account[q].window.width \in Int
      BY <3>2
    <3> QED BY <1>1, <1>4, <2>1, <3>1, <3>3 DEF HasRoom, Held
  <2>2. CASE q # lease[d]
    BY <1>1, <1>4, <2>2 DEF HasRoom, AtOne, Kept
  <2> QED BY <2>1, <2>2
<1>5. ASSUME NEW e \in Download, NEW j \in Frag, Waits(e, j)'
      PROVE  Waits(e, j) /\ (HasRoom(lease[e])' => HasRoom(lease[e]))
  <2>1. e # d \/ j # i
    BY <1>1, <1>5 DEF Moves, Waits
  <2>2. frag'[e][j] = frag[e][j]
    BY <1>1, <2>1 DEF Alone
  <2>3. Waits(e, j)
    BY <1>5, <2>2 DEF Waits
  <2>4. lease[e] \in Route /\ lease'[e] = lease[e]
    BY <1>2, <2>3, WaiterLease
  <2> QED BY <1>4, <2>3, <2>4 DEF HasRoom
<1> QED BY <1>2, <1>3, <1>5, MissedKept

(* A move of one fragment with every account and the pool as they were. *)
LEMMA QuietMissed ==
  ASSUME Base, NobodyMissed, NEW d \in Download, NEW i \in Frag, NEW stage,
         Moves(d, i, stage), Alone(d, i),
         frag[d][i].at \notin {"freed", "observed", "dropped"},
         \A e \in Download : fetch[e] = "observed" => fetch'[e] = "observed",
         UNCHANGED <<account, pool, lease>>,
         Waits(d, i)' => Waits(d, i)
  PROVE  NobodyMissed'
<1>1. NotifyOwed => NotifyOwed'
  BY OwedKept
<1>2. ASSUME NEW e \in Download, NEW j \in Frag, Waits(e, j)'
      PROVE  Waits(e, j) /\ (HasRoom(lease[e])' => HasRoom(lease[e]))
  <2>1. Waits(e, j)
    <3>1. CASE e = d /\ j = i
      BY <1>2, <3>1
    <3>2. CASE e # d \/ j # i
      BY <1>2, <3>2 DEF Waits, Alone
    <3> QED BY <3>1, <3>2
  <2> QED BY <2>1 DEF HasRoom
<1>3. pool' >= pool /\ pool \in Nat /\ pool' \in Nat
  BY DEF Base, TypeOK
<1> QED BY <1>1, <1>2, <1>3, MissedKept

LEMMA SleepMissed ==
  ASSUME Base, NobodyMissed, NEW d \in Download, NEW i \in Frag, Sleep(d, i)
  PROVE  NobodyMissed'
<1>1. Moves(d, i, "wait") /\ Alone(d, i)
  BY SleepBase
<1>2. frag[d][i].at = "refused" /\ fetch' = fetch /\ UNCHANGED <<account, pool, lease>>
  BY DEF Sleep, At
<1>3. frag'[d][i].woken = frag[d][i].woken
  <2>1. frag \in FragsType /\ frag[d][i] \in FragType
    BY HasFrags DEF Base, FragsType
  <2>2. frag'[d][i] = [frag[d][i] EXCEPT !.at = "wait"]
    BY <2>1 DEF Sleep, FragsType
  <2> QED BY <2>1, <2>2 DEF FragType
<1>4. Waits(d, i)' => Waits(d, i)
  BY <1>2, <1>3 DEF Waits
<1> QED BY <1>1, <1>2, <1>4, QuietMissed

LEMMA RefuseMissed ==
  ASSUME Base, NobodyMissed, NEW d \in Download, NEW i \in Frag, Refuse(d, i)
  PROVE  NobodyMissed'
<1>1. Moves(d, i, "refused") /\ Alone(d, i)
  BY RefuseBase
<1>2. /\ frag[d][i].at \notin {"freed", "observed", "dropped"} /\ fetch' = fetch
      /\ UNCHANGED <<account, pool, lease>> /\ ~(HasRoom(lease[d]) /\ pool < Global)
  BY DEF Refuse, Asks, At
<1>3. NotifyOwed => NotifyOwed'
  BY <1>1, <1>2, OwedKept
<1> SUFFICES ASSUME NEW e \in Download, NEW j \in Frag, Waits(e, j)',
                    HasRoom(lease[e])', pool' < Global
             PROVE  NotifyOwed'
  BY DEF NobodyMissed, Frag, Waits
<1>4. HasRoom(lease[e]) /\ pool < Global
  BY <1>2 DEF HasRoom
<1>5. e # d
  BY <1>2, <1>4
<1>6. Waits(e, j)
  BY <1>1, <1>5 DEF Alone, Waits
<1> QED BY <1>3, <1>4, <1>6 DEF NobodyMissed, Waits

(* The fetch moves on and the fragments stay. *)
LEMMA FetchMissed ==
  ASSUME Base, NobodyMissed, UNCHANGED <<account, pool, lease, frag>>,
         \A e \in Download : fetch[e] = "observed" => fetch'[e] = "observed"
  PROVE  NobodyMissed'
<1>1. NotifyOwed => NotifyOwed'
  BY DEF NotifyOwed, Frag
<1>2. \A e \in Download, j \in Frag :
        Waits(e, j)' => Waits(e, j) /\ (HasRoom(lease[e])' => HasRoom(lease[e]))
  BY DEF Waits, HasRoom
<1>3. pool' >= pool /\ pool \in Nat /\ pool' \in Nat
  BY DEF Base, TypeOK
<1> QED BY <1>1, <1>2, <1>3, MissedKept

LEMMA LeaseMissed ==
  ASSUME Base, NobodyMissed, NEW d \in Download, NEW r \in Route,
         Lease(d, r) \/ (DropLease(d) /\ r = lease[d])
  PROVE  NobodyMissed'
<1>1. /\ frag' = frag /\ AtOne(r) /\ Empty(d)
      /\ \A e \in Download \ {d} : lease'[e] = lease[e]
      /\ account[r] = None => Leases(r) = {}
      /\ account[r] # None /\ account'[r] # None =>
           /\ account'[r].inFlight = account[r].inFlight
           /\ account'[r].window = account[r].window
  <2>1. CASE Lease(d, r)
    BY <2>1, LeaseBase
  <2>2. CASE DropLease(d) /\ r = lease[d]
    BY <2>2, DropLeaseBase
  <2> QED BY <2>1, <2>2
<1>2. fetch' = fetch /\ pool' = pool /\ pool \in Nat
  BY DEF Lease, DropLease, Base, TypeOK
<1>3. NotifyOwed => NotifyOwed'
  BY <1>1, <1>2 DEF NotifyOwed, Frag
<1>4. ASSUME NEW e \in Download, NEW j \in Frag, Waits(e, j)'
      PROVE  Waits(e, j) /\ (HasRoom(lease[e])' => HasRoom(lease[e]))
  <2>1. Waits(e, j)
    BY <1>1, <1>4 DEF Waits
  <2>2. e # d /\ lease[e] \in Route /\ lease'[e] = lease[e]
    BY <1>1, <2>1, WaiterLease DEF Empty, At, Waits
  <2>3. CASE lease[e] # r
    <3>1. account'[lease[e]] = account[lease[e]]
      BY <1>1, <2>2, <2>3 DEF AtOne, Kept
    <3> QED BY <2>1, <2>2, <3>1 DEF HasRoom
  <2>4. CASE lease[e] = r
    <3>1. e \in Leases(r)
      BY <2>4 DEF Leases
    <3>2. account[r] # None
      BY <1>1, <3>1
    <3> QED BY <1>1, <2>1, <2>2, <2>4, <3>2 DEF HasRoom
  <2> QED BY <2>3, <2>4
<1> QED BY <1>2, <1>3, <1>4, MissedKept

-----------------------------------------------------------------------------
(* Deaths *)

LEMMA LearnedKept ==
  ASSUME LearnedHalf, learned' = learned, kills' = kills,
         \A r \in Route : account'[r] # None =>
           /\ account[r] # None
           /\ account'[r].window = account[r].window /\ account'[r].known = account[r].known
  PROVE  LearnedHalf'
  BY DEF LearnedHalf

LEMMA ObserveLearned ==
  ASSUME Base, LearnedHalf, NEW d \in Download, NEW i \in Frag, Observe(d, i)
  PROVE  LearnedHalf'
<1> DEFINE r == lease[d]
           w == account[r].window
<1>1. /\ r \in Route /\ account[r] \in Account /\ account[r] # None
      /\ \E slow \in BOOLEAN : Seen(r, Completed(w, slow), account[r].known)
      /\ AtOne(r)
  BY ObserveBase
<1>2. PICK slow \in BOOLEAN : Seen(r, Completed(w, slow), account[r].known)
  BY <1>1
<1>3. w \in Window
  BY <1>1 DEF Account
<1>4. /\ Completed(w, slow).ceiling = w.ceiling
      /\ w.width <= w.ceiling => Completed(w, slow).width <= w.ceiling
  BY <1>3, CompletedFacts
<1>5. learned' = learned /\ kills' = kills
  BY DEF Observe
<1>6. ASSUME NEW q \in Route, account'[q] # None
      PROVE  /\ account'[q].window.width <= account'[q].window.ceiling
             /\ \A k \in account'[q].known : account'[q].window.ceiling <= Halved(k)
  <2>1. CASE q = r
    BY <1>1, <1>2, <1>4, <2>1 DEF Seen, LearnedHalf
  <2>2. CASE q # r
    BY <1>1, <1>6, <2>2 DEF AtOne, Kept, LearnedHalf
  <2> QED BY <2>1, <2>2
<1> QED BY <1>5, <1>6 DEF LearnedHalf

LEMMA ObserveFailedLearned ==
  ASSUME Base, LearnedHalf, NEW d \in Download, ObserveFailed(d)
  PROVE  LearnedHalf'
<1> DEFINE r == lease[d]
           s == SharerOf[r]
           w == account[r].window
           ks == IF w.collapsed THEN account[r].known ELSE account[r].known \cup {w.width}
<1>1. /\ r \in Route /\ account[r] \in Account /\ account[r] # None /\ AtOne(r)
      /\ Seen(r, Collapse(w), ks)
  BY ObserveFailedBase
<1>2. w \in Window /\ w.width \in Floor..Ceil /\ w.ceiling \in Floor..Ceil
      /\ account[r].known \in SUBSET (Floor..Ceil)
  BY <1>1 DEF Account, Window
<1>3. /\ Collapse(w) \in Window /\ Collapse(w).ceiling <= w.ceiling
      /\ w.width <= w.ceiling => Collapse(w).width <= Collapse(w).ceiling
      /\ ~w.collapsed => Collapse(w).ceiling = Learned(w)
      /\ Learned(w) \in Floor..Ceil /\ Learned(w) <= Halved(w.width)
  BY <1>2, CollapseFacts
<1>4. s \in Sharer
  BY <1>1 DEF Sharer
<1>5. \A k \in Floor..Ceil : Halved(k) \in Int
  BY HalvedFacts
<1>6. ASSUME NEW q \in Route, account'[q] # None
      PROVE  /\ account'[q].window.width <= account'[q].window.ceiling
             /\ \A k \in account'[q].known : account'[q].window.ceiling <= Halved(k)
  <2>1. CASE q = r
    <3>1. account'[q].window = Collapse(w) /\ account'[q].known = ks
      BY <1>1, <2>1 DEF Seen
    <3>2. w.width <= w.ceiling /\ \A k \in account[r].known : w.ceiling <= Halved(k)
      BY <1>1 DEF LearnedHalf
    <3>3. Collapse(w).width <= Collapse(w).ceiling /\ Collapse(w).ceiling \in Int
      BY <1>3, <3>2, WindowFields
    <3>4. ASSUME NEW k \in ks PROVE Collapse(w).ceiling <= Halved(k)
      <4>1. CASE k \in account[r].known
        <5>1. w.ceiling <= Halved(k) /\ Halved(k) \in Int /\ w.ceiling \in Int
          BY <1>2, <1>5, <3>2, <4>1
        <5> QED BY <1>3, <3>3, <5>1
      <4>2. CASE k = w.width /\ ~w.collapsed
        BY <1>3, <4>2
      <4> QED BY <4>1, <4>2
    <3> QED BY <3>1, <3>3, <3>4
  <2>2. CASE q # r
    BY <1>1, <1>6, <2>2 DEF AtOne, Kept, LearnedHalf
  <2> QED BY <2>1, <2>2
<1>7. ASSUME NEW t \in Sharer, NEW k \in kills'[t]
      PROVE  learned'[t] # None /\ learned'[t] <= Halved(k)
  <2>0. /\ learned \in [Sharer -> (Floor..Ceil) \cup {None}]
        /\ kills \in [Sharer -> SUBSET (Floor..Ceil)]
    BY DEF Base, TypeOK
  <2>1. CASE w.collapsed
    <3>1. learned' = learned /\ kills' = kills
      BY <2>1 DEF ObserveFailed
    <3> QED BY <1>7, <3>1 DEF LearnedHalf
  <2>2. CASE ~w.collapsed
    <3> DEFINE m == AtMost(IF learned[s] = None THEN Ceil ELSE learned[s], Learned(w))
    <3>1. learned' = [learned EXCEPT ![s] = m] /\ kills' = [kills EXCEPT ![s] = @ \cup {w.width}]
      BY <2>2 DEF ObserveFailed
    <3>2. /\ m \in Floor..Ceil /\ m <= Learned(w)
          /\ learned[s] # None => m <= learned[s]
      BY <1>3, <1>4, <2>0, BudgetAssumption DEF AtMost
    <3> HIDE DEF m, w, s
    <3>3. CASE t # s
      BY <1>7, <2>0, <3>1, <3>3 DEF LearnedHalf
    <3>4. CASE t = s
      <4>1. learned'[t] = m /\ kills'[t] = kills[t] \cup {w.width}
        BY <1>4, <2>0, <3>1, <3>4
      <4>2. m # None
        BY <3>2, BudgetAssumption, NoneAssumption
      <4>3. m \in Int /\ Learned(w) \in Int /\ k \in Floor..Ceil
        BY <1>2, <1>3, <1>4, <2>0, <3>2, <3>4, <4>1
      <4>4. CASE k = w.width
        <5>1. m <= Halved(k)
          BY <1>3, <1>5, <3>2, <4>3, <4>4
        <5> QED BY <4>1, <4>2, <5>1
      <4>5. CASE k \in kills[t]
        <5>1. learned[s] # None /\ learned[s] <= Halved(k)
          BY <3>4, <4>5 DEF LearnedHalf
        <5>2. learned[s] \in Int
          BY <1>4, <2>0, <5>1
        <5>3. m <= Halved(k)
          BY <1>5, <3>2, <4>3, <5>1, <5>2
        <5> QED BY <4>1, <4>2, <5>3
      <4> QED BY <1>7, <4>1, <4>4, <4>5
    <3> QED BY <3>3, <3>4
  <2> QED BY <2>1, <2>2
<1> QED BY <1>6, <1>7 DEF LearnedHalf

LEMMA LeaseLearned ==
  ASSUME Base, LearnedHalf, NEW d \in Download, NEW r \in Route, Lease(d, r)
  PROVE  LearnedHalf'
<1>1. learned' = learned /\ kills' = kills
  BY DEF Lease
<1>2. ASSUME NEW q \in Route, account'[q] # None
      PROVE  /\ account'[q].window.width <= account'[q].window.ceiling
             /\ \A k \in account'[q].known : account'[q].window.ceiling <= Halved(k)
  <2>1. CASE q # r
    BY <1>2, <2>1, LeaseBase DEF AtOne, Kept, LearnedHalf
  <2>2. CASE q = r /\ account[r] # None
    BY <2>2, LeaseBase DEF LearnedHalf
  <2>3. CASE q = r /\ account[r] = None
    <3>1. account'[q] = Opened(r)
      BY <2>3, LeaseBase
    <3>2. /\ Opened(r).window.width = Floor /\ Opened(r).window.ceiling = Seed(SharerOf[r])
          /\ Opened(r).known = kills[SharerOf[r]] /\ Seed(SharerOf[r]) \in Floor..Ceil
      BY OpenedFacts DEF Base
    <3>3. Floor <= Seed(SharerOf[r])
      BY <3>2, BudgetAssumption
    <3>4. SharerOf[r] \in Sharer
      BY DEF Sharer
    <3>5. ASSUME NEW k \in kills[SharerOf[r]] PROVE Seed(SharerOf[r]) <= Halved(k)
      BY <3>4 DEF LearnedHalf, Seed
    <3> QED BY <3>1, <3>2, <3>3, <3>5
  <2> QED BY <2>1, <2>2, <2>3
<1> QED BY <1>1, <1>2 DEF LearnedHalf

-----------------------------------------------------------------------------
(* The invariant *)

LEMMA BudgetInit == Init => BudgetInv
<1> SUFFICES ASSUME Init PROVE BudgetInv
  OBVIOUS
<1>1. TypeOK
  <2>1. Idle \in FragType
    BY BudgetAssumption DEF Idle, FragType, Stage
  <2>2. frag \in [Download -> [Frag -> FragType]]
    BY <2>1 DEF Init
  <2>3. MaxFetches \in 0..MaxFetches
    BY BudgetAssumption
  <2> QED BY <2>2, <2>3 DEF Init, TypeOK, FragType
<1>2. \A d \in Download, i \in Frag : frag[d][i].at = "idle"
  BY DEF Init, Idle
<1>3. Leased
  BY <1>2 DEF Init, Leased, Empty, At
<1>4. RefsCounted
  BY NoneAssumption DEF Init, RefsCounted, Leases
<1>5. SlotsAccounted
  <2>1. \A r \in Route : Holders(r) = {}
    BY <1>2 DEF Holders, At
  <2>2. UNION {Holders(r) : r \in Route} = {}
    BY <2>1
  <2> QED BY <2>1, <2>2, FS_EmptySet DEF Init, SlotsAccounted
<1>6. NobodyMissed
  BY <1>2 DEF NobodyMissed
<1>7. LearnedHalf
  BY DEF Init, LearnedHalf
<1> QED BY <1>1, <1>3, <1>4, <1>5, <1>6, <1>7 DEF BudgetInv

(* A step whose accounts keep their windows, memories and slots.           *)
LEMMA InvByParts ==
  ASSUME BudgetInv, Base', SlotsAccounted', NobodyMissed', LearnedHalf'
  PROVE  BudgetInv'
  BY DEF Base, BudgetInv

LEMMA SameSlots ==
  ASSUME SlotsAccounted, SameCallers, UNCHANGED <<account, pool, lease>>
  PROVE  SlotsAccounted'
<1>1. \A r \in Route : InFlight(r)' = InFlight(r)
  BY DEF InFlight
<1> QED BY <1>1, CountSame

LEMMA SameLearned ==
  ASSUME LearnedHalf, UNCHANGED <<account, learned, kills>>
  PROVE  LearnedHalf'
  BY LearnedKept

LEMMA HeldLearned ==
  ASSUME LearnedHalf, NEW r \in Route, NEW n, account[r] # None, Held(r, n), AtOne(r),
         UNCHANGED <<learned, kills>>
  PROVE  LearnedHalf'
  BY LearnedKept DEF Held, AtOne, Kept

LEMMA MovedCallers ==
  ASSUME NEW d \in Download, NEW i \in Frag, NEW stage, Moves(d, i, stage),
         stage # "call", ~At(d, i, "call")
  PROVE  SameCallers
  BY DEF Moves, SameCallers, At

LEMMA FragmentInv ==
  ASSUME BudgetInv, NEW d \in Download, NEW i \in Frag, Fragment(d, i)
  PROVE  BudgetInv'
<1>1. Base /\ SlotsAccounted /\ NobodyMissed /\ LearnedHalf
  BY DEF BudgetInv, Base
<1>2. CASE Admit(d, i)
  <2>1. /\ Base' /\ Moves(d, i, "call") /\ Alone(d, i)
        /\ lease[d] \in Route /\ account[lease[d]] \in Account /\ account[lease[d]] # None
        /\ Held(lease[d], account[lease[d]].inFlight + 1) /\ AtOne(lease[d])
    BY <1>1, <1>2, AdmitBase
  <2>2. ~At(d, i, "call") /\ lease' = lease /\ pool' = pool + 1
        /\ UNCHANGED <<learned, kills>>
    BY <1>2 DEF Admit, Asks, At
  <2>3. SlotsAccounted'
    BY <1>1, <2>1, <2>2, CountMore
  <2>4. LearnedHalf'
    BY <1>1, <2>1, <2>2, HeldLearned
  <2>5. NobodyMissed'
    BY <1>1, <1>2, AdmitMissed
  <2> QED BY <2>1, <2>3, <2>4, <2>5, InvByParts
<1>3. CASE Refuse(d, i)
  <2>1. Base' /\ Moves(d, i, "refused")
    BY <1>1, <1>3, RefuseBase
  <2>2. ~At(d, i, "call") /\ UNCHANGED <<account, learned, pool, lease, kills>>
    BY <1>3 DEF Refuse, Asks, At
  <2>3. SlotsAccounted'
    BY <1>1, <2>1, <2>2, MovedCallers, SameSlots
  <2>4. LearnedHalf'
    BY <1>1, <2>2, SameLearned
  <2>5. NobodyMissed'
    BY <1>1, <1>3, RefuseMissed
  <2> QED BY <2>1, <2>3, <2>4, <2>5, InvByParts
<1>4. CASE Sleep(d, i)
  <2>1. Base' /\ Moves(d, i, "wait")
    BY <1>1, <1>4, SleepBase
  <2>2. ~At(d, i, "call") /\ UNCHANGED <<account, learned, pool, lease, kills>>
    BY <1>4 DEF Sleep, At
  <2>3. SlotsAccounted'
    BY <1>1, <2>1, <2>2, MovedCallers, SameSlots
  <2>4. LearnedHalf'
    BY <1>1, <2>2, SameLearned
  <2>5. NobodyMissed'
    BY <1>1, <1>4, SleepMissed
  <2> QED BY <2>1, <2>3, <2>4, <2>5, InvByParts
<1>5. CASE CallEnds(d, i)
  <2>1. At(d, i, "call") /\ lease' = lease /\ pool' = pool - 1 /\ UNCHANGED <<learned, kills>>
    BY <1>5 DEF CallEnds
  <2>2. pool > 0
    BY <1>1, <2>1, PoolPositive
  <2>3. /\ Base' /\ Moves(d, i, "freed")
        /\ lease[d] \in Route /\ account[lease[d]] \in Account /\ account[lease[d]] # None
        /\ Held(lease[d], AtLeast(account[lease[d]].inFlight - 1, 0)) /\ AtOne(lease[d])
    BY <1>1, <1>5, <2>2, CallEndsBase
  <2>4. SlotsAccounted'
    BY <1>1, <2>1, <2>3, CountLess
  <2>5. LearnedHalf'
    BY <1>1, <2>1, <2>3, HeldLearned
  <2>6. NobodyMissed'
    BY <2>3, OwedByFragment
  <2> QED BY <2>3, <2>4, <2>5, <2>6, InvByParts
<1>6. CASE PermitNotifies(d, i)
  <2>1. Base' /\ Rings /\ \E stage \in Stage \ {"call"} : Moves(d, i, stage)
    BY <1>1, <1>6, PermitNotifiesBase
  <2>2. ~At(d, i, "call") /\ UNCHANGED <<account, learned, pool, lease, kills>>
    BY <1>6 DEF PermitNotifies, At
  <2>3. SlotsAccounted'
    BY <1>1, <2>1, <2>2, MovedCallers, SameSlots
  <2>4. LearnedHalf'
    BY <1>1, <2>2, SameLearned
  <2>5. NobodyMissed'
    BY <2>1, MissedRings
  <2> QED BY <2>1, <2>3, <2>4, <2>5, InvByParts
<1>7. CASE Observe(d, i)
  <2>1. /\ Base' /\ Moves(d, i, "observed")
        /\ lease[d] \in Route /\ account[lease[d]] # None /\ AtOne(lease[d])
        /\ account'[lease[d]] \in Account
        /\ account'[lease[d]].inFlight = account[lease[d]].inFlight
    BY <1>1, <1>7, ObserveBase DEF Seen
  <2>2. ~At(d, i, "call") /\ lease' = lease /\ pool' = pool
    BY <1>7 DEF Observe, At
  <2>3. \A r \in Route : InFlight(r)' = InFlight(r)
    BY <2>1, NoneAssumption DEF InFlight, AtOne, Kept
  <2>4. SlotsAccounted'
    BY <1>1, <2>1, <2>2, <2>3, MovedCallers, CountSame
  <2>5. LearnedHalf'
    BY <1>1, <1>7, ObserveLearned
  <2>6. NobodyMissed'
    BY <2>1, OwedByFragment
  <2> QED BY <2>1, <2>4, <2>5, <2>6, InvByParts
<1>8. CASE ObserveNotifies(d, i)
  <2>1. Base' /\ Rings /\ SameCallers
    BY <1>1, <1>8, ObserveNotifiesBase
  <2>2. UNCHANGED <<account, learned, pool, lease, kills>>
    BY <1>8 DEF ObserveNotifies
  <2>3. SlotsAccounted'
    BY <1>1, <2>1, <2>2, SameSlots
  <2>4. LearnedHalf'
    BY <1>1, <2>2, SameLearned
  <2>5. NobodyMissed'
    BY <2>1, MissedRings
  <2> QED BY <2>1, <2>3, <2>4, <2>5, InvByParts
<1>9. CASE TakeFailure(d, i)
  <2>1. Base'
    BY <1>1, <1>9, TakeFailureBase
  <2>2. /\ UNCHANGED <<account, learned, pool, lease, frag, kills>>
        /\ \A e \in Download : fetch[e] = "observed" => fetch'[e] = "observed"
    BY <1>1, <1>9 DEF TakeFailure, Base, TypeOK
  <2>3. SlotsAccounted'
    BY <1>1, <2>2, SameSlots DEF SameCallers
  <2>4. LearnedHalf'
    BY <1>1, <2>2, SameLearned
  <2>5. NobodyMissed'
    BY <1>1, <2>2, FetchMissed
  <2> QED BY <2>1, <2>3, <2>4, <2>5, InvByParts
<1>10. CASE DropFragment(d, i) /\ At(d, i, "call")
  <2>1. lease' = lease /\ pool' = pool - 1 /\ UNCHANGED <<learned, kills>>
    BY <1>10 DEF DropFragment
  <2>2. pool > 0
    BY <1>1, <1>10, PoolPositive
  <2>3. /\ Base' /\ Moves(d, i, "dropped")
        /\ lease[d] \in Route /\ account[lease[d]] \in Account /\ account[lease[d]] # None
        /\ Held(lease[d], AtLeast(account[lease[d]].inFlight - 1, 0)) /\ AtOne(lease[d])
    BY <1>1, <1>10, <2>2, DropCallBase
  <2>4. SlotsAccounted'
    BY <1>1, <1>10, <2>1, <2>3, CountLess
  <2>5. LearnedHalf'
    BY <1>1, <2>1, <2>3, HeldLearned
  <2>6. NobodyMissed'
    BY <2>3, OwedByFragment
  <2> QED BY <2>3, <2>4, <2>5, <2>6, InvByParts
<1>11. CASE DropFragment(d, i) /\ ~At(d, i, "call")
  <2>1. /\ Base' /\ Moves(d, i, "idle") /\ Alone(d, i) /\ SameCallers
        /\ UNCHANGED <<account, learned, pool, lease, fetch, left, abandoned, kills>>
    BY <1>1, <1>11, DropOtherBase
  <2>2. frag[d][i].at \notin {"freed", "observed", "dropped"}
    BY <1>11 DEF DropFragment, AtRest, MidPoll
  <2>3. SlotsAccounted'
    BY <1>1, <2>1, SameSlots
  <2>4. LearnedHalf'
    BY <1>1, <2>1, SameLearned
  <2>5. Waits(d, i)' => Waits(d, i)
    BY <2>1 DEF Waits, Moves
  <2>6. NobodyMissed'
    BY <1>1, <2>1, <2>2, <2>5, QuietMissed
  <2> QED BY <2>1, <2>3, <2>4, <2>6, InvByParts
<1>12. CASE DropNotifies(d, i)
  <2>1. Base' /\ Rings /\ SameCallers
    BY <1>1, <1>12, DropNotifiesBase
  <2>2. UNCHANGED <<account, learned, pool, lease, kills>>
    BY <1>12 DEF DropNotifies
  <2>3. SlotsAccounted'
    BY <1>1, <2>1, <2>2, SameSlots
  <2>4. LearnedHalf'
    BY <1>1, <2>2, SameLearned
  <2>5. NobodyMissed'
    BY <2>1, MissedRings
  <2> QED BY <2>1, <2>3, <2>4, <2>5, InvByParts
<1> QED
  BY <1>2, <1>3, <1>4, <1>5, <1>6, <1>7, <1>8, <1>9, <1>10, <1>11, <1>12 DEF Fragment

LEMMA StartFetchInv ==
  ASSUME BudgetInv, NEW d \in Download, StartFetch(d)
  PROVE  BudgetInv'
<1>1. Base /\ SlotsAccounted /\ NobodyMissed /\ LearnedHalf
  BY DEF BudgetInv, Base
<1>2. Base' /\ SameCallers /\ Moves(d, 1, "start") /\ Alone(d, 1)
  BY <1>1, StartFetchBase
<1>3. /\ UNCHANGED <<account, learned, pool, lease, kills>> /\ fetch[d] = "none"
      /\ \A e \in Download : fetch[e] = "observed" => fetch'[e] = "observed"
  BY <1>1 DEF StartFetch, Base, TypeOK
<1>4. SlotsAccounted'
  BY <1>1, <1>2, <1>3, SameSlots
<1>5. LearnedHalf'
  BY <1>1, <1>3, SameLearned
<1>6. 1 \in Frag
  BY FragFacts
<1>7. frag[d][1].at = "idle"
  BY <1>1, <1>3, <1>6 DEF Base, Leased, Empty, At
<1>8. Waits(d, 1)' => Waits(d, 1)
  BY <1>2 DEF Waits, Moves
<1>9. NobodyMissed'
  BY <1>1, <1>2, <1>3, <1>6, <1>7, <1>8, QuietMissed
<1> QED BY <1>2, <1>4, <1>5, <1>9, InvByParts

LEMMA ObserveFailedInv ==
  ASSUME BudgetInv, NEW d \in Download, ObserveFailed(d)
  PROVE  BudgetInv'
<1>1. Base /\ SlotsAccounted /\ NobodyMissed /\ LearnedHalf
  BY DEF BudgetInv, Base
<1>2. /\ Base' /\ frag' = frag
      /\ lease[d] \in Route /\ account[lease[d]] # None /\ AtOne(lease[d])
      /\ account'[lease[d]] \in Account
      /\ account'[lease[d]].inFlight = account[lease[d]].inFlight
  BY <1>1, ObserveFailedBase DEF Seen
<1>3. SameCallers /\ lease' = lease /\ pool' = pool
  BY <1>2 DEF SameCallers, ObserveFailed
<1>4. \A r \in Route : InFlight(r)' = InFlight(r)
  BY <1>2, NoneAssumption DEF InFlight, AtOne, Kept
<1>5. SlotsAccounted'
  BY <1>1, <1>3, <1>4, CountSame
<1>6. LearnedHalf'
  BY <1>1, ObserveFailedLearned
<1>7. fetch'[d] = "observed"
  BY <1>1 DEF ObserveFailed, Base, TypeOK
<1>8. NobodyMissed'
  BY <1>7, OwedByFetch
<1> QED BY <1>2, <1>5, <1>6, <1>8, InvByParts

(* A fetch that only changes its stage. *)
LEMMA StageInv ==
  ASSUME BudgetInv, Base', UNCHANGED <<account, learned, pool, lease, frag, kills>>,
         \A e \in Download : fetch[e] = "observed" => fetch'[e] = "observed"
  PROVE  BudgetInv'
<1>1. Base /\ SlotsAccounted /\ NobodyMissed /\ LearnedHalf
  BY DEF BudgetInv, Base
<1>2. SlotsAccounted'
  BY <1>1, SameSlots DEF SameCallers
<1>3. LearnedHalf'
  BY <1>1, SameLearned
<1>4. NobodyMissed'
  BY <1>1, FetchMissed
<1> QED BY <1>2, <1>3, <1>4, InvByParts

LEMMA FetchFailsInv ==
  ASSUME BudgetInv, NEW d \in Download, FetchFails(d)
  PROVE  BudgetInv'
<1>1. Base /\ SlotsAccounted /\ NobodyMissed /\ LearnedHalf
  BY DEF BudgetInv, Base
<1>2. /\ Base' /\ SameCallers /\ (fetch[d] = "observed" => Rings)
      /\ fetch[d] = "observed" \/ frag' = frag
  BY <1>1, FetchFailsBase
<1>3. /\ UNCHANGED <<account, learned, pool, lease, kills>>
      /\ \A e \in Download : e # d => fetch'[e] = fetch[e]
  BY <1>1 DEF FetchFails, Base, TypeOK
<1>4. CASE fetch[d] = "observed"
  <2>1. SlotsAccounted'
    BY <1>1, <1>2, <1>3, SameSlots
  <2>2. LearnedHalf'
    BY <1>1, <1>3, SameLearned
  <2>3. NobodyMissed'
    BY <1>2, <1>4, MissedRings
  <2> QED BY <1>2, <2>1, <2>2, <2>3, InvByParts
<1>5. CASE fetch[d] # "observed"
  <2>1. frag' = frag /\ \A e \in Download : fetch[e] = "observed" => fetch'[e] = "observed"
    BY <1>2, <1>3, <1>5
  <2> QED BY <1>2, <1>3, <2>1, StageInv
<1> QED BY <1>4, <1>5

LEMMA LeaseInv ==
  ASSUME BudgetInv, NEW d \in Download, NEW r \in Route,
         Lease(d, r) \/ (DropLease(d) /\ r = lease[d])
  PROVE  BudgetInv'
<1>1. Base /\ SlotsAccounted /\ NobodyMissed /\ LearnedHalf
  BY DEF BudgetInv, Base
<1>2. /\ Base' /\ frag' = frag /\ AtOne(r) /\ Empty(d)
      /\ \A e \in Download \ {d} : lease'[e] = lease[e]
      /\ account[r] = None => account'[r] # None /\ account'[r].inFlight = 0
      /\ account[r] # None /\ account'[r] # None =>
           account'[r].inFlight = account[r].inFlight
      /\ account[r] # None /\ account'[r] = None => Leases(r) = {d}
  <2>1. CASE Lease(d, r)
    <3>1. Opened(r) # None /\ Opened(r).inFlight = 0
      BY <1>1, OpenedFacts, NoneAssumption DEF Base
    <3> QED BY <1>1, <2>1, <3>1, LeaseBase
  <2>2. CASE DropLease(d) /\ r = lease[d]
    BY <1>1, <2>2, DropLeaseBase
  <2> QED BY <2>1, <2>2
<1>3. pool' = pool /\ SameCallers
  BY <1>2 DEF Lease, DropLease, SameCallers
<1>4. \A e \in Download, i \in Frag : At(e, i, "call") => lease'[e] = lease[e]
  BY <1>2 DEF Empty, At
(* An account whose last lease goes holds nothing. *)
<1>5. account[r] # None /\ account'[r] = None => account[r].inFlight = 0
  <2> SUFFICES ASSUME account[r] # None, Leases(r) = {d} PROVE account[r].inFlight = 0
    BY <1>2
  <2>1. Holders(r) = {}
    <3> SUFFICES ASSUME NEW p \in Holders(r) PROVE FALSE
      OBVIOUS
    <3>1. PICK e \in Download, i \in Frag : p = <<e, i>> /\ lease[e] = r /\ At(e, i, "call")
      BY DEF Holders
    <3>2. e \in Leases(r)
      BY <3>1 DEF Leases
    <3>3. At(d, i, "call") /\ At(d, i, "idle")
      BY <1>2, <3>1, <3>2 DEF Empty
    <3> QED BY <3>3 DEF At
  <2> QED BY <1>1, <2>1, FS_EmptySet DEF SlotsAccounted
<1>6. \A q \in Route : InFlight(q)' = InFlight(q)
  <2> SUFFICES ASSUME NEW q \in Route PROVE InFlight(q)' = InFlight(q)
    OBVIOUS
  <2>1. CASE q = r
    BY <1>2, <1>5, <2>1 DEF InFlight
  <2>2. CASE q # r
    BY <1>2, <2>2 DEF InFlight, AtOne, Kept
  <2> QED BY <2>1, <2>2
<1>7. SlotsAccounted'
  BY <1>1, <1>3, <1>4, <1>6, CountSame
<1>8. NobodyMissed'
  BY <1>1, LeaseMissed
<1>9. LearnedHalf'
  <2>1. CASE Lease(d, r)
    BY <1>1, <2>1, LeaseLearned
  <2>2. CASE DropLease(d) /\ r = lease[d]
    <3>1. \A q \in Route : account'[q] # None =>
            /\ account[q] # None
            /\ account'[q].window = account[q].window /\ account'[q].known = account[q].known
      BY <1>1, <1>2, <2>2, DropLeaseBase DEF AtOne, Kept
    <3>2. UNCHANGED <<learned, kills>>
      BY <2>2 DEF DropLease
    <3> QED BY <1>1, <3>1, <3>2, LearnedKept
  <2> QED BY <2>1, <2>2
<1> QED BY <1>2, <1>7, <1>8, <1>9, InvByParts

LEMMA BudgetStep == BudgetInv /\ [Next]_vars => BudgetInv'
<1> SUFFICES ASSUME BudgetInv, [Next]_vars PROVE BudgetInv'
  OBVIOUS
<1>0. Base
  BY DEF BudgetInv, Base
<1>1. ASSUME NEW d \in Download, StartFetch(d) PROVE BudgetInv'
  BY <1>1, StartFetchInv
<1>2. ASSUME NEW d \in Download, Cancel(d) PROVE BudgetInv'
  <2>1. /\ UNCHANGED <<account, learned, pool, lease, frag, kills>>
        /\ \A e \in Download : fetch[e] = "observed" => fetch'[e] = "observed"
    BY <1>0, <1>2 DEF Cancel, Base, TypeOK
  <2> QED BY <1>0, <1>2, <2>1, CancelBase, StageInv
<1>3. ASSUME NEW d \in Download, FetchComplete(d) PROVE BudgetInv'
  <2>1. /\ UNCHANGED <<account, learned, pool, lease, frag, kills>>
        /\ \A e \in Download : fetch[e] = "observed" => fetch'[e] = "observed"
    BY <1>0, <1>3 DEF FetchComplete, Base, TypeOK
  <2> QED BY <1>0, <1>3, <2>1, FetchCompleteBase, StageInv
<1>4. ASSUME NEW d \in Download, ObserveFailed(d) PROVE BudgetInv'
  BY <1>4, ObserveFailedInv
<1>5. ASSUME NEW d \in Download, FetchFails(d) PROVE BudgetInv'
  BY <1>5, FetchFailsInv
<1>6. ASSUME NEW d \in Download, NEW i \in Frag, Fragment(d, i) PROVE BudgetInv'
  BY <1>6, FragmentInv
<1>7. ASSUME NEW d \in Download, NEW r \in Route, Lease(d, r) PROVE BudgetInv'
  BY <1>7, LeaseInv
<1>8. ASSUME NEW d \in Download, DropLease(d) PROVE BudgetInv'
  <2>1. lease[d] \in Route
    BY <1>0, <1>8, DropLeaseBase
  <2> QED BY <1>8, <2>1, LeaseInv
<1>9. ASSUME NEW r \in Route, AbandonedEnds(r) PROVE BudgetInv'
  <2>1. /\ UNCHANGED <<account, learned, pool, lease, fetch, frag, left, kills>>
        /\ abandoned' \in [Route -> Nat]
    BY <1>0, <1>9 DEF AbandonedEnds, Base, TypeOK
  <2>2. Base'
    <3>1. TypeOK'
      BY <1>0, <2>1 DEF Base, TypeOK
    <3>2. Leased'
      BY <1>0, <2>1 DEF Base, Leased, Empty, At, Frag
    <3>3. RefsCounted'
      BY <1>0, <2>1, RefsKept DEF Base
    <3> QED BY <3>1, <3>2, <3>3 DEF Base
  <2> QED BY <2>1, <2>2, StageInv
<1>10. ASSUME UNCHANGED vars PROVE BudgetInv'
  <2>1. UNCHANGED <<account, learned, pool, lease, fetch, frag, left, abandoned, kills>>
    BY <1>10 DEF vars
  <2>2. Base'
    <3>1. TypeOK'
      BY <1>0, <2>1 DEF Base, TypeOK
    <3>2. Leased'
      BY <1>0, <2>1 DEF Base, Leased, Empty, At, Frag
    <3>3. RefsCounted'
      BY <1>0, <2>1, RefsKept DEF Base
    <3> QED BY <3>1, <3>2, <3>3 DEF Base
  <2> QED BY <2>1, <2>2, StageInv
<1> QED
  BY <1>1, <1>2, <1>3, <1>4, <1>5, <1>6, <1>7, <1>8, <1>9, <1>10 DEF Next, Fetch

-----------------------------------------------------------------------------
LEMMA BudgetAlways == Spec => []BudgetInv
BY BudgetInit, BudgetStep, PTL DEF Spec

(* RouteLease, BudgetPermit: the pool and every account count exactly the  *)
(* permits held, through errors, dropped futures and leases that come and  *)
(* go.                                                                     *)
THEOREM SlotsAlways == Spec => []SlotsAccounted
<1>1. BudgetInv => SlotsAccounted
  BY DEF BudgetInv
<1> QED BY <1>1, BudgetAlways, PTL

(* RouteLease::acquire: no future sleeps over a free slot with no wakeup   *)
(* to come, wherever the notifies fall between its check and its sleep.    *)
THEOREM NoSleeperAlways == Spec => []NoSleeperMissed
<1>1. BudgetInv => NoSleeperMissed
  BY DEF BudgetInv, NobodyMissed, NoSleeperMissed, At
<1> QED BY <1>1, BudgetAlways, PTL

(* RouteLease::observe and the learned ceilings: no account of a sharer's  *)
(* route ever widens past half of what a route of that sharer had died at  *)
(* when the account was opened, or past half of its own deaths.            *)
THEOREM DeathAlways == Spec => []DeathRemembered
<1>1. BudgetInv => DeathRemembered
  <2> SUFFICES ASSUME BudgetInv, NEW r \in Route, account[r] # None, NEW k \in account[r].known
               PROVE  account[r].window.width <= Halved(k)
    BY DEF DeathRemembered
  <2>1. account[r] \in Account
    BY DEF BudgetInv, TypeOK
  <2>2. account[r].window \in Window /\ k \in Floor..Ceil
    BY <2>1 DEF Account
  <2>3. /\ account[r].window.width \in Floor..Ceil /\ account[r].window.ceiling \in Floor..Ceil
        /\ Halved(k) \in Floor..Ceil
    BY <2>2, WindowFields, HalvedFacts
  <2>4. /\ account[r].window.width <= account[r].window.ceiling
        /\ account[r].window.ceiling <= Halved(k)
    BY DEF BudgetInv, LearnedHalf
  <2>5. Floor..Ceil \subseteq Int
    OBVIOUS
  <2> QED BY <2>3, <2>4, <2>5
<1> QED BY <1>1, BudgetAlways, PTL

=============================================================================
