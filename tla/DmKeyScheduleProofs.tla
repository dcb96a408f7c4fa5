------------------------ MODULE DmKeyScheduleProofs ------------------------
(***************************************************************************)
(* Proofs about DmKeySchedule, for any number of messages and resets: the  *)
(* two sides of a direction derive one key, no key is used twice, turns    *)
(* that nobody forced alternate, and with one reset at most every message  *)
(* opens.                                                                  *)
(*                                                                         *)
(* The argument follows a direction message by message.  RootAt, ChainAt   *)
(* and TurnAt say where a party's direction stands after its k-th message: *)
(* the sender stands after its last one, the reader after the last one it  *)
(* opened.  Turns are then counted.  A turn that is due, or that is not    *)
(* read yet, is a token; the conversation starts with one and a reset adds *)
(* one, so a turn can be crossed by as many as there were resets.          *)
(***************************************************************************)
EXTENDS DmKeySchedule, SequenceTheorems, TLAPS

(* Where p's direction stands after its first k messages. *)
RootAt(p, k)  == IF k = 0 THEN Seed ELSE sent[p][k].key.root
ChainAt(p, k) == IF k = 0 THEN (IF p = Initiator THEN 0 ELSE None) ELSE sent[p][k].key.step + 1
TurnAt(p, k)  == IF k = 0 THEN (IF p = Initiator THEN 0 ELSE None) ELSE sent[p][k].n

(* Message msg continues p's direction where it stands after k messages. *)
Continues(p, k, msg) ==
  IF msg.turn
  THEN /\ msg.n = TurnAt(p, k) + 1
       /\ msg.key = [root |-> AdvanceRoot(RootAt(p, k), p, msg.n, msg.m), step |-> 0]
  ELSE /\ ChainAt(p, k) # None
       /\ msg.n = TurnAt(p, k)
       /\ msg.key = [root |-> RootAt(p, k), step |-> ChainAt(p, k)]

Chained == \A p \in Party : \A k \in DOMAIN sent[p] : Continues(p, k - 1, sent[p][k])

(* The sender stands after its last message. *)
Minted(p) == TurnAt(p, Len(sent[p]))

SenderInStep ==
  \A p \in Party :
    /\ snd[p].root = RootAt(p, Len(sent[p]))
    /\ snd[p].chain = ChainAt(p, Len(sent[p]))
    /\ snd[p].n = IF snd[p].chain = None THEN 0 ELSE Minted(p)

(* The reader stands after the last message it opened. *)
ReaderInStep ==
  \A p \in Party :
    /\ rcv[p].nextSeq <= Len(sent[Peer(p)])
    /\ rcv[p].root = RootAt(Peer(p), rcv[p].nextSeq)
    /\ rcv[p].chain = ChainAt(Peer(p), rcv[p].nextSeq)
    /\ rcv[p].peerLatest = TurnAt(Peer(p), rcv[p].nextSeq)
    /\ rcv[p].chain # None => rcv[p].n = rcv[p].peerLatest

SeenWasRead == \A p \in Party : snd[p].mSeen <= rcv[p].peerLatest

InStep == TypeOK /\ Chained /\ SenderInStep /\ ReaderInStep /\ SeenWasRead

(* A key comes before another of its direction. *)
KeyBefore(a, b) ==
  \/ Len(a.root) < Len(b.root)
  \/ a.root = b.root /\ a.step < b.step

KeysAscend ==
  \A p \in Party : \A i, j \in DOMAIN sent[p] :
    i < j => KeyBefore(sent[p][i].key, sent[p][j].key)

(* The last turn mixed into a root names the party whose root it is. *)
RootOf(p, root) == IF root = Seed THEN p = Initiator ELSE root[Len(root)].by = p
KeysOwned == \A p \in Party : \A i \in DOMAIN sent[p] : RootOf(p, sent[p][i].key.root)

-----------------------------------------------------------------------------
(* Turn numbers do not fall, and a turn raises its own. *)
TurnsAscend ==
  \A p \in Party : \A k \in 0 .. Len(sent[p]), j \in DOMAIN sent[p] :
    k < j => /\ TurnAt(p, k) <= sent[p][j].n
             /\ sent[p][j].turn => TurnAt(p, k) < sent[p][j].n

UnreadTurns(p) == {j \in DOMAIN sent[p] : j > rcv[Peer(p)].nextSeq /\ sent[p][j].turn}
Unread(p)   == Minted(p) - rcv[Peer(p)].peerLatest
Due(p)      == IF TurnDue(p) THEN 1 ELSE 0
TotalResets == resets[Initiator] + resets[Acceptor]

TokensCounted ==
  \A p \in Party : Unread(p) + Unread(Peer(p)) + Due(p) + Due(Peer(p)) <= 1 + TotalResets

(* What a turn was encapsulated to is a turn read, and never an older one  *)
(* than the turns before it were.                                          *)
AnswersAscend ==
  \A p \in Party : \A j \in DOMAIN sent[p] : sent[p][j].turn =>
    /\ sent[p][j].m <= rcv[p].peerLatest
    /\ \A i \in DOMAIN sent[p] : i <= j /\ sent[p][i].turn => sent[p][i].m <= sent[p][j].m

(* The turns minted, or due, since the one an unread turn answers, and the *)
(* unread turns before it, are at most the resets.                         *)
CrossingsCounted ==
  \A p \in Party : \A j \in UnreadTurns(p) :
    Minted(Peer(p)) + Due(Peer(p)) - sent[p][j].m
      + (sent[p][j].n - rcv[Peer(p)].peerLatest - 1) <= TotalResets

(* The own secrets held are those of the last turn minted and of the one   *)
(* before it, which is gone only when no unread turn answers it.           *)
OwnRetained ==
  \A p \in Party :
    /\ Len(rcv[p].own) <= OwnTurnsRetained
    /\ rcv[p].own = <<>> <=> Minted(p) = None
    /\ Len(rcv[p].own) > 0 => rcv[p].own[1] = Minted(p)
    /\ Len(rcv[p].own) > 1 => rcv[p].own[2] = Minted(p) - 1
    /\ Len(rcv[p].own) = 1 /\ Minted(p) > 0 =>
         /\ rcv[Peer(p)].peerLatest = Minted(p)
         /\ \A j \in UnreadTurns(Peer(p)) : sent[Peer(p)][j].m = Minted(p)

KeyInv == InStep /\ KeysAscend /\ KeysOwned
TurnInv == InStep /\ TurnsAscend /\ TokensCounted /\ AnswersAscend /\ CrossingsCounted /\ OwnRetained

-----------------------------------------------------------------------------
(* The conversation has two parties, each the other's peer.                *)
LEMMA Peers ==
  /\ \A p \in Party : Peer(p) \in Party /\ Peer(p) # p /\ Peer(Peer(p)) = p
  /\ \A p, q \in Party : q = p \/ q = Peer(p)
  /\ \A p \in Party : (p = Initiator) # (Peer(p) = Initiator)
  BY PartiesDiffer DEF Party, Peer

(* The resets of the two parties, whichever is named first.                *)
LEMMA ResetsSum ==
  ASSUME TypeOK, NEW p \in Party
  PROVE  TotalResets = resets[p] + resets[Peer(p)] /\ TotalResets \in Nat
  BY DEF TypeOK, TotalResets, Party, Peer

(* retain keeps the new turn, and the one before it where there was one.   *)
LEMMA RetainValue ==
  ASSUME NEW own \in Seq(Nat), NEW n \in Nat
  PROVE  /\ Retain(own, n) \in Seq(Nat)
         /\ Len(Retain(own, n)) = IF own = <<>> THEN 1 ELSE 2
         /\ Retain(own, n)[1] = n
         /\ own # <<>> => Retain(own, n)[2] = own[1]
  <1> DEFINE s == <<n>> \o own
             b == IF own = <<>> THEN 1 ELSE 2
  <1>1. s \in Seq(Nat) /\ Len(s) = 1 + Len(own)
    OBVIOUS
  <1>2. s[1] = n /\ (own # <<>> => s[2] = own[1])
    OBVIOUS
  <1>3. own # <<>> => Len(own) >= 1
    OBVIOUS
  <1> HIDE DEF s
  <1>4. b \in 0 .. Len(s) /\ b \in {1, 2}
    BY <1>1, <1>3
  <1> HIDE DEF b
  <1>5. SubSeq(s, 1, b) \in Seq(Nat) /\ Len(SubSeq(s, 1, b)) = b
        /\ \A i \in 1 .. b : SubSeq(s, 1, b)[i] = s[i]
    BY <1>1, <1>4
  <1>6. Retain(own, n) = SubSeq(s, 1, b)
    BY DEF Retain, OwnTurnsRetained, s, b
  <1>7. own # <<>> => b = 2
    BY DEF b
  <1>8. 1 \in 1 .. b /\ (own # <<>> => 2 \in 1 .. b)
    BY <1>4, <1>7
  <1> QED BY <1>2, <1>5, <1>6, <1>8 DEF b

(* What the two halves hold, field by field.                               *)
LEMMA Fields ==
  ASSUME TypeOK, NEW p \in Party
  PROVE  /\ snd[p].root \in Roots /\ snd[p].chain \in Turns /\ snd[p].n \in Nat
         /\ snd[p].mSeen \in Turns /\ snd[p].force \in BOOLEAN
         /\ rcv[p].root \in Roots /\ rcv[p].chain \in Turns /\ rcv[p].n \in Nat
         /\ rcv[p].nextSeq \in Nat /\ rcv[p].own \in Seq(Nat) /\ rcv[p].peerLatest \in Turns
         /\ sent[p] \in Seq(Msgs) /\ Len(sent[p]) \in Nat /\ DOMAIN sent[p] = 1 .. Len(sent[p])
  BY DEF TypeOK

(* Each committed message's fields.                                        *)
LEMMA MsgFields ==
  ASSUME NEW msg \in Msgs
  PROVE  /\ msg.n \in Nat /\ msg.m \in Nat /\ msg.turn \in BOOLEAN
         /\ msg.key.root \in Roots /\ msg.key.step \in Nat
  BY DEF Msgs

(* A position of a direction is a root, a chain and a turn; the chain and  *)
(* the turn are absent together.                                           *)
LEMMA Positions ==
  ASSUME TypeOK, NEW p \in Party, NEW k \in 0 .. Len(sent[p])
  PROVE  /\ RootAt(p, k) \in Roots /\ ChainAt(p, k) \in Turns /\ TurnAt(p, k) \in Turns
         /\ ChainAt(p, k) = None <=> TurnAt(p, k) = None
         /\ k > 0 => sent[p][k] \in Msgs /\ TurnAt(p, k) \in Nat
  <1>1. CASE k = 0
    BY <1>1 DEF RootAt, ChainAt, TurnAt, Roots, Seed, Turns, None
  <1>2. CASE k # 0
    <2>1. sent[p][k] \in Msgs
      BY <1>2, Fields
    <2>2. RootAt(p, k) = sent[p][k].key.root /\ ChainAt(p, k) = sent[p][k].key.step + 1
          /\ TurnAt(p, k) = sent[p][k].n
      BY <1>2 DEF RootAt, ChainAt, TurnAt
    <2>3. RootAt(p, k) \in Roots /\ ChainAt(p, k) \in Nat \ {0} /\ TurnAt(p, k) \in Nat
      BY <2>1, <2>2, MsgFields
    <2> QED BY <2>1, <2>3 DEF Turns, None
  <1> QED BY <1>1, <1>2

-----------------------------------------------------------------------------
(* A turn is answered as soon as it was read, so a seal encapsulates to    *)
(* the last turn read, whether a new turn or a reset made it due.          *)
LEMMA EncapsToLatest ==
  ASSUME InStep, NEW p \in Party
  PROVE  EncapsTo(p) = rcv[p].peerLatest
  <1>1. snd[p].mSeen <= rcv[p].peerLatest
    BY DEF InStep, SeenWasRead
  <1>2. snd[p].mSeen \in Int /\ rcv[p].peerLatest \in Int
    BY Fields DEF InStep, Turns, None
  <1> QED BY <1>1, <1>2 DEF EncapsTo

(* A turn is due or it is not.                                             *)
LEMMA DueIsBoolean ==
  ASSUME TypeOK, NEW p \in Party
  PROVE  TurnDue(p) \in BOOLEAN
  BY Fields, Zenon DEF TurnDue

(* The message p seals, and what the seal does with it: it continues the   *)
(* direction where it stands, and leaves the sender behind it.             *)
Sealed(p, x) ==
  /\ sent' = [sent EXCEPT ![p] = Append(@, x)]
  /\ Continues(p, Len(sent[p]), x)
  /\ x.turn = TurnDue(p)
  /\ x.turn => x.m = rcv[p].peerLatest
  /\ snd' = [snd EXCEPT ![p] = [root |-> x.key.root, chain |-> x.key.step + 1, n |-> x.n,
                               mSeen |-> rcv[p].peerLatest, force |-> FALSE]]
  /\ rcv' = [rcv EXCEPT ![p].own = IF x.turn THEN Retain(@, x.n) ELSE @]
  /\ resets' = resets

(* Every seal is one of these.                                             *)
LEMMA SealNext ==
  ASSUME InStep, NEW p \in Party, Seal(p)
  PROVE  \E x \in Msgs : Sealed(p, x)
  <1> DEFINE due  == TurnDue(p)
             n    == TurnNumber(p)
             to   == rcv[p].peerLatest
             m    == IF to = None THEN 0 ELSE to
             root == IF due THEN AdvanceRoot(snd[p].root, p, n, to) ELSE snd[p].root
             at   == IF due THEN 0 ELSE snd[p].chain
             x    == [n |-> n, m |-> m, turn |-> due, key |-> [root |-> root, step |-> at]]
  <1>1. EncapsTo(p) = to
    BY EncapsToLatest
  <1>2. IF due THEN to # None ELSE snd[p].chain # None
    BY <1>1 DEF Seal
  <1>3. /\ snd' = [snd EXCEPT ![p] = [root |-> root, chain |-> StepChain(at), n |-> n,
                                     mSeen |-> to, force |-> FALSE]]
        /\ rcv' = [rcv EXCEPT ![p].own = IF due THEN Retain(@, n) ELSE @]
        /\ sent' = [sent EXCEPT ![p] = Append(@, x)]
        /\ resets' = resets
    BY <1>1 DEF Seal
  <1>4. /\ snd[p].root = RootAt(p, Len(sent[p])) /\ snd[p].root \in Roots
        /\ snd[p].chain = ChainAt(p, Len(sent[p])) /\ snd[p].chain \in Turns
        /\ snd[p].n = (IF snd[p].chain = None THEN 0 ELSE TurnAt(p, Len(sent[p]))) /\ snd[p].n \in Nat
    BY Fields DEF InStep, SenderInStep, Minted
  <1>5. snd[p].chain = None => TurnAt(p, Len(sent[p])) = None
    <2>1. TypeOK /\ Len(sent[p]) \in 0 .. Len(sent[p])
      BY Fields DEF InStep
    <2>2. ChainAt(p, Len(sent[p])) = None <=> TurnAt(p, Len(sent[p])) = None
      BY <2>1, Positions
    <2> QED BY <1>4, <2>2
  <1>6. due \in BOOLEAN
    BY DueIsBoolean DEF InStep
  <1>7. to \in Turns
    BY Fields DEF InStep
  <1>8. n \in Nat /\ n = IF due THEN TurnAt(p, Len(sent[p])) + 1 ELSE TurnAt(p, Len(sent[p]))
    BY <1>2, <1>4, <1>5 DEF TurnNumber, None
  <1>9. m \in Nat /\ (due => m = to)
    BY <1>2, <1>7 DEF Turns
  <1>10. at \in Nat
    BY <1>2, <1>4 DEF Turns
  <1>11. root \in Roots
    <2>1. CASE due
      <3>1. [by |-> p, n |-> n, m |-> to] \in [by : Party, n : Nat, m : Nat]
        BY <1>8, <1>9, <2>1
      <3>2. Append(snd[p].root, [by |-> p, n |-> n, m |-> to]) \in Roots
        BY <1>4, <3>1 DEF Roots
      <3> QED BY <2>1, <3>2 DEF AdvanceRoot
    <2>2. CASE ~due
      BY <2>2, <1>4
    <2> QED BY <2>1, <2>2
  <1> HIDE DEF due, n, m, root, at, to
  <1>12. x \in Msgs
    BY <1>6, <1>8, <1>9, <1>10, <1>11 DEF Msgs
  <1>13. x.turn = due /\ x.n = n /\ x.m = m /\ x.key = [root |-> root, step |-> at]
         /\ x.key.root = root /\ x.key.step = at
    OBVIOUS
  <1> HIDE DEF x
  <1>14. Continues(p, Len(sent[p]), x)
    <2>1. CASE due
      <3>1. root = AdvanceRoot(RootAt(p, Len(sent[p])), p, n, m) /\ at = 0
        BY <2>1, <1>4, <1>9 DEF root, at
      <3> QED BY <2>1, <3>1, <1>8, <1>13 DEF Continues
    <2>2. CASE ~due
      <3>1. root = RootAt(p, Len(sent[p])) /\ at = ChainAt(p, Len(sent[p])) /\ at # None
        BY <2>2, <1>2, <1>4 DEF root, at
      <3> QED BY <2>2, <3>1, <1>8, <1>13 DEF Continues
    <2> QED BY <2>1, <2>2
  <1>15. snd' = [snd EXCEPT ![p] = [root |-> x.key.root, chain |-> x.key.step + 1, n |-> x.n,
                                    mSeen |-> to, force |-> FALSE]]
    BY <1>3, <1>13 DEF StepChain
  <1>16. rcv' = [rcv EXCEPT ![p].own = IF x.turn THEN Retain(@, x.n) ELSE @]
    BY <1>3, <1>13
  <1>17. x.turn = TurnDue(p) /\ (x.turn => x.m = rcv[p].peerLatest)
    BY <1>9, <1>13 DEF due, to
  <1>18. rcv[p].peerLatest = to
    BY DEF to
  <1> QED BY <1>3, <1>12, <1>14, <1>15, <1>16, <1>17, <1>18 DEF Sealed

(* Appending a message leaves the positions before it where they were.     *)
LEMMA AppendKeeps ==
  ASSUME TypeOK, NEW p \in Party, NEW x \in Msgs, sent' = [sent EXCEPT ![p] = Append(@, x)]
  PROVE  /\ Len(sent'[p]) = Len(sent[p]) + 1 /\ sent'[Peer(p)] = sent[Peer(p)]
         /\ sent'[p] \in Seq(Msgs) /\ DOMAIN sent'[p] = 1 .. Len(sent[p]) + 1
         /\ sent'[p][Len(sent[p]) + 1] = x
         /\ \A q \in Party : \A k \in 1 .. Len(sent[q]) : sent'[q][k] = sent[q][k]
         /\ \A q \in Party : \A k \in 0 .. Len(sent[q]) :
              RootAt(q, k)' = RootAt(q, k) /\ ChainAt(q, k)' = ChainAt(q, k) /\ TurnAt(q, k)' = TurnAt(q, k)
         /\ \A k : k = Len(sent[p]) + 1 =>
              RootAt(p, k)' = x.key.root /\ ChainAt(p, k)' = x.key.step + 1 /\ TurnAt(p, k)' = x.n
         /\ Minted(p)' = x.n /\ Minted(Peer(p))' = Minted(Peer(p))
  <1>1. sent'[p] = Append(sent[p], x) /\ sent'[Peer(p)] = sent[Peer(p)]
    BY Peers DEF TypeOK
  <1>2. sent[p] \in Seq(Msgs) /\ Len(sent[p]) \in Nat
    BY Fields
  <1>3. /\ Len(sent'[p]) = Len(sent[p]) + 1 /\ sent'[p] \in Seq(Msgs)
        /\ DOMAIN sent'[p] = 1 .. Len(sent[p]) + 1 /\ sent'[p][Len(sent[p]) + 1] = x
    BY <1>1, <1>2
  <1>4. \A k \in 1 .. Len(sent[p]) : sent'[p][k] = sent[p][k]
    BY <1>1, <1>2
  <1>5. ASSUME NEW q \in Party, NEW k \in 1 .. Len(sent[q])
        PROVE  sent'[q][k] = sent[q][k]
    BY <1>1, <1>4, Peers
  <1>6. ASSUME NEW q \in Party, NEW k \in 0 .. Len(sent[q])
        PROVE  RootAt(q, k)' = RootAt(q, k) /\ ChainAt(q, k)' = ChainAt(q, k) /\ TurnAt(q, k)' = TurnAt(q, k)
    <2>1. k # 0 => sent'[q][k] = sent[q][k]
      BY <1>5, Fields
    <2> QED BY <2>1 DEF RootAt, ChainAt, TurnAt
  <1>7. ASSUME NEW k, k = Len(sent[p]) + 1
        PROVE  RootAt(p, k)' = x.key.root /\ ChainAt(p, k)' = x.key.step + 1 /\ TurnAt(p, k)' = x.n
    <2>1. k # 0 /\ sent'[p][k] = x
      BY <1>2, <1>3, <1>7
    <2> QED BY <2>1 DEF RootAt, ChainAt, TurnAt
  <1>8. Minted(p)' = x.n
    BY <1>3, <1>7 DEF Minted
  <1>9. Minted(Peer(p))' = Minted(Peer(p))
    <2>1. ASSUME NEW k, k = Len(sent[Peer(p)]) PROVE TurnAt(Peer(p), k)' = TurnAt(Peer(p), k)
      BY <2>1, <1>6, Peers, Fields
    <2> QED BY <1>1, <2>1 DEF Minted
  <1> QED BY <1>1, <1>3, <1>5, <1>6, <1>7, <1>8, <1>9

(* The next message's key is the one its reader derives.                   *)
LEMMA KeyAgrees ==
  ASSUME InStep, NEW p \in Party, Waiting(p)
  PROVE  /\ rcv[p].nextSeq + 1 \in DOMAIN sent[Peer(p)] /\ NextMsg(p) \in Msgs
         /\ NextMsg(p) = sent[Peer(p)][rcv[p].nextSeq + 1]
         /\ Continues(Peer(p), rcv[p].nextSeq, NextMsg(p))
         /\ ~NextMsg(p).turn => rcv[p].chain # None
         /\ [root |-> OpenRoot(p, NextMsg(p)), step |-> OpenStep(p, NextMsg(p))] = NextMsg(p).key
  <1> DEFINE q == Peer(p)
             k == rcv[p].nextSeq + 1
             msg == sent[q][k]
  <1>1. q \in Party /\ TypeOK
    BY Peers DEF InStep
  <1>2. k \in 1 .. Len(sent[q]) /\ k \in DOMAIN sent[q] /\ k - 1 = rcv[p].nextSeq
    BY <1>1, Fields DEF Waiting
  <1>3. msg \in Msgs
    BY <1>1, <1>2, Fields
  <1>4. NextMsg(p) = msg
    BY DEF NextMsg
  <1>5. Continues(q, rcv[p].nextSeq, msg)
    <2>1. Continues(q, k - 1, msg)
      BY <1>1, <1>2 DEF InStep, Chained
    <2> QED BY <1>2, <2>1
  <1>6. rcv[p].root = RootAt(q, rcv[p].nextSeq) /\ rcv[p].chain = ChainAt(q, rcv[p].nextSeq)
    BY DEF InStep, ReaderInStep
  <1> HIDE DEF msg
  <1>7. /\ ~msg.turn => rcv[p].chain # None
        /\ [root |-> OpenRoot(p, msg), step |-> OpenStep(p, msg)] = msg.key
    <2>1. CASE msg.turn
      <3>1. OpenRoot(p, msg) = AdvanceRoot(RootAt(q, rcv[p].nextSeq), q, msg.n, msg.m) /\ OpenStep(p, msg) = 0
        BY <1>6, <2>1 DEF OpenRoot, OpenStep
      <3> QED BY <1>5, <2>1, <3>1 DEF Continues
    <2>2. CASE ~msg.turn
      <3>1. OpenRoot(p, msg) = RootAt(q, rcv[p].nextSeq) /\ OpenStep(p, msg) = ChainAt(q, rcv[p].nextSeq)
        BY <1>6, <2>2 DEF OpenRoot, OpenStep
      <3> QED BY <1>5, <1>6, <2>2, <3>1 DEF Continues
    <2> QED BY <2>1, <2>2
  <1> QED BY <1>2, <1>3, <1>4, <1>5, <1>7 DEF msg

(* The own secrets p holds once it opened x: only the newest, where x is a *)
(* turn that names it.                                                     *)
OwnAfter(p, x) ==
  IF x.turn /\ Head(rcv[p].own) = x.m THEN <<x.m>> ELSE rcv[p].own

(* The message p opens, and what the open does: it leaves the reader behind*)
(* that message, and drops the own secret before the one it names.         *)
Opened(p, x) ==
  /\ rcv[p].nextSeq + 1 \in DOMAIN sent[Peer(p)]
  /\ x = sent[Peer(p)][rcv[p].nextSeq + 1]
  /\ Continues(Peer(p), rcv[p].nextSeq, x)
  /\ x.turn => x.m \in Retained(p)
  /\ rcv' = [rcv EXCEPT ![p] =
       [root |-> x.key.root, chain |-> x.key.step + 1, n |-> x.n,
        nextSeq |-> rcv[p].nextSeq + 1,
        own |-> OwnAfter(p, x),
        peerLatest |-> x.n]]
  /\ snd' = snd /\ sent' = sent /\ resets' = resets

(* Every open is one of these.                                             *)
LEMMA OpenNext ==
  ASSUME InStep, NEW p \in Party, Open(p)
  PROVE  \E x \in Msgs : Opened(p, x)
  <1> DEFINE q == Peer(p)
             x == NextMsg(p)
             own == IF x.turn /\ Head(rcv[p].own) = x.m THEN <<x.m>> ELSE rcv[p].own
  <1>1. Waiting(p)
    BY DEF Open
  <1>2. /\ rcv[p].nextSeq + 1 \in DOMAIN sent[q] /\ x \in Msgs /\ x = sent[q][rcv[p].nextSeq + 1]
        /\ Continues(q, rcv[p].nextSeq, x)
        /\ ~x.turn => rcv[p].chain # None
    BY <1>1, KeyAgrees
  <1>3. [root |-> OpenRoot(p, x), step |-> OpenStep(p, x)] = x.key
    BY <1>1, KeyAgrees
  <1>4. OpenRoot(p, x) = x.key.root /\ OpenStep(p, x) = x.key.step
    BY <1>3
  <1>5. x.turn => x.m \in Retained(p)
    BY DEF Open, Opens
  <1>6. rcv' = [rcv EXCEPT ![p] =
                 [root |-> OpenRoot(p, x), chain |-> OpenStep(p, x) + 1,
                  n |-> IF x.turn THEN x.n ELSE rcv[p].n,
                  nextSeq |-> rcv[p].nextSeq + 1,
                  own |-> own,
                  peerLatest |-> IF x.turn THEN x.n ELSE rcv[p].peerLatest]]
        /\ snd' = snd /\ sent' = sent /\ resets' = resets
    BY DEF Open, StepChain
  <1>7. ~x.turn => rcv[p].n = x.n /\ rcv[p].peerLatest = x.n
    <2>1. rcv[p].peerLatest = TurnAt(q, rcv[p].nextSeq)
          /\ (rcv[p].chain # None => rcv[p].n = rcv[p].peerLatest)
      BY DEF InStep, ReaderInStep
    <2>2. ~x.turn => x.n = TurnAt(q, rcv[p].nextSeq)
      BY <1>2 DEF Continues
    <2> QED BY <1>2, <2>1, <2>2
  <1>8. (IF x.turn THEN x.n ELSE rcv[p].n) = x.n /\ (IF x.turn THEN x.n ELSE rcv[p].peerLatest) = x.n
    BY <1>7
  <1> HIDE DEF x, own
  <1>9. rcv' = [rcv EXCEPT ![p] =
                 [root |-> x.key.root, chain |-> x.key.step + 1, n |-> x.n,
                  nextSeq |-> rcv[p].nextSeq + 1, own |-> own, peerLatest |-> x.n]]
    BY <1>4, <1>6, <1>8
  <1>10. own = OwnAfter(p, x)
    BY DEF own, OwnAfter
  <1> QED BY <1>2, <1>5, <1>6, <1>9, <1>10 DEF Opened

-----------------------------------------------------------------------------
(* What the two halves hold when the conversation is opened.               *)
LEMMA InitFields ==
  ASSUME Init, NEW p \in Party
  PROVE  /\ sent[p] = <<>> /\ Len(sent[p]) = 0 /\ DOMAIN sent[p] = {} /\ Len(sent[Peer(p)]) = 0
         /\ snd[p].root = Seed /\ snd[p].n = 0 /\ snd[p].mSeen = None /\ snd[p].force = FALSE
         /\ snd[p].chain = (IF p = Initiator THEN 0 ELSE None)
         /\ rcv[p].root = Seed /\ rcv[p].n = 0 /\ rcv[p].nextSeq = 0
         /\ rcv[p].chain = (IF p = Initiator THEN None ELSE 0)
         /\ rcv[p].peerLatest = (IF p = Initiator THEN None ELSE 0)
         /\ rcv[p].own = (IF p = Initiator THEN <<0>> ELSE <<>>)
  <1>1. /\ snd = [r \in Party |-> IF r = Initiator THEN Initiate.snd ELSE Accept.snd]
        /\ rcv = [r \in Party |-> IF r = Initiator THEN Initiate.rcv ELSE Accept.rcv]
        /\ sent = [r \in Party |-> <<>>]
    BY DEF Init
  <1>2. sent[p] = <<>> /\ Len(sent[p]) = 0 /\ DOMAIN sent[p] = {} /\ Len(sent[Peer(p)]) = 0
    BY <1>1, Peers
  <1>3. /\ snd[p] = IF p = Initiator THEN Initiate.snd ELSE Accept.snd
        /\ rcv[p] = IF p = Initiator THEN Initiate.rcv ELSE Accept.rcv
    BY <1>1
  <1>4. /\ Initiate.snd = [root |-> Seed, chain |-> 0, n |-> 0, mSeen |-> None, force |-> FALSE]
        /\ Accept.snd = [root |-> Seed, chain |-> None, n |-> 0, mSeen |-> None, force |-> FALSE]
        /\ Initiate.rcv = [root |-> Seed, chain |-> None, n |-> 0, nextSeq |-> 0, own |-> <<0>>,
                           peerLatest |-> None]
        /\ Accept.rcv = [root |-> Seed, chain |-> 0, n |-> 0, nextSeq |-> 0, own |-> <<>>,
                         peerLatest |-> 0]
    BY DEF Initiate, Accept
  <1>5. /\ snd[p].root = Seed /\ snd[p].n = 0 /\ snd[p].mSeen = None /\ snd[p].force = FALSE
        /\ snd[p].chain = IF p = Initiator THEN 0 ELSE None
    BY <1>3, <1>4
  <1>6. /\ rcv[p].root = Seed /\ rcv[p].n = 0 /\ rcv[p].nextSeq = 0
        /\ rcv[p].chain = (IF p = Initiator THEN None ELSE 0)
        /\ rcv[p].peerLatest = (IF p = Initiator THEN None ELSE 0)
    <2>1. CASE p = Initiator
      BY <1>3, <1>4, <2>1
    <2>2. CASE p # Initiator
      BY <1>3, <1>4, <2>2
    <2> QED BY <2>1, <2>2
  <1>7. rcv[p].own = (IF p = Initiator THEN <<0>> ELSE <<>>)
    <2>1. CASE p = Initiator
      BY <1>3, <1>4, <2>1
    <2>2. CASE p # Initiator
      BY <1>3, <1>4, <2>2
    <2> QED BY <2>1, <2>2
  <1> QED BY <1>2, <1>5, <1>6, <1>7

(* Both halves begin where their directions do.                            *)
LEMMA InitInStep == Init => InStep
  <1> SUFFICES ASSUME Init PROVE InStep
    OBVIOUS
  <1>1. /\ snd = [p \in Party |-> IF p = Initiator THEN Initiate.snd ELSE Accept.snd]
        /\ rcv = [p \in Party |-> IF p = Initiator THEN Initiate.rcv ELSE Accept.rcv]
        /\ sent = [p \in Party |-> <<>>] /\ resets = [p \in Party |-> 0]
    BY DEF Init
  <1>2. ASSUME NEW p \in Party
        PROVE  /\ snd[p] = IF p = Initiator THEN Initiate.snd ELSE Accept.snd
               /\ rcv[p] = IF p = Initiator THEN Initiate.rcv ELSE Accept.rcv
    BY <1>1
  <1>3. /\ Initiate.snd = [root |-> Seed, chain |-> 0, n |-> 0, mSeen |-> None, force |-> FALSE]
        /\ Accept.snd = [root |-> Seed, chain |-> None, n |-> 0, mSeen |-> None, force |-> FALSE]
        /\ Initiate.rcv = [root |-> Seed, chain |-> None, n |-> 0, nextSeq |-> 0, own |-> <<0>>,
                           peerLatest |-> None]
        /\ Accept.rcv = [root |-> Seed, chain |-> 0, n |-> 0, nextSeq |-> 0, own |-> <<>>,
                         peerLatest |-> 0]
    BY DEF Initiate, Accept
  <1>4. Seed \in Roots /\ None \in Turns /\ 0 \in Turns
    BY DEF Seed, Roots, Turns
  <1>5. TypeOK
    <2>1. \A p \in Party : snd[p] \in [root : Roots, chain : Turns, n : Nat, mSeen : Turns, force : BOOLEAN]
      <3>1. /\ Initiate.snd \in [root : Roots, chain : Turns, n : Nat, mSeen : Turns, force : BOOLEAN]
            /\ Accept.snd \in [root : Roots, chain : Turns, n : Nat, mSeen : Turns, force : BOOLEAN]
        BY <1>3, <1>4
      <3> QED BY <1>2, <3>1
    <2>2. \A p \in Party : rcv[p] \in [root : Roots, chain : Turns, n : Nat, nextSeq : Nat,
                                      own : Seq(Nat), peerLatest : Turns]
      <3>1. <<0>> \in Seq(Nat) /\ <<>> \in Seq(Nat)
        OBVIOUS
      <3>2. Initiate.rcv \in [root : Roots, chain : Turns, n : Nat, nextSeq : Nat,
                              own : Seq(Nat), peerLatest : Turns]
        BY <1>3, <1>4, <3>1
      <3>3. Accept.rcv \in [root : Roots, chain : Turns, n : Nat, nextSeq : Nat,
                            own : Seq(Nat), peerLatest : Turns]
        BY <1>3, <1>4, <3>1
      <3> QED BY <1>2, <3>2, <3>3
    <2>3. sent \in [Party -> Seq(Msgs)] /\ resets \in [Party -> Nat]
      BY <1>1
    <2>4. snd \in [Party -> [root : Roots, chain : Turns, n : Nat, mSeen : Turns, force : BOOLEAN]]
      BY <1>1, <2>1
    <2>5. rcv \in [Party -> [root : Roots, chain : Turns, n : Nat, nextSeq : Nat,
                            own : Seq(Nat), peerLatest : Turns]]
      BY <1>1, <2>2
    <2> QED BY <2>3, <2>4, <2>5 DEF TypeOK
  <1>6. Chained
    BY InitFields DEF Chained
  <1>7. SenderInStep
    <2> SUFFICES ASSUME NEW p \in Party
                 PROVE  /\ snd[p].root = RootAt(p, Len(sent[p]))
                        /\ snd[p].chain = ChainAt(p, Len(sent[p]))
                        /\ snd[p].n = IF snd[p].chain = None THEN 0 ELSE Minted(p)
      BY DEF SenderInStep
    <2>1. /\ Len(sent[p]) = 0 /\ snd[p].root = Seed /\ snd[p].n = 0
          /\ snd[p].chain = (IF p = Initiator THEN 0 ELSE None)
      BY InitFields
    <2> QED BY <2>1 DEF RootAt, ChainAt, TurnAt, Minted, None
  <1>8. ReaderInStep
    <2> SUFFICES ASSUME NEW p \in Party
                 PROVE  /\ rcv[p].nextSeq <= Len(sent[Peer(p)])
                        /\ rcv[p].root = RootAt(Peer(p), rcv[p].nextSeq)
                        /\ rcv[p].chain = ChainAt(Peer(p), rcv[p].nextSeq)
                        /\ rcv[p].peerLatest = TurnAt(Peer(p), rcv[p].nextSeq)
                        /\ rcv[p].chain # None => rcv[p].n = rcv[p].peerLatest
      BY DEF ReaderInStep
    <2>1. /\ Len(sent[Peer(p)]) = 0 /\ rcv[p].root = Seed /\ rcv[p].n = 0 /\ rcv[p].nextSeq = 0
          /\ rcv[p].chain = (IF p = Initiator THEN None ELSE 0)
          /\ rcv[p].peerLatest = (IF p = Initiator THEN None ELSE 0)
      BY InitFields
    <2> QED BY <2>1, Peers DEF RootAt, ChainAt, TurnAt, None
  <1>9. SeenWasRead
    <2>1. ASSUME NEW p \in Party
          PROVE  snd[p].mSeen = None /\ rcv[p].peerLatest = IF p = Initiator THEN None ELSE 0
      BY InitFields
    <2> QED BY <2>1 DEF SeenWasRead, None
  <1> QED BY <1>5, <1>6, <1>7, <1>8, <1>9 DEF InStep

(* What a step leaves of the two halves, for the parts of the invariant    *)
(* that do not speak of the own secrets.                                   *)
LEMMA SealFields ==
  ASSUME InStep, NEW p \in Party, NEW x \in Msgs,
         snd' = [snd EXCEPT ![p] = [root |-> x.key.root, chain |-> x.key.step + 1, n |-> x.n,
                                    mSeen |-> rcv[p].peerLatest, force |-> FALSE]],
         rcv' = [rcv EXCEPT ![p].own = IF x.turn THEN Retain(@, x.n) ELSE @]
  PROVE  /\ snd'[p].root = x.key.root /\ snd'[p].chain = x.key.step + 1 /\ snd'[p].n = x.n
         /\ snd'[p].mSeen = rcv[p].peerLatest /\ snd'[p].force = FALSE
         /\ snd'[Peer(p)] = snd[Peer(p)] /\ rcv'[Peer(p)] = rcv[Peer(p)]
         /\ rcv'[p].own = IF x.turn THEN Retain(rcv[p].own, x.n) ELSE rcv[p].own
         /\ \A r \in Party :
              /\ rcv'[r].root = rcv[r].root /\ rcv'[r].chain = rcv[r].chain /\ rcv'[r].n = rcv[r].n
              /\ rcv'[r].nextSeq = rcv[r].nextSeq /\ rcv'[r].peerLatest = rcv[r].peerLatest
  <1>1. p \in DOMAIN snd /\ p \in DOMAIN rcv /\ TypeOK
    BY DEF InStep, TypeOK
  <1>2. snd'[p] = [root |-> x.key.root, chain |-> x.key.step + 1, n |-> x.n,
                   mSeen |-> rcv[p].peerLatest, force |-> FALSE]
        /\ snd'[Peer(p)] = snd[Peer(p)]
    BY <1>1, Peers DEF TypeOK
  <1>3. rcv'[Peer(p)] = rcv[Peer(p)]
        /\ rcv'[p] = [rcv[p] EXCEPT !.own = IF x.turn THEN Retain(@, x.n) ELSE @]
    BY <1>1, Peers DEF TypeOK
  <1>4. rcv[p] \in [root : Roots, chain : Turns, n : Nat, nextSeq : Nat, own : Seq(Nat), peerLatest : Turns]
    BY <1>1 DEF TypeOK
  <1>5. /\ rcv'[p].root = rcv[p].root /\ rcv'[p].chain = rcv[p].chain /\ rcv'[p].n = rcv[p].n
        /\ rcv'[p].nextSeq = rcv[p].nextSeq /\ rcv'[p].peerLatest = rcv[p].peerLatest
        /\ rcv'[p].own = IF x.turn THEN Retain(rcv[p].own, x.n) ELSE rcv[p].own
    BY <1>3, <1>4
  <1>6. \A r \in Party :
          /\ rcv'[r].root = rcv[r].root /\ rcv'[r].chain = rcv[r].chain /\ rcv'[r].n = rcv[r].n
          /\ rcv'[r].nextSeq = rcv[r].nextSeq /\ rcv'[r].peerLatest = rcv[r].peerLatest
    BY <1>3, <1>5, Peers
  <1> QED BY <1>2, <1>3, <1>5, <1>6

(* A seal keeps the two sides of both directions in step.                  *)
LEMMA SealInStep ==
  ASSUME InStep, NEW p \in Party, Seal(p)
  PROVE  InStep'
  <1>1. PICK x \in Msgs : Sealed(p, x)
    BY SealNext
  <1>2. TypeOK
    BY DEF InStep
  <1>3. /\ snd'[p].root = x.key.root /\ snd'[p].chain = x.key.step + 1 /\ snd'[p].n = x.n
        /\ snd'[p].mSeen = rcv[p].peerLatest /\ snd'[p].force = FALSE
        /\ snd'[Peer(p)] = snd[Peer(p)] /\ rcv'[Peer(p)] = rcv[Peer(p)]
        /\ \A r \in Party :
             /\ rcv'[r].root = rcv[r].root /\ rcv'[r].chain = rcv[r].chain /\ rcv'[r].n = rcv[r].n
             /\ rcv'[r].nextSeq = rcv[r].nextSeq /\ rcv'[r].peerLatest = rcv[r].peerLatest
    BY <1>1, SealFields DEF Sealed
  <1>4. rcv'[p].own = IF x.turn THEN Retain(rcv[p].own, x.n) ELSE rcv[p].own
    BY <1>1, SealFields DEF Sealed
  <1>5. /\ Len(sent'[p]) = Len(sent[p]) + 1 /\ sent'[Peer(p)] = sent[Peer(p)]
        /\ sent'[p] \in Seq(Msgs) /\ DOMAIN sent'[p] = 1 .. Len(sent[p]) + 1
        /\ sent'[p][Len(sent[p]) + 1] = x
        /\ \A q \in Party : \A k \in 1 .. Len(sent[q]) : sent'[q][k] = sent[q][k]
        /\ Minted(p)' = x.n /\ Minted(Peer(p))' = Minted(Peer(p))
    BY <1>1, <1>2, AppendKeeps DEF Sealed
  <1>6. \A q \in Party : \A k \in 0 .. Len(sent[q]) :
          RootAt(q, k)' = RootAt(q, k) /\ ChainAt(q, k)' = ChainAt(q, k) /\ TurnAt(q, k)' = TurnAt(q, k)
    BY <1>1, <1>2, AppendKeeps DEF Sealed
  <1>7. \A k : k = Len(sent[p]) + 1 =>
          RootAt(p, k)' = x.key.root /\ ChainAt(p, k)' = x.key.step + 1 /\ TurnAt(p, k)' = x.n
    BY <1>1, <1>2, AppendKeeps DEF Sealed
  <1>8. x.n \in Nat /\ x.turn \in BOOLEAN /\ x.key.root \in Roots /\ x.key.step \in Nat
    BY MsgFields
  <1>9. \A q \in Party : Len(sent[q]) \in Nat /\ DOMAIN sent[q] = 1 .. Len(sent[q])
    BY <1>2, Fields
  <1>10. TypeOK'
    <2>1. snd'[p] \in [root : Roots, chain : Turns, n : Nat, mSeen : Turns, force : BOOLEAN]
      <3>1. x.key.step + 1 \in Turns /\ rcv[p].peerLatest \in Turns
        BY <1>2, <1>8, Fields DEF Turns
      <3>2. snd'[p] = [root |-> x.key.root, chain |-> x.key.step + 1, n |-> x.n,
                       mSeen |-> rcv[p].peerLatest, force |-> FALSE]
        BY <1>1, <1>2 DEF TypeOK, Sealed
      <3> QED BY <1>8, <3>1, <3>2
    <2>2. snd' \in [Party -> [root : Roots, chain : Turns, n : Nat, mSeen : Turns, force : BOOLEAN]]
      BY <1>1, <1>2, <2>1 DEF TypeOK, Sealed
    <2>3. Retain(rcv[p].own, x.n) \in Seq(Nat)
      BY <1>2, <1>8, Fields, RetainValue
    <2>4. (IF x.turn THEN Retain(rcv[p].own, x.n) ELSE rcv[p].own) \in Seq(Nat)
      BY <1>2, <2>3, Fields
    <2>5. rcv' = [rcv EXCEPT ![p].own = IF x.turn THEN Retain(rcv[p].own, x.n) ELSE rcv[p].own]
      BY <1>1 DEF Sealed
    <2>6. rcv' \in [Party -> [root : Roots, chain : Turns, n : Nat, nextSeq : Nat,
                             own : Seq(Nat), peerLatest : Turns]]
      BY <1>2, <2>4, <2>5 DEF TypeOK
    <2>7. sent' \in [Party -> Seq(Msgs)]
      <3>1. Append(sent[p], x) \in Seq(Msgs)
        BY <1>2, Fields
      <3> QED BY <1>1, <1>2, <3>1 DEF TypeOK, Sealed
    <2> QED BY <1>1, <1>2, <2>2, <2>6, <2>7 DEF TypeOK, Sealed
  <1>11. Chained'
    <2> SUFFICES ASSUME NEW r \in Party, NEW k \in DOMAIN sent'[r], NEW msg, msg = sent'[r][k]
                 PROVE  Continues(r, k - 1, msg)'
      BY DEF Chained
    <2>1. ASSUME NEW j \in 0 .. Len(sent[r]), Continues(r, j, msg)
          PROVE  Continues(r, j, msg)'
      <3>1. RootAt(r, j)' = RootAt(r, j) /\ ChainAt(r, j)' = ChainAt(r, j) /\ TurnAt(r, j)' = TurnAt(r, j)
        BY <1>6
      <3> QED BY <2>1, <3>1 DEF Continues
    <2>2. CASE k \in 1 .. Len(sent[r])
      <3>1. msg = sent[r][k] /\ k \in DOMAIN sent[r] /\ k - 1 \in 0 .. Len(sent[r])
        BY <1>5, <1>9, <2>2
      <3>2. Continues(r, k - 1, msg)
        BY <1>2, <3>1 DEF InStep, Chained
      <3> QED BY <2>1, <3>1, <3>2
    <2>3. CASE k \notin 1 .. Len(sent[r])
      <3>1. r = p /\ k = Len(sent[p]) + 1 /\ msg = x
        BY <1>5, <1>9, <2>3, Peers
      <3>2. k - 1 = Len(sent[r]) /\ k - 1 \in 0 .. Len(sent[r])
        BY <1>9, <3>1
      <3>3. Continues(r, k - 1, msg)
        BY <1>1, <3>1, <3>2 DEF Sealed
      <3> QED BY <2>1, <3>2, <3>3
    <2> QED BY <2>2, <2>3
  <1>12. SenderInStep'
    <2> SUFFICES ASSUME NEW r \in Party, NEW k, k = Len(sent'[r])
                 PROVE  /\ snd'[r].root = RootAt(r, k)' /\ snd'[r].chain = ChainAt(r, k)'
                        /\ snd'[r].n = IF snd'[r].chain = None THEN 0 ELSE TurnAt(r, k)'
      BY DEF SenderInStep, Minted
    <2>1. CASE r = p
      <3>1. RootAt(r, k)' = x.key.root /\ ChainAt(r, k)' = x.key.step + 1 /\ TurnAt(r, k)' = x.n
        BY <1>5, <1>7, <2>1
      <3> QED BY <1>3, <1>8, <2>1, <3>1 DEF None
    <2>2. CASE r = Peer(p)
      <3>1. k = Len(sent[r]) /\ k \in 0 .. Len(sent[r]) /\ snd'[r] = snd[r]
        BY <1>3, <1>5, <1>9, <2>2
      <3>2. RootAt(r, k)' = RootAt(r, k) /\ ChainAt(r, k)' = ChainAt(r, k) /\ TurnAt(r, k)' = TurnAt(r, k)
        BY <1>6, <3>1
      <3> QED BY <3>1, <3>2 DEF InStep, SenderInStep, Minted
    <2> QED BY <2>1, <2>2, Peers
  <1>13. ReaderInStep'
    <2> SUFFICES ASSUME NEW r \in Party, NEW k, k = rcv'[r].nextSeq
                 PROVE  /\ k <= Len(sent'[Peer(r)])
                        /\ rcv'[r].root = RootAt(Peer(r), k)' /\ rcv'[r].chain = ChainAt(Peer(r), k)'
                        /\ rcv'[r].peerLatest = TurnAt(Peer(r), k)'
                        /\ rcv'[r].chain # None => rcv'[r].n = rcv'[r].peerLatest
      BY DEF ReaderInStep
    <2>1. k = rcv[r].nextSeq /\ k \in 0 .. Len(sent[Peer(r)]) /\ Peer(r) \in Party
      BY <1>2, <1>3, <1>9, Fields, Peers DEF InStep, ReaderInStep
    <2>2. Len(sent[Peer(r)]) <= Len(sent'[Peer(r)])
      BY <1>5, <1>9, Peers
    <2>3. /\ RootAt(Peer(r), k)' = RootAt(Peer(r), k) /\ ChainAt(Peer(r), k)' = ChainAt(Peer(r), k)
          /\ TurnAt(Peer(r), k)' = TurnAt(Peer(r), k)
      BY <1>6, <2>1
    <2>4. /\ rcv[r].root = RootAt(Peer(r), k) /\ rcv[r].chain = ChainAt(Peer(r), k)
          /\ rcv[r].peerLatest = TurnAt(Peer(r), k)
          /\ rcv[r].chain # None => rcv[r].n = rcv[r].peerLatest
      BY <2>1 DEF InStep, ReaderInStep
    <2>5. k <= Len(sent'[Peer(r)])
      BY <1>5, <1>9, <2>1, <2>2, Peers
    <2> QED BY <1>3, <2>3, <2>4, <2>5
  <1>14. SeenWasRead'
    <2> SUFFICES ASSUME NEW r \in Party PROVE snd'[r].mSeen <= rcv'[r].peerLatest
      BY DEF SeenWasRead
    <2>1. rcv[p].peerLatest \in Int
      BY <1>2, Fields DEF Turns, None
    <2>2. snd[Peer(p)].mSeen <= rcv[Peer(p)].peerLatest
      BY Peers DEF InStep, SeenWasRead
    <2> QED BY <1>3, <2>1, <2>2, Peers
  <1> QED BY <1>10, <1>11, <1>12, <1>13, <1>14 DEF InStep

(* What an open leaves of the two halves.                                  *)
LEMMA OpenFields ==
  ASSUME InStep, NEW p \in Party, NEW x \in Msgs, NEW own,
         rcv' = [rcv EXCEPT ![p] =
           [root |-> x.key.root, chain |-> x.key.step + 1, n |-> x.n,
            nextSeq |-> rcv[p].nextSeq + 1, own |-> own, peerLatest |-> x.n]]
  PROVE  /\ rcv'[p].root = x.key.root /\ rcv'[p].chain = x.key.step + 1 /\ rcv'[p].n = x.n
         /\ rcv'[p].nextSeq = rcv[p].nextSeq + 1 /\ rcv'[p].peerLatest = x.n
         /\ rcv'[p].own = own /\ rcv'[Peer(p)] = rcv[Peer(p)]
  <1>1. rcv'[p] = [root |-> x.key.root, chain |-> x.key.step + 1, n |-> x.n,
                   nextSeq |-> rcv[p].nextSeq + 1, own |-> own, peerLatest |-> x.n]
        /\ rcv'[Peer(p)] = rcv[Peer(p)]
    BY Peers DEF InStep, TypeOK
  <1> QED BY <1>1

(* An own secret that a turn names is held, so there is a newest one.      *)
LEMMA HeadOfOwn ==
  ASSUME TypeOK, NEW p \in Party, NEW m \in Nat, m \in Retained(p)
  PROVE  /\ Len(rcv[p].own) > 0 /\ Head(rcv[p].own) = rcv[p].own[1]
         /\ \E i \in 1 .. Len(rcv[p].own) : m = rcv[p].own[i]
  <1>1. rcv[p].own \in Seq(Nat)
    BY Fields
  <1>2. PICK i \in DOMAIN rcv[p].own : m = rcv[p].own[i]
    BY DEF Retained, ToSet
  <1> QED BY <1>1, <1>2

(* An open keeps the two sides of both directions in step.                 *)
LEMMA OpenInStep ==
  ASSUME InStep, NEW p \in Party, Open(p)
  PROVE  InStep'
  <1>1. PICK x \in Msgs : Opened(p, x)
    BY OpenNext
  <1>2. TypeOK /\ Peer(p) \in Party
    BY Peers DEF InStep
  <1> DEFINE own == OwnAfter(p, x)
  <1>3. x.n \in Nat /\ x.m \in Nat /\ x.key.root \in Roots /\ x.key.step \in Nat
    BY MsgFields
  <1>4. own \in Seq(Nat)
    <2>1. <<x.m>> \in Seq(Nat) /\ rcv[p].own \in Seq(Nat)
      BY <1>2, <1>3, Fields
    <2> QED BY <2>1 DEF OwnAfter
  <1>5. rcv' = [rcv EXCEPT ![p] =
           [root |-> x.key.root, chain |-> x.key.step + 1, n |-> x.n,
            nextSeq |-> rcv[p].nextSeq + 1, own |-> own, peerLatest |-> x.n]]
    BY <1>1 DEF Opened
  <1> HIDE DEF own
  <1>6. /\ snd' = snd /\ sent' = sent /\ resets' = resets
         /\ rcv[p].nextSeq + 1 \in DOMAIN sent[Peer(p)]
         /\ x = sent[Peer(p)][rcv[p].nextSeq + 1]
         /\ Continues(Peer(p), rcv[p].nextSeq, x)
    BY <1>1 DEF Opened
  <1>7. /\ rcv'[p].root = x.key.root /\ rcv'[p].chain = x.key.step + 1 /\ rcv'[p].n = x.n
        /\ rcv'[p].nextSeq = rcv[p].nextSeq + 1 /\ rcv'[p].peerLatest = x.n
        /\ rcv'[Peer(p)] = rcv[Peer(p)]
    BY <1>5, OpenFields
  <1>8. \A q, k : RootAt(q, k)' = RootAt(q, k) /\ ChainAt(q, k)' = ChainAt(q, k) /\ TurnAt(q, k)' = TurnAt(q, k)
    BY <1>6 DEF RootAt, ChainAt, TurnAt
  <1>9. rcv[p].nextSeq \in Nat /\ rcv[p].nextSeq + 1 <= Len(sent[Peer(p)])
    BY <1>6, <1>2, Fields
  <1>10. TypeOK'
    <2>1. x.key.step + 1 \in Turns /\ x.n \in Turns /\ rcv[p].nextSeq + 1 \in Nat
      BY <1>3, <1>9 DEF Turns
    <2>2. [root |-> x.key.root, chain |-> x.key.step + 1, n |-> x.n,
           nextSeq |-> rcv[p].nextSeq + 1, own |-> own, peerLatest |-> x.n]
            \in [root : Roots, chain : Turns, n : Nat, nextSeq : Nat, own : Seq(Nat), peerLatest : Turns]
      BY <1>3, <1>4, <2>1
    <2>3. rcv' \in [Party -> [root : Roots, chain : Turns, n : Nat, nextSeq : Nat,
                             own : Seq(Nat), peerLatest : Turns]]
      BY <1>2, <1>5, <2>2 DEF TypeOK
    <2> QED BY <1>6, <1>2, <2>3 DEF TypeOK
  <1>11. Chained'
    BY <1>6, <1>8 DEF InStep, Chained, Continues
  <1>12. SenderInStep'
    BY <1>6, <1>8 DEF InStep, SenderInStep, Minted
  <1>13. ReaderInStep'
    <2> SUFFICES ASSUME NEW r \in Party, NEW k, k = rcv'[r].nextSeq
                 PROVE  /\ k <= Len(sent'[Peer(r)])
                        /\ rcv'[r].root = RootAt(Peer(r), k)' /\ rcv'[r].chain = ChainAt(Peer(r), k)'
                        /\ rcv'[r].peerLatest = TurnAt(Peer(r), k)'
                        /\ rcv'[r].chain # None => rcv'[r].n = rcv'[r].peerLatest
      BY DEF ReaderInStep
    <2>1. CASE r = p
      <3>1. k = rcv[p].nextSeq + 1 /\ k # 0 /\ k <= Len(sent'[Peer(p)])
        BY <1>6, <1>7, <1>9, <2>1
      <3>2. /\ RootAt(Peer(p), k) = x.key.root /\ ChainAt(Peer(p), k) = x.key.step + 1
            /\ TurnAt(Peer(p), k) = x.n
        BY <1>6, <3>1 DEF RootAt, ChainAt, TurnAt
      <3> QED BY <1>7, <1>8, <2>1, <3>1, <3>2
    <2>2. CASE r = Peer(p)
      BY <1>6, <1>7, <1>8, <2>2 DEF InStep, ReaderInStep
    <2> QED BY <2>1, <2>2, Peers
  <1>14. SeenWasRead'
    <2>1. rcv[p].peerLatest = TurnAt(Peer(p), rcv[p].nextSeq) /\ rcv[p].peerLatest \in Int
      BY <1>2, Fields DEF InStep, ReaderInStep, Turns, None
    <2>2. rcv[p].peerLatest <= x.n
      BY <1>6, <1>3, <2>1 DEF Continues
    <2>3. snd[p].mSeen <= rcv[p].peerLatest /\ snd[p].mSeen \in Int
      BY <1>2, Fields DEF InStep, SeenWasRead, Turns, None
    <2>4. snd'[p].mSeen <= rcv'[p].peerLatest
      BY <1>6, <1>3, <1>7, <2>1, <2>2, <2>3
    <2>5. snd'[Peer(p)].mSeen <= rcv'[Peer(p)].peerLatest
      BY <1>6, <1>2, <1>7 DEF InStep, SeenWasRead
    <2> QED BY <2>4, <2>5, Peers DEF SeenWasRead
  <1> QED BY <1>10, <1>11, <1>12, <1>13, <1>14 DEF InStep

(* What a reset leaves of the two halves.                                  *)
LEMMA ResetFields ==
  ASSUME InStep, NEW p \in Party, Reset(p)
  PROVE  /\ \A r \in Party : /\ snd'[r].root = snd[r].root /\ snd'[r].chain = snd[r].chain
                             /\ snd'[r].n = snd[r].n /\ snd'[r].mSeen = snd[r].mSeen
         /\ snd'[p].force = TRUE /\ snd'[Peer(p)] = snd[Peer(p)]
         /\ rcv' = rcv /\ sent' = sent
         /\ TypeOK' /\ TotalResets' = TotalResets + 1
  <1>1. TypeOK
    BY DEF InStep
  <1>2. snd' = [snd EXCEPT ![p].force = TRUE] /\ resets' = [resets EXCEPT ![p] = @ + 1]
        /\ rcv' = rcv /\ sent' = sent
    BY DEF Reset
  <1>3. snd'[p] = [snd[p] EXCEPT !.force = TRUE] /\ snd'[Peer(p)] = snd[Peer(p)]
    BY <1>1, <1>2, Peers DEF TypeOK
  <1>4. snd[p] \in [root : Roots, chain : Turns, n : Nat, mSeen : Turns, force : BOOLEAN]
    BY <1>1 DEF TypeOK
  <1>5. /\ snd'[p].root = snd[p].root /\ snd'[p].chain = snd[p].chain
        /\ snd'[p].n = snd[p].n /\ snd'[p].mSeen = snd[p].mSeen /\ snd'[p].force = TRUE
    BY <1>3, <1>4
  <1>6. \A r \in Party : /\ snd'[r].root = snd[r].root /\ snd'[r].chain = snd[r].chain
                        /\ snd'[r].n = snd[r].n /\ snd'[r].mSeen = snd[r].mSeen
    <2>1. ASSUME NEW r \in Party, r # p PROVE snd'[r] = snd[r]
      BY <1>3, <2>1, Peers
    <2> QED BY <1>5, <2>1
  <1>7. resets'[p] = resets[p] + 1 /\ resets'[Peer(p)] = resets[Peer(p)]
        /\ resets' \in [Party -> Nat] /\ \A r \in Party : resets[r] \in Nat
    BY <1>1, <1>2, Peers DEF TypeOK
  <1>8. snd'[p] \in [root : Roots, chain : Turns, n : Nat, mSeen : Turns, force : BOOLEAN]
    BY <1>3, <1>4
  <1>9. TypeOK'
    BY <1>1, <1>2, <1>7, <1>8 DEF TypeOK
  <1>10. TotalResets' = TotalResets + 1
    <2>1. TotalResets = resets[p] + resets[Peer(p)] /\ TotalResets' = resets'[p] + resets'[Peer(p)]
      BY <1>7, PartiesDiffer DEF TotalResets, Party, Peer
    <2> QED BY <1>7, <2>1, Peers
  <1> QED BY <1>2, <1>3, <1>5, <1>6, <1>9, <1>10

(* Every step keeps the two sides of both directions in step.              *)
LEMMA StepInStep == InStep /\ [Next]_vars => InStep'
  <1> SUFFICES ASSUME InStep, [Next]_vars PROVE InStep'
    OBVIOUS
  <1>1. ASSUME NEW p \in Party, Reset(p) PROVE InStep'
    <2>1. /\ \A r \in Party : /\ snd'[r].root = snd[r].root /\ snd'[r].chain = snd[r].chain
                             /\ snd'[r].n = snd[r].n /\ snd'[r].mSeen = snd[r].mSeen
          /\ rcv' = rcv /\ sent' = sent /\ TypeOK'
      BY <1>1, ResetFields
    <2>2. \A q, k : RootAt(q, k)' = RootAt(q, k) /\ ChainAt(q, k)' = ChainAt(q, k) /\ TurnAt(q, k)' = TurnAt(q, k)
      BY <2>1 DEF RootAt, ChainAt, TurnAt
    <2>3. Chained'
      BY <2>1, <2>2 DEF InStep, Chained, Continues
    <2>4. SenderInStep'
      BY <2>1, <2>2 DEF InStep, SenderInStep, Minted
    <2>5. ReaderInStep'
      BY <2>1, <2>2 DEF InStep, ReaderInStep
    <2>6. SeenWasRead'
      BY <2>1 DEF InStep, SeenWasRead
    <2> QED BY <2>1, <2>3, <2>4, <2>5, <2>6 DEF InStep
  <1>2. CASE UNCHANGED vars
    <2>1. snd' = snd /\ rcv' = rcv /\ sent' = sent /\ resets' = resets
      BY <1>2 DEF vars
    <2>2. \A q, k : RootAt(q, k)' = RootAt(q, k) /\ ChainAt(q, k)' = ChainAt(q, k) /\ TurnAt(q, k)' = TurnAt(q, k)
      BY <2>1 DEF RootAt, ChainAt, TurnAt
    <2>3. TypeOK'
      BY <2>1 DEF InStep, TypeOK
    <2>4. Chained'
      BY <2>1, <2>2 DEF InStep, Chained, Continues
    <2>5. SenderInStep'
      BY <2>1, <2>2 DEF InStep, SenderInStep, Minted
    <2>6. ReaderInStep' /\ SeenWasRead'
      BY <2>1, <2>2 DEF InStep, ReaderInStep, SeenWasRead
    <2> QED BY <2>3, <2>4, <2>5, <2>6 DEF InStep
  <1> QED BY <1>1, <1>2, SealInStep, OpenInStep DEF Next

-----------------------------------------------------------------------------
(* A message's key comes after the one before it, and its root is of its   *)
(* sender: a turn makes the root longer, any other message moves the chain.*)
LEMMA NextKey ==
  ASSUME InStep, KeysOwned, NEW p \in Party, NEW x \in Msgs, Continues(p, Len(sent[p]), x)
  PROVE  /\ RootOf(p, x.key.root)
         /\ Len(sent[p]) > 0 => KeyBefore(sent[p][Len(sent[p])].key, x.key)
  <1> DEFINE k == Len(sent[p])
  <1>1. TypeOK /\ k \in Nat /\ k \in 0 .. k
    BY Fields DEF InStep
  <1>2. RootAt(p, k) \in Roots
    BY <1>1, Positions
  <1>3. k > 0 => RootAt(p, k) = sent[p][k].key.root /\ ChainAt(p, k) = sent[p][k].key.step + 1
    BY <1>1 DEF RootAt, ChainAt
  <1>4. k > 0 => sent[p][k] \in Msgs /\ sent[p][k].key.step \in Nat
    BY <1>1, Positions, MsgFields
  <1> HIDE DEF k
  <1>5. Continues(p, k, x)
    BY DEF k
  <1>6. CASE x.turn
    <2>1. /\ x.key.root = Append(RootAt(p, k), [by |-> p, n |-> x.n, m |-> x.m])
      BY <1>5, <1>6 DEF Continues, AdvanceRoot
    <2>2. Len(x.key.root) = Len(RootAt(p, k)) + 1 /\ x.key.root[Len(x.key.root)].by = p
          /\ Len(RootAt(p, k)) \in Nat
      BY <1>2, <2>1 DEF Roots
    <2>3. x.key.root # Seed
      BY <2>2 DEF Seed
    <2>4. k > 0 => KeyBefore(sent[p][k].key, x.key)
      BY <1>3, <2>2 DEF KeyBefore
    <2> QED BY <2>2, <2>3, <2>4 DEF RootOf, k
  <1>7. CASE ~x.turn
    <2>1. ChainAt(p, k) # None /\ x.key.root = RootAt(p, k) /\ x.key.step = ChainAt(p, k)
      BY <1>5, <1>7 DEF Continues
    <2>2. CASE k = 0
      <3>1. p = Initiator /\ x.key.root = Seed
        BY <2>1, <2>2 DEF ChainAt, RootAt
      <3> QED BY <1>1, <2>2, <3>1 DEF RootOf, k
    <2>3. CASE k # 0
      <3>1. k > 0 /\ k \in DOMAIN sent[p]
        BY <1>1, <2>3, Fields DEF k
      <3>2. RootOf(p, x.key.root)
        BY <1>3, <2>1, <3>1 DEF KeysOwned
      <3>3. KeyBefore(sent[p][k].key, x.key)
        BY <1>3, <1>4, <2>1, <3>1 DEF KeyBefore
      <3> QED BY <3>2, <3>3 DEF k
    <2> QED BY <2>2, <2>3
  <1> QED BY <1>6, <1>7 DEF k

(* The order of keys is transitive.                                        *)
LEMMA KeyBeforeTrans ==
  ASSUME NEW a, NEW b, NEW c, KeyBefore(a, b), KeyBefore(b, c),
         a.root \in Roots, b.root \in Roots, c.root \in Roots,
         a.step \in Nat, b.step \in Nat, c.step \in Nat
  PROVE  KeyBefore(a, c)
  <1>1. Len(a.root) \in Nat /\ Len(b.root) \in Nat /\ Len(c.root) \in Nat
    BY DEF Roots
  <1> QED BY <1>1 DEF KeyBefore

(* Every step keeps the keys of a direction in their order, and its own.   *)
LEMMA StepKeys == KeyInv /\ [Next]_vars => KeyInv'
  <1> SUFFICES ASSUME KeyInv, [Next]_vars PROVE KeyInv'
    OBVIOUS
  <1>1. InStep /\ InStep'
    BY StepInStep DEF KeyInv
  <1>2. ASSUME sent' = sent PROVE KeyInv'
    BY <1>1, <1>2 DEF KeyInv, KeysAscend, KeysOwned
  <1>3. ASSUME NEW p \in Party, Seal(p) PROVE KeysAscend' /\ KeysOwned'
    <2>1. PICK x \in Msgs : sent' = [sent EXCEPT ![p] = Append(@, x)] /\ Continues(p, Len(sent[p]), x)
      BY <1>1, <1>3, SealNext DEF Sealed
    <2>2. /\ sent'[Peer(p)] = sent[Peer(p)] /\ sent'[p][Len(sent[p]) + 1] = x
          /\ DOMAIN sent'[p] = 1 .. Len(sent[p]) + 1
          /\ \A k \in 1 .. Len(sent[p]) : sent'[p][k] = sent[p][k]
      BY <1>1, <2>1, AppendKeeps DEF InStep
    <2>3. /\ RootOf(p, x.key.root)
          /\ Len(sent[p]) > 0 => KeyBefore(sent[p][Len(sent[p])].key, x.key)
      BY <1>1, <2>1, NextKey DEF KeyInv
    <2>4. Len(sent[p]) \in Nat /\ DOMAIN sent[p] = 1 .. Len(sent[p])
      BY <1>1, Fields DEF InStep
    <2>5. \A k \in 1 .. Len(sent[p]) : sent[p][k] \in Msgs
      BY <1>1, Fields DEF InStep
    <2>6. ASSUME NEW i \in DOMAIN sent'[p] PROVE RootOf(p, sent'[p][i].key.root)
      BY <2>2, <2>3, <2>4 DEF KeyInv, KeysOwned
    <2>7. KeysOwned'
      <3>1. ASSUME NEW i \in DOMAIN sent'[Peer(p)] PROVE RootOf(Peer(p), sent'[Peer(p)][i].key.root)
        BY <2>2, Peers DEF KeyInv, KeysOwned
      <3>2. ASSUME NEW r \in Party, NEW i \in DOMAIN sent'[r] PROVE RootOf(r, sent'[r][i].key.root)
        BY <2>6, <3>1, Peers
      <3> QED BY <3>2 DEF KeysOwned, RootOf
    <2>8. ASSUME NEW i \in DOMAIN sent'[p], NEW j \in DOMAIN sent'[p], i < j
          PROVE  KeyBefore(sent'[p][i].key, sent'[p][j].key)
      <3>1. i \in 1 .. Len(sent[p]) /\ sent'[p][i] = sent[p][i] /\ i \in DOMAIN sent[p]
        BY <2>2, <2>4, <2>8
      <3>2. CASE j \in DOMAIN sent[p]
        BY <2>2, <2>4, <2>8, <3>1, <3>2 DEF KeyInv, KeysAscend
      <3>3. CASE j \notin DOMAIN sent[p]
        <4>1. sent'[p][j] = x /\ Len(sent[p]) > 0 /\ Len(sent[p]) \in 1 .. Len(sent[p])
          BY <2>2, <2>4, <3>1, <3>3
        <4>2. KeyBefore(sent[p][Len(sent[p])].key, x.key)
          BY <2>3, <4>1
        <4>3. CASE i = Len(sent[p])
          BY <3>1, <4>1, <4>2, <4>3
        <4>4. CASE i # Len(sent[p])
          <5>1. KeyBefore(sent[p][i].key, sent[p][Len(sent[p])].key)
            BY <2>4, <3>1, <4>1, <4>4 DEF KeyInv, KeysAscend
          <5>2. sent[p][i] \in Msgs /\ sent[p][Len(sent[p])] \in Msgs
            BY <2>5, <3>1, <4>1
          <5>3. KeyBefore(sent[p][i].key, x.key)
            BY <4>2, <5>1, <5>2, MsgFields, KeyBeforeTrans
          <5> QED BY <3>1, <4>1, <5>3
        <4> QED BY <4>3, <4>4
      <3> QED BY <3>2, <3>3
    <2>9. KeysAscend'
      <3>1. ASSUME NEW i \in DOMAIN sent'[Peer(p)], NEW j \in DOMAIN sent'[Peer(p)], i < j
            PROVE  KeyBefore(sent'[Peer(p)][i].key, sent'[Peer(p)][j].key)
        BY <2>2, <3>1, Peers DEF KeyInv, KeysAscend
      <3>2. ASSUME NEW r \in Party, NEW i \in DOMAIN sent'[r], NEW j \in DOMAIN sent'[r], i < j
            PROVE  KeyBefore(sent'[r][i].key, sent'[r][j].key)
        BY <2>8, <3>1, <3>2, Peers
      <3> QED BY <3>2 DEF KeysAscend, KeyBefore
    <2> QED BY <2>7, <2>9
  <1>4. ASSUME NEW p \in Party, Open(p) \/ Reset(p) PROVE sent' = sent
    BY <1>4 DEF Open, Reset
  <1> QED BY <1>1, <1>2, <1>3, <1>4 DEF Next, vars, KeyInv

(* The two sides of each direction stay in step and its keys in order.     *)
THEOREM KeyInvariant == Spec => []KeyInv
  <1>1. Init => KeyInv
    <2>1. ASSUME Init PROVE KeysAscend /\ KeysOwned
      <3>1. \A p \in Party : DOMAIN sent[p] = {}
        BY <2>1, InitFields
      <3> QED BY <3>1 DEF KeysAscend, KeysOwned
    <2> QED BY <2>1, InitInStep DEF KeyInv
  <1> QED BY <1>1, StepKeys, PTL DEF Spec

(* TypeOK: every field of the two halves keeps its type (dm/chain.rs).     *)
THEOREM TypeCorrect == Spec => []TypeOK
  <1>1. KeyInv => TypeOK
    BY DEF KeyInv, InStep
  <1> QED BY <1>1, KeyInvariant, PTL

(* CaughtUpAgrees: what Direction::seal and Receiving::open derive for one *)
(* direction is the same, however turns and resets interleave, so a reader *)
(* that has opened everything continues where the sender does.             *)
THEOREM SidesAgree == Spec => []CaughtUpAgrees
  <1>1. ASSUME KeyInv, NEW p \in Party, ~Waiting(p)
        PROVE  /\ rcv[p].root = snd[Peer(p)].root /\ rcv[p].chain = snd[Peer(p)].chain
               /\ rcv[p].chain # None => rcv[p].n = snd[Peer(p)].n
    <2>1. rcv[p].nextSeq = Len(sent[Peer(p)]) /\ Peer(p) \in Party
      BY <1>1, Fields, Peers DEF KeyInv, InStep, ReaderInStep, Waiting
    <2> QED BY <1>1, <2>1 DEF KeyInv, InStep, ReaderInStep, SenderInStep, Minted
  <1>2. KeyInv => CaughtUpAgrees
    BY <1>1 DEF CaughtUpAgrees
  <1> QED BY <1>2, KeyInvariant, PTL

(* NoKeyReuse: Direction::seal never uses a message key twice, although    *)
(* both directions start from one seed and a reset may force a turn at any *)
(* point: within a direction keys ascend, and a root names its direction.  *)
THEOREM KeysUsedOnce == Spec => []NoKeyReuse
  <1>1. ASSUME KeyInv, NEW p \in Party, NEW q \in Party, NEW i \in DOMAIN sent[p], NEW j \in DOMAIN sent[q],
               sent[p][i].key = sent[q][j].key
        PROVE  p = q /\ i = j
    <2>1. RootOf(p, sent[p][i].key.root) /\ RootOf(q, sent[p][i].key.root)
      BY <1>1 DEF KeyInv, KeysOwned
    <2>2. p = q
      BY <2>1, Peers DEF RootOf
    <2>3. i \in Nat /\ j \in Nat /\ j \in DOMAIN sent[p] /\ sent[p][i] \in Msgs /\ sent[p][j] \in Msgs
      BY <1>1, <2>2, Fields DEF KeyInv, InStep
    <2>4. ~KeyBefore(sent[p][i].key, sent[p][i].key)
      BY <2>3, MsgFields DEF KeyBefore, Roots
    <2>5. ~(i < j) /\ ~(j < i)
      BY <1>1, <2>2, <2>3, <2>4 DEF KeyInv, KeysAscend
    <2> QED BY <2>2, <2>3, <2>5
  <1>2. KeyInv => NoKeyReuse
    BY <1>1 DEF NoKeyReuse
  <1> QED BY <1>2, KeyInvariant, PTL

-----------------------------------------------------------------------------
(* The turn counts are integers.                                           *)
LEMMA Counts ==
  ASSUME InStep, NEW p \in Party
  PROVE  /\ Minted(p) \in Turns /\ Minted(p) \in Int /\ rcv[p].peerLatest \in Turns
         /\ rcv[p].peerLatest \in Int /\ Due(p) \in {0, 1} /\ TotalResets \in Nat
         /\ rcv[p].nextSeq \in 0 .. Len(sent[Peer(p)])
         /\ rcv[p].peerLatest = TurnAt(Peer(p), rcv[p].nextSeq)
  <1>1. TypeOK /\ Len(sent[p]) \in 0 .. Len(sent[p])
    BY Fields DEF InStep
  <1>2. Minted(p) \in Turns /\ rcv[p].peerLatest \in Turns
    BY <1>1, Positions, Fields DEF Minted
  <1>3. rcv[p].nextSeq \in 0 .. Len(sent[Peer(p)])
        /\ rcv[p].peerLatest = TurnAt(Peer(p), rcv[p].nextSeq)
    BY <1>1, Fields, Peers DEF InStep, ReaderInStep
  <1>4. Due(p) \in {0, 1}
    BY DEF Due
  <1> QED BY <1>1, <1>2, <1>3, <1>4, ResetsSum DEF Turns, None

(* A direction's turns go up to the last one minted.                       *)
LEMMA TurnsMinted ==
  ASSUME InStep, TurnsAscend, NEW p \in Party, NEW k \in 0 .. Len(sent[p])
  PROVE  TurnAt(p, k) <= Minted(p)
  <1> DEFINE n == Len(sent[p])
  <1>1. n \in Nat /\ DOMAIN sent[p] = 1 .. n /\ Minted(p) \in Int
    BY Counts, Fields DEF InStep
  <1>2. CASE k = n
    BY <1>1, <1>2 DEF Minted
  <1>3. CASE k # n
    <2>1. n \in DOMAIN sent[p] /\ k < n /\ n # 0
      BY <1>1, <1>3
    <2>2. TurnAt(p, k) <= sent[p][n].n
      BY <2>1 DEF TurnsAscend
    <2>3. TurnAt(p, n) = sent[p][n].n
      BY <2>1 DEF TurnAt
    <2> QED BY <2>2, <2>3 DEF Minted
  <1> QED BY <1>2, <1>3

(* A reader has read no turn that was not minted.                          *)
LEMMA LatestMinted ==
  ASSUME InStep, TurnsAscend, NEW p \in Party
  PROVE  rcv[p].peerLatest <= Minted(Peer(p))
  BY Counts, Peers, TurnsMinted

(* A seal mints the turn that was due, if one was.                         *)
LEMMA SealTurns ==
  ASSUME InStep, NEW p \in Party, NEW x \in Msgs, Sealed(p, x)
  PROVE  /\ x.n = IF x.turn THEN Minted(p) + 1 ELSE Minted(p)
         /\ Minted(p)' = x.n /\ Minted(Peer(p))' = Minted(Peer(p))
         /\ \A r \in Party : rcv'[r].peerLatest = rcv[r].peerLatest /\ rcv'[r].nextSeq = rcv[r].nextSeq
         /\ Due(p) = (IF x.turn THEN 1 ELSE 0) /\ Due(p)' = 0 /\ Due(Peer(p))' = Due(Peer(p))
         /\ TotalResets' = TotalResets
  <1>1. TypeOK
    BY DEF InStep
  <1>2. /\ snd'[p].mSeen = rcv[p].peerLatest /\ snd'[p].force = FALSE
        /\ snd'[Peer(p)] = snd[Peer(p)]
        /\ \A r \in Party : rcv'[r].peerLatest = rcv[r].peerLatest /\ rcv'[r].nextSeq = rcv[r].nextSeq
    BY SealFields DEF Sealed
  <1>3. Minted(p)' = x.n /\ Minted(Peer(p))' = Minted(Peer(p))
    BY <1>1, AppendKeeps DEF Sealed
  <1>4. x.n = IF x.turn THEN Minted(p) + 1 ELSE Minted(p)
    BY DEF Sealed, Continues, Minted
  <1>5. Due(p) = (IF x.turn THEN 1 ELSE 0)
    BY DEF Sealed, Due
  <1>6. Due(p)' = 0
    <2>1. rcv[p].peerLatest \in Int
      BY Counts
    <2>2. ~(snd'[p].force \/ rcv'[p].peerLatest > snd'[p].mSeen)
      BY <1>2, <2>1
    <2> QED BY <2>2 DEF Due, TurnDue
  <1>7. Due(Peer(p))' = Due(Peer(p))
    BY <1>2, Peers DEF Due, TurnDue
  <1>8. TotalResets' = TotalResets
    BY DEF Sealed, TotalResets
  <1> QED BY <1>2, <1>3, <1>4, <1>5, <1>6, <1>7, <1>8

(* An open makes a turn due at most when it read one.                      *)
LEMMA OpenTurns ==
  ASSUME InStep, NEW p \in Party, NEW x \in Msgs, Opened(p, x)
  PROVE  /\ \A r \in Party : Minted(r)' = Minted(r)
         /\ rcv'[p].peerLatest = x.n /\ rcv'[Peer(p)] = rcv[Peer(p)]
         /\ x.n = IF x.turn THEN rcv[p].peerLatest + 1 ELSE rcv[p].peerLatest
         /\ rcv'[p].nextSeq = rcv[p].nextSeq + 1
         /\ Due(p)' <= Due(p) + (IF x.turn THEN 1 ELSE 0) /\ Due(p)' \in {0, 1}
         /\ Due(Peer(p))' = Due(Peer(p))
         /\ TotalResets' = TotalResets /\ sent' = sent
  <1>1. /\ rcv'[p].peerLatest = x.n /\ rcv'[Peer(p)] = rcv[Peer(p)]
        /\ rcv'[p].nextSeq = rcv[p].nextSeq + 1
    <2> DEFINE own == OwnAfter(p, x)
    <2>1. rcv' = [rcv EXCEPT ![p] =
             [root |-> x.key.root, chain |-> x.key.step + 1, n |-> x.n,
              nextSeq |-> rcv[p].nextSeq + 1, own |-> own, peerLatest |-> x.n]]
      BY DEF Opened
    <2> HIDE DEF own
    <2> QED BY <2>1, OpenFields
  <1>2. snd' = snd /\ sent' = sent /\ resets' = resets
    BY DEF Opened
  <1>3. \A r \in Party : Minted(r)' = Minted(r)
    BY <1>2 DEF Minted, TurnAt
  <1>4. rcv[p].peerLatest = TurnAt(Peer(p), rcv[p].nextSeq)
    BY Counts
  <1>5. x.n = IF x.turn THEN rcv[p].peerLatest + 1 ELSE rcv[p].peerLatest
    BY <1>4 DEF Opened, Continues
  <1>6. Due(p)' \in {0, 1} /\ Due(p) \in {0, 1}
    BY DEF Due
  <1>7. ~x.turn => Due(p)' = Due(p)
    BY <1>1, <1>2, <1>5 DEF Due, TurnDue
  <1>8. Due(p)' <= Due(p) + (IF x.turn THEN 1 ELSE 0)
    BY <1>6, <1>7
  <1>9. Due(Peer(p))' = Due(Peer(p)) /\ TotalResets' = TotalResets
    BY <1>1, <1>2 DEF Due, TurnDue, TotalResets
  <1> QED BY <1>1, <1>2, <1>3, <1>5, <1>6, <1>8, <1>9

(* A reset makes one turn due at most.                                     *)
LEMMA ResetTurns ==
  ASSUME InStep, NEW p \in Party, Reset(p)
  PROVE  /\ \A r \in Party : Minted(r)' = Minted(r)
         /\ Due(p)' <= Due(p) + 1 /\ Due(p)' \in {0, 1} /\ Due(Peer(p))' = Due(Peer(p))
         /\ TotalResets' = TotalResets + 1 /\ sent' = sent /\ rcv' = rcv
  <1>1. snd'[Peer(p)] = snd[Peer(p)] /\ rcv' = rcv /\ sent' = sent /\ TotalResets' = TotalResets + 1
    BY ResetFields
  <1>2. \A r \in Party : Minted(r)' = Minted(r)
    BY <1>1 DEF Minted, TurnAt
  <1>3. Due(p)' \in {0, 1} /\ Due(p) \in {0, 1}
    BY DEF Due
  <1>4. Due(Peer(p))' = Due(Peer(p))
    BY <1>1 DEF Due, TurnDue
  <1> QED BY <1>1, <1>2, <1>3, <1>4

-----------------------------------------------------------------------------
(* Turn numbers keep ascending.                                            *)
LEMMA StepTurnsAscend ==
  ASSUME InStep, TurnsAscend, NEW p \in Party, NEW x \in Msgs, Sealed(p, x)
  PROVE  TurnsAscend'
  <1>1. TypeOK
    BY DEF InStep
  <1>2. /\ Len(sent'[p]) = Len(sent[p]) + 1 /\ sent'[Peer(p)] = sent[Peer(p)]
        /\ DOMAIN sent'[p] = 1 .. Len(sent[p]) + 1 /\ sent'[p][Len(sent[p]) + 1] = x
        /\ \A q \in Party : \A k \in 1 .. Len(sent[q]) : sent'[q][k] = sent[q][k]
    BY <1>1, AppendKeeps DEF Sealed
  <1>3. \A q \in Party : \A k \in 0 .. Len(sent[q]) : TurnAt(q, k)' = TurnAt(q, k)
    BY <1>1, AppendKeeps DEF Sealed
  <1>4. x.n = (IF x.turn THEN Minted(p) + 1 ELSE Minted(p)) /\ x.turn \in BOOLEAN /\ Minted(p) \in Int
    BY SealTurns, MsgFields, Counts
  <1>5. \A q \in Party : Len(sent[q]) \in Nat /\ DOMAIN sent[q] = 1 .. Len(sent[q])
    BY <1>1, Fields
  <1>6. \A k \in 0 .. Len(sent[p]) : TurnAt(p, k) <= Minted(p)
    BY TurnsMinted
  <1>7. ASSUME NEW r \in Party, NEW k \in 0 .. Len(sent'[r]), NEW j \in DOMAIN sent'[r], k < j
        PROVE  /\ TurnAt(r, k)' <= sent'[r][j].n
               /\ sent'[r][j].turn => TurnAt(r, k)' < sent'[r][j].n
    <2>1. CASE j \in DOMAIN sent[r]
      <3>1. j \in 1 .. Len(sent[r]) /\ k \in 0 .. Len(sent[r])
        BY <1>5, <1>7, <2>1
      <3>3. sent'[r][j] = sent[r][j]
        BY <1>2, <3>1
      <3>2. /\ TurnAt(r, k) <= sent[r][j].n
            /\ sent[r][j].turn => TurnAt(r, k) < sent[r][j].n
        BY <1>7, <2>1, <3>1 DEF TurnsAscend
      <3> QED BY <1>3, <3>1, <3>2, <3>3
    <2>2. CASE j \notin DOMAIN sent[r]
      <3>1. r = p /\ j = Len(sent[p]) + 1 /\ sent'[r][j] = x
        BY <1>2, <1>5, <2>2, Peers
      <3>2. k \in 0 .. Len(sent[p])
        BY <1>2, <1>5, <1>7, <3>1
      <3>3. TurnAt(p, k)' = TurnAt(p, k) /\ TurnAt(p, k) <= Minted(p) /\ TurnAt(p, k) \in Int
        BY <1>1, <1>3, <1>6, <3>2, Positions DEF Turns, None
      <3> QED BY <1>4, <3>1, <3>3
    <2> QED BY <2>1, <2>2
  <1> QED BY <1>7 DEF TurnsAscend

(* The tokens of a conversation: a seal passes one on, only a reset adds.  *)
LEMMA StepTokens ==
  ASSUME InStep, TokensCounted, NEW p \in Party, NEW r \in Party,
         \/ \E x \in Msgs : Sealed(p, x) \/ Opened(p, x)
         \/ Reset(p)
  PROVE  (Unread(r) + Unread(Peer(r)) + Due(r) + Due(Peer(r)) <= 1 + TotalResets)'
  <1> DEFINE q == Peer(p)
  <1>1. q \in Party /\ Peer(q) = p /\ (r = p \/ r = q)
    BY Peers
  <1>2. /\ Minted(p) \in Int /\ Minted(q) \in Int /\ rcv[p].peerLatest \in Int /\ rcv[q].peerLatest \in Int
        /\ Due(p) \in {0, 1} /\ Due(q) \in {0, 1} /\ TotalResets \in Nat
    BY <1>1, Counts
  <1>3. Minted(p) - rcv[q].peerLatest + (Minted(q) - rcv[p].peerLatest) + Due(p) + Due(q) <= 1 + TotalResets
    BY <1>1, <1>2 DEF TokensCounted, Unread
  <1>4. ASSUME Minted(p)' - rcv'[q].peerLatest + (Minted(q)' - rcv'[p].peerLatest) + Due(p)' + Due(q)'
                 <= 1 + TotalResets',
               Minted(p)' \in Int, Minted(q)' \in Int, rcv'[q].peerLatest \in Int,
               rcv'[p].peerLatest \in Int, Due(p)' \in Int, Due(q)' \in Int, TotalResets' \in Int
        PROVE  (Unread(r) + Unread(Peer(r)) + Due(r) + Due(Peer(r)) <= 1 + TotalResets)'
    <2>1. Unread(p)' = Minted(p)' - rcv'[q].peerLatest /\ Unread(q)' = Minted(q)' - rcv'[p].peerLatest
      BY <1>1 DEF Unread
    <2>2. CASE r = p
      BY <1>4, <2>1, <2>2
    <2>3. CASE r = q
      <3>1. Peer(r) = p
        BY <1>1, <2>3
      <3>2. (Unread(r) + Unread(p) + Due(r) + Due(p) <= 1 + TotalResets)'
        BY <1>4, <2>1, <2>3
      <3> QED BY <3>1, <3>2
    <2> QED BY <1>1, <2>2, <2>3
  <1> HIDE DEF q
  <1>5. ASSUME NEW x \in Msgs, Sealed(p, x)
        PROVE  (Unread(r) + Unread(Peer(r)) + Due(r) + Due(Peer(r)) <= 1 + TotalResets)'
    <2>1. /\ x.n = (IF x.turn THEN Minted(p) + 1 ELSE Minted(p))
          /\ Minted(p)' = x.n /\ Minted(q)' = Minted(q)
          /\ rcv'[p].peerLatest = rcv[p].peerLatest /\ rcv'[q].peerLatest = rcv[q].peerLatest
          /\ Due(p) = (IF x.turn THEN 1 ELSE 0) /\ Due(p)' = 0 /\ Due(q)' = Due(q)
          /\ TotalResets' = TotalResets
      BY <1>1, <1>5, SealTurns DEF q
    <2> QED BY <1>2, <1>3, <1>4, <2>1
  <1>6. ASSUME NEW x \in Msgs, Opened(p, x)
        PROVE  (Unread(r) + Unread(Peer(r)) + Due(r) + Due(Peer(r)) <= 1 + TotalResets)'
    <2>1. /\ Minted(p)' = Minted(p) /\ Minted(q)' = Minted(q)
          /\ rcv'[p].peerLatest = x.n /\ rcv'[q].peerLatest = rcv[q].peerLatest
          /\ x.n = (IF x.turn THEN rcv[p].peerLatest + 1 ELSE rcv[p].peerLatest)
          /\ Due(p)' <= Due(p) + (IF x.turn THEN 1 ELSE 0) /\ Due(p)' \in {0, 1}
          /\ Due(q)' = Due(q) /\ TotalResets' = TotalResets
      BY <1>1, <1>6, OpenTurns DEF q
    <2> QED BY <1>2, <1>3, <1>4, <2>1
  <1>7. ASSUME Reset(p)
        PROVE  (Unread(r) + Unread(Peer(r)) + Due(r) + Due(Peer(r)) <= 1 + TotalResets)'
    <2>1. /\ Minted(p)' = Minted(p) /\ Minted(q)' = Minted(q) /\ rcv' = rcv
          /\ Due(p)' <= Due(p) + 1 /\ Due(p)' \in {0, 1}
          /\ Due(q)' = Due(q) /\ TotalResets' = TotalResets + 1
      BY <1>1, <1>7, ResetTurns DEF q
    <2> QED BY <1>2, <1>3, <1>4, <2>1
  <1> QED BY <1>5, <1>6, <1>7

(* What turns answer keeps ascending.                                      *)
LEMMA StepAnswers ==
  ASSUME InStep, AnswersAscend, NEW p \in Party, NEW x \in Msgs, Sealed(p, x) \/ Opened(p, x)
  PROVE  AnswersAscend'
  <1>1. TypeOK /\ x.turn \in BOOLEAN /\ x.m \in Nat
    BY MsgFields DEF InStep
  <1>2. \A r \in Party : rcv[r].peerLatest \in Int /\ Len(sent[r]) \in Nat
                        /\ DOMAIN sent[r] = 1 .. Len(sent[r])
    BY <1>1, Counts, Fields
  <1>3. \A r \in Party : \A j \in DOMAIN sent[r] : sent[r][j].m \in Nat
    BY <1>1, Fields, MsgFields
  <1>4. ASSUME Opened(p, x) PROVE AnswersAscend'
    <2>1. /\ sent' = sent /\ rcv'[Peer(p)] = rcv[Peer(p)] /\ rcv'[p].peerLatest = x.n
          /\ x.n = (IF x.turn THEN rcv[p].peerLatest + 1 ELSE rcv[p].peerLatest)
      BY <1>4, OpenTurns
    <2>2. \A r \in Party : rcv[r].peerLatest <= rcv'[r].peerLatest /\ rcv'[r].peerLatest \in Int
      BY <1>1, <1>2, <2>1, Peers
    <2>3. ASSUME NEW r \in Party, NEW j \in DOMAIN sent'[r], sent'[r][j].turn
          PROVE  /\ sent'[r][j].m <= rcv'[r].peerLatest
                 /\ \A i \in DOMAIN sent'[r] : i <= j /\ sent'[r][i].turn => sent'[r][i].m <= sent'[r][j].m
      <3>1. /\ sent[r][j].m <= rcv[r].peerLatest /\ sent[r][j].m \in Nat
            /\ \A i \in DOMAIN sent[r] : i <= j /\ sent[r][i].turn => sent[r][i].m <= sent[r][j].m
        BY <1>3, <2>1, <2>3 DEF AnswersAscend
      <3> QED BY <1>2, <2>1, <2>2, <3>1
    <2> QED BY <2>3 DEF AnswersAscend
  <1>5. ASSUME Sealed(p, x) PROVE AnswersAscend'
    <2>1. /\ sent'[Peer(p)] = sent[Peer(p)] /\ sent'[p][Len(sent[p]) + 1] = x
          /\ DOMAIN sent'[p] = 1 .. Len(sent[p]) + 1
          /\ \A q \in Party : \A k \in 1 .. Len(sent[q]) : sent'[q][k] = sent[q][k]
      BY <1>1, <1>5, AppendKeeps DEF Sealed
    <2>2. \A r \in Party : rcv'[r].peerLatest = rcv[r].peerLatest
      BY <1>5, SealTurns
    <2>3. x.turn => x.m = rcv[p].peerLatest
      BY <1>5 DEF Sealed
    <2>4. ASSUME NEW r \in Party, NEW j \in DOMAIN sent'[r], sent'[r][j].turn
          PROVE  /\ sent'[r][j].m <= rcv'[r].peerLatest
                 /\ \A i \in DOMAIN sent'[r] : i <= j /\ sent'[r][i].turn => sent'[r][i].m <= sent'[r][j].m
      <3>1. CASE j \in DOMAIN sent[r]
        <4>1. sent'[r][j] = sent[r][j]
          BY <1>2, <2>1, <3>1
        <4>2. /\ sent[r][j].m <= rcv[r].peerLatest
              /\ \A i \in DOMAIN sent[r] : i <= j /\ sent[r][i].turn => sent[r][i].m <= sent[r][j].m
          BY <2>4, <3>1, <4>1 DEF AnswersAscend
        <4>3. ASSUME NEW i \in DOMAIN sent'[r], i <= j
              PROVE  i \in DOMAIN sent[r] /\ sent'[r][i] = sent[r][i]
          BY <1>2, <2>1, <3>1, <4>3, Peers
        <4> QED BY <2>2, <4>1, <4>2, <4>3
      <3>2. CASE j \notin DOMAIN sent[r]
        <4>1. r = p /\ j = Len(sent[p]) + 1 /\ sent'[r][j] = x
          BY <1>2, <2>1, <3>2, Peers
        <4>2. x.m = rcv[p].peerLatest
          BY <2>3, <2>4, <4>1
        <4>3. ASSUME NEW i \in DOMAIN sent'[r], sent'[r][i].turn PROVE sent'[r][i].m <= x.m
          <5>1. CASE i = j
            BY <1>1, <4>1, <5>1
          <5>2. CASE i # j
            <6>1. i \in DOMAIN sent[p] /\ sent'[r][i] = sent[p][i]
              BY <1>2, <2>1, <4>1, <5>2
            <6> QED BY <4>2, <4>3, <6>1 DEF AnswersAscend
          <5> QED BY <5>1, <5>2
        <4> QED BY <1>2, <2>2, <4>1, <4>2, <4>3
      <3> QED BY <3>1, <3>2
    <2> QED BY <2>4 DEF AnswersAscend
  <1> QED BY <1>4, <1>5

(* The turns that cross an unread one stay within the resets.              *)
LEMMA StepCrossings ==
  ASSUME InStep, TokensCounted, CrossingsCounted, NEW p \in Party, NEW r \in Party,
         NEW j \in UnreadTurns(r)',
         \/ \E x \in Msgs : Sealed(p, x) \/ Opened(p, x)
         \/ Reset(p)
  PROVE  (Minted(Peer(r)) + Due(Peer(r)) - sent[r][j].m
            + (sent[r][j].n - rcv[Peer(r)].peerLatest - 1) <= TotalResets)'
  <1> DEFINE q == Peer(p)
             s == Peer(r)
  <1>1. q \in Party /\ Peer(q) = p /\ p # q /\ s \in Party /\ ((r = p /\ s = q) \/ (r = q /\ s = p)) /\ TypeOK
    BY Peers DEF InStep
  <1>2. /\ Minted(p) \in Int /\ Minted(q) \in Int /\ rcv[p].peerLatest \in Int /\ rcv[q].peerLatest \in Int
        /\ Due(p) \in {0, 1} /\ Due(q) \in {0, 1} /\ TotalResets \in Nat
    BY <1>1, Counts
  <1>3. Minted(p) - rcv[q].peerLatest + (Minted(q) - rcv[p].peerLatest) + Due(p) + Due(q) <= 1 + TotalResets
    BY <1>1, <1>2 DEF TokensCounted, Unread
  <1>4. /\ j \in DOMAIN sent'[r] /\ j > rcv'[s].nextSeq /\ sent'[r][j].turn
    BY DEF UnreadTurns
  <1>5. ASSUME j \in DOMAIN sent[r], j > rcv[s].nextSeq, sent[r][j].turn
        PROVE  /\ Minted(s) + Due(s) - sent[r][j].m + (sent[r][j].n - rcv[s].peerLatest - 1) <= TotalResets
               /\ sent[r][j].m \in Nat /\ sent[r][j].n \in Nat
    <2>1. j \in UnreadTurns(r)
      BY <1>5 DEF UnreadTurns
    <2> QED BY <1>1, <1>5, <2>1, Fields, MsgFields DEF CrossingsCounted
  <1>6. ASSUME Minted(s)' + Due(s)' - sent'[r][j].m + (sent'[r][j].n - rcv'[s].peerLatest - 1) <= TotalResets'
        PROVE  (Minted(Peer(r)) + Due(Peer(r)) - sent[r][j].m
                 + (sent[r][j].n - rcv[Peer(r)].peerLatest - 1) <= TotalResets)'
    BY <1>6
  <1> HIDE DEF q, s
  <1>7. ASSUME NEW x \in Msgs, Sealed(p, x)
        PROVE  Minted(s)' + Due(s)' - sent'[r][j].m + (sent'[r][j].n - rcv'[s].peerLatest - 1) <= TotalResets'
    <2>1. /\ x.n = (IF x.turn THEN Minted(p) + 1 ELSE Minted(p))
          /\ Minted(p)' = x.n /\ Minted(q)' = Minted(q)
          /\ rcv'[p].peerLatest = rcv[p].peerLatest /\ rcv'[q].peerLatest = rcv[q].peerLatest
          /\ rcv'[s].nextSeq = rcv[s].nextSeq
          /\ Due(p) = (IF x.turn THEN 1 ELSE 0) /\ Due(p)' = 0 /\ Due(q)' = Due(q)
          /\ TotalResets' = TotalResets
      BY <1>1, <1>7, SealTurns DEF q
    <2>2. /\ sent'[q] = sent[q] /\ sent'[p][Len(sent[p]) + 1] = x
          /\ DOMAIN sent'[p] = 1 .. Len(sent[p]) + 1
          /\ \A k \in 1 .. Len(sent[p]) : sent'[p][k] = sent[p][k]
      BY <1>1, <1>7, AppendKeeps DEF Sealed, q
    <2>3. Len(sent[p]) \in Nat /\ DOMAIN sent[p] = 1 .. Len(sent[p])
      BY <1>1, Fields
    <2>4. x.m \in Nat /\ x.turn \in BOOLEAN /\ (x.turn => x.m = rcv[p].peerLatest)
      BY <1>7, MsgFields DEF Sealed
    <2>5. CASE r = q /\ s = p
      <3>1. sent'[r] = sent[r]
        BY <2>2, <2>5
      <3>2. /\ Minted(s) + Due(s) - sent[r][j].m + (sent[r][j].n - rcv[s].peerLatest - 1) <= TotalResets
            /\ sent[r][j].m \in Nat /\ sent[r][j].n \in Nat
        BY <1>4, <1>5, <2>1, <3>1
      <3>3. Minted(s)' + Due(s)' <= Minted(s) + Due(s) /\ Minted(s)' + Due(s)' \in Int
            /\ rcv'[s].peerLatest = rcv[s].peerLatest /\ Minted(s) + Due(s) \in Int
        BY <1>2, <2>1, <2>5
      <3> QED BY <1>2, <2>1, <2>5, <3>1, <3>2, <3>3
    <2>6. CASE r = p /\ s = q
      <3>1. CASE j \in DOMAIN sent[p]
        <4>1. sent'[r][j] = sent[r][j]
          BY <2>2, <2>3, <2>6, <3>1
        <4>2. /\ Minted(s) + Due(s) - sent[r][j].m + (sent[r][j].n - rcv[s].peerLatest - 1) <= TotalResets
          BY <1>4, <1>5, <2>1, <2>6, <3>1, <4>1
        <4> QED BY <2>1, <2>6, <4>1, <4>2
      <3>2. CASE j \notin DOMAIN sent[p]
        <4>1. sent'[r][j] = x /\ x.turn
          BY <1>4, <2>2, <2>3, <2>6, <3>2
        <4>2. Minted(q) + Due(q) - x.m + (x.n - rcv[q].peerLatest - 1) <= TotalResets
          BY <1>2, <1>3, <2>1, <2>4, <4>1
        <4> QED BY <2>1, <2>6, <4>1, <4>2
      <3> QED BY <3>1, <3>2
    <2> QED BY <1>1, <2>5, <2>6
  <1>8. ASSUME NEW x \in Msgs, Opened(p, x)
        PROVE  Minted(s)' + Due(s)' - sent'[r][j].m + (sent'[r][j].n - rcv'[s].peerLatest - 1) <= TotalResets'
    <2>1. /\ Minted(p)' = Minted(p) /\ Minted(q)' = Minted(q)
          /\ rcv'[p].peerLatest = x.n /\ rcv'[q] = rcv[q] /\ rcv'[p].nextSeq = rcv[p].nextSeq + 1
          /\ x.n = (IF x.turn THEN rcv[p].peerLatest + 1 ELSE rcv[p].peerLatest)
          /\ Due(p)' <= Due(p) + (IF x.turn THEN 1 ELSE 0) /\ Due(p)' \in {0, 1}
          /\ Due(q)' = Due(q) /\ TotalResets' = TotalResets /\ sent' = sent
      BY <1>1, <1>8, OpenTurns DEF q
    <2>2. j \in Int /\ rcv[s].nextSeq \in Int /\ j > rcv[s].nextSeq
      BY <1>1, <1>4, <2>1, Fields
    <2>3. /\ Minted(s) + Due(s) - sent[r][j].m + (sent[r][j].n - rcv[s].peerLatest - 1) <= TotalResets
          /\ sent[r][j].m \in Nat /\ sent[r][j].n \in Nat
      BY <1>4, <1>5, <2>1, <2>2
    <2>4. CASE r = p /\ s = q
      BY <2>1, <2>3, <2>4
    <2>5. CASE r = q /\ s = p
      <3>1. Due(s)' - rcv'[s].peerLatest <= Due(s) - rcv[s].peerLatest
        BY <1>2, <2>1, <2>5
      <3>2. Due(s)' \in Int /\ rcv'[s].peerLatest \in Int /\ Minted(s)' = Minted(s)
        BY <1>2, <2>1, <2>5
      <3> QED BY <1>2, <2>1, <2>3, <2>5, <3>1, <3>2
    <2> QED BY <1>1, <2>4, <2>5
  <1>9. ASSUME Reset(p)
        PROVE  Minted(s)' + Due(s)' - sent'[r][j].m + (sent'[r][j].n - rcv'[s].peerLatest - 1) <= TotalResets'
    <2>1. /\ Minted(p)' = Minted(p) /\ Minted(q)' = Minted(q) /\ rcv' = rcv /\ sent' = sent
          /\ Due(p)' <= Due(p) + 1 /\ Due(p)' \in {0, 1}
          /\ Due(q)' = Due(q) /\ TotalResets' = TotalResets + 1
      BY <1>1, <1>9, ResetTurns DEF q
    <2>2. /\ Minted(s) + Due(s) - sent[r][j].m + (sent[r][j].n - rcv[s].peerLatest - 1) <= TotalResets
          /\ sent[r][j].m \in Nat /\ sent[r][j].n \in Nat
      BY <1>4, <1>5, <2>1
    <2>3. Minted(s)' = Minted(s) /\ Due(s)' <= Due(s) + 1 /\ Due(s)' \in Int /\ Due(s) \in Int
          /\ Minted(s) \in Int /\ rcv[s].peerLatest \in Int
      BY <1>1, <1>2, <2>1
    <2> QED BY <1>2, <2>1, <2>2, <2>3
  <1> QED BY <1>6, <1>7, <1>8, <1>9

(* What OwnRetained says of one party, for the lemmas below.               *)
Retains(p) ==
  /\ Len(rcv[p].own) <= OwnTurnsRetained
  /\ rcv[p].own = <<>> <=> Minted(p) = None
  /\ Len(rcv[p].own) > 0 => rcv[p].own[1] = Minted(p)
  /\ Len(rcv[p].own) > 1 => rcv[p].own[2] = Minted(p) - 1
  /\ Len(rcv[p].own) = 1 /\ Minted(p) > 0 =>
       /\ rcv[Peer(p)].peerLatest = Minted(p)
       /\ \A j \in UnreadTurns(Peer(p)) : sent[Peer(p)][j].m = Minted(p)

(* A seal keeps the secret its turn follows; the turn it appends answers   *)
(* the newest secret of the other party, if that is all it holds.          *)
LEMMA SealRetains ==
  ASSUME InStep, OwnRetained, NEW p \in Party, NEW x \in Msgs, Sealed(p, x)
  PROVE  OwnRetained'
  <1> DEFINE q == Peer(p)
  <1>1. q \in Party /\ Peer(q) = p /\ p # q /\ TypeOK
    BY Peers DEF InStep
  <1>2. /\ x.n = (IF x.turn THEN Minted(p) + 1 ELSE Minted(p))
        /\ Minted(p)' = x.n /\ Minted(q)' = Minted(q)
        /\ \A r \in Party : rcv'[r].peerLatest = rcv[r].peerLatest /\ rcv'[r].nextSeq = rcv[r].nextSeq
    BY <1>1, SealTurns
  <1>3. /\ sent'[q] = sent[q] /\ sent'[p][Len(sent[p]) + 1] = x
        /\ DOMAIN sent'[p] = 1 .. Len(sent[p]) + 1
        /\ \A k \in 1 .. Len(sent[p]) : sent'[p][k] = sent[p][k]
    BY <1>1, AppendKeeps DEF Sealed
  <1>4. rcv'[p].own = (IF x.turn THEN Retain(rcv[p].own, x.n) ELSE rcv[p].own) /\ rcv'[q] = rcv[q]
    BY <1>1, SealFields DEF Sealed
  <1>5. x.n \in Nat /\ x.turn \in BOOLEAN /\ (x.turn => x.m = rcv[p].peerLatest)
    BY MsgFields DEF Sealed
  <1>6. Len(sent[p]) \in Nat /\ DOMAIN sent[p] = 1 .. Len(sent[p]) /\ rcv[p].own \in Seq(Nat)
        /\ Minted(p) \in Int /\ Minted(q) \in Int
    BY <1>1, Fields, Counts
  <1>7. Retains(p) /\ Retains(q)
    BY <1>1 DEF OwnRetained, Retains
  <1>8. UnreadTurns(q)' = UnreadTurns(q)
    BY <1>1, <1>2, <1>3 DEF UnreadTurns
  <1> HIDE DEF q
  <1>9. Retains(p)'
    <2>1. CASE ~x.turn
      <3>1. rcv'[p].own = rcv[p].own /\ Minted(p)' = Minted(p) /\ rcv'[q].peerLatest = rcv[q].peerLatest
        BY <1>2, <1>4, <2>1
      <3> QED BY <1>3, <1>7, <1>8, <3>1 DEF Retains, q
    <2>2. CASE x.turn
      <3> DEFINE own == rcv'[p].own
      <3>1. /\ own \in Seq(Nat) /\ own[1] = x.n /\ Minted(p)' = x.n /\ x.n = Minted(p) + 1
            /\ Len(own) = IF rcv[p].own = <<>> THEN 1 ELSE 2
            /\ rcv[p].own # <<>> => own[2] = rcv[p].own[1]
        <4>1. own = Retain(rcv[p].own, x.n)
          BY <1>4, <2>2
        <4>2. Minted(p)' = x.n /\ x.n = Minted(p) + 1
          BY <1>2, <2>2
        <4> HIDE DEF own
        <4> QED BY <1>5, <1>6, <4>1, <4>2, RetainValue
      <3>2. Len(own) <= OwnTurnsRetained /\ own # <<>>
        BY <3>1 DEF OwnTurnsRetained
      <3>3. rcv[p].own # <<>> => Len(rcv[p].own) > 0
        BY <1>6
      <3>4. Len(own) > 1 => own[2] = x.n - 1
        BY <1>6, <1>7, <3>1, <3>3 DEF Retains
      <3>5. Len(own) = 1 => x.n = 0
        BY <1>7, <3>1 DEF Retains, None
      <3> HIDE DEF own
      <3> QED BY <1>5, <3>1, <3>2, <3>4, <3>5 DEF Retains, own, None
    <2> QED BY <1>5, <2>1, <2>2
  <1>10. Retains(q)'
    <2>1. rcv'[q].own = rcv[q].own /\ Minted(q)' = Minted(q) /\ rcv'[p].peerLatest = rcv[p].peerLatest
      BY <1>1, <1>2, <1>4
    <2>2. ASSUME NEW j \in UnreadTurns(p)'
          PROVE  \/ j \in UnreadTurns(p) /\ sent'[p][j] = sent[p][j]
                 \/ sent'[p][j].m = rcv[p].peerLatest
      <3>1. j \in DOMAIN sent'[p] /\ j > rcv'[Peer(p)].nextSeq /\ sent'[p][j].turn
        BY DEF UnreadTurns
      <3>2. CASE j \in DOMAIN sent[p]
        BY <1>1, <1>2, <1>3, <1>6, <3>1, <3>2 DEF UnreadTurns, q
      <3>3. CASE j \notin DOMAIN sent[p]
        BY <1>3, <1>5, <1>6, <3>1, <3>3
      <3> QED BY <3>2, <3>3
    <2>3. Len(rcv[q].own) = 1 /\ Minted(q) > 0 =>
            /\ rcv[p].peerLatest = Minted(q)
            /\ \A j \in UnreadTurns(p) : sent[p][j].m = Minted(q)
      BY <1>1, <1>7 DEF Retains
    <2>4. Len(rcv[q].own) = 1 /\ Minted(q) > 0 =>
            \A j \in UnreadTurns(p)' : sent'[p][j].m = Minted(q)
      BY <2>2, <2>3
    <2> QED BY <1>1, <1>7, <2>1, <2>3, <2>4 DEF Retains
  <1> QED BY <1>9, <1>10, Peers DEF OwnRetained, Retains, q

(* An open drops an own secret only when the turn read names the newest,   *)
(* and then so does every turn still unread.                               *)
LEMMA OpenRetains ==
  ASSUME InStep, InStep', TurnsAscend, TurnsAscend', AnswersAscend, OwnRetained,
         NEW p \in Party, NEW x \in Msgs, Opened(p, x)
  PROVE  OwnRetained'
  <1> DEFINE q == Peer(p)
  <1>1. q \in Party /\ Peer(q) = p /\ p # q /\ TypeOK
    BY Peers DEF InStep
  <1>2. /\ Minted(p)' = Minted(p) /\ Minted(q)' = Minted(q)
        /\ rcv'[p].peerLatest = x.n /\ rcv'[q] = rcv[q] /\ rcv'[p].nextSeq = rcv[p].nextSeq + 1
        /\ x.n = (IF x.turn THEN rcv[p].peerLatest + 1 ELSE rcv[p].peerLatest)
        /\ sent' = sent
    BY <1>1, OpenTurns
  <1>3. /\ rcv[p].nextSeq + 1 \in DOMAIN sent[q] /\ x = sent[q][rcv[p].nextSeq + 1]
        /\ x.turn => x.m \in Retained(p)
    BY DEF Opened
  <1>4. rcv'[p].own = OwnAfter(p, x)
    <2> DEFINE own == OwnAfter(p, x)
    <2>1. rcv' = [rcv EXCEPT ![p] =
             [root |-> x.key.root, chain |-> x.key.step + 1, n |-> x.n,
              nextSeq |-> rcv[p].nextSeq + 1, own |-> own, peerLatest |-> x.n]]
      BY DEF Opened
    <2> HIDE DEF own
    <2>2. rcv'[p].own = own
      BY <1>1, <2>1 DEF TypeOK
    <2> QED BY <2>2 DEF own
  <1>5. /\ Minted(p) \in Int /\ Minted(q) \in Int /\ rcv[p].peerLatest \in Int /\ rcv[q].peerLatest \in Int
        /\ rcv[p].nextSeq \in Nat /\ rcv[q].nextSeq \in Nat
        /\ x.m \in Nat /\ x.turn \in BOOLEAN
    BY <1>1, Counts, Fields, MsgFields
  <1>6. Retains(p) /\ Retains(q)
    BY <1>1 DEF OwnRetained, Retains
  <1>7. rcv[q].peerLatest <= Minted(p) /\ x.n <= Minted(q)
    <2>1. rcv[q].peerLatest <= Minted(p)
      BY <1>1, LatestMinted
    <2>2. rcv[p].nextSeq + 1 \in 1 .. Len(sent[q])
      BY <1>1, <1>3, Fields
    <2>3. TurnAt(q, rcv[p].nextSeq + 1) = x.n /\ rcv[p].nextSeq + 1 \in 0 .. Len(sent[q])
      BY <1>3, <1>5, <2>2 DEF TurnAt
    <2>4. x.n <= Minted(q)
      BY <1>1, <2>3, TurnsMinted
    <2> QED BY <2>1, <2>4
  <1>8. UnreadTurns(q)' \subseteq UnreadTurns(q) /\ UnreadTurns(p)' = UnreadTurns(p)
    <2>1. \A j \in DOMAIN sent[q] : j \in Int
      BY <1>1, Fields
    <2>2. \A j \in DOMAIN sent[q] : j > rcv'[p].nextSeq => j > rcv[p].nextSeq
      BY <1>2, <1>5, <2>1
    <2>3. UnreadTurns(q)' \subseteq UnreadTurns(q)
      BY <1>1, <1>2, <2>2 DEF UnreadTurns
    <2>4. UnreadTurns(p)' = UnreadTurns(p)
      BY <1>2 DEF UnreadTurns
    <2> QED BY <2>3, <2>4
  <1> HIDE DEF q
  <1>9. Retains(p)'
    <2>1. CASE x.turn /\ Head(rcv[p].own) = x.m
      <3>1. x.m = rcv[p].own[1] /\ Len(rcv[p].own) > 0
        BY <1>1, <1>3, <1>5, <2>1, HeadOfOwn
      <3>2. x.m = Minted(p) /\ rcv'[p].own = <<x.m>>
        <4>1. x.m = Minted(p)
          BY <1>6, <3>1 DEF Retains
        <4>2. rcv'[p].own = <<x.m>>
          BY <1>4, <2>1 DEF OwnAfter
        <4> QED BY <4>1, <4>2
      <3>3. x.m <= rcv[q].peerLatest
        BY <1>1, <1>3, <2>1 DEF AnswersAscend
      <3>4. rcv[q].peerLatest = Minted(p)
        BY <1>5, <1>7, <3>2, <3>3
      <3>5. ASSUME NEW j \in UnreadTurns(q)'
            PROVE  sent[q][j].m = Minted(p)
        <4>1. j \in DOMAIN sent[q] /\ j > rcv[p].nextSeq + 1 /\ sent[q][j].turn /\ j \in Int
              /\ sent[q][j].m \in Nat
          BY <1>1, <1>2, Fields, MsgFields DEF UnreadTurns
        <4>2. rcv[p].nextSeq + 1 <= j
          BY <1>5, <4>1
        <4>3. sent[q][j].m <= rcv[q].peerLatest /\ x.m <= sent[q][j].m
          BY <1>1, <1>3, <2>1, <4>1, <4>2 DEF AnswersAscend
        <4> QED BY <1>5, <3>2, <3>4, <4>1, <4>3
      <3>6. /\ Len(rcv'[p].own) = 1 /\ rcv'[p].own # <<>> /\ rcv'[p].own[1] = x.m
        BY <3>2
      <3>7. Minted(p) # None /\ Len(rcv'[p].own) <= OwnTurnsRetained /\ ~(Len(rcv'[p].own) > 1)
        BY <1>5, <3>2, <3>6 DEF None, OwnTurnsRetained
      <3>8. rcv'[q].peerLatest = Minted(p)' /\ \A j \in UnreadTurns(q)' : sent'[q][j].m = Minted(p)'
        BY <1>2, <3>4, <3>5
      <3> QED BY <1>2, <3>2, <3>6, <3>7, <3>8 DEF Retains, q
    <2>2. CASE ~(x.turn /\ Head(rcv[p].own) = x.m)
      <3>1. rcv'[p].own = rcv[p].own
        BY <1>4, <2>2, Zenon DEF OwnAfter
      <3> QED BY <1>2, <1>6, <1>8, <3>1 DEF Retains, q
    <2> QED BY <2>1, <2>2
  <1>10. Retains(q)'
    <2>1. Len(rcv[q].own) = 1 /\ Minted(q) > 0 =>
            /\ rcv[p].peerLatest = Minted(q)
            /\ \A j \in UnreadTurns(p) : sent[p][j].m = Minted(q)
      BY <1>1, <1>6 DEF Retains
    <2>2. Len(rcv[q].own) = 1 /\ Minted(q) > 0 => x.n = Minted(q)
      BY <1>2, <1>5, <1>7, <2>1
    <2> QED BY <1>1, <1>2, <1>6, <1>8, <2>1, <2>2 DEF Retains
  <1> QED BY <1>9, <1>10, Peers DEF OwnRetained, Retains, q

-----------------------------------------------------------------------------
(* No turn has crossed another when the conversation is opened.            *)
LEMMA InitTurns == Init => TurnInv
  <1> SUFFICES ASSUME Init PROVE TurnInv
    OBVIOUS
  <1>1. InStep /\ TotalResets = 0
    BY InitInStep DEF Init, TotalResets, Party
  <1>2. \A p \in Party : DOMAIN sent[p] = {} /\ Len(sent[p]) = 0
    BY InitFields
  <1>3. ASSUME NEW p \in Party
        PROVE  /\ Minted(p) = (IF p = Initiator THEN 0 ELSE None)
               /\ rcv[p].peerLatest = (IF p = Initiator THEN None ELSE 0)
               /\ Due(p) = (IF p = Initiator THEN 0 ELSE 1)
    <2>1. snd[p].mSeen = None /\ snd[p].force = FALSE
          /\ rcv[p].peerLatest = (IF p = Initiator THEN None ELSE 0)
      BY InitFields
    <2>2. Minted(p) = (IF p = Initiator THEN 0 ELSE None)
      BY <1>2 DEF Minted, TurnAt
    <2> QED BY <2>1, <2>2 DEF Due, TurnDue, None
  <1>4. TurnsAscend /\ AnswersAscend /\ CrossingsCounted
    <2>1. \A p \in Party : UnreadTurns(p) = {}
      BY <1>2 DEF UnreadTurns
    <2> QED BY <1>2, <2>1 DEF TurnsAscend, AnswersAscend, CrossingsCounted
  <1>5. TokensCounted
    <2> SUFFICES ASSUME NEW p \in Party
                 PROVE  Unread(p) + Unread(Peer(p)) + Due(p) + Due(Peer(p)) <= 1 + TotalResets
      BY DEF TokensCounted
    <2>1. Peer(p) \in Party /\ Peer(Peer(p)) = p /\ ((p = Initiator) # (Peer(p) = Initiator))
      BY Peers
    <2>2. Unread(p) = 0 /\ Unread(Peer(p)) = 0
      BY <1>3, <2>1 DEF Unread, None
    <2> QED BY <1>1, <1>3, <2>1, <2>2
  <1>6. OwnRetained
    <2> SUFFICES ASSUME NEW p \in Party PROVE Retains(p)
      BY DEF OwnRetained, Retains
    <2>1. rcv[p].own = (IF p = Initiator THEN <<0>> ELSE <<>>)
      BY InitFields
    <2>2. CASE p = Initiator
      <3>1. Len(rcv[p].own) = 1 /\ rcv[p].own # <<>> /\ rcv[p].own[1] = 0 /\ Minted(p) = 0
        BY <1>3, <2>1, <2>2
      <3> QED BY <3>1 DEF Retains, None, OwnTurnsRetained
    <2>3. CASE p # Initiator
      <3>1. Len(rcv[p].own) = 0 /\ rcv[p].own = <<>> /\ Minted(p) = None
        BY <1>3, <2>1, <2>3
      <3> QED BY <3>1 DEF Retains, None, OwnTurnsRetained
    <2> QED BY <2>2, <2>3
  <1> QED BY <1>1, <1>4, <1>5, <1>6 DEF TurnInv

(* Every step keeps the count of the turns, of what they answer and of the *)
(* own secrets that are left for them.                                     *)
LEMMA StepTurns == TurnInv /\ [Next]_vars => TurnInv'
  <1> SUFFICES ASSUME TurnInv, [Next]_vars PROVE TurnInv'
    OBVIOUS
  <1>1. InStep /\ InStep' /\ TurnsAscend /\ TokensCounted /\ AnswersAscend /\ CrossingsCounted /\ OwnRetained
    BY StepInStep DEF TurnInv
  <1>2. ASSUME NEW p \in Party,
               \/ \E x \in Msgs : Sealed(p, x) \/ Opened(p, x)
               \/ Reset(p)
        PROVE  TokensCounted' /\ CrossingsCounted'
    <2>1. \A r \in Party : (Unread(r) + Unread(Peer(r)) + Due(r) + Due(Peer(r)) <= 1 + TotalResets)'
      BY <1>1, <1>2, StepTokens
    <2>2. ASSUME NEW r \in Party, NEW j \in UnreadTurns(r)'
          PROVE  (Minted(Peer(r)) + Due(Peer(r)) - sent[r][j].m
                   + (sent[r][j].n - rcv[Peer(r)].peerLatest - 1) <= TotalResets)'
      BY <1>1, <1>2, StepCrossings
    <2> QED BY <2>1, <2>2 DEF TokensCounted, CrossingsCounted
  <1>3. ASSUME NEW p \in Party, Seal(p) PROVE TurnInv'
    <2>1. PICK x \in Msgs : Sealed(p, x)
      BY <1>1, <1>3, SealNext
    <2>2. TurnsAscend' /\ AnswersAscend' /\ OwnRetained'
      BY <1>1, <2>1, StepTurnsAscend, StepAnswers, SealRetains
    <2> QED BY <1>1, <1>2, <2>1, <2>2 DEF TurnInv
  <1>4. ASSUME NEW p \in Party, Open(p) PROVE TurnInv'
    <2>1. PICK x \in Msgs : Opened(p, x)
      BY <1>1, <1>4, OpenNext
    <2>2. sent' = sent
      BY <2>1 DEF Opened
    <2>3. TurnsAscend'
      BY <1>1, <2>2 DEF TurnsAscend, TurnAt
    <2>4. AnswersAscend' /\ OwnRetained'
      BY <1>1, <2>1, <2>3, StepAnswers, OpenRetains
    <2> QED BY <1>1, <1>2, <2>1, <2>3, <2>4 DEF TurnInv
  <1>5. ASSUME sent' = sent, rcv' = rcv PROVE TurnsAscend' /\ AnswersAscend' /\ OwnRetained'
    <2>1. TurnsAscend' /\ AnswersAscend'
      BY <1>1, <1>5 DEF TurnsAscend, AnswersAscend, TurnAt
    <2>2. OwnRetained'
      BY <1>1, <1>5 DEF OwnRetained, Minted, TurnAt, UnreadTurns
    <2> QED BY <2>1, <2>2
  <1>6. ASSUME NEW p \in Party, Reset(p) PROVE TurnInv'
    <2>1. sent' = sent /\ rcv' = rcv
      BY <1>6 DEF Reset
    <2> QED BY <1>1, <1>2, <1>5, <1>6, <2>1 DEF TurnInv
  <1>7. CASE UNCHANGED vars
    <2>1. snd' = snd /\ rcv' = rcv /\ sent' = sent /\ resets' = resets
      BY <1>7 DEF vars
    <2>2. TokensCounted'
      BY <1>1, <2>1 DEF TokensCounted, Unread, Minted, TurnAt, Due, TurnDue, TotalResets
    <2>3. CrossingsCounted'
      BY <1>1, <2>1 DEF CrossingsCounted, UnreadTurns, Minted, TurnAt, Due, TurnDue, TotalResets
    <2> QED BY <1>1, <1>5, <2>1, <2>2, <2>3 DEF TurnInv
  <1> QED BY <1>3, <1>4, <1>6, <1>7 DEF Next

(* The count of the turns in every reachable state.                        *)
THEOREM TurnInvariant == Spec => []TurnInv
  BY InitTurns, StepTurns, PTL DEF Spec

(* TurnsAlternate: while nobody forces a turn there is one token, so the   *)
(* two sides never have a turn unread at once and one retained secret      *)
(* would do (turn_due, Direction::seal).                                   *)
THEOREM TurnsTaken == Spec => []TurnsAlternate
  <1>1. ASSUME TurnInv, NEW p \in Party, TurnUnread(p)
        PROVE  Unread(p) > 0
    <2> DEFINE q == Peer(p)
    <2>1. InStep /\ TurnsAscend /\ TypeOK /\ q \in Party /\ Peer(q) = p
      BY <1>1, Peers DEF TurnInv, InStep
    <2>2. PICK i \in DOMAIN sent[p] : i > rcv[q].nextSeq /\ sent[p][i].turn
      BY <1>1 DEF TurnUnread
    <2>3. rcv[q].nextSeq \in 0 .. Len(sent[p]) /\ rcv[q].peerLatest = TurnAt(p, rcv[q].nextSeq)
          /\ rcv[q].peerLatest \in Int /\ Minted(p) \in Int
      BY <2>1, Counts
    <2>4. i \in 0 .. Len(sent[p]) /\ i # 0 /\ rcv[q].nextSeq < i /\ sent[p][i].n \in Nat
      BY <2>1, <2>2, <2>3, Fields, MsgFields
    <2>5. TurnAt(p, rcv[q].nextSeq) < sent[p][i].n
      BY <2>1, <2>2, <2>3, <2>4 DEF TurnsAscend
    <2>6. TurnAt(p, i) <= Minted(p) /\ TurnAt(p, i) = sent[p][i].n
      BY <2>1, <2>4, TurnsMinted DEF TurnAt
    <2> QED BY <2>3, <2>4, <2>5, <2>6 DEF Unread
  <1>2. ASSUME TurnInv, resets = [p \in Party |-> 0], TurnUnread(Initiator), TurnUnread(Acceptor)
        PROVE  FALSE
    <2>1. Initiator \in Party /\ Acceptor \in Party /\ Peer(Initiator) = Acceptor /\ Peer(Acceptor) = Initiator
      BY PartiesDiffer DEF Party, Peer
    <2>2. Unread(Initiator) > 0 /\ Unread(Acceptor) > 0
      BY <1>1, <1>2, <2>1
    <2>3. TotalResets = 0
      BY <1>2, <2>1 DEF TotalResets
    <2>4. Unread(Initiator) + Unread(Acceptor) + Due(Initiator) + Due(Acceptor) <= 1
      BY <1>2, <2>1, <2>3 DEF TurnInv, TokensCounted
    <2>5. InStep
      BY <1>2 DEF TurnInv
    <2>6. Due(Initiator) \in {0, 1} /\ Due(Acceptor) \in {0, 1}
          /\ Unread(Initiator) \in Int /\ Unread(Acceptor) \in Int
      BY <2>1, <2>5, Counts DEF Unread
    <2> QED BY <2>2, <2>4, <2>6
  <1>3. TurnInv => TurnsAlternate
    BY <1>2 DEF TurnsAlternate
  <1> QED BY <1>3, TurnInvariant, PTL

(* EveryMessageOpens, while at most one reset was made in all: the secret  *)
(* a turn names is the newest of its reader or the one before, and the     *)
(* reader still holds it (Receiving::open, retain).                        *)
THEOREM OneResetOpens == Spec => [](TotalResets <= 1 => EveryMessageOpens)
  <1>1. ASSUME TurnInv, TotalResets <= 1, NEW p \in Party, Waiting(p), NextMsg(p).turn
        PROVE  NextMsg(p).m \in Retained(p)
    <2> DEFINE q == Peer(p)
               j == rcv[p].nextSeq + 1
               x == NextMsg(p)
    <2>1. InStep /\ TypeOK /\ q \in Party /\ Peer(q) = p
      BY <1>1, Peers DEF TurnInv, InStep
    <2>2. j \in DOMAIN sent[q] /\ x \in Msgs /\ x = sent[q][j] /\ Continues(q, rcv[p].nextSeq, x)
      BY <1>1, <2>1, KeyAgrees
    <2>3. /\ rcv[p].nextSeq \in Nat /\ rcv[p].peerLatest = TurnAt(q, rcv[p].nextSeq)
          /\ rcv[p].peerLatest \in Int /\ rcv[q].peerLatest \in Int /\ Minted(p) \in Int
          /\ Due(p) \in {0, 1} /\ TotalResets \in Nat
      BY <2>1, Counts, Fields
    <2>4. x.m \in Nat /\ x.n = rcv[p].peerLatest + 1
      BY <1>1, <2>2, <2>3, MsgFields DEF Continues
    <2>5. j \in UnreadTurns(q)
      BY <1>1, <2>1, <2>2, <2>3 DEF UnreadTurns
    <2>6. Minted(p) + Due(p) - x.m + (x.n - rcv[p].peerLatest - 1) <= TotalResets
      BY <1>1, <2>1, <2>2, <2>5 DEF TurnInv, CrossingsCounted
    <2>7. x.m <= rcv[q].peerLatest
      BY <1>1, <2>1, <2>2 DEF TurnInv, AnswersAscend
    <2>8. rcv[q].peerLatest <= Minted(p)
      BY <1>1, <2>1, LatestMinted DEF TurnInv
    <2> HIDE DEF x, j, q
    <2>9. (x.m = Minted(p) \/ x.m = Minted(p) - 1) /\ Minted(p) >= 0
      BY <1>1, <2>3, <2>4, <2>6, <2>7, <2>8
    <2>10. Retains(p) /\ rcv[p].own \in Seq(Nat)
      BY <1>1, <2>1, Fields DEF TurnInv, OwnRetained, Retains
    <2>11. Len(rcv[p].own) > 0 /\ rcv[p].own[1] = Minted(p)
      BY <2>9, <2>10 DEF Retains, None
    <2>12. \A i \in 1 .. Len(rcv[p].own) : rcv[p].own[i] \in Retained(p)
      BY <2>10 DEF Retained, ToSet
    <2>13. CASE x.m = Minted(p)
      <3>1. 1 \in 1 .. Len(rcv[p].own)
        BY <2>10, <2>11
      <3> QED BY <2>11, <2>12, <2>13, <3>1 DEF x
    <2>14. CASE x.m # Minted(p)
      <3>1. x.m = Minted(p) - 1 /\ Minted(p) > 0
        BY <2>3, <2>4, <2>9, <2>14
      <3>2. Len(rcv[p].own) # 1
        <4>1. x.m = sent[q][j].m
          BY <2>2
        <4>2. Len(rcv[p].own) = 1 => \A i \in UnreadTurns(q) : sent[q][i].m = Minted(p)
          BY <2>10, <3>1 DEF Retains, q
        <4> QED BY <2>5, <2>14, <4>1, <4>2
      <3>3. 2 \in 1 .. Len(rcv[p].own) /\ Len(rcv[p].own) > 1
        <4>1. Len(rcv[p].own) \in Nat
          BY <2>10
        <4>2. \A l \in Nat : l > 0 /\ l # 1 => 2 \in 1 .. l /\ l > 1
          OBVIOUS
        <4>3. Len(rcv[p].own) > 0
          BY <2>11
        <4> QED BY <3>2, <4>1, <4>2, <4>3
      <3>4. rcv[p].own[2] = x.m
        BY <2>10, <3>1, <3>3 DEF Retains
      <3> QED BY <2>12, <3>3, <3>4 DEF x
    <2> QED BY <2>13, <2>14
  <1>2. ASSUME TurnInv, TotalResets <= 1, NEW p \in Party, Waiting(p)
        PROVE  Opens(p, NextMsg(p))
    <2>1. InStep
      BY <1>2 DEF TurnInv
    <2>2. /\ ~NextMsg(p).turn => rcv[p].chain # None
          /\ [root |-> OpenRoot(p, NextMsg(p)), step |-> OpenStep(p, NextMsg(p))] = NextMsg(p).key
      BY <1>2, <2>1, KeyAgrees
    <2>3. NextMsg(p).turn => NextMsg(p).m \in Retained(p)
      BY <1>1, <1>2
    <2> QED BY <2>2, <2>3 DEF Opens
  <1>3. TurnInv => (TotalResets <= 1 => EveryMessageOpens)
    BY <1>2 DEF EveryMessageOpens
  <1> QED BY <1>3, TurnInvariant, PTL
=============================================================================
