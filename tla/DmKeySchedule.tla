--------------------------- MODULE DmKeySchedule ---------------------------
(***************************************************************************)
(* The direct-message key schedule of daemonseed-core/src/dm/chain.rs: two *)
(* conversations, the initiator's and the acceptor's, each with a sending  *)
(* half (Direction) and a reading half (Receiving), crossed so that one    *)
(* half's next root mixes a secret the other half holds.                   *)
(*                                                                         *)
(* Keys are symbolic.  The secret encapsulated by party p's turn n is      *)
(* named by <<p, n>>, so a root is the sequence of turns mixed into it     *)
(* after the seed both directions share, and a message key is a root and a *)
(* number of steps along the chain derived from it.  Two keys are equal    *)
(* exactly when the derivations are.  A restart is the identity here:      *)
(* Conversation::restore rebuilds every field snapshot copied.             *)
(***************************************************************************)
EXTENDS Integers, Sequences, SequencesExt

CONSTANTS
  Initiator, Acceptor,  \* the two parties
  MaxSeal,              \* bound: messages sealed per direction
  MaxResets,            \* bound: resets in all
  MaxResetsPerParty     \* bound: resets by one party

ASSUME PartiesDiffer == Initiator # Acceptor
ASSUME SealBound     == MaxSeal \in Nat
ASSUME ResetBounds   == MaxResets \in Nat /\ MaxResetsPerParty \in Nat

Party   == {Initiator, Acceptor}
Peer(p) == IF p = Initiator THEN Acceptor ELSE Initiator

None == -1          \* an Option that is absent: no chain, no turn read
OwnTurnsRetained == 2

VARIABLES
  snd,     \* snd[p]: p's Direction
  rcv,     \* rcv[p]: p's Receiving
  sent,    \* sent[p]: the messages p sealed and committed, in order
  resets   \* resets[p]: how often p asked for a reset

vars == <<snd, rcv, sent, resets>>

(***************************************************************************)
(* initiate and accept.  The initiator's turn 0 is open at once, so its    *)
(* sending half holds the seed chain and its reading half holds no chain;  *)
(* the acceptor is the mirror image and has read the initiator's turn 0    *)
(* from the channel opening.                                               *)
(***************************************************************************)
Seed == <<>>

Initiate == [ snd |-> [root |-> Seed, chain |-> 0, n |-> 0, mSeen |-> None, force |-> FALSE],
              rcv |-> [root |-> Seed, chain |-> None, n |-> 0, nextSeq |-> 0,
                       own |-> <<0>>, peerLatest |-> None] ]

Accept == [ snd |-> [root |-> Seed, chain |-> None, n |-> 0, mSeen |-> None, force |-> FALSE],
            rcv |-> [root |-> Seed, chain |-> 0, n |-> 0, nextSeq |-> 0,
                     own |-> <<>>, peerLatest |-> 0] ]

Init ==
  /\ snd = [p \in Party |-> IF p = Initiator THEN Initiate.snd ELSE Accept.snd]
  /\ rcv = [p \in Party |-> IF p = Initiator THEN Initiate.rcv ELSE Accept.rcv]
  /\ sent = [p \in Party |-> <<>>]
  /\ resets = [p \in Party |-> 0]

-----------------------------------------------------------------------------

(* advance_root: p's turn n, mixing the peer secret of the peer's turn m. *)
AdvanceRoot(root, p, n, m) == Append(root, [by |-> p, n |-> n, m |-> m])

(* Receiving::retain keeps the newest own turns, newest first. *)
Retain(own, n) == SubSeq(<<n>> \o own, 1, IF own = <<>> THEN 1 ELSE OwnTurnsRetained)

(* Mutant: a peer turn already answered makes another turn due. *)
TurnDueAgain(p) == snd[p].force \/ rcv[p].peerLatest >= snd[p].mSeen

(* turn_due: a forced turn, or a peer turn this direction had not seen. *)
TurnDue(p) == snd[p].force \/ rcv[p].peerLatest > snd[p].mSeen

(* The newest peer turn a seal can encapsulate to: the one just read or,  *)
(* for a forced turn, the one stored with the direction.                  *)
EncapsTo(p) == IF rcv[p].peerLatest > snd[p].mSeen THEN rcv[p].peerLatest ELSE snd[p].mSeen

(* The turn number a seal writes: its first turn keeps n, later ones step it. *)
TurnNumber(p) ==
  IF TurnDue(p) /\ snd[p].chain # None THEN snd[p].n + 1 ELSE snd[p].n

(* Mutant of step: the chain key is left where it was. *)
StepNothing(at) == at

(* step: a message key is used once, the chain moves past it. *)
StepChain(at) == at + 1

(* Conversation::seal, over Direction::seal, then retain of a minted turn. *)
Seal(p) ==
  /\ Len(sent[p]) < MaxSeal
  /\ IF TurnDue(p) THEN EncapsTo(p) # None ELSE snd[p].chain # None
  /\ LET due  == TurnDue(p)
         n    == TurnNumber(p)
         root == IF due THEN AdvanceRoot(snd[p].root, p, n, EncapsTo(p)) ELSE snd[p].root
         at   == IF due THEN 0 ELSE snd[p].chain
     IN /\ snd' = [snd EXCEPT ![p] =
                     [root |-> root, chain |-> StepChain(at), n |-> n,
                      mSeen |-> EncapsTo(p), force |-> FALSE]]
        /\ rcv' = [rcv EXCEPT ![p].own = IF due THEN Retain(@, n) ELSE @]
        /\ sent' = [sent EXCEPT ![p] =
                      Append(@, [n |-> n,
                                 m |-> IF EncapsTo(p) = None THEN 0 ELSE EncapsTo(p),
                                 turn |-> due,
                                 key |-> [root |-> root, step |-> at]])]
  /\ UNCHANGED resets

(* The message p opens next, where its peer has sealed it. *)
Waiting(p)  == rcv[p].nextSeq < Len(sent[Peer(p)])
NextMsg(p)  == sent[Peer(p)][rcv[p].nextSeq + 1]
Retained(p) == ToSet(rcv[p].own)

(* The root and chain position Receiving::open derives for a message. *)
OpenRoot(p, msg) ==
  IF msg.turn THEN AdvanceRoot(rcv[p].root, Peer(p), msg.n, msg.m) ELSE rcv[p].root
OpenStepKept(p, msg) == rcv[p].chain   \* mutant: a turn keeps the old chain
OpenStep(p, msg) == IF msg.turn THEN 0 ELSE rcv[p].chain

(* Receiving::open succeeds: the named own secret is retained (SecretGone  *)
(* otherwise), a chain exists (NoTurn otherwise), and the key derived is   *)
(* the key the body was sealed under (Aead otherwise).                     *)
Opens(p, msg) ==
  /\ IF msg.turn THEN msg.m \in Retained(p) ELSE rcv[p].chain # None
  /\ [root |-> OpenRoot(p, msg), step |-> OpenStep(p, msg)] = msg.key

(* Mutant of open: the reading chain is not stepped past the message. *)
OpenUnstepped(p) ==
  /\ Waiting(p)
  /\ LET msg == NextMsg(p) IN
       /\ Opens(p, msg)
       /\ rcv' = [rcv EXCEPT ![p] =
            [root |-> OpenRoot(p, msg), chain |-> OpenStep(p, msg),
             n |-> IF msg.turn THEN msg.n ELSE @.n,
             nextSeq |-> @.nextSeq + 1,
             own |-> IF msg.turn /\ Head(@.own) = msg.m THEN <<msg.m>> ELSE @.own,
             peerLatest |-> IF msg.turn THEN msg.n ELSE @.peerLatest]]
  /\ UNCHANGED <<snd, sent, resets>>

(* Receiving::open, on the next sequence, the only one it takes.  A turn   *)
(* encapsulated to the newest own turn drops the older secret.             *)
Open(p) ==
  /\ Waiting(p)
  /\ LET msg == NextMsg(p) IN
       /\ Opens(p, msg)
       /\ rcv' = [rcv EXCEPT ![p] =
            [root |-> OpenRoot(p, msg), chain |-> StepChain(OpenStep(p, msg)),
             n |-> IF msg.turn THEN msg.n ELSE @.n,
             nextSeq |-> @.nextSeq + 1,
             own |-> IF msg.turn /\ Head(@.own) = msg.m THEN <<msg.m>> ELSE @.own,
             peerLatest |-> IF msg.turn THEN msg.n ELSE @.peerLatest]]
  /\ UNCHANGED <<snd, sent, resets>>

(* reset_all, in this conversation: the next seal starts a turn. *)
Reset(p) ==
  /\ resets[p] < MaxResetsPerParty
  /\ resets[Initiator] + resets[Acceptor] < MaxResets
  /\ resets' = [resets EXCEPT ![p] = @ + 1]
  /\ snd' = [snd EXCEPT ![p].force = TRUE]
  /\ UNCHANGED <<rcv, sent>>

Next == \E p \in Party : Seal(p) \/ Open(p) \/ Reset(p)

Spec == Init /\ [][Next]_vars

-----------------------------------------------------------------------------

Turns == Nat \cup {None}
Roots == Seq([by : Party, n : Nat, m : Nat])
Msgs  == [n : Nat, m : Nat, turn : BOOLEAN, key : [root : Roots, step : Nat]]

(* Every field of the two halves keeps its type: a chain and a turn read   *)
(* may be absent, a committed message's own fields may not (dm/chain.rs).  *)
TypeOK ==
  /\ snd \in [Party -> [root : Roots, chain : Turns, n : Nat, mSeen : Turns, force : BOOLEAN]]
  /\ rcv \in [Party -> [root : Roots, chain : Turns, n : Nat, nextSeq : Nat,
                        own : Seq(Nat), peerLatest : Turns]]
  /\ sent \in [Party -> Seq(Msgs)]
  /\ resets \in [Party -> Nat]

(* The next message of a correspondent always opens: the secret its turn   *)
(* was encapsulated to is still retained and both sides derived one key.   *)
(* direct-messaging.md, Keys and forward secrecy: "When turns cross, both  *)
(* messages open, because each side keeps its two most recent KEM secrets".*)
EveryMessageOpens == \A p \in Party : Waiting(p) => Opens(p, NextMsg(p))

(* No two messages are sealed under one key, in one direction or across    *)
(* the two, although both directions start from the same seed root: the    *)
(* acceptor holds no chain until its first turn.                           *)
NoKeyReuse ==
  \A p, q \in Party : \A i \in DOMAIN sent[p], j \in DOMAIN sent[q] :
    sent[p][i].key = sent[q][j].key => p = q /\ i = j

(* A direction whose messages are all read has one root and one chain      *)
(* position on both sides, so the next message continues it.               *)
CaughtUpAgrees ==
  \A p \in Party : ~Waiting(p) =>
    /\ rcv[p].root = snd[Peer(p)].root
    /\ rcv[p].chain = snd[Peer(p)].chain
    /\ rcv[p].chain # None => rcv[p].n = snd[Peer(p)].n

(* A turn of p's that its peer has not read. *)
TurnUnread(p) ==
  \E i \in DOMAIN sent[p] : i > rcv[Peer(p)].nextSeq /\ sent[p][i].turn

(* Without a reset the turns of the two sides alternate: they are never    *)
(* both unread, so it is a forced turn, and only that, which the second    *)
(* retained secret is for.                                                 *)
TurnsAlternate ==
  resets = [p \in Party |-> 0] => ~(TurnUnread(Initiator) /\ TurnUnread(Acceptor))
=============================================================================
