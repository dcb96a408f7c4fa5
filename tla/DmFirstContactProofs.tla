------------------------ MODULE DmFirstContactProofs ------------------------
(***************************************************************************)
(* The safety properties of DmFirstContact, for any number of first        *)
(* contacts, deletions, rotated keys, relaunches and evictions, whoever    *)
(* opens first contacts and whoever deletes.                               *)
(*                                                                         *)
(* ContactInv says of each side that its channel, its hellos and the task  *)
(* it is in the middle of are those of the record it holds, and of the two *)
(* together that all that reached one side of a channel the other has      *)
(* begun once carries the opening of the record the other holds.           *)
(***************************************************************************)
EXTENDS DmFirstContact, TLAPS

(* The types.                                                              *)
Openings == [secret : Nat, serial : Nat]
Hellos == [gen : Chans, secret : Nat \ {0}, serial : Nat, rewritten : BOOLEAN]
Controls == [gen : Chans, secret : Nat, serial : Nat, cursor : BOOLEAN]
Messages == [gen : Chans, root : Nat, half : {Ini, Acc}]
Acceptances == [hello : Hellos, control : Controls, reply : Messages]
Records ==
  [gen : Chans, half : {Ini, Acc}, awaiting : BOOLEAN, pending : BOOLEAN,
   incoming : Chans \cup {NoGen},
   hello : Hellos \cup {None}, secret : BOOLEAN, opening : Openings, peerSecret : Nat,
   peerSerial : Nat, heard : BOOLEAN, read : BOOLEAN, marked : BOOLEAN]
Requests == [gen : Chans, own : Chans, secret : Nat \ {0}, serial : Nat]
Steps == {"idle", "channel", "load", "place", "write", "recognise", "erase", "opening",
          "finish", "closing", "drop"}
Runs ==
  [pc : Steps, hello : Hellos \cup {None}, awaiting : BOOLEAN, seen : Records \cup {None},
   read : BOOLEAN, heard : BOOLEAN, erase : Nat, accepting : BOOLEAN]
Lanes ==
  [pc : {"idle", "recognise"}, hello : Hellos \cup {None}, seen : Records \cup {None},
   reply : Messages \cup {None}, heard : BOOLEAN]

ContactTypes ==
  /\ conv \in [Party -> Records \cup {None}]
  /\ advert \in [Party -> [serial : Nat, retained : BOOLEAN]]
  /\ control \in [Party -> [Chans -> Controls \cup {None}]]
  /\ slot0 \in [Party -> [Chans -> Messages \cup {None}]]
  /\ drop \in [Party -> SUBSET Hellos] /\ pushed \in [Party -> SUBSET Acceptances]
  /\ run \in [Party -> Runs] /\ lane \in [Party -> Lanes]
  /\ request \in [Party -> Requests \cup {None}]
  /\ begun \in [Party -> [Chans -> Nat]]
  /\ opened \in 0 .. MaxOpened /\ minted \in Nat
  /\ deletes \in Nat /\ rotations \in Nat /\ faults \in Nat

(* A hello that the record c would place: its channel, its secret, and a   *)
(* serial that fits its opening.                                           *)
Places(c, h) ==
  h.gen = c.gen /\ h.secret = c.opening.secret /\ OpeningSerialFits(h, c.opening.serial)

(* The control subkey of p's channel carries the opening of the record c.  *)
Carries(p, c) ==
  control[p][c.gen] # None /\ control[p][c.gen].secret = c.opening.secret

(* What a record says of itself.                                           *)
RecordOk(c) ==
  /\ c.half = Ini => ~c.pending /\ c.gen # 0
  /\ ~c.pending => c.opening.secret # 0
  /\ c.opening = NoOpening \/ c.opening.secret # 0
  /\ c.half = Acc => ~c.awaiting /\ c.gen \in {c.incoming, 0}
  /\ c.awaiting => ~c.read
  /\ c.pending => ~c.read /\ ~c.heard
  /\ c.half = Acc /\ ~c.pending /\ c.hello = None => c.heard
  /\ c.hello # None => Places(c, c.hello)

(* A control subkey on the network is of its channel or closed.  One that  *)
(* carries the opening of the record its side holds says no more than the  *)
(* record has read, and a channel drawn for a first contact carries no     *)
(* other opening.                                                          *)
ControlOk(p, g) ==
  /\ control[p][g].gen \in {g, 0} /\ control[p][g].secret # 0
  /\ conv[p] # None /\ conv[p].gen = g =>
       /\ conv[p].half = Ini => control[p][g].secret = conv[p].opening.secret
       /\ control[p][g].secret = conv[p].opening.secret =>
            /\ control[p][g].serial = conv[p].opening.serial
            /\ control[p][g].cursor => conv[p].read
ChannelOk(p) ==
  /\ \A g \in Chans : control[p][g] # None => ControlOk(p, g)
  /\ conv[p] # None /\ ~conv[p].marked /\ conv[p].hello # None => Carries(p, conv[p])

(* What the runner may be in the middle of, over the record c.             *)
TaskOk(p, t, c) ==
  /\ t.pc # "idle" => c # None
  /\ t.pc \in {"opening", "channel", "load", "place", "write", "finish"} /\ t.accepting
       => c.pending
  /\ t.pc \in {"opening", "finish"} => t.accepting
  /\ t.pc = "channel" => c.opening.secret # 0
  /\ t.pc \in {"load", "place", "write"} =>
       t.hello # None /\ Places(c, t.hello) /\ Carries(p, c)
  /\ t.pc \in {"write", "finish"} /\ t.accepting => c.hello # None
  /\ t.pc = "recognise" => t.seen # None /\ t.seen.awaiting

(* What the live lane may be in the middle of.                             *)
LaneOk(t) == t.pc = "recognise" => t.seen # None /\ t.seen.awaiting

RunOk(p) == TaskOk(p, run[p], conv[p]) /\ LaneOk(lane[p])

(* A hello in the drop that carries the opening of its writer's record is  *)
(* one the record places, over a channel that is there.                    *)
DropOk(p) ==
  /\ \A h \in drop[Peer(p)] :
       /\ h.gen <= opened /\ h.secret <= minted
       /\ conv[p] # None /\ h.secret = conv[p].opening.secret =>
            Places(conv[p], h) /\ (~conv[p].marked => Carries(p, conv[p]))

(* Numbers not drawn yet stand nowhere.                                    *)
RequestDrawn(c) == c # None => c.gen <= opened /\ c.own \in {c.gen, 0}
DrawnOk(p) ==
  /\ conv[p] # None => conv[p].gen <= opened /\ conv[p].opening.secret <= minted
  /\ \A a \in pushed[p] : a.hello.gen <= opened
  /\ RequestDrawn(request[p])
  /\ \A g \in Chans : control[p][g] # None => g <= opened /\ control[p][g].secret <= minted

(* An acceptor that was heard was heard by one no longer waiting.          *)
HeardOk(p) ==
  LET c == conv[p]  d == conv[Peer(p)] IN
  c # None /\ d # None /\ c.half = Acc /\ c.heard /\ d.gen = c.gen => ~d.awaiting

(* The secret s of its correspondent's channel g has come to y: in a hello *)
(* or an acceptance it may still collect, or in what it made of one.       *)
Brought(y, g, s) ==
  \/ \E h \in drop[y] : h.gen = g /\ h.secret = s
  \/ \E a \in pushed[y] : a.hello.gen = g /\ a.hello.secret = s
  \/ request[y] # None /\ request[y].gen = g /\ request[y].secret = s
  \/ conv[y] # None /\ conv[y].incoming = g /\ conv[y].peerSecret = s

(* Nothing comes of a channel before it is begun.  Of the channel of the   *)
(* record x holds, where x has begun it once, only the secret of its       *)
(* opening has.  The first contacts of the two sides have channels of      *)
(* their own.                                                              *)
MeetOk(x) ==
  LET c == conv[x]  y == Peer(x) IN
  /\ \A g \in Chans : begun[x][g] = 0 => \A s : ~Brought(y, g, s)
  /\ \A g \in Chans : g > opened => begun[x][g] = 0
  /\ \A g \in Chans : c # None /\ c.gen = g =>
       /\ begun[x][g] # 0
       /\ c.half = Ini => begun[x][g] = 1
       /\ begun[x][g] = 1 => \A s : Brought(y, g, s) => s # 0 /\ s = c.opening.secret
  /\ c # None /\ conv[y] # None /\ c.half = Ini /\ conv[y].half = Ini => c.gen # conv[y].gen

(* What p alone keeps true: only p changes its record, channel and tasks,  *)
(* and only p adds to the drop of its correspondent.                       *)
Local(p) ==
  (conv[p] # None => RecordOk(conv[p])) /\ ChannelOk(p) /\ RunOk(p) /\ DropOk(p)

ContactInv == \A p \in Party : Local(p) /\ DrawnOk(p) /\ HeardOk(p) /\ MeetOk(p)

-----------------------------------------------------------------------------
(* The values the variables hold.                                          *)

LEMMA Peers ==
  ASSUME NEW p \in Party
  PROVE  /\ Peer(p) \in Party /\ Peer(p) # p /\ Peer(Peer(p)) = p
         /\ \A x \in Party : x = p \/ x = Peer(p)
  BY PartiesDiffer DEF Party, Peer

(* The fields of a record, and what tells it from the absent one.          *)
LEMMA RecordFields ==
  ASSUME NEW c \in Records
  PROVE  /\ c # None
         /\ c.gen \in Chans /\ c.gen \in Nat /\ c.half \in {Ini, Acc} /\ c.awaiting \in BOOLEAN
         /\ c.pending \in BOOLEAN /\ c.incoming \in Chans \cup {NoGen}
         /\ c.hello \in Hellos \cup {None} /\ c.secret \in BOOLEAN
         /\ c.opening \in Openings /\ c.opening.secret \in Nat /\ c.opening.serial \in Nat
         /\ c.peerSecret \in Nat /\ c.peerSerial \in Nat
         /\ c.heard \in BOOLEAN /\ c.read \in BOOLEAN /\ c.marked \in BOOLEAN
  <1>1. c.gen \in Chans /\ c.gen \in Nat
    BY BoundAssumption DEF Records, Chans
  <1>2. None.gen = -1
    BY DEF None, NoGen
  <1>3. c # None
    BY <1>1, <1>2
  <1>4. c.opening \in Openings
    BY DEF Records
  <1>5. c.opening.secret \in Nat /\ c.opening.serial \in Nat
    BY <1>4 DEF Openings
  <1> QED BY <1>1, <1>3, <1>4, <1>5 DEF Records

LEMMA HelloFields ==
  ASSUME NEW h \in Hellos
  PROVE  /\ h # None
         /\ h.gen \in Chans /\ h.gen \in Nat /\ h.secret \in Nat /\ h.secret # 0
         /\ h.serial \in Nat /\ h.rewritten \in BOOLEAN
  <1>1. h.gen \in Chans /\ h.gen \in Nat
    BY BoundAssumption DEF Hellos, Chans
  <1>2. None.gen = -1
    BY DEF None, NoGen
  <1> QED BY <1>1, <1>2 DEF Hellos

LEMMA SmallFields ==
  /\ \A d \in Controls : /\ d # None /\ d.gen \in Chans /\ d.secret \in Nat /\ d.serial \in Nat
                         /\ d.cursor \in BOOLEAN
  /\ \A m \in Messages : m # None /\ m.gen \in Chans /\ m.root \in Nat /\ m.half \in {Ini, Acc}
  /\ \A r \in Requests : /\ r # None /\ r.gen \in Chans /\ r.own \in Chans
                         /\ r.secret \in Nat /\ r.secret # 0 /\ r.serial \in Nat
  /\ \A a \in Acceptances : a.hello \in Hellos /\ a.control \in Controls /\ a.reply \in Messages
  /\ (\A g \in Chans : g \in Nat) /\ 0 \in Chans /\ NoGen \notin Chans
  <1>1. None.gen = -1
    BY DEF None, NoGen
  <1>2. (\A g \in Chans : g \in Nat) /\ 0 \in Chans /\ NoGen \notin Chans
    BY BoundAssumption DEF Chans, NoGen
  <1>3. \A d \in Controls : /\ d # None /\ d.gen \in Chans /\ d.secret \in Nat /\ d.serial \in Nat
                           /\ d.cursor \in BOOLEAN
    BY <1>1, <1>2 DEF Controls
  <1>4. \A m \in Messages : m # None /\ m.gen \in Chans /\ m.root \in Nat /\ m.half \in {Ini, Acc}
    BY <1>1, <1>2 DEF Messages
  <1>5. \A r \in Requests : /\ r # None /\ r.gen \in Chans /\ r.own \in Chans
                           /\ r.secret \in Nat /\ r.secret # 0 /\ r.serial \in Nat
    BY <1>1, <1>2 DEF Requests
  <1>6. \A a \in Acceptances : a.hello \in Hellos /\ a.control \in Controls /\ a.reply \in Messages
    BY DEF Acceptances
  <1> QED BY <1>2, <1>3, <1>4, <1>5, <1>6

LEMMA TaskFields ==
  /\ \A t \in Runs : /\ t.pc \in Steps /\ t.hello \in Hellos \cup {None}
                     /\ t.awaiting \in BOOLEAN /\ t.seen \in Records \cup {None}
                     /\ t.read \in BOOLEAN /\ t.heard \in BOOLEAN /\ t.erase \in Nat
                     /\ t.accepting \in BOOLEAN
  /\ \A t \in Lanes : /\ t.pc \in {"idle", "recognise"} /\ t.hello \in Hellos \cup {None}
                      /\ t.seen \in Records \cup {None}
                      /\ t.reply \in Messages \cup {None} /\ t.heard \in BOOLEAN
  /\ Idle \in Runs /\ LaneIdle \in Lanes
  /\ Idle.pc = "idle" /\ LaneIdle.pc = "idle"
  <1>1. Idle \in Runs /\ Idle.pc = "idle"
    BY DEF Runs, Idle, Steps
  <1>2. LaneIdle \in Lanes /\ LaneIdle.pc = "idle"
    BY DEF Lanes, LaneIdle
  <1>3. \A t \in Runs : /\ t.pc \in Steps /\ t.hello \in Hellos \cup {None}
                       /\ t.awaiting \in BOOLEAN /\ t.seen \in Records \cup {None}
                       /\ t.read \in BOOLEAN /\ t.heard \in BOOLEAN /\ t.erase \in Nat
                       /\ t.accepting \in BOOLEAN
    BY DEF Runs
  <1>4. \A t \in Lanes : /\ t.pc \in {"idle", "recognise"} /\ t.hello \in Hellos \cup {None}
                        /\ t.seen \in Records \cup {None}
                        /\ t.reply \in Messages \cup {None} /\ t.heard \in BOOLEAN
    BY DEF Lanes
  <1> QED BY <1>1, <1>2, <1>3, <1>4

-----------------------------------------------------------------------------
(* What a step of one side leaves of the invariant.                        *)

(* A side keeps what is local to it while its correspondent takes hellos   *)
(* out of its own drop, and numbers are drawn.                             *)
LEMMA OtherKept ==
  ASSUME ContactTypes, ContactTypes', NEW q \in Party, Local(q),
         conv'[q] = conv[q], control'[q] = control[q], run'[q] = run[q], lane'[q] = lane[q],
         drop'[Peer(q)] \subseteq drop[Peer(q)], opened' >= opened, minted' >= minted
  PROVE  Local(q)'
  <1>1. /\ opened \in Nat /\ minted \in Nat /\ opened' \in Nat /\ minted' \in Nat
        /\ \A h \in drop[Peer(q)] : h.gen \in Nat /\ h.secret \in Nat
    BY BoundAssumption, Peers, HelloFields DEF ContactTypes
  <1>2. (conv[q] # None => RecordOk(conv[q]))'
    BY DEF Local, RecordOk, Places, OpeningSerialFits
  <1>3. ChannelOk(q)'
    BY DEF Local, ChannelOk, ControlOk, Carries
  <1>4. RunOk(q)'
    BY DEF Local, RunOk, TaskOk, LaneOk, Places, OpeningSerialFits, Carries
  <1>5. DropOk(q)'
    <2>1. \A h \in drop[Peer(q)] : h.gen <= opened' /\ h.secret <= minted'
      BY <1>1 DEF Local, DropOk
    <2> QED BY <2>1 DEF Local, DropOk, Places, OpeningSerialFits, Carries
  <1> QED BY <1>2, <1>3, <1>4, <1>5 DEF Local

(* Who has been heard stays so while a record only moves on: it awaits no  *)
(* more than before, and an acceptor is not heard anew.                    *)
MovesOn(d, c) ==
  /\ d.gen = c.gen /\ d.half = c.half /\ (d.awaiting => c.awaiting)
  /\ d.half = Acc /\ d.heard => c.heard

LEMMA HeardKept ==
  ASSUME NEW p \in Party, HeardOk(p), HeardOk(Peer(p)), conv'[Peer(p)] = conv[Peer(p)],
         conv[p] # None, MovesOn(conv'[p], conv[p])
  PROVE  HeardOk(p)' /\ HeardOk(Peer(p))'
  BY Peers DEF HeardOk, MovesOn

LEMMA HeardUnchanged ==
  ASSUME NEW p \in Party, HeardOk(p), HeardOk(Peer(p)), conv'[Peer(p)] = conv[Peer(p)],
         conv'[p] = conv[p]
  PROVE  HeardOk(p)' /\ HeardOk(Peer(p))'
  BY Peers DEF HeardOk

(* A hello that carries the opening of the record of x.                    *)
Answers(x, h) ==
  conv[x] # None /\ h.gen = conv[x].gen /\ h.secret = conv[x].opening.secret /\ h.secret # 0

(* What has come to the correspondent of x stays as it should while the    *)
(* record of x stands, and what comes anew carries its opening.            *)
LEMMA MeetKept ==
  ASSUME ContactTypes, ContactTypes', ContactInv, NEW x \in Party, NEW y, y = Peer(x),
         begun'[x] = begun[x], opened' >= opened,
         conv'[x] # None => /\ conv[x] # None /\ conv'[x].gen = conv[x].gen
                            /\ conv'[x].half = conv[x].half /\ conv'[x].opening = conv[x].opening,
         conv'[y] # None /\ conv'[y].half = Ini =>
            \/ conv'[y].gen = opened + 1
            \/ conv[y] # None /\ conv[y].half = Ini /\ conv[y].gen = conv'[y].gen,
         \A g \in Chans : \A s : Brought(y, g, s)' =>
            \/ Brought(y, g, s)
            \/ conv[x] # None /\ g = conv[x].gen /\ s = conv[x].opening.secret /\ s # 0
  PROVE  MeetOk(x)'
  <1> DEFINE c == conv[x]
  <1>1. /\ y \in Party /\ MeetOk(x) /\ DrawnOk(x) /\ opened \in Nat /\ opened' \in Nat
        /\ conv[x] # None => conv[x].gen \in Chans /\ conv[x].gen \in Nat
        /\ \A g \in Chans : g \in Nat
    BY Peers, BoundAssumption, RecordFields, SmallFields DEF ContactTypes, ContactInv
  <1>2. \A g \in Chans : begun'[x][g] = 0 => \A s : ~Brought(y, g, s)'
    BY <1>1 DEF MeetOk
  <1>3. \A g \in Chans : g > opened' => begun'[x][g] = 0
    BY <1>1 DEF MeetOk
  <1>4. ASSUME NEW g \in Chans, conv'[x] # None, conv'[x].gen = g
        PROVE  /\ begun'[x][g] # 0 /\ (conv'[x].half = Ini => begun'[x][g] = 1)
               /\ begun'[x][g] = 1 =>
                    \A s : Brought(y, g, s)' => s # 0 /\ s = conv'[x].opening.secret
    <2>1. c # None /\ c.gen = g /\ conv'[x].half = c.half /\ conv'[x].opening = c.opening
      BY <1>4
    <2> QED BY <1>1, <2>1 DEF MeetOk
  <1>6. conv'[x] # None /\ conv'[y] # None /\ conv'[x].half = Ini /\ conv'[y].half = Ini
          => conv'[x].gen # conv'[y].gen
    BY <1>1 DEF MeetOk, DrawnOk
  <1> QED BY <1>2, <1>3, <1>4, <1>6 DEF MeetOk

(* The request r asks for a channel of a hello that has come to p.         *)
Asks(p, c) == RequestDrawn(c) /\ (c # None => Brought(p, c.gen, c.secret))

LEMMA AsksItself ==
  ASSUME ContactInv, NEW p \in Party
  PROVE  Asks(p, request[p]) /\ Asks(p, None)
  BY DEF ContactInv, DrawnOk, Asks, RequestDrawn, Brought

(* What p holds of its correspondent's channel has come to it.             *)
Holds(p, c) == c.incoming \in Chans => Brought(p, c.incoming, c.peerSecret)

(* The whole invariant after a step of p, from what the step does at p.    *)
LEMMA Composes ==
  ASSUME ContactTypes, ContactTypes', ContactInv, NEW p \in Party, NEW q, q = Peer(p),
         conv'[q] = conv[q], control'[q] = control[q], run'[q] = run[q], lane'[q] = lane[q],
         begun'[q] = begun[q],
         drop'[p] \subseteq drop[p], opened' >= opened, minted' >= minted,
         pushed'[p] = pushed[p], \A a \in pushed'[q] : a \in pushed[q] \/ a.hello.gen <= opened,
         request'[q] = request[q], Asks(p, request'[p]),
         conv'[p] # None => conv'[p].gen <= opened' /\ conv'[p].opening.secret <= minted',
         conv'[p] # None => Holds(p, conv'[p]),
         conv'[p] # None /\ conv'[p].half = Ini =>
            \/ conv'[p].gen = opened + 1
            \/ conv[p] # None /\ conv[p].half = Ini /\ conv[p].gen = conv'[p].gen,
         \A g \in Chans : \/ control'[p][g] \in {control[p][g], None}
                          \/ g <= opened /\ control'[p][g].secret <= minted,
         Local(p)', HeardOk(p)', HeardOk(q)', MeetOk(p)'
  PROVE  ContactInv'
  <1>1. q \in Party /\ Peer(q) = p /\ \A x \in Party : x = p \/ x = q
    BY Peers
  <1>2. Local(q)'
    BY <1>1, OtherKept DEF ContactInv
  <1>3. /\ opened \in Nat /\ minted \in Nat /\ opened' \in Nat /\ minted' \in Nat
        /\ conv[q] \in Records \cup {None} /\ request[q] \in Requests \cup {None}
        /\ request'[p] \in Requests \cup {None}
        /\ pushed[p] \subseteq Acceptances /\ pushed[q] \subseteq Acceptances
        /\ pushed'[q] \subseteq Acceptances
        /\ \A g \in Chans : /\ control[p][g] \in Controls \cup {None}
                            /\ control'[p][g] \in Controls \cup {None}
                            /\ control[q][g] \in Controls \cup {None}
    BY <1>1, BoundAssumption DEF ContactTypes
  <1>4. \A a \in Acceptances : a.hello.gen \in Nat
    BY SmallFields, HelloFields
  <1>5. DrawnOk(p) /\ DrawnOk(q)
    BY <1>1 DEF ContactInv
  <1>6. DrawnOk(p)'
    <2>1. \A a \in pushed'[p] : a.hello.gen <= opened'
      BY <1>3, <1>4, <1>5 DEF DrawnOk
    <2>2. RequestDrawn(request[p])'
      BY <1>3, SmallFields DEF Asks, RequestDrawn
    <2>3. \A g \in Chans : control'[p][g] # None => g <= opened' /\ control'[p][g].secret <= minted'
      BY <1>3, <1>5, SmallFields DEF DrawnOk
    <2> QED BY <2>1, <2>2, <2>3 DEF DrawnOk
  <1>7. DrawnOk(q)'
    <2>1. \A a \in pushed'[q] : a.hello.gen <= opened'
      BY <1>3, <1>4, <1>5 DEF DrawnOk
    <2>2. conv[q] # None => conv[q].gen \in Nat /\ conv[q].opening.secret \in Nat
      BY <1>3, RecordFields
    <2>3. conv'[q] # None => conv'[q].gen <= opened' /\ conv'[q].opening.secret <= minted'
      BY <1>3, <1>5, <2>2 DEF DrawnOk
    <2>4. RequestDrawn(request[q])'
      BY <1>3, <1>5, SmallFields DEF DrawnOk, RequestDrawn
    <2>5. \A g \in Chans : control'[q][g] # None => g <= opened' /\ control'[q][g].secret <= minted'
      BY <1>3, <1>5, SmallFields DEF DrawnOk
    <2> QED BY <2>1, <2>3, <2>4, <2>5 DEF DrawnOk
  <1>8. MeetOk(q)'
    <2>1. \A g \in Chans : \A s : Brought(p, g, s)' => Brought(p, g, s)
      BY DEF Brought, Asks, Holds
    <2> QED BY <1>1, <2>1, MeetKept
  <1>9. \A x \in Party : Local(x)' /\ DrawnOk(x)' /\ HeardOk(x)' /\ MeetOk(x)'
    BY <1>1, <1>2, <1>6, <1>7, <1>8
  <1> QED BY <1>9 DEF ContactInv

(* What a step of p sends its correspondent, if anything, carries the      *)
(* opening of the record of p.                                             *)
LEMMA MeetOwn ==
  ASSUME ContactTypes, ContactTypes', ContactInv, NEW p \in Party, NEW q, q = Peer(p),
         conv'[q] = conv[q], request'[q] = request[q], begun'[p] = begun[p], opened' >= opened,
         conv'[p] # None => /\ conv[p] # None /\ conv'[p].gen = conv[p].gen
                            /\ conv'[p].half = conv[p].half /\ conv'[p].opening = conv[p].opening,
         \A h \in drop'[q] : h \in drop[q] \/ Answers(p, h),
         \A a \in pushed'[q] : a \in pushed[q] \/ Answers(p, a.hello)
  PROVE  MeetOk(p)'
  <1>1. \A g \in Chans : \A s : Brought(q, g, s)' =>
            \/ Brought(q, g, s)
            \/ conv[p] # None /\ g = conv[p].gen /\ s = conv[p].opening.secret /\ s # 0
    BY DEF Brought, Answers
  <1> QED BY <1>1, MeetKept

(* An idle runner or lane is in the middle of nothing.                     *)
LEMMA IdleIsOk ==
  ASSUME NEW p, NEW c
  PROVE  TaskOk(p, Idle, c) /\ LaneOk(LaneIdle)
  BY TaskFields DEF TaskOk, LaneOk

(* The record d may follow the record c of p: the same channel, no less    *)
(* read, its hello over a channel that is there, and its correspondent's   *)
(* channel one that has come to p.                                         *)
Follows(p, d, c) ==
  /\ d.gen = c.gen /\ d.half = c.half /\ d.opening = c.opening
  /\ (c.marked => d.marked) /\ (c.read => d.read) /\ (d.awaiting => c.awaiting)
  /\ RecordOk(d)
  /\ ~d.marked /\ d.hello # None => Carries(p, c)
  /\ Holds(p, d)

(* A step at the store and the tasks of p: its record follows the one      *)
(* before, and what its tasks are in the middle of fits it.                *)
LEMMA RecordStep ==
  ASSUME ContactTypes, ContactInv, NEW p \in Party,
         conv[p] # None, NEW d \in Records, Follows(p, d, conv[p]),
         d.half = Acc /\ d.heard => conv[p].heard
           \/ (conv[Peer(p)] # None /\ conv[Peer(p)].gen = d.gen => ~conv[Peer(p)].awaiting),
         NEW t \in Runs, TaskOk(p, t, d), NEW l \in Lanes, LaneOk(l),
         NEW r \in Requests \cup {None}, Asks(p, r),
         conv' = [conv EXCEPT ![p] = d], run' = [run EXCEPT ![p] = t],
         lane' = [lane EXCEPT ![p] = l], request' = [request EXCEPT ![p] = r],
         deletes' \in Nat,
         UNCHANGED <<advert, network, begun, opened, minted, rotations, faults>>
  PROVE  ContactTypes' /\ ContactInv'
  <1> DEFINE q == Peer(p)
             c == conv[p]
  <1>1. q \in Party /\ q # p /\ Peer(q) = p
    BY Peers
  <1>2. ContactTypes'
    BY DEF ContactTypes, network
  <1>3. /\ conv'[p] = d /\ run'[p] = t /\ lane'[p] = l /\ request'[p] = r
        /\ conv'[q] = conv[q] /\ run'[q] = run[q] /\ lane'[q] = lane[q] /\ request'[q] = request[q]
        /\ UNCHANGED <<control, drop, pushed, begun, opened, minted>>
    BY <1>1 DEF ContactTypes, network
  <1>4. c \in Records /\ c # None /\ d # None /\ opened \in Nat /\ minted \in Nat
        /\ c.gen \in Nat /\ c.opening.secret \in Nat
    BY RecordFields, BoundAssumption DEF ContactTypes
  <1>5. Local(p) /\ DrawnOk(p) /\ HeardOk(p) /\ HeardOk(q)
    BY <1>1 DEF ContactInv
  <1> HIDE DEF c
  <1>6. ChannelOk(p)'
    BY <1>3, <1>4, <1>5 DEF Local, ChannelOk, ControlOk, Carries, Follows, c
  <1>7. RunOk(p)'
    BY <1>3 DEF RunOk, TaskOk, LaneOk, Places, OpeningSerialFits, Carries
  <1>8. DropOk(p)'
    BY <1>3, <1>4, <1>5 DEF Local, DropOk, Carries, Follows, Places, OpeningSerialFits, c
  <1>9. (conv[p] # None => RecordOk(conv[p]))'
    BY <1>3 DEF Follows, RecordOk, Places, OpeningSerialFits
  <1>10. Local(p)'
    BY <1>6, <1>7, <1>8, <1>9 DEF Local
  <1>11. HeardOk(p)' /\ HeardOk(q)'
    BY <1>1, <1>3, <1>4, <1>5 DEF HeardOk, Follows, c
  <1>12. conv'[p] # None => conv'[p].gen <= opened' /\ conv'[p].opening.secret <= minted'
    BY <1>3, <1>4, <1>5 DEF DrawnOk, Follows, c
  <1>13. /\ Holds(p, conv'[p]) /\ Asks(p, request'[p]) /\ conv'[p].gen = conv[p].gen
         /\ conv'[p].half = conv[p].half /\ conv'[p].opening = conv[p].opening
         /\ opened' >= opened /\ minted' >= minted
    BY <1>3, <1>4 DEF Follows
  <1> HIDE DEF q
  <1>14. q = Peer(p)
    BY DEF q
  <1>15. MeetOk(p)'
    BY <1>2, <1>3, <1>13, <1>14, MeetOwn
  <1>16. ContactInv'
    BY <1>2, <1>3, <1>10, <1>11, <1>12, <1>13, <1>14, <1>15, Composes
  <1> QED BY <1>2, <1>16

LEMMA SameAt ==
  ASSUME ContactTypes, NEW p \in Party
  PROVE  /\ [conv EXCEPT ![p] = conv[p]] = conv /\ [run EXCEPT ![p] = run[p]] = run
         /\ [lane EXCEPT ![p] = lane[p]] = lane /\ [request EXCEPT ![p] = request[p]] = request
         /\ run[p] \in Runs /\ lane[p] \in Lanes /\ request[p] \in Requests \cup {None}
         /\ conv[p] # None => conv[p] \in Records
         /\ [drop EXCEPT ![p] = drop[p]] = drop
         /\ advert \in [Party -> [serial : Nat, retained : BOOLEAN]]
         /\ deletes \in Nat /\ rotations \in Nat /\ faults \in Nat
  BY DEF ContactTypes

(* Where nothing but its channel's hello is asked of it a record follows   *)
(* itself.                                                                 *)
LEMMA FollowsItself ==
  ASSUME ContactInv, NEW p \in Party, conv[p] # None
  PROVE  Follows(p, conv[p], conv[p])
  <1>1. Holds(p, conv[p])
    BY DEF Holds, Brought
  <1> QED BY <1>1 DEF ContactInv, Local, ChannelOk, Follows

(* A step that only sets the runner of p to work, or to rest.              *)
LEMMA TaskStep ==
  ASSUME ContactTypes, ContactInv, NEW p \in Party, conv[p] # None,
         NEW t \in Runs, TaskOk(p, t, conv[p]), run' = [run EXCEPT ![p] = t],
         UNCHANGED <<store, network, lane, request, begun, counters>>
  PROVE  ContactTypes' /\ ContactInv'
  <1>1. /\ conv' = [conv EXCEPT ![p] = conv[p]] /\ lane' = [lane EXCEPT ![p] = lane[p]]
        /\ request' = [request EXCEPT ![p] = request[p]]
        /\ deletes' \in Nat
        /\ UNCHANGED <<advert, network, begun, opened, minted, rotations, faults>>
    BY SameAt DEF store, counters
  <1>2. LaneOk(lane[p]) /\ Asks(p, request[p])
    BY AsksItself DEF ContactInv, Local, RunOk
  <1>3. /\ Follows(p, conv[p], conv[p]) /\ conv[p] \in Records /\ lane[p] \in Lanes
        /\ request[p] \in Requests \cup {None}
    BY SameAt, FollowsItself
  <1> QED BY <1>1, <1>2, <1>3, RecordStep

(* A step that leaves the records and channels alone: at the tasks of p,   *)
(* at its advert, or taking hellos out of its drop.                        *)
LEMMA VolatileStep ==
  ASSUME ContactTypes, ContactInv, NEW p \in Party,
         NEW t \in Runs, TaskOk(p, t, conv[p]), NEW l \in Lanes, LaneOk(l),
         NEW r \in Requests \cup {None}, Asks(p, r),
         NEW H \in SUBSET drop[p],
         run' = [run EXCEPT ![p] = t], lane' = [lane EXCEPT ![p] = l],
         request' = [request EXCEPT ![p] = r], drop' = [drop EXCEPT ![p] = H],
         advert' \in [Party -> [serial : Nat, retained : BOOLEAN]],
         rotations' \in Nat, faults' \in Nat,
         UNCHANGED <<conv, control, slot0, pushed, begun, opened, minted, deletes>>
  PROVE  ContactTypes' /\ ContactInv'
  <1> DEFINE q == Peer(p)
  <1>1. q \in Party /\ q # p /\ Peer(q) = p
    BY Peers
  <1>2. ContactTypes'
    BY DEF ContactTypes
  <1>3. /\ run'[p] = t /\ lane'[p] = l /\ request'[p] = r /\ drop'[p] = H /\ drop'[q] = drop[q]
        /\ run'[q] = run[q] /\ lane'[q] = lane[q] /\ request'[q] = request[q]
    BY <1>1 DEF ContactTypes
  <1>4. Local(p) /\ DrawnOk(p) /\ HeardOk(p) /\ HeardOk(q)
    BY <1>1 DEF ContactInv
  <1>5. RunOk(p)'
    BY <1>3 DEF RunOk, TaskOk, LaneOk, Places, OpeningSerialFits, Carries
  <1>6. ChannelOk(p)' /\ DropOk(p)' /\ (conv[p] # None => RecordOk(conv[p]))'
    BY <1>3, <1>4
       DEF Local, ChannelOk, ControlOk, DropOk, RecordOk, Places, OpeningSerialFits, Carries
  <1>7. Local(p)'
    BY <1>5, <1>6 DEF Local
  <1>8. HeardOk(p)' /\ HeardOk(q)'
    BY <1>1, <1>4 DEF HeardOk
  <1>9. /\ conv'[p] # None => conv'[p].gen <= opened' /\ conv'[p].opening.secret <= minted'
        /\ opened' >= opened /\ minted' >= minted
    BY <1>4, BoundAssumption DEF DrawnOk, ContactTypes
  <1>10. conv'[p] # None => Holds(p, conv'[p])
    BY FollowsItself DEF Follows
  <1> HIDE DEF q
  <1>11. q = Peer(p)
    BY DEF q
  <1>12. drop'[p] \subseteq drop[p]
    BY <1>3
  <1>13. /\ conv'[q] = conv[q] /\ control'[q] = control[q] /\ pushed' = pushed
         /\ Asks(p, request'[p]) /\ begun' = begun /\ conv' = conv /\ control' = control
    BY <1>3
  <1>14. MeetOk(p)'
    BY <1>2, <1>3, <1>9, <1>11, <1>13, MeetOwn
  <1>15. ContactInv'
    BY <1>2, <1>3, <1>7, <1>8, <1>9, <1>10, <1>11, <1>12, <1>13, <1>14, Composes
  <1> QED BY <1>2, <1>15

(* The runner takes up what its record owes.                               *)
LEMMA ContinueFirstContactStep ==
  ASSUME ContactTypes, ContactInv, NEW p \in Party, ContinueFirstContact(p)
  PROVE  ContactTypes' /\ ContactInv'
  <1> DEFINE t == [Idle EXCEPT !.pc = "channel"]
  <1>1. conv[p] # None /\ conv[p].awaiting /\ RecordOk(conv[p]) /\ conv[p] \in Records
    BY SameAt DEF ContinueFirstContact, Living, ContactInv, Local
  <1>2. conv[p].opening.secret # 0
    BY <1>1, RecordFields DEF RecordOk
  <1>3. t \in Runs /\ t.pc = "channel" /\ t.accepting = FALSE
    BY DEF Runs, Idle, Steps
  <1>4. TaskOk(p, t, conv[p])
    BY <1>1, <1>2, <1>3 DEF TaskOk
  <1> HIDE DEF t
  <1>5. run' = [run EXCEPT ![p] = t] /\ UNCHANGED <<store, network, lane, request, begun, counters>>
    BY DEF ContinueFirstContact, Does, t
  <1> QED BY <1>1, <1>3, <1>4, <1>5, TaskStep

LEMMA RefreshFirstContactStep ==
  ASSUME ContactTypes, ContactInv, NEW p \in Party, RefreshFirstContact(p)
  PROVE  ContactTypes' /\ ContactInv'
  <1> DEFINE c == conv[p]
             h == HelloOf(c, advert[Peer(p)].serial, TRUE)
             t == [Idle EXCEPT !.pc = "load", !.hello = h]
  <1>1. /\ c # None /\ ~c.marked /\ c.awaiting /\ c.hello # None /\ c \in Records
        /\ advert[Peer(p)].serial > c.hello.serial
        /\ RecordOk(c) /\ ChannelOk(p)
    BY SameAt DEF RefreshFirstContact, Living, ContactInv, Local
  <1>2. Carries(p, c) /\ Places(c, c.hello) /\ c.opening.secret # 0 /\ c.hello \in Hellos
    BY <1>1, RecordFields DEF RecordOk, ChannelOk
  <1>3. advert[Peer(p)].serial \in Nat
    BY Peers DEF ContactTypes
  <1>4. h \in Hellos /\ Places(c, h)
    <2>1. c.gen \in Chans /\ c.opening.secret \in Nat \ {0} /\ c.opening.serial \in Nat
      BY <1>1, <1>2, RecordFields
    <2>2. h \in Hellos /\ h.gen = c.gen /\ h.secret = c.opening.secret
          /\ h.serial = advert[Peer(p)].serial /\ h.rewritten = TRUE
      BY <1>3, <2>1 DEF HelloOf, Hellos
    <2>3. c.opening.serial <= c.hello.serial /\ c.hello.serial \in Nat
      BY <1>2, <2>1, HelloFields DEF Places, OpeningSerialFits
    <2> HIDE DEF h, c
    <2>4. c.opening.serial < h.serial
      BY <1>1, <1>3, <2>1, <2>2, <2>3
    <2> QED BY <2>2, <2>4 DEF Places, OpeningSerialFits
  <1> HIDE DEF h
  <1>5. t \in Runs /\ t.pc = "load" /\ t.hello = h /\ t.accepting = FALSE
    BY <1>4 DEF Runs, Idle, Steps
  <1>6. TaskOk(p, t, c)
    BY <1>1, <1>2, <1>4, <1>5, HelloFields DEF TaskOk
  <1> HIDE DEF t
  <1>7. run' = [run EXCEPT ![p] = t] /\ UNCHANGED <<store, network, lane, request, begun, counters>>
    BY DEF RefreshFirstContact, Does, t, h
  <1> QED BY <1>1, <1>5, <1>6, <1>7, TaskStep

LEMMA ResumeFirstContactStep ==
  ASSUME ContactTypes, ContactInv, NEW p \in Party, ResumeFirstContact(p)
  PROVE  ContactTypes' /\ ContactInv'
  <1> DEFINE c == conv[p]
             t == [Idle EXCEPT !.pc = "write", !.hello = c.hello]
  <1>1. c # None /\ ~c.marked /\ c.hello # None /\ c \in Records /\ RecordOk(c) /\ ChannelOk(p)
    BY SameAt DEF ResumeFirstContact, Living, ContactInv, Local
  <1>2. Carries(p, c) /\ Places(c, c.hello) /\ c.hello \in Hellos
    BY <1>1, RecordFields DEF RecordOk, ChannelOk
  <1>3. t \in Runs /\ t.pc = "write" /\ t.hello = c.hello /\ t.accepting = FALSE
    BY <1>2 DEF Runs, Idle, Steps
  <1>4. TaskOk(p, t, c)
    BY <1>1, <1>2, <1>3 DEF TaskOk
  <1>5. run' = [run EXCEPT ![p] = t] /\ UNCHANGED <<store, network, lane, request, begun, counters>>
    BY DEF ResumeFirstContact, Does
  <1> HIDE DEF t
  <1> QED BY <1>1, <1>3, <1>4, <1>5, TaskStep

LEMMA ContinueAcceptanceStep ==
  ASSUME ContactTypes, ContactInv, NEW p \in Party, ContinueAcceptance(p)
  PROVE  ContactTypes' /\ ContactInv'
  <1> DEFINE t == [Idle EXCEPT !.pc = "opening", !.accepting = TRUE]
  <1>1. conv[p] # None /\ conv[p].pending
    BY DEF ContinueAcceptance, Living
  <1>2. t \in Runs /\ t.pc = "opening" /\ t.accepting = TRUE
    BY DEF Runs, Idle, Steps
  <1>3. TaskOk(p, t, conv[p])
    BY <1>1, <1>2 DEF TaskOk
  <1>4. run' = [run EXCEPT ![p] = t] /\ UNCHANGED <<store, network, lane, request, begun, counters>>
    BY DEF ContinueAcceptance, Does
  <1> HIDE DEF t
  <1> QED BY <1>1, <1>2, <1>3, <1>4, TaskStep

LEMMA PlaceLoadStep ==
  ASSUME ContactTypes, ContactInv, NEW p \in Party, PlaceLoad(p)
  PROVE  ContactTypes' /\ ContactInv'
  <1> DEFINE c == conv[p]
             u == run[p]
             t == [u EXCEPT !.pc = "place", !.awaiting = c.awaiting]
  <1>1. u \in Runs /\ u.pc = "load" /\ TaskOk(p, u, c)
    BY SameAt DEF PlaceLoad, ContactInv, Local, RunOk
  <1>2. c # None /\ c \in Records
    BY <1>1, SameAt DEF TaskOk
  <1>3. c.awaiting \in BOOLEAN
    BY <1>2, RecordFields
  <1> HIDE DEF u
  <1>4. /\ t \in Runs /\ t.pc = "place" /\ t.hello = u.hello /\ t.accepting = u.accepting
    BY <1>1, <1>3 DEF Runs, Steps
  <1>5. TaskOk(p, t, c)
    BY <1>1, <1>2, <1>4 DEF TaskOk
  <1>6. run' = [run EXCEPT ![p] = t] /\ UNCHANGED <<store, network, lane, request, begun, counters>>
    BY DEF PlaceLoad, Does, u
  <1> HIDE DEF t
  <1> QED BY <1>2, <1>4, <1>5, <1>6, TaskStep

(* The two sections of a recognition, at an initiator that awaits it.      *)
LEMMA RecognisingOk ==
  ASSUME NEW p, NEW c \in Records, RecordOk(c), c.awaiting, NEW h \in Hellos,
         Follows(p, c, c), Brought(p, h.gen, h.secret)
  PROVE  LET d == Recognising(c, h)
         IN  /\ d \in Records /\ Follows(p, d, c) /\ d.awaiting /\ d.half = Ini
             /\ d.peerSecret = h.secret /\ d.incoming = h.gen
             /\ d.pending = c.pending /\ d.hello = c.hello /\ d.marked = c.marked
  <1> DEFINE d == Recognising(c, h)
  <1>1. h.gen \in Chans /\ h.secret \in Nat
    BY HelloFields
  <1>2. /\ d \in Records /\ d.gen = c.gen /\ d.half = c.half /\ d.opening = c.opening
        /\ d.awaiting = c.awaiting /\ d.pending = c.pending /\ d.hello = c.hello
        /\ d.heard = c.heard /\ d.read = c.read /\ d.marked = c.marked
        /\ d.peerSecret = h.secret /\ d.incoming = h.gen
    BY <1>1 DEF Recognising, Records
  <1>3. c.half = Ini
    BY RecordFields DEF RecordOk
  <1>4. Ini # Acc
    BY DEF Ini, Acc
  <1> HIDE DEF d
  <1>5. RecordOk(d)
    BY <1>2, <1>3, <1>4 DEF RecordOk, Places, OpeningSerialFits
  <1>6. Follows(p, d, c)
    BY <1>2, <1>5 DEF Follows, Holds
  <1> QED BY <1>2, <1>3, <1>6 DEF d

LEMMA RecognisedOk ==
  ASSUME NEW p, NEW c \in Records, RecordOk(c), c.awaiting, Follows(p, c, c),
         NEW read \in BOOLEAN, NEW heard \in BOOLEAN
  PROVE  LET d == Recognised(c, read, heard)
         IN  /\ d \in Records /\ Follows(p, d, c) /\ ~d.awaiting /\ d.half = Ini
             /\ d.peerSecret = c.peerSecret /\ d.incoming = c.incoming
             /\ d.pending = c.pending /\ d.marked = c.marked
  <1> DEFINE d == Recognised(c, read, heard)
  <1>1. /\ d \in Records /\ d.gen = c.gen /\ d.half = c.half /\ d.opening = c.opening
        /\ d.awaiting = FALSE /\ d.pending = c.pending /\ d.hello = None
        /\ d.marked = c.marked /\ d.peerSecret = c.peerSecret /\ d.incoming = c.incoming
    BY DEF Recognised, Records
  <1>2. c.half = Ini /\ ~c.read /\ ~c.pending
    BY RecordFields DEF RecordOk
  <1>3. Ini # Acc
    BY DEF Ini, Acc
  <1> HIDE DEF d
  <1>4. RecordOk(d)
    BY <1>1, <1>2, <1>3, RecordFields DEF RecordOk
  <1>5. Follows(p, d, c)
    BY <1>1, <1>2, <1>4 DEF Follows, Holds
  <1> QED BY <1>1, <1>2, <1>5 DEF d

(* What the runner is in the middle of is as good over a record of the     *)
(* same channel that is no less pending.                                   *)
LEMMA TaskOver ==
  ASSUME NEW p, NEW t, NEW c \in Records, NEW d \in Records, TaskOk(p, t, c),
         d.gen = c.gen, d.opening = c.opening, c.pending => d.pending,
         c.marked => d.marked, c.pending => d.hello = c.hello
  PROVE  TaskOk(p, t, d)
  BY RecordFields DEF TaskOk, Places, OpeningSerialFits, Carries

LEMMA TakePushStep ==
  ASSUME ContactTypes, ContactInv, NEW p \in Party, TakePush(p)
  PROVE  ContactTypes' /\ ContactInv'
  <1> DEFINE c == conv[p]
  <1>1. /\ c # None /\ ~c.marked /\ c.awaiting /\ c \in Records
        /\ RecordOk(c) /\ Follows(p, c, c) /\ TaskOk(p, run[p], c)
    BY SameAt, FollowsItself DEF TakePush, Living, ContactInv, Local, RunOk
  <1>2. PICK a \in pushed[p] :
          LET d == Recognising(conv[p], a.hello) IN
          /\ conv' = [conv EXCEPT ![p] = d]
          /\ lane' = [lane EXCEPT ![p] = [pc |-> "recognise", hello |-> a.hello, seen |-> d,
                                          reply |-> a.reply, heard |-> a.control.cursor]]
    BY DEF TakePush, Stores
  <1>3. a.hello \in Hellos /\ a.control \in Controls /\ a.reply \in Messages
        /\ a.control.cursor \in BOOLEAN /\ Brought(p, a.hello.gen, a.hello.secret)
    BY SmallFields DEF ContactTypes, Brought
  <1> DEFINE d == Recognising(c, a.hello)
             l == [pc |-> "recognise", hello |-> a.hello, seen |-> d,
                   reply |-> a.reply, heard |-> a.control.cursor]
  <1>4. /\ d \in Records /\ Follows(p, d, c) /\ d.awaiting /\ d.half = Ini
        /\ d.pending = c.pending /\ d.hello = c.hello /\ d.marked = c.marked
    BY <1>1, <1>3, RecognisingOk
  <1>5. conv' = [conv EXCEPT ![p] = d] /\ lane' = [lane EXCEPT ![p] = l]
    BY <1>2
  <1> HIDE DEF d
  <1>6. l \in Lanes /\ LaneOk(l)
    BY <1>3, <1>4, RecordFields DEF Lanes, LaneOk
  <1> HIDE DEF l
  <1>7. TaskOk(p, run[p], d)
    BY <1>1, <1>4, TaskOver DEF Follows
  <1>8. /\ run' = [run EXCEPT ![p] = run[p]] /\ request' = [request EXCEPT ![p] = request[p]]
        /\ deletes' \in Nat
        /\ UNCHANGED <<advert, network, begun, opened, minted, rotations, faults>>
    BY SameAt DEF TakePush, counters
  <1>9. run[p] \in Runs /\ request[p] \in Requests \cup {None}
        /\ Asks(p, request[p]) /\ Ini # Acc
    BY SameAt, AsksItself DEF Ini, Acc
  <1> QED BY <1>1, <1>4, <1>5, <1>6, <1>7, <1>8, <1>9, RecordStep

LEMMA CommitPushStep ==
  ASSUME ContactTypes, ContactInv, NEW p \in Party, CommitPush(p)
  PROVE  ContactTypes' /\ ContactInv'
  <1> DEFINE c == conv[p]
             read == Opens(c, lane[p].reply)
             heard == lane[p].heard
             d == Recognised(c, read, heard)
  <1>1. /\ lane[p].pc = "recognise" /\ lane' = [lane EXCEPT ![p] = LaneIdle]
        /\ \/ StillAsSeen(p, lane[p].seen) /\ conv' = [conv EXCEPT ![p] = d]
           \/ conv' = conv
        /\ run' = [run EXCEPT ![p] = run[p]] /\ request' = [request EXCEPT ![p] = request[p]]
        /\ deletes' \in Nat
        /\ UNCHANGED <<advert, network, begun, opened, minted, rotations, faults>>
    BY SameAt DEF CommitPush, Stores, counters
  <1>2. /\ run[p] \in Runs /\ request[p] \in Requests \cup {None}
        /\ lane[p].seen # None /\ lane[p].seen.awaiting /\ heard \in BOOLEAN
        /\ Asks(p, request[p]) /\ Ini # Acc
        /\ LaneIdle \in Lanes /\ LaneOk(LaneIdle) /\ TaskOk(p, run[p], c)
    BY <1>1, SameAt, TaskFields, IdleIsOk, AsksItself DEF ContactInv, Local, RunOk, LaneOk, Ini, Acc
  <1>3. CASE StillAsSeen(p, lane[p].seen) /\ conv' = [conv EXCEPT ![p] = d]
    <2>1. c # None /\ c.awaiting /\ c \in Records /\ RecordOk(c) /\ Follows(p, c, c)
      BY <1>2, <1>3, SameAt, FollowsItself DEF StillAsSeen, ContactInv, Local
    <2>2. read \in BOOLEAN
      BY DEF Opens
    <2> HIDE DEF read, heard
    <2>3. /\ d \in Records /\ Follows(p, d, c) /\ d.half = Ini
          /\ d.pending = c.pending /\ d.marked = c.marked
      BY <1>2, <2>1, <2>2, RecognisedOk
    <2> HIDE DEF d
    <2>4. ~c.pending
      BY <2>1, RecordFields DEF RecordOk
    <2>5. TaskOk(p, run[p], d)
      BY <1>2, <2>1, <2>3, <2>4, TaskOver DEF Follows
    <2> QED BY <1>1, <1>2, <1>3, <2>1, <2>3, <2>5, RecordStep
  <1>4. CASE conv' = conv
    <2>1. /\ drop' = [drop EXCEPT ![p] = drop[p]]
          /\ advert' \in [Party -> [serial : Nat, retained : BOOLEAN]]
          /\ rotations' \in Nat /\ faults' \in Nat
          /\ UNCHANGED <<conv, control, slot0, pushed, begun, opened, minted, deletes>>
      BY <1>4, SameAt DEF CommitPush, network, counters
    <2> QED BY <1>1, <1>2, <2>1, VolatileStep
  <1> QED BY <1>1, <1>3, <1>4

LEMMA PlacePersistStep ==
  ASSUME ContactTypes, ContactInv, NEW p \in Party, PlacePersist(p)
  PROVE  ContactTypes' /\ ContactInv'
  <1> DEFINE c == conv[p]
             u == run[p]
             d == [c EXCEPT !.hello = u.hello, !.secret = @ /\ c.awaiting]
             t == [u EXCEPT !.pc = "write"]
  <1>1. u \in Runs /\ u.pc = "place" /\ TaskOk(p, u, c)
    BY SameAt DEF PlacePersist, ContactInv, Local, RunOk
  <1>2. /\ c # None /\ c \in Records /\ RecordOk(c) /\ Follows(p, c, c)
        /\ u.hello # None /\ u.hello \in Hellos /\ Places(c, u.hello) /\ Carries(p, c)
    BY <1>1, SameAt, TaskFields, FollowsItself DEF TaskOk, ContactInv, Local
  <1>3. \/ run' = [run EXCEPT ![p] = Idle] /\ UNCHANGED conv
        \/ conv' = [conv EXCEPT ![p] = d] /\ run' = [run EXCEPT ![p] = t]
    BY DEF PlacePersist, Does, Stores
  <1>4. /\ lane' = [lane EXCEPT ![p] = lane[p]] /\ request' = [request EXCEPT ![p] = request[p]]
        /\ deletes' \in Nat /\ UNCHANGED <<advert, network, begun, opened, minted, rotations, faults>>
        /\ lane[p] \in Lanes /\ request[p] \in Requests \cup {None} /\ LaneOk(lane[p])
        /\ Asks(p, request[p])
    BY SameAt, AsksItself DEF PlacePersist, counters, ContactInv, Local, RunOk
  <1>5. CASE run' = [run EXCEPT ![p] = Idle] /\ UNCHANGED conv
    <2>1. UNCHANGED <<store, network, lane, request, begun, counters>>
      BY <1>5 DEF PlacePersist, store
    <2> QED BY <1>2, <1>5, <2>1, TaskFields, IdleIsOk, TaskStep
  <1>6. CASE conv' = [conv EXCEPT ![p] = d] /\ run' = [run EXCEPT ![p] = t]
    <2>1. c.secret \in BOOLEAN /\ c.awaiting \in BOOLEAN
      BY <1>2, RecordFields
    <2>2. (c.secret /\ c.awaiting) \in BOOLEAN
      OBVIOUS
    <2>3. /\ d \in Records /\ d.gen = c.gen /\ d.half = c.half /\ d.opening = c.opening
          /\ d.awaiting = c.awaiting /\ d.pending = c.pending /\ d.hello = u.hello
          /\ d.heard = c.heard /\ d.read = c.read /\ d.marked = c.marked
          /\ d.incoming = c.incoming /\ d.peerSecret = c.peerSecret
      BY <1>2, <2>2 DEF Records
    <2>4. t \in Runs /\ t.pc = "write" /\ t.hello = u.hello /\ t.accepting = u.accepting
      BY <1>1 DEF Runs, Steps
    <2> HIDE DEF d, t, c, u
    <2>5. RecordOk(d)
      BY <1>2, <2>3 DEF RecordOk, Places, OpeningSerialFits
    <2>6. Follows(p, d, c)
      BY <1>2, <2>3, <2>5 DEF Follows, Holds
    <2>7. TaskOk(p, t, d)
      BY <1>1, <1>2, <2>3, <2>4, RecordFields DEF TaskOk, Places, OpeningSerialFits, Carries
    <2>8. d.half = Acc /\ d.heard => c.heard
      BY <2>3
    <2> QED BY <1>2, <1>4, <1>6, <2>3, <2>4, <2>6, <2>7, <2>8, RecordStep DEF c
  <1> QED BY <1>3, <1>5, <1>6

(* What the steps that leave the tasks and the request of p alone have in  *)
(* common.                                                                 *)
LEMMA StoreStep ==
  ASSUME ContactTypes, ContactInv, NEW p \in Party,
         conv[p] # None, NEW d \in Records, Follows(p, d, conv[p]), TaskOk(p, run[p], d),
         d.half = Acc /\ d.heard => conv[p].heard
           \/ (conv[Peer(p)] # None /\ conv[Peer(p)].gen = d.gen => ~conv[Peer(p)].awaiting),
         conv' = [conv EXCEPT ![p] = d], deletes' \in Nat,
         UNCHANGED <<advert, network, volatile, begun, opened, minted, rotations, faults>>
  PROVE  ContactTypes' /\ ContactInv'
  <1>1. /\ run' = [run EXCEPT ![p] = run[p]] /\ lane' = [lane EXCEPT ![p] = lane[p]]
        /\ request' = [request EXCEPT ![p] = request[p]]
        /\ UNCHANGED <<advert, network, begun, opened, minted, rotations, faults>>
        /\ run[p] \in Runs /\ lane[p] \in Lanes /\ request[p] \in Requests \cup {None}
        /\ LaneOk(lane[p]) /\ Asks(p, request[p])
    BY SameAt, AsksItself DEF volatile, ContactInv, Local, RunOk
  <1> QED BY <1>1, RecordStep

LEMMA SettleHelloStep ==
  ASSUME ContactTypes, ContactInv, NEW p \in Party, SettleHello(p)
  PROVE  ContactTypes' /\ ContactInv'
  <1> DEFINE c == conv[p]
             d == [c EXCEPT !.hello = None]
  <1>1. /\ c # None /\ ~c.marked /\ ~c.awaiting /\ c.heard /\ c \in Records /\ RecordOk(c)
        /\ run[p].pc = "idle" /\ Follows(p, c, c)
    BY SameAt, FollowsItself DEF SettleHello, Living, Free, ContactInv, Local
  <1>2. /\ d \in Records /\ d.gen = c.gen /\ d.half = c.half /\ d.opening = c.opening
        /\ d.awaiting = c.awaiting /\ d.pending = c.pending /\ d.hello = None
        /\ d.heard = c.heard /\ d.read = c.read /\ d.marked = c.marked
        /\ d.incoming = c.incoming /\ d.peerSecret = c.peerSecret
    BY <1>1 DEF Records
  <1> HIDE DEF d
  <1>3. RecordOk(d) /\ d # None
    BY <1>1, <1>2, RecordFields DEF RecordOk
  <1>4. Follows(p, d, c)
    BY <1>1, <1>2, <1>3 DEF Follows, Holds
  <1>5. TaskOk(p, run[p], d)
    BY <1>1, <1>3 DEF TaskOk
  <1>6. /\ conv' = [conv EXCEPT ![p] = d] /\ deletes' \in Nat
        /\ UNCHANGED <<advert, network, volatile, begun, opened, minted, rotations, faults>>
    BY SameAt DEF SettleHello, Stores, counters, d
  <1> QED BY <1>1, <1>2, <1>4, <1>5, <1>6, StoreStep

LEMMA MarkDeleteStep ==
  ASSUME ContactTypes, ContactInv, NEW p \in Party, MarkDelete(p)
  PROVE  ContactTypes' /\ ContactInv'
  <1> DEFINE c == conv[p]
             d == [c EXCEPT !.marked = TRUE]
  <1>1. /\ c # None /\ ~c.marked /\ c \in Records /\ RecordOk(c) /\ TaskOk(p, run[p], c)
        /\ Follows(p, c, c)
    BY SameAt, FollowsItself DEF MarkDelete, Living, ContactInv, Local, RunOk
  <1>2. /\ d \in Records /\ d.gen = c.gen /\ d.half = c.half /\ d.opening = c.opening
        /\ d.awaiting = c.awaiting /\ d.pending = c.pending /\ d.hello = c.hello
        /\ d.heard = c.heard /\ d.read = c.read /\ d.marked = TRUE
        /\ d.incoming = c.incoming /\ d.peerSecret = c.peerSecret
    BY <1>1 DEF Records
  <1> HIDE DEF d
  <1>3. RecordOk(d)
    BY <1>1, <1>2 DEF RecordOk, Places, OpeningSerialFits
  <1>4. Follows(p, d, c)
    BY <1>1, <1>2, <1>3 DEF Follows, Holds
  <1>5. TaskOk(p, run[p], d)
    BY <1>1, <1>2, TaskOver
  <1>6. /\ conv' = [conv EXCEPT ![p] = d] /\ deletes' \in Nat
        /\ UNCHANGED <<advert, network, volatile, begun, opened, minted, rotations, faults>>
    BY SameAt DEF MarkDelete, Stores, d
  <1> QED BY <1>1, <1>2, <1>4, <1>5, <1>6, StoreStep

(* A collection that finds itself heard reads the cursor of the record its *)
(* correspondent holds, which has read the ring and so no longer waits: a  *)
(* record that waits is an initiator's, whose channel carries its opening. *)
LEMMA CollectChannelStep ==
  ASSUME ContactTypes, ContactInv, NEW p \in Party, CollectChannel(p)
  PROVE  ContactTypes' /\ ContactInv'
  <1> DEFINE c == conv[p]
             q == Peer(p)
             found == control[q][c.incoming]
             read == c.read \/ Opens(c, slot0[q][c.incoming])
             new == found # None /\ found.secret = c.peerSecret /\ found.cursor
             heard == c.heard \/ new
             d == [c EXCEPT !.read = read, !.heard = heard]
  <1>1. /\ c # None /\ ~c.marked /\ ~c.awaiting /\ ~c.pending /\ c \in Records /\ RecordOk(c)
        /\ run[p].pc = "idle" /\ Follows(p, c, c)
        /\ conv' = [conv EXCEPT ![p] = d] /\ UNCHANGED <<advert, network, volatile, begun, counters>>
    BY SameAt, FollowsItself
       DEF CollectChannel, Living, Free, Established, ContactInv, Local, Stores
  <1>2. c.half = Acc /\ new /\ conv[q] # None /\ conv[q].gen = c.gen => ~conv[q].awaiting
    <2>1. /\ q \in Party /\ c.gen \in Chans /\ (c.half = Acc => c.gen \in {c.incoming, 0})
          /\ Ini # Acc
      BY <1>1, Peers, RecordFields DEF RecordOk, Ini, Acc
    <2>2. /\ conv[q] # None => RecordOk(conv[q]) /\ conv[q] \in Records
          /\ \A g \in Chans : control[q][g] # None => ControlOk(q, g)
      BY <2>1, SameAt DEF ContactInv, Local, ChannelOk
    <2>3. SUFFICES ASSUME c.half = Acc, new, conv[q] # None, conv[q].gen = c.gen, conv[q].awaiting
                   PROVE  FALSE
      OBVIOUS
    <2>4. conv[q].half = Ini /\ conv[q].gen # 0 /\ ~conv[q].read
      BY <2>2, <2>3, RecordFields DEF RecordOk
    <2>5. c.gen = c.incoming /\ found # None /\ found.cursor
      BY <2>1, <2>3, <2>4
    <2> QED BY <2>1, <2>2, <2>3, <2>4, <2>5 DEF ControlOk
  <1>3. read \in BOOLEAN /\ heard \in BOOLEAN
    BY <1>1, RecordFields DEF Opens
  <1> HIDE DEF new
  <1>4. (c.read => read) /\ (c.heard => heard) /\ (heard => c.heard \/ new)
    BY DEF new
  <1> HIDE DEF read, heard
  <1>5. /\ d \in Records /\ d.gen = c.gen /\ d.half = c.half /\ d.opening = c.opening
        /\ d.awaiting = c.awaiting /\ d.pending = c.pending /\ d.hello = c.hello
        /\ (d.heard <=> heard) /\ (d.read <=> read) /\ d.marked = c.marked
        /\ d.incoming = c.incoming /\ d.peerSecret = c.peerSecret
    BY <1>1, <1>3 DEF Records
  <1> HIDE DEF d
  <1>6. RecordOk(d) /\ d # None
    BY <1>1, <1>4, <1>5, RecordFields DEF RecordOk, Places, OpeningSerialFits
  <1>7. Follows(p, d, c)
    BY <1>1, <1>4, <1>5, <1>6 DEF Follows, Holds
  <1>8. TaskOk(p, run[p], d)
    BY <1>1, <1>6 DEF TaskOk
  <1>9. d.half = Acc /\ d.heard => c.heard \/ (conv[q] # None /\ conv[q].gen = d.gen => ~conv[q].awaiting)
    BY <1>2, <1>4, <1>5
  <1>10. deletes' \in Nat /\ UNCHANGED <<advert, network, volatile, begun, opened, minted, rotations, faults>>
    BY <1>1, SameAt DEF counters
  <1> QED BY <1>1, <1>5, <1>7, <1>8, <1>9, <1>10, StoreStep DEF q

LEMMA RecogniseStep ==
  ASSUME ContactTypes, ContactInv, NEW p \in Party, Recognise(p)
  PROVE  ContactTypes' /\ ContactInv'
  <1> DEFINE c == conv[p]
             u == run[p]
             read == Opens(c, slot0[Peer(p)][c.incoming])
             d == Recognised(c, read, u.heard)
             t == [u EXCEPT !.pc = "erase"]
  <1>1. u \in Runs /\ u.pc = "recognise" /\ u.seen # None /\ u.seen.awaiting /\ u.heard \in BOOLEAN
    BY SameAt, TaskFields DEF Recognise, ContactInv, Local, RunOk, TaskOk
  <1>2. c # None /\ c \in Records /\ RecordOk(c) /\ Follows(p, c, c)
    BY <1>1, SameAt, FollowsItself DEF ContactInv, Local, RunOk, TaskOk
  <1>3. \/ StillAsSeen(p, u.seen) /\ conv' = [conv EXCEPT ![p] = d] /\ run' = [run EXCEPT ![p] = t]
        \/ run' = [run EXCEPT ![p] = Idle] /\ UNCHANGED conv
    BY DEF Recognise, Does, Stores
  <1>4. /\ lane' = [lane EXCEPT ![p] = lane[p]] /\ request' = [request EXCEPT ![p] = request[p]]
        /\ deletes' \in Nat /\ UNCHANGED <<advert, network, begun, opened, minted, rotations, faults>>
        /\ lane[p] \in Lanes /\ request[p] \in Requests \cup {None} /\ LaneOk(lane[p])
        /\ Asks(p, request[p])
    BY SameAt, AsksItself DEF Recognise, counters, ContactInv, Local, RunOk
  <1>5. CASE run' = [run EXCEPT ![p] = Idle] /\ UNCHANGED conv
    <2>1. UNCHANGED <<store, network, lane, request, begun, counters>>
      BY <1>5 DEF Recognise, store
    <2> QED BY <1>2, <1>5, <2>1, TaskFields, IdleIsOk, TaskStep
  <1>6. CASE StillAsSeen(p, u.seen) /\ conv' = [conv EXCEPT ![p] = d] /\ run' = [run EXCEPT ![p] = t]
    <2>1. c.awaiting /\ read \in BOOLEAN /\ Ini # Acc
      BY <1>1, <1>6 DEF StillAsSeen, Opens, Ini, Acc
    <2>2. t \in Runs /\ t.pc = "erase"
      BY <1>1 DEF Runs, Steps
    <2> HIDE DEF read
    <2>3. d \in Records /\ Follows(p, d, c) /\ d.half = Ini
      BY <1>1, <1>2, <2>1, RecognisedOk
    <2> HIDE DEF d, t
    <2>4. TaskOk(p, t, d)
      BY <2>2, <2>3, RecordFields DEF TaskOk
    <2> QED BY <1>2, <1>4, <1>6, <2>1, <2>2, <2>3, <2>4, RecordStep
  <1> QED BY <1>3, <1>5, <1>6

LEMMA FinishAcceptStep ==
  ASSUME ContactTypes, ContactInv, NEW p \in Party, FinishAccept(p)
  PROVE  ContactTypes' /\ ContactInv'
  <1> DEFINE c == conv[p]
             d == [c EXCEPT !.pending = FALSE, !.read = run[p].read]
  <1>1. run[p] \in Runs /\ run[p].pc = "finish" /\ TaskOk(p, run[p], c) /\ run[p].read \in BOOLEAN
    BY SameAt, TaskFields DEF FinishAccept, ContactInv, Local, RunOk
  <1>2. /\ c # None /\ c \in Records /\ RecordOk(c) /\ Follows(p, c, c)
        /\ c.pending /\ c.hello # None
    BY <1>1, SameAt, FollowsItself DEF TaskOk, ContactInv, Local
  <1>3. c.half = Acc /\ ~c.awaiting /\ ~c.read /\ ~c.heard /\ c.opening.secret # 0
    BY <1>2, RecordFields, HelloFields DEF RecordOk, Places
  <1>4. /\ d \in Records /\ d.gen = c.gen /\ d.half = c.half /\ d.opening = c.opening
        /\ d.awaiting = c.awaiting /\ d.pending = FALSE /\ d.hello = c.hello
        /\ d.heard = c.heard /\ d.marked = c.marked /\ d.incoming = c.incoming
        /\ d.peerSecret = c.peerSecret
    BY <1>1, <1>2 DEF Records
  <1>5. /\ conv' = [conv EXCEPT ![p] = d] /\ run' = [run EXCEPT ![p] = Idle]
        /\ lane' = [lane EXCEPT ![p] = lane[p]] /\ request' = [request EXCEPT ![p] = None]
        /\ deletes' \in Nat /\ UNCHANGED <<advert, network, begun, opened, minted, rotations, faults>>
        /\ lane[p] \in Lanes /\ LaneOk(lane[p]) /\ Asks(p, None)
    BY SameAt, AsksItself DEF FinishAccept, Stores, Does, counters, ContactInv, Local, RunOk
  <1> HIDE DEF d
  <1>6. RecordOk(d) /\ Ini # Acc
    BY <1>2, <1>3, <1>4 DEF RecordOk, Places, OpeningSerialFits, Ini, Acc
  <1>7. Follows(p, d, c)
    BY <1>2, <1>3, <1>4, <1>6 DEF Follows, Holds
  <1>8. ~(d.half = Acc /\ d.heard)
    BY <1>3, <1>4
  <1> QED BY <1>2, <1>4, <1>5, <1>7, <1>8, TaskFields, IdleIsOk, RecordStep

(* The collection of a hello: a request, a recognition begun, or a spent   *)
(* hello erased.                                                           *)
LEMMA CollectStep ==
  ASSUME ContactTypes, ContactInv, NEW p \in Party, Collect(p)
  PROVE  ContactTypes' /\ ContactInv'
  <1>1. PICK h \in drop[p] : CollectSlot(p, h)
    BY DEF Collect
  <1> DEFINE c == conv[p]
             found == control[Peer(p)][h.gen]
             d == Recognising(c, h)
             t == [Idle EXCEPT !.pc = "recognise", !.hello = h, !.seen = d, !.heard = found.cursor]
             r == [gen |-> h.gen, own |-> found.gen, secret |-> h.secret, serial |-> found.serial]
             H == drop[p] \ {h}
  <1>2. /\ h \in Hellos /\ found # None /\ found \in Controls /\ found.cursor \in BOOLEAN
        /\ found.serial \in Nat /\ found.gen \in Chans
    <2>1. h \in Hellos /\ Peer(p) \in Party
      BY Peers DEF ContactTypes
    <2>2. found \in Controls \cup {None}
      BY <2>1, HelloFields DEF ContactTypes
    <2>3. found # None
      BY <1>1 DEF CollectSlot, Verifies
    <2> QED BY <2>1, <2>2, <2>3, SmallFields
  <1>3. /\ h.gen <= opened /\ TaskOk(p, run[p], c) /\ LaneOk(lane[p])
        /\ Asks(p, request[p]) /\ found.gen \in {h.gen, 0} /\ Brought(p, h.gen, h.secret)
    <2>1. Peer(p) \in Party /\ Peer(Peer(p)) = p /\ h.gen \in Chans
      BY <1>2, Peers, HelloFields
    <2>2. DropOk(Peer(p)) /\ RunOk(p) /\ ControlOk(Peer(p), h.gen)
      BY <1>2, <2>1 DEF ContactInv, Local, ChannelOk
    <2> QED BY <2>1, <2>2, AsksItself DEF DropOk, RunOk, ControlOk, Brought
  <1>4. /\ run[p] \in Runs /\ lane[p] \in Lanes /\ request[p] \in Requests \cup {None}
        /\ run' = [run EXCEPT ![p] = run[p]] <=> run' = run
        /\ lane' = [lane EXCEPT ![p] = lane[p]]
        /\ request' = [request EXCEPT ![p] = request[p]] <=> request' = request
        /\ drop' = [drop EXCEPT ![p] = drop[p]] <=> drop' = drop
        /\ advert' \in [Party -> [serial : Nat, retained : BOOLEAN]]
        /\ rotations' \in Nat /\ faults' \in Nat /\ deletes' \in Nat
        /\ UNCHANGED <<advert, control, slot0, pushed, begun>>
        /\ UNCHANGED <<opened, minted, deletes, rotations, faults>>
    BY <1>1, SameAt DEF CollectSlot, counters
  <1> HIDE DEF found
  <1>5. CASE /\ c = None /\ request' = [request EXCEPT ![p] = r] /\ UNCHANGED <<conv, drop, run>>
    <2>1. r \in Requests /\ Asks(p, r)
      BY <1>2, <1>3, HelloFields DEF Requests, Asks, RequestDrawn
    <2> HIDE DEF r
    <2> QED BY <1>3, <1>4, <1>5, <2>1, VolatileStep
  <1>6. CASE /\ Living(p) /\ c.awaiting /\ conv' = [conv EXCEPT ![p] = d]
             /\ run' = [run EXCEPT ![p] = t] /\ UNCHANGED <<drop, request>>
    <2>1. c # None /\ c \in Records /\ RecordOk(c) /\ Follows(p, c, c) /\ Ini # Acc
      BY <1>6, SameAt, FollowsItself DEF Living, ContactInv, Local, Ini, Acc
    <2>2. d \in Records /\ Follows(p, d, c) /\ d.awaiting /\ d.half = Ini
      BY <1>2, <1>3, <1>6, <2>1, RecognisingOk
    <2> HIDE DEF d
    <2>3. t \in Runs /\ t.pc = "recognise" /\ t.seen = d
      BY <1>2, <2>2 DEF Runs, Steps, Idle
    <2> HIDE DEF t
    <2>4. TaskOk(p, t, d)
      BY <2>2, <2>3, RecordFields DEF TaskOk
    <2>5. UNCHANGED <<advert, network, begun, opened, minted, rotations, faults>>
      BY <1>4, <1>6 DEF network
    <2> QED BY <1>3, <1>4, <1>6, <2>1, <2>2, <2>3, <2>4, <2>5, RecordStep
  <1>7. CASE /\ drop' = [drop EXCEPT ![p] = H] /\ UNCHANGED <<conv, run, request>>
    <2>1. H \in SUBSET drop[p]
      OBVIOUS
    <2> HIDE DEF H
    <2> QED BY <1>3, <1>4, <1>7, <2>1, VolatileStep
  <1> QED BY <1>1, <1>5, <1>6, <1>7 DEF CollectSlot, Stores, Does, found

(* The steps at what a relaunch loses, at the adverts and at the drop.     *)
LEMMA RestStep ==
  ASSUME ContactTypes, ContactInv, NEW p \in Party,
         \/ ForgetRequest(p) \/ EraseRecognised(p) \/ Stop(p)
         \/ RotateAdvert(p) \/ PruneAdvert(p) \/ LoseHello(p)
  PROVE  ContactTypes' /\ ContactInv'
  <1>1. /\ run[p] \in Runs /\ lane[p] \in Lanes /\ request[p] \in Requests \cup {None}
        /\ TaskOk(p, run[p], conv[p]) /\ LaneOk(lane[p])
        /\ Asks(p, request[p])
        /\ Idle \in Runs /\ LaneIdle \in Lanes /\ drop[p] \in SUBSET drop[p]
        /\ TaskOk(p, Idle, conv[p]) /\ LaneOk(LaneIdle) /\ Asks(p, None)
    BY SameAt, TaskFields, IdleIsOk, AsksItself DEF ContactInv, Local, RunOk
  <1>2. CASE ForgetRequest(p)
    <2>1. /\ run' = [run EXCEPT ![p] = run[p]] /\ lane' = [lane EXCEPT ![p] = lane[p]]
          /\ request' = [request EXCEPT ![p] = None] /\ drop' = [drop EXCEPT ![p] = drop[p]]
          /\ advert' \in [Party -> [serial : Nat, retained : BOOLEAN]]
          /\ rotations' \in Nat /\ faults' \in Nat
          /\ UNCHANGED <<conv, control, slot0, pushed, begun, opened, minted, deletes>>
      BY <1>2, SameAt DEF ForgetRequest, store, network, counters
    <2> QED BY <1>1, <2>1, VolatileStep
  <1>3. CASE EraseRecognised(p)
    <2> DEFINE H == {h \in drop[p] : h.secret # run[p].hello.secret}
    <2>1. /\ run' = [run EXCEPT ![p] = Idle] /\ lane' = [lane EXCEPT ![p] = lane[p]]
          /\ request' = [request EXCEPT ![p] = request[p]] /\ drop' = [drop EXCEPT ![p] = H]
          /\ advert' \in [Party -> [serial : Nat, retained : BOOLEAN]]
          /\ rotations' \in Nat /\ faults' \in Nat
          /\ UNCHANGED <<conv, control, slot0, pushed, begun, opened, minted, deletes>>
      BY <1>3, SameAt DEF EraseRecognised, Does, store, counters
    <2>2. H \in SUBSET drop[p]
      OBVIOUS
    <2> HIDE DEF H
    <2> QED BY <1>1, <2>1, <2>2, VolatileStep
  <1>4. CASE Stop(p)
    <2>1. /\ run' = [run EXCEPT ![p] = Idle] /\ lane' = [lane EXCEPT ![p] = LaneIdle]
          /\ request' = [request EXCEPT ![p] = None] /\ drop' = [drop EXCEPT ![p] = drop[p]]
          /\ advert' \in [Party -> [serial : Nat, retained : BOOLEAN]]
          /\ rotations' \in Nat /\ faults' \in Nat
          /\ UNCHANGED <<conv, control, slot0, pushed, begun, opened, minted, deletes>>
      BY <1>4, SameAt DEF Stop, Does, store, network
    <2> QED BY <1>1, <2>1, VolatileStep
  <1>5. CASE RotateAdvert(p)
    <2>1. [serial |-> advert[p].serial + 1, retained |-> TRUE] \in [serial : Nat, retained : BOOLEAN]
      BY DEF ContactTypes
    <2>2. advert' \in [Party -> [serial : Nat, retained : BOOLEAN]]
      BY <1>5, <2>1 DEF RotateAdvert, ContactTypes
    <2>3. /\ run' = [run EXCEPT ![p] = run[p]] /\ lane' = [lane EXCEPT ![p] = lane[p]]
          /\ request' = [request EXCEPT ![p] = request[p]] /\ drop' = [drop EXCEPT ![p] = drop[p]]
          /\ rotations' \in Nat /\ faults' \in Nat
          /\ UNCHANGED <<conv, control, slot0, pushed, begun, opened, minted, deletes>>
      BY <1>5, SameAt DEF RotateAdvert, network, volatile
    <2> QED BY <1>1, <2>2, <2>3, VolatileStep
  <1>6. CASE PruneAdvert(p)
    <2>1. advert' \in [Party -> [serial : Nat, retained : BOOLEAN]]
      BY <1>6 DEF PruneAdvert, ContactTypes
    <2>2. /\ run' = [run EXCEPT ![p] = run[p]] /\ lane' = [lane EXCEPT ![p] = lane[p]]
          /\ request' = [request EXCEPT ![p] = request[p]] /\ drop' = [drop EXCEPT ![p] = drop[p]]
          /\ rotations' \in Nat /\ faults' \in Nat
          /\ UNCHANGED <<conv, control, slot0, pushed, begun, opened, minted, deletes>>
      BY <1>6, SameAt DEF PruneAdvert, network, volatile, counters
    <2> QED BY <1>1, <2>1, <2>2, VolatileStep
  <1>7. CASE LoseHello(p)
    <2>1. PICK h \in drop[p] : drop' = [drop EXCEPT ![p] = drop[p] \ {h}]
      BY <1>7 DEF LoseHello
    <2>4. /\ faults' = faults + 1
          /\ UNCHANGED <<store, control, slot0, pushed, volatile, begun, opened, minted>>
          /\ UNCHANGED <<deletes, rotations>>
      BY <1>7 DEF LoseHello
    <2> DEFINE H == drop[p] \ {h}
    <2>2. /\ run' = [run EXCEPT ![p] = run[p]] /\ lane' = [lane EXCEPT ![p] = lane[p]]
          /\ request' = [request EXCEPT ![p] = request[p]] /\ drop' = [drop EXCEPT ![p] = H]
          /\ advert' \in [Party -> [serial : Nat, retained : BOOLEAN]]
          /\ rotations' \in Nat /\ faults' \in Nat
          /\ UNCHANGED <<conv, control, slot0, pushed, begun, opened, minted, deletes>>
      BY <2>1, <2>4, SameAt DEF store, volatile
    <2>3. H \in SUBSET drop[p]
      OBVIOUS
    <2> HIDE DEF H
    <2> QED BY <1>1, <2>2, <2>3, VolatileStep
  <1> QED BY <1>2, <1>3, <1>4, <1>5, <1>6, <1>7

(* A conversation begun once more.                                         *)
LEMMA BegunAgain ==
  ASSUME ContactTypes, NEW p \in Party, NEW g \in Chans,
         begun' = [begun EXCEPT ![p][g] = begun[p][g] + 1]
  PROVE  /\ begun' \in [Party -> [Chans -> Nat]] /\ begun'[Peer(p)] = begun[Peer(p)]
         /\ begun'[p][g] = begun[p][g] + 1
         /\ \A e \in Chans : e # g => begun'[p][e] = begun[p][e]
  BY Peers DEF ContactTypes

(* The steps that add a record, or a number drawn.                         *)
LEMMA FirstContactStep ==
  ASSUME ContactTypes, ContactInv, NEW p \in Party, FirstContact(p)
  PROVE  ContactTypes' /\ ContactInv'
  <1> DEFINE q == Peer(p)
             o == [secret |-> minted + 1, serial |-> advert[q].serial]
             c == [gen |-> opened + 1, half |-> Ini, awaiting |-> TRUE, pending |-> FALSE,
                   incoming |-> NoGen, hello |-> None, secret |-> TRUE, opening |-> o,
                   peerSecret |-> 0, peerSerial |-> 0, heard |-> FALSE, read |-> FALSE,
                   marked |-> FALSE]
             t == [Idle EXCEPT !.pc = "channel"]
  <1>1. q \in Party /\ q # p /\ Peer(q) = p /\ Ini # Acc
    BY Peers DEF Ini, Acc
  <1>2. /\ conv[p] = None /\ opened < MaxOpened /\ opened' = opened + 1 /\ minted' = minted + 1
        /\ conv' = [conv EXCEPT ![p] = c] /\ run' = [run EXCEPT ![p] = t]
        /\ begun' = [begun EXCEPT ![p][opened + 1] = begun[p][opened + 1] + 1]
        /\ UNCHANGED <<advert, control, slot0, drop, pushed, lane, request, deletes, rotations, faults>>
    BY DEF FirstContact, Stores, Does, network, Begins
  <1>3. /\ opened \in Nat /\ minted \in Nat /\ opened + 1 \in Chans /\ opened + 1 \in 0 .. MaxOpened
        /\ minted + 1 \in Nat /\ minted + 1 # 0 /\ advert[q].serial \in Nat /\ opened + 1 # 0
    BY <1>1, <1>2, BoundAssumption DEF ContactTypes, Chans
  <1>4. o \in Openings /\ o.secret = minted + 1
    BY <1>3 DEF Openings
  <1> HIDE DEF o
  <1>5. /\ c \in Records /\ c.gen = opened + 1 /\ c.half = Ini /\ c.awaiting = TRUE
        /\ c.pending = FALSE /\ c.hello = None /\ c.opening = o /\ c.read = FALSE
        /\ c.marked = FALSE /\ c.incoming = NoGen
    BY <1>3, <1>4 DEF Records
  <1>6. t \in Runs /\ t.pc = "channel" /\ t.accepting = FALSE
    BY DEF Runs, Steps, Idle
  <1> HIDE DEF c, t
  <1>7. /\ begun' \in [Party -> [Chans -> Nat]] /\ begun'[q] = begun[q]
        /\ begun'[p][opened + 1] = begun[p][opened + 1] + 1
        /\ \A g \in Chans : g # opened + 1 => begun'[p][g] = begun[p][g]
    BY <1>1, <1>2, <1>3, BegunAgain
  <1>19. ContactTypes'
    BY <1>2, <1>3, <1>5, <1>6, <1>7 DEF ContactTypes
  <1>8. /\ conv'[p] = c /\ run'[p] = t /\ conv'[q] = conv[q] /\ run'[q] = run[q]
        /\ UNCHANGED <<control, drop, pushed, lane, request>>
    BY <1>1, <1>2 DEF ContactTypes
  <1>9. Local(p) /\ HeardOk(q) /\ DrawnOk(q) /\ DrawnOk(p) /\ MeetOk(p)
    BY <1>1 DEF ContactInv
  <1>10. RecordOk(c) /\ TaskOk(p, t, c)
    <2>1. RecordOk(c)
      BY <1>1, <1>3, <1>4, <1>5 DEF RecordOk
    <2>2. TaskOk(p, t, c)
      BY <1>3, <1>4, <1>5, <1>6, RecordFields DEF TaskOk
    <2> QED BY <2>1, <2>2
  <1>11. ChannelOk(p)'
    <2>1. \A g \in Chans : control[p][g] # None => g # opened + 1
      BY <1>3, <1>9, SmallFields DEF DrawnOk
    <2> QED BY <1>5, <1>8, <1>9, <2>1 DEF Local, ChannelOk, ControlOk
  <1>12. DropOk(p)'
    <2>1. \A h \in drop[q] : h.gen <= opened /\ h.secret <= minted /\ h.gen \in Nat /\ h.secret \in Nat
      BY <1>1, <1>9, HelloFields DEF Local, DropOk, ContactTypes
    <2>2. \A h \in drop[q] : h.gen <= opened' /\ h.secret <= minted' /\ h.secret # c.opening.secret
      BY <1>2, <1>3, <1>4, <1>5, <2>1
    <2> QED BY <1>8, <2>2 DEF DropOk
  <1>13. Local(p)'
    <2>1. RunOk(p)'
      BY <1>6, <1>8, <1>9, <1>10 DEF Local, RunOk, TaskOk, LaneOk
    <2>2. (conv[p] # None => RecordOk(conv[p]))'
      BY <1>8, <1>10 DEF RecordOk, Places, OpeningSerialFits
    <2> QED BY <1>11, <1>12, <2>1, <2>2 DEF Local
  <1>14. HeardOk(p)' /\ HeardOk(q)'
    <2>1. conv[q] # None => conv[q].gen \in Nat /\ conv[q].gen <= opened
      BY <1>1, <1>9, RecordFields DEF ContactTypes, DrawnOk
    <2>2. conv[q] # None => conv[q].gen # c.gen
      BY <1>3, <1>5, <2>1
    <2> QED BY <1>1, <1>5, <1>8, <2>2 DEF HeardOk
  <1>15. /\ conv'[p] # None => conv'[p].gen <= opened' /\ conv'[p].opening.secret <= minted'
         /\ opened' >= opened /\ minted' >= minted
    BY <1>2, <1>3, <1>4, <1>5, <1>8
  <1>16. /\ Asks(p, request'[p]) /\ Holds(p, conv'[p]) /\ conv'[p].gen = opened + 1
    BY <1>5, <1>8, AsksItself, SmallFields DEF Holds
  <1>17. q = Peer(p)
    OBVIOUS
  <1> HIDE DEF q
  <1>20. MeetOk(p)'
    <2>1. \A g \in Chans : \A s : Brought(q, g, s)' => Brought(q, g, s)
      BY <1>8 DEF Brought
    <2>2. begun[p][opened + 1] = 0 /\ \A g \in Chans : g \in Nat
      BY <1>3, <1>9, SmallFields DEF MeetOk
    <2>3. \A g \in Chans : begun'[p][g] = 0 => begun[p][g] = 0
      BY <1>3, <1>7, <2>2
    <2>4. \A g \in Chans : g > opened' => begun'[p][g] = 0
      BY <1>2, <1>3, <1>7, <1>9, <2>2 DEF MeetOk
    <2>5. \A g \in Chans : g = opened + 1 => \A s : ~Brought(q, g, s)'
      BY <1>3, <1>9, <1>17, <2>1, <2>2 DEF MeetOk
    <2>6. conv[q] # None => conv[q].gen # opened + 1
      BY <1>1, <1>3, <1>9, RecordFields DEF ContactTypes, DrawnOk
    <2>7. \A g \in Chans : begun'[p][g] = 0 => \A s : ~Brought(q, g, s)'
      BY <1>9, <1>17, <2>1, <2>3 DEF MeetOk
    <2>8. begun'[p][opened + 1] = 1
      BY <1>7, <2>2
    <2>9. \A g \in Chans : conv'[p].gen = g => begun'[p][g] = 1 /\ \A s : ~Brought(q, g, s)'
      BY <1>5, <1>8, <2>5, <2>8
    <2>10. ~(conv'[q] # None /\ conv'[q].gen = conv'[p].gen)
      BY <1>5, <1>8, <2>6
    <2> QED BY <1>17, <2>4, <2>7, <2>9, <2>10 DEF MeetOk
  <1>18. ContactInv'
    BY <1>7, <1>8, <1>13, <1>14, <1>15, <1>16, <1>17, <1>19, <1>20, Composes
  <1> QED BY <1>18, <1>19

LEMMA AcceptStep ==
  ASSUME ContactTypes, ContactInv, NEW p \in Party, Accept(p)
  PROVE  ContactTypes' /\ ContactInv'
  <1> DEFINE q == Peer(p)
             r == request[p]
             c == [gen |-> r.own, half |-> Acc, awaiting |-> FALSE, pending |-> TRUE,
                   incoming |-> r.gen, hello |-> None, secret |-> FALSE,
                   opening |-> NoOpening, peerSecret |-> r.secret,
                   peerSerial |-> r.serial, heard |-> FALSE, read |-> FALSE,
                   marked |-> FALSE]
             t == [Idle EXCEPT !.pc = "opening", !.erase = r.secret, !.accepting = TRUE]
  <1>1. q \in Party /\ q # p /\ Peer(q) = p /\ Ini # Acc
    BY Peers DEF Ini, Acc
  <1>2. /\ r # None /\ run' = [run EXCEPT ![p] = t]
        /\ UNCHANGED <<advert, control, slot0, drop, pushed, lane, request, counters>>
        /\ \/ /\ conv[p] = None /\ conv' = [conv EXCEPT ![p] = c]
              /\ begun' = [begun EXCEPT ![p][r.own] = begun[p][r.own] + 1]
           \/ Living(p) /\ conv[p].pending /\ UNCHANGED <<conv, begun>>
    BY DEF Accept, Stores, Does, network, Begins
  <1>3. /\ r \in Requests /\ r.gen \in Chans /\ r.own \in Chans /\ r.own \in Nat
        /\ r.secret \in Nat /\ r.serial \in Nat /\ r.own <= opened /\ opened \in Nat
    <2>1. r \in Requests /\ opened \in Nat
      BY <1>2, BoundAssumption DEF ContactTypes
    <2>2. r.own \in Nat /\ r.gen <= opened /\ r.own \in {r.gen, 0}
      BY <1>2, <2>1, SmallFields DEF ContactInv, DrawnOk, RequestDrawn
    <2> QED BY <2>1, <2>2, SmallFields
  <1>4. t \in Runs /\ t.pc = "opening" /\ t.accepting = TRUE
    BY <1>3 DEF Runs, Steps, Idle
  <1> HIDE DEF t
  <1>5. CASE Living(p) /\ conv[p].pending /\ UNCHANGED <<conv, begun>>
    <2>1. conv[p] # None /\ TaskOk(p, t, conv[p])
      BY <1>4, <1>5 DEF TaskOk, Living
    <2>2. UNCHANGED <<store, network, lane, request, begun, counters>>
      BY <1>2, <1>5 DEF store, network
    <2> QED BY <1>2, <1>4, <2>1, <2>2, TaskStep
  <1>6. CASE /\ conv[p] = None /\ conv' = [conv EXCEPT ![p] = c]
             /\ begun' = [begun EXCEPT ![p][r.own] = begun[p][r.own] + 1]
    <2>1. NoOpening \in Openings /\ NoOpening.secret = 0
      BY DEF NoOpening, Openings
    <2>2. /\ c \in Records /\ c.gen = r.own /\ c.half = Acc /\ c.awaiting = FALSE
          /\ c.pending = TRUE /\ c.hello = None /\ c.opening = NoOpening /\ c.read = FALSE
          /\ c.heard = FALSE /\ c.marked = FALSE /\ c.incoming = r.gen /\ c.peerSecret = r.secret
      BY <1>3, <2>1 DEF Records
    <2> HIDE DEF c
    <2>15. /\ begun' \in [Party -> [Chans -> Nat]] /\ begun'[q] = begun[q]
           /\ begun'[p][r.own] = begun[p][r.own] + 1
           /\ \A g \in Chans : g # r.own => begun'[p][g] = begun[p][g]
      BY <1>1, <1>3, <1>6, BegunAgain
    <2>3. ContactTypes'
      BY <1>2, <1>4, <1>6, <2>2, <2>15 DEF ContactTypes, counters
    <2>4. /\ conv'[p] = c /\ run'[p] = t /\ conv'[q] = conv[q] /\ run'[q] = run[q]
          /\ UNCHANGED <<control, drop, pushed, lane, request, opened, minted>>
      BY <1>1, <1>2, <1>6 DEF ContactTypes, counters
    <2>5. /\ Local(p) /\ DrawnOk(p) /\ MeetOk(p) /\ opened \in Nat /\ minted \in Nat
          /\ \A g \in Chans : begun[p][g] \in Nat
      BY <1>1, BoundAssumption DEF ContactInv, ContactTypes
    <2>6. RecordOk(c)
      <3>1. r.own \in {r.gen, 0}
        BY <1>2, <2>5 DEF DrawnOk, RequestDrawn
      <3> QED BY <1>1, <2>2, <3>1 DEF RecordOk
    <2>7. TaskOk(p, t, c)
      BY <1>4, <2>2, RecordFields DEF TaskOk
    <2>8. ChannelOk(p)'
      BY <1>1, <1>6, <2>1, <2>2, <2>4, <2>5 DEF Local, ChannelOk, ControlOk
    <2>9. DropOk(p)'
      <3>1. \A h \in drop[q] : h.gen <= opened /\ h.secret <= minted /\ h.secret # 0
        BY <1>1, <2>5, HelloFields DEF Local, DropOk, ContactTypes
      <3> QED BY <2>1, <2>2, <2>4, <3>1 DEF DropOk
    <2>10. Local(p)'
      <3>1. RunOk(p)'
        BY <1>4, <2>4, <2>5, <2>7 DEF Local, RunOk, TaskOk, LaneOk
      <3>2. (conv[p] # None => RecordOk(conv[p]))'
        BY <2>4, <2>6 DEF RecordOk, Places, OpeningSerialFits
      <3> QED BY <2>8, <2>9, <3>1, <3>2 DEF Local
    <2>11. HeardOk(p)' /\ HeardOk(q)'
      BY <1>1, <2>2, <2>4 DEF HeardOk
    <2>12. /\ conv'[p] # None => conv'[p].gen <= opened' /\ conv'[p].opening.secret <= minted'
           /\ opened' >= opened /\ minted' >= minted
      BY <1>3, <2>1, <2>2, <2>4, <2>5
    <2>16. Asks(p, request'[p]) /\ Holds(p, conv'[p]) /\ conv'[p].half # Ini
      BY <1>1, <1>2, <2>2, <2>4, AsksItself DEF Asks, Holds
    <2>13. q = Peer(p)
      OBVIOUS
    <2> HIDE DEF q
    <2>17. MeetOk(p)'
      <3>1. \A g \in Chans : \A s : Brought(q, g, s)' => Brought(q, g, s)
        BY <2>4 DEF Brought
      <3>2. \A g \in Chans : begun'[p][g] = 0 => g # r.own /\ begun[p][g] = 0
        BY <1>3, <2>5, <2>15
      <3>3. \A g \in Chans : begun'[p][g] = 0 => \A s : ~Brought(q, g, s)'
        BY <2>5, <2>13, <3>1, <3>2 DEF MeetOk
      <3>4. \A g \in Chans : g > opened' => begun'[p][g] = 0
        BY <1>3, <2>4, <2>5, <2>15, SmallFields DEF MeetOk
      <3>5. \A g \in Chans : g = r.own =>
               begun'[p][g] # 0 /\ (begun'[p][g] = 1 => \A s : ~Brought(q, g, s)')
        <4> SUFFICES ASSUME NEW g \in Chans, g = r.own
                     PROVE  begun'[p][g] # 0 /\ (begun'[p][g] = 1 => \A s : ~Brought(q, g, s)')
          OBVIOUS
        <4>1. begun'[p][g] = begun[p][g] + 1 /\ begun[p][g] \in Nat
          BY <2>5, <2>15
        <4>2. begun'[p][g] # 0 /\ (begun'[p][g] = 1 => begun[p][g] = 0)
          BY <4>1
        <4>3. begun[p][g] = 0 => \A s : ~Brought(q, g, s)
          BY <2>5, <2>13 DEF MeetOk
        <4> QED BY <3>1, <4>2, <4>3
      <3>6. \A g \in Chans : conv'[p].gen = g =>
               begun'[p][g] # 0 /\ (begun'[p][g] = 1 => \A s : ~Brought(q, g, s)')
        BY <2>2, <2>4, <3>5
      <3> QED BY <2>13, <2>16, <3>3, <3>4, <3>6 DEF MeetOk
    <2>14. ContactInv'
      BY <2>3, <2>4, <2>10, <2>11, <2>12, <2>13, <2>15, <2>16, <2>17, Composes
    <2> QED BY <2>3, <2>14
  <1> QED BY <1>2, <1>5, <1>6

(* The opening an acceptance mints is the first its record has: no channel *)
(* and no hello carries its secret, and nothing has come of the record.    *)
LEMMA AcceptOpeningStep ==
  ASSUME ContactTypes, ContactInv, NEW p \in Party, AcceptOpening(p)
  PROVE  ContactTypes' /\ ContactInv'
  <1> DEFINE q == Peer(p)
             c == conv[p]
             u == run[p]
             o == [secret |-> minted + 1, serial |-> advert[q].serial]
             d == [c EXCEPT !.secret = TRUE, !.opening = o]
             read == Opens(c, slot0[q][c.incoming])
             t == [u EXCEPT !.pc = "channel", !.read = read]
  <1>1. q \in Party /\ q # p /\ Peer(q) = p /\ Ini # Acc
    BY Peers DEF Ini, Acc
  <1>2. /\ UNCHANGED <<advert, control, slot0, drop, pushed, lane, request, begun, opened>>
        /\ UNCHANGED <<deletes, rotations, faults>>
        /\ \/ run' = [run EXCEPT ![p] = Idle] /\ UNCHANGED <<conv, minted>>
           \/ run' = [run EXCEPT ![p] = t] /\ HoldsOpening(c) /\ UNCHANGED <<conv, minted>>
           \/ /\ run' = [run EXCEPT ![p] = t] /\ ~HoldsOpening(c)
              /\ minted' = minted + 1 /\ conv' = [conv EXCEPT ![p] = d]
    BY DEF AcceptOpening, Stores, Does, network
  <1>3. u \in Runs /\ u.pc = "opening" /\ TaskOk(p, u, c) /\ u.accepting
    BY SameAt DEF AcceptOpening, ContactInv, Local, RunOk, TaskOk
  <1>4. /\ c # None /\ c.pending /\ c \in Records /\ RecordOk(c) /\ Local(p)
        /\ HeardOk(p) /\ HeardOk(q) /\ DrawnOk(p) /\ MeetOk(p) /\ Holds(p, c)
    BY <1>1, <1>3, SameAt, FollowsItself DEF TaskOk, ContactInv, Local, Follows
  <1>5. c.half = Acc /\ c.opening \in Openings
    BY <1>4, RecordFields DEF RecordOk
  <1>6. /\ HoldsOpening(c) => c.opening.secret # 0
        /\ ~HoldsOpening(c) => c.opening.secret = 0
    BY <1>4 DEF RecordOk, HoldsOpening, NoOpening
  <1>7. read \in BOOLEAN
    BY DEF Opens
  <1> HIDE DEF read
  <1>8. t \in Runs /\ t.pc = "channel" /\ t.accepting = u.accepting
    BY <1>3, <1>7 DEF Runs, Steps
  <1> HIDE DEF t, u
  <1>9. CASE UNCHANGED <<conv, minted>>
    <2>1. UNCHANGED <<store, network, lane, request, begun, counters>>
      BY <1>2, <1>9 DEF store, network, counters
    <2>2. CASE run' = [run EXCEPT ![p] = Idle]
      BY <1>4, <2>1, <2>2, TaskFields, IdleIsOk, TaskStep
    <2>3. CASE run' = [run EXCEPT ![p] = t] /\ HoldsOpening(c)
      <3>1. TaskOk(p, t, c)
        BY <1>3, <1>4, <1>6, <1>8, <2>3 DEF TaskOk
      <3> QED BY <1>4, <1>8, <2>1, <2>3, <3>1, TaskStep
    <2>4. CASE minted' = minted + 1
      BY <1>9, <2>4 DEF ContactTypes
    <2> QED BY <1>2, <2>2, <2>3, <2>4
  <1>10. CASE /\ run' = [run EXCEPT ![p] = t] /\ ~HoldsOpening(c)
              /\ minted' = minted + 1 /\ conv' = [conv EXCEPT ![p] = d]
    <2>1. /\ opened \in Nat /\ minted \in Nat /\ minted + 1 \in Nat /\ minted + 1 # 0
          /\ advert[q].serial \in Nat
      BY <1>1, BoundAssumption DEF ContactTypes
    <2>2. o \in Openings /\ o.secret = minted + 1
      BY <2>1 DEF Openings
    <2> HIDE DEF o
    <2>3. /\ d \in Records /\ d.gen = c.gen /\ d.half = c.half /\ d.opening = o
          /\ d.awaiting = c.awaiting /\ d.pending = c.pending /\ d.hello = c.hello
          /\ d.heard = c.heard /\ d.read = c.read /\ d.marked = c.marked
          /\ d.incoming = c.incoming /\ d.peerSecret = c.peerSecret
      BY <1>4, <2>2 DEF Records
    <2>4. /\ c.hello = None /\ c.opening.secret = 0
          /\ \A g \in Chans : control[p][g] # None => control[p][g].secret # minted + 1
      <3>1. c.opening.secret = 0
        BY <1>6, <1>10
      <3>2. c.hello = None
        BY <1>4, <3>1, RecordFields, HelloFields DEF RecordOk, Places
      <3>3. \A g \in Chans : control[p][g] # None =>
                control[p][g].secret \in Nat /\ control[p][g].secret <= minted
        BY <1>4, SmallFields DEF ContactTypes, DrawnOk
      <3> QED BY <2>1, <3>1, <3>2, <3>3
    <2> HIDE DEF d, c
    <2>5. ContactTypes'
      BY <1>2, <1>8, <1>10, <2>1, <2>3 DEF ContactTypes
    <2>6. /\ conv'[p] = d /\ run'[p] = t /\ conv'[q] = conv[q] /\ run'[q] = run[q]
          /\ UNCHANGED <<control, drop, pushed, lane, request, begun, opened>>
      BY <1>1, <1>2, <1>10 DEF ContactTypes
    <2>7. RecordOk(d)
      BY <1>1, <1>4, <1>5, <2>1, <2>2, <2>3, <2>4 DEF RecordOk
    <2>8. TaskOk(p, t, d)
      BY <1>3, <1>4, <1>8, <2>1, <2>2, <2>3, RecordFields DEF TaskOk
    <2>9. ChannelOk(p)'
      BY <1>1, <1>4, <1>5, <2>2, <2>3, <2>4, <2>6 DEF Local, ChannelOk, ControlOk
    <2>10. DropOk(p)'
      <3>1. \A h \in drop[q] : h.gen <= opened /\ h.secret <= minted /\ h.gen \in Nat /\ h.secret \in Nat
        BY <1>1, <1>4, HelloFields DEF Local, DropOk, ContactTypes
      <3>2. \A h \in drop[q] : h.gen <= opened /\ h.secret <= minted' /\ h.secret # d.opening.secret
        BY <1>10, <2>1, <2>2, <2>3, <3>1
      <3> QED BY <2>6, <3>2 DEF DropOk
    <2>11. Local(p)'
      <3>1. RunOk(p)'
        BY <1>4, <1>8, <2>6, <2>8 DEF Local, RunOk, TaskOk, LaneOk
      <3>2. (conv[p] # None => RecordOk(conv[p]))'
        BY <2>6, <2>7 DEF RecordOk, Places, OpeningSerialFits
      <3> QED BY <2>9, <2>10, <3>1, <3>2 DEF Local
    <2>12. HeardOk(p)' /\ HeardOk(q)'
      BY <1>1, <1>4, <2>3, <2>6, HeardKept DEF MovesOn, c
    <2>13. /\ conv'[p] # None => conv'[p].gen <= opened' /\ conv'[p].opening.secret <= minted'
           /\ opened' >= opened /\ minted' >= minted
      BY <1>4, <1>10, <2>1, <2>2, <2>3, <2>6 DEF ContactInv, DrawnOk, c
    <2>16. Asks(p, request'[p]) /\ Holds(p, conv'[p]) /\ conv'[p].half # Ini
      BY <1>1, <1>4, <1>5, <2>3, <2>6, AsksItself DEF Holds
    <2>14. q = Peer(p)
      OBVIOUS
    <2> HIDE DEF q
    <2>17. MeetOk(p)'
      <3>1. \A g \in Chans : \A s : Brought(q, g, s)' => Brought(q, g, s)
        BY <2>6 DEF Brought
      <3>2. \A g \in Chans : c.gen = g =>
               begun[p][g] # 0 /\ (begun[p][g] = 1 => \A s : ~Brought(q, g, s))
        BY <1>4, <2>4, <2>14 DEF MeetOk, c
      <3>3. conv'[p].gen = c.gen
        BY <2>3, <2>6
      <3>4. \A g \in Chans : conv'[p].gen = g =>
               begun'[p][g] # 0 /\ (begun'[p][g] = 1 => \A s : ~Brought(q, g, s)')
        BY <2>6, <3>1, <3>2, <3>3
      <3>5. \A g \in Chans : begun'[p][g] = 0 => \A s : ~Brought(q, g, s)'
        BY <1>4, <2>6, <2>14, <3>1 DEF MeetOk
      <3>6. \A g \in Chans : g > opened' => begun'[p][g] = 0
        BY <1>4, <2>6 DEF MeetOk
      <3> QED BY <2>14, <2>16, <3>4, <3>5, <3>6 DEF MeetOk
    <2>15. ContactInv'
      BY <2>5, <2>6, <2>11, <2>12, <2>13, <2>14, <2>16, <2>17, Composes
    <2> QED BY <2>5, <2>15
  <1> QED BY <1>2, <1>9, <1>10

LEMMA DropRecordStep ==
  ASSUME ContactTypes, ContactInv, NEW p \in Party, DropRecord(p)
  PROVE  ContactTypes' /\ ContactInv'
  <1> DEFINE q == Peer(p)
  <1>1. q \in Party /\ q # p /\ Peer(q) = p
    BY Peers
  <1>2. /\ run[p].pc = "drop" /\ conv' = [conv EXCEPT ![p] = None]
        /\ run' = [run EXCEPT ![p] = Idle]
        /\ UNCHANGED <<advert, control, slot0, drop, pushed, lane, request, begun, counters>>
    BY DEF DropRecord, Stores, Does, network
  <1>3. Local(p) /\ DrawnOk(p)
    BY DEF ContactInv
  <1>4. ContactTypes'
    BY <1>2, TaskFields DEF ContactTypes, counters
  <1>5. /\ conv'[p] = None /\ run'[p] = Idle /\ conv'[q] = conv[q] /\ run'[q] = run[q]
        /\ UNCHANGED <<control, drop, pushed, lane, request, begun, opened, minted>>
    BY <1>1, <1>2 DEF ContactTypes, counters
  <1>6. Local(p)'
    <2>1. ChannelOk(p)'
      BY <1>3, <1>5 DEF Local, ChannelOk, ControlOk
    <2>2. DropOk(p)'
      BY <1>3, <1>5 DEF Local, DropOk
    <2>3. RunOk(p)'
      BY <1>3, <1>5, TaskFields DEF Local, RunOk, TaskOk, LaneOk
    <2>4. (conv[p] # None => RecordOk(conv[p]))'
      BY <1>5
    <2> QED BY <2>1, <2>2, <2>3, <2>4 DEF Local
  <1>7. HeardOk(p)' /\ HeardOk(q)'
    BY <1>1, <1>5 DEF HeardOk
  <1>8. /\ conv'[p] # None => conv'[p].gen <= opened' /\ conv'[p].opening.secret <= minted'
        /\ opened' >= opened /\ minted' >= minted
        /\ Asks(p, request'[p])
    BY <1>5, BoundAssumption, AsksItself DEF ContactTypes
  <1>9. q = Peer(p)
    OBVIOUS
  <1> HIDE DEF q
  <1>11. MeetOk(p)'
    BY <1>4, <1>5, <1>8, <1>9, MeetOwn
  <1>10. ContactInv'
    BY <1>4, <1>5, <1>6, <1>7, <1>8, <1>9, <1>11, Composes
  <1> QED BY <1>4, <1>10

(* The steps at the network.  The record of p stays, and its runner goes   *)
(* from one step of what it is in the middle of to the next.               *)
LEMMA NetworkStep ==
  ASSUME ContactTypes, ContactInv, NEW p \in Party, ContactTypes',
         UNCHANGED <<conv, lane, request, begun, opened, minted>>, ChannelOk(p)', DropOk(p)',
         NEW t \in Runs, run' = [run EXCEPT ![p] = t], TaskOk(p, run[p], conv[p])',
         control'[Peer(p)] = control[Peer(p)],
         \A g \in Chans : \/ control'[p][g] \in {control[p][g], None}
                          \/ g <= opened /\ control'[p][g].secret <= minted,
         drop'[p] \subseteq drop[p], pushed'[p] = pushed[p],
         \A h \in drop'[Peer(p)] : h \in drop[Peer(p)] \/ Answers(p, h),
         \A a \in pushed'[Peer(p)] : a \in pushed[Peer(p)] \/ Answers(p, a.hello)
  PROVE  ContactInv'
  <1> DEFINE q == Peer(p)
  <1>1. q \in Party /\ q # p /\ Peer(q) = p
    BY Peers
  <1>2. Local(p) /\ DrawnOk(p) /\ HeardOk(p) /\ HeardOk(q)
    BY <1>1 DEF ContactInv
  <1>3. run'[p] = t /\ run'[q] = run[q]
    BY <1>1 DEF ContactTypes
  <1>4. Local(p)'
    <2>1. RunOk(p)'
      BY <1>2 DEF Local, RunOk, LaneOk
    <2>2. (conv[p] # None => RecordOk(conv[p]))'
      BY <1>2 DEF Local, RecordOk, Places, OpeningSerialFits
    <2> QED BY <2>1, <2>2 DEF Local
  <1>5. HeardOk(p)' /\ HeardOk(q)'
    BY <1>1, <1>2 DEF HeardOk
  <1>6. /\ conv'[p] # None => conv'[p].gen <= opened' /\ conv'[p].opening.secret <= minted'
        /\ opened' >= opened /\ minted' >= minted
    BY <1>2, BoundAssumption DEF DrawnOk, ContactTypes
  <1>7. /\ Asks(p, request'[p]) /\ (conv'[p] # None => Holds(p, conv'[p]))
        /\ \A a \in pushed'[q] : a \in pushed[q] \/ a.hello.gen <= opened
    BY <1>2, AsksItself, FollowsItself DEF Follows, Answers, DrawnOk
  <1>8. /\ conv'[q] = conv[q] /\ conv'[p] = conv[p] /\ control'[q] = control[q]
        /\ lane'[q] = lane[q] /\ request'[q] = request[q] /\ begun' = begun
    OBVIOUS
  <1>9. q = Peer(p)
    OBVIOUS
  <1>10. /\ \A h \in drop'[q] : h \in drop[q] \/ Answers(p, h)
         /\ \A a \in pushed'[q] : a \in pushed[q] \/ Answers(p, a.hello)
    OBVIOUS
  <1> HIDE DEF q
  <1>11. MeetOk(p)'
    BY <1>6, <1>8, <1>9, <1>10, MeetOwn
  <1> QED BY <1>3, <1>4, <1>5, <1>6, <1>7, <1>8, <1>9, <1>11, Composes

LEMMA WriteHelloStep ==
  ASSUME ContactTypes, ContactInv, NEW p \in Party, WriteHello(p)
  PROVE  ContactTypes' /\ ContactInv'
  <1> DEFINE q == Peer(p)
             c == conv[p]
             u == run[p]
             t == IF u.accepting THEN [u EXCEPT !.pc = "finish"] ELSE Idle
  <1>1. q \in Party /\ q # p /\ Peer(q) = p
    BY Peers
  <1>2. /\ drop' = [drop EXCEPT ![q] = {h \in drop[q] : h.secret # u.hello.secret} \cup {u.hello}]
        /\ run' = [run EXCEPT ![p] = t]
        /\ UNCHANGED <<conv, advert, control, slot0, pushed, lane, request, begun, counters>>
    BY DEF WriteHello, Does, store
  <1>3. u \in Runs /\ u.pc = "write" /\ TaskOk(p, u, c) /\ Local(p) /\ DrawnOk(p)
    BY SameAt DEF WriteHello, ContactInv, Local, RunOk
  <1>4. /\ c # None /\ c \in Records /\ u.hello \in Hellos /\ Places(c, u.hello)
        /\ Carries(p, c) /\ Answers(p, u.hello)
    BY <1>3, SameAt, TaskFields, HelloFields DEF TaskOk, Places, Answers
  <1>5. t \in Runs /\ TaskOk(p, t, c)
    <2>1. CASE u.accepting
      <3>1. [u EXCEPT !.pc = "finish"] \in Runs
        BY <1>3 DEF Runs, Steps
      <3>2. t \in Runs /\ t.pc = "finish" /\ t.accepting
        BY <1>3, <2>1, <3>1 DEF Runs
      <3> HIDE DEF t
      <3> QED BY <1>3, <1>4, <2>1, <3>2 DEF TaskOk
    <2>2. CASE ~u.accepting
      BY <2>2, TaskFields, IdleIsOk
    <2> QED BY <2>1, <2>2
  <1>6. ContactTypes'
    <2>1. drop' \in [Party -> SUBSET Hellos]
      BY <1>1, <1>2, <1>4 DEF ContactTypes
    <2> HIDE DEF t
    <2> QED BY <1>2, <1>5, <2>1 DEF ContactTypes, counters
  <1> HIDE DEF t
  <1>7. drop'[p] = drop[p] /\ \A h \in drop'[q] : h \in drop[q] \/ h = u.hello
    BY <1>1, <1>2 DEF ContactTypes
  <1>8. ChannelOk(p)' /\ TaskOk(p, run[p], conv[p])'
    <2>1. run'[p] = t
      BY <1>2 DEF ContactTypes
    <2>2. TaskOk(p, run[p], conv[p])'
      BY <1>2, <1>5, <2>1 DEF TaskOk, Places, OpeningSerialFits, Carries
    <2>3. ChannelOk(p)'
      BY <1>2, <1>3 DEF Local, ChannelOk, ControlOk, Carries
    <2> QED BY <2>2, <2>3
  <1>9. DropOk(p)'
    <2>1. u.hello.gen <= opened /\ u.hello.secret <= minted
      BY <1>3, <1>4 DEF DrawnOk, Places
    <2>2. UNCHANGED <<conv, control, opened, minted>>
      BY <1>2 DEF counters
    <2>3. SUFFICES ASSUME NEW h \in drop'[q]
                   PROVE  /\ h.gen <= opened /\ h.secret <= minted
                          /\ conv[p] # None /\ h.secret = conv[p].opening.secret =>
                               Places(conv[p], h) /\ (~conv[p].marked => Carries(p, conv[p]))
      BY <2>2 DEF DropOk, Places, OpeningSerialFits, Carries
    <2>4. CASE h \in drop[q]
      BY <1>3, <2>4 DEF Local, DropOk
    <2>5. CASE h = u.hello
      BY <1>4, <2>1, <2>5
    <2> QED BY <1>7, <2>4, <2>5
  <1>10. /\ control' = control /\ drop'[p] \subseteq drop[p] /\ pushed' = pushed
         /\ \A h \in drop'[q] : h \in drop[q] \/ Answers(p, h)
         /\ UNCHANGED <<conv, lane, request, begun, opened, minted>>
    BY <1>2, <1>4, <1>7 DEF counters
  <1>11. ContactInv'
    BY <1>2, <1>5, <1>6, <1>8, <1>9, <1>10, NetworkStep
  <1> QED BY <1>6, <1>11

(* The control subkey a step writes is that of its record.                 *)
LEMMA ControlIsWritten ==
  ASSUME NEW c \in Records, NEW cursor \in BOOLEAN
  PROVE  /\ ControlOf(c, cursor) \in Controls /\ ControlOf(c, cursor) # None
         /\ ControlOf(c, cursor).secret = c.opening.secret
         /\ ControlOf(c, cursor).serial = c.opening.serial
         /\ ControlOf(c, cursor).cursor = cursor /\ ControlOf(c, cursor).gen = c.gen
  <1>1. c.gen \in Chans /\ c.opening.secret \in Nat /\ c.opening.serial \in Nat
    BY RecordFields
  <1>2. ControlOf(c, cursor) \in Controls
    BY <1>1 DEF ControlOf, Controls
  <1> QED BY <1>2, SmallFields DEF ControlOf

(* A step that writes the control subkey k of the channel of p's record.   *)
LEMMA WrittenControl ==
  ASSUME ContactTypes, ContactInv, NEW p \in Party, conv[p] # None, conv[p].opening.secret # 0,
         NEW k \in Controls, k.gen \in {conv[p].gen, 0}, k.secret = conv[p].opening.secret,
         k.serial = conv[p].opening.serial, k.cursor => conv[p].read,
         control' = [control EXCEPT ![p][conv[p].gen] = k],
         UNCHANGED <<conv, opened, minted>>, drop'[Peer(p)] = drop[Peer(p)]
  PROVE  /\ control' \in [Party -> [Chans -> Controls \cup {None}]]
         /\ control'[Peer(p)] = control[Peer(p)]
         /\ \A g \in Chans : \/ control'[p][g] \in {control[p][g], None}
                             \/ g <= opened /\ control'[p][g].secret <= minted
         /\ ChannelOk(p)' /\ DropOk(p)' /\ Carries(p, conv[p])'
  <1> DEFINE c == conv[p]
  <1>1. Peer(p) \in Party /\ Peer(p) # p
    BY Peers
  <1>2. c \in Records /\ c.gen \in Chans /\ Local(p) /\ DrawnOk(p) /\ k # None
    BY SameAt, RecordFields, SmallFields DEF ContactInv
  <1>3. /\ control' \in [Party -> [Chans -> Controls \cup {None}]]
        /\ control'[Peer(p)] = control[Peer(p)] /\ control'[p][c.gen] = k
        /\ \A g \in Chans : g # c.gen => control'[p][g] = control[p][g]
    BY <1>1, <1>2 DEF ContactTypes
  <1>4. \A g \in Chans : \/ control'[p][g] \in {control[p][g], None}
                         \/ g <= opened /\ control'[p][g].secret <= minted
    BY <1>2, <1>3 DEF DrawnOk
  <1>5. Carries(p, conv[p])'
    BY <1>2, <1>3 DEF Carries
  <1>6. \A g \in Chans : control'[p][g] # None => ControlOk(p, g)'
    <2> SUFFICES ASSUME NEW g \in Chans, control'[p][g] # None
                 PROVE  ControlOk(p, g)'
      OBVIOUS
    <2>1. CASE g = c.gen
      BY <1>3, <2>1 DEF ControlOk
    <2>2. CASE g # c.gen
      BY <1>2, <1>3, <2>2 DEF Local, ChannelOk, ControlOk
    <2> QED BY <2>1, <2>2
  <1>7. ChannelOk(p)'
    BY <1>5, <1>6 DEF ChannelOk
  <1>8. DropOk(p)'
    BY <1>2, <1>5 DEF Local, DropOk, Places, OpeningSerialFits
  <1> QED BY <1>3, <1>4, <1>5, <1>7, <1>8

LEMMA PublishCursorStep ==
  ASSUME ContactTypes, ContactInv, NEW p \in Party, PublishCursor(p)
  PROVE  ContactTypes' /\ ContactInv'
  <1> DEFINE c == conv[p]
             k == ControlOf(c, TRUE)
  <1>1. /\ control' = [control EXCEPT ![p][c.gen] = k]
        /\ c # None /\ ~c.pending /\ c.read /\ run[p].pc = "idle"
        /\ UNCHANGED <<conv, advert, slot0, drop, pushed, run, lane, request, begun, counters>>
    BY DEF PublishCursor, Living, Free, Established, store, volatile
  <1>2. c \in Records /\ c.opening.secret # 0
    BY <1>1, SameAt DEF ContactInv, Local, RecordOk
  <1>3. /\ k \in Controls /\ k.secret = c.opening.secret /\ k.serial = c.opening.serial
        /\ k.gen = c.gen /\ (k.cursor => c.read)
    BY <1>1, <1>2, ControlIsWritten
  <1> HIDE DEF k
  <1>4. UNCHANGED <<conv, lane, request, begun, opened, minted, drop, pushed>>
    BY <1>1 DEF counters
  <1>5. /\ control' \in [Party -> [Chans -> Controls \cup {None}]]
        /\ control'[Peer(p)] = control[Peer(p)]
        /\ \A g \in Chans : \/ control'[p][g] \in {control[p][g], None}
                            \/ g <= opened /\ control'[p][g].secret <= minted
        /\ ChannelOk(p)' /\ DropOk(p)'
    BY <1>1, <1>2, <1>3, <1>4, WrittenControl
  <1>6. ContactTypes'
    BY <1>1, <1>5 DEF ContactTypes, counters
  <1>7. run[p] \in Runs /\ run' = [run EXCEPT ![p] = run[p]]
    BY <1>1, SameAt
  <1>8. TaskOk(p, run[p], conv[p])'
    BY <1>1 DEF TaskOk
  <1>9. ContactInv'
    BY <1>4, <1>5, <1>6, <1>7, <1>8, NetworkStep
  <1> QED BY <1>6, <1>9

(* The closed control subkey keeps the opening of the record it closes.    *)
LEMMA CloseControlStep ==
  ASSUME ContactTypes, ContactInv, NEW p \in Party, CloseControl(p)
  PROVE  ContactTypes' /\ ContactInv'
  <1> DEFINE c == conv[p]
             o == ControlOf(c, c.read)
             k == [o EXCEPT !.gen = 0]
             t == [Idle EXCEPT !.pc = "closing"]
  <1>1. /\ control' = [control EXCEPT ![p][c.gen] = k]
        /\ c # None /\ c.marked /\ c.opening # NoOpening /\ run' = [run EXCEPT ![p] = t]
        /\ UNCHANGED <<conv, advert, slot0, drop, pushed, lane, request, begun, counters>>
    BY DEF CloseControl, Does, store
  <1>2. c \in Records /\ c.opening.secret # 0 /\ c.read \in BOOLEAN
    BY <1>1, SameAt, RecordFields DEF ContactInv, Local, RecordOk
  <1>3. /\ o \in Controls /\ o.secret = c.opening.secret /\ o.serial = c.opening.serial
        /\ o.cursor = c.read
    BY <1>2, ControlIsWritten
  <1> HIDE DEF o
  <1>4. /\ k \in Controls /\ k.secret = c.opening.secret /\ k.serial = c.opening.serial
        /\ k.gen = 0 /\ (k.cursor => c.read)
    BY <1>3, SmallFields DEF Controls
  <1> HIDE DEF k
  <1>5. t \in Runs /\ t.pc = "closing"
    BY DEF Runs, Steps, Idle
  <1> HIDE DEF t
  <1>6. UNCHANGED <<conv, lane, request, begun, opened, minted, drop, pushed>>
    BY <1>1 DEF counters
  <1>7. /\ control' \in [Party -> [Chans -> Controls \cup {None}]]
        /\ control'[Peer(p)] = control[Peer(p)]
        /\ \A g \in Chans : \/ control'[p][g] \in {control[p][g], None}
                            \/ g <= opened /\ control'[p][g].secret <= minted
        /\ ChannelOk(p)' /\ DropOk(p)'
    BY <1>1, <1>2, <1>4, <1>6, WrittenControl
  <1>8. ContactTypes'
    BY <1>1, <1>5, <1>7 DEF ContactTypes, counters
  <1>9. TaskOk(p, run[p], conv[p])'
    <2>1. run'[p] = t
      BY <1>1 DEF ContactTypes
    <2> QED BY <1>1, <1>5, <2>1 DEF TaskOk
  <1>10. ContactInv'
    BY <1>1, <1>5, <1>6, <1>7, <1>8, <1>9, NetworkStep
  <1> QED BY <1>8, <1>10

LEMMA EraseChannelStep ==
  ASSUME ContactTypes, ContactInv, NEW p \in Party, EraseChannel(p)
  PROVE  ContactTypes' /\ ContactInv'
  <1> DEFINE t == [Idle EXCEPT !.pc = "drop"]
  <1>1. /\ conv[p] # None /\ run' = [run EXCEPT ![p] = t]
        /\ UNCHANGED <<store, network, lane, request, begun, counters>>
    BY DEF EraseChannel, Does
  <1>2. t \in Runs /\ t.pc = "drop"
    BY DEF Runs, Steps, Idle
  <1> HIDE DEF t
  <1>3. TaskOk(p, t, conv[p])
    BY <1>1, <1>2 DEF TaskOk
  <1> QED BY <1>1, <1>2, <1>3, TaskStep

(* A channel that fades is not the one the record of p keeps open.         *)
LEMMA FadeStep ==
  ASSUME ContactTypes, ContactInv, NEW p \in Party, Fade(p)
  PROVE  ContactTypes' /\ ContactInv'
  <1>1. PICK g \in Chans :
          /\ ~Open(p, g)
          /\ \/ control' = [control EXCEPT ![p][g] = None] /\ UNCHANGED slot0
             \/ slot0' = [slot0 EXCEPT ![p][g] = None] /\ UNCHANGED control
    BY DEF Fade
  <1>2. /\ faults' = faults + 1
        /\ UNCHANGED <<conv, advert, drop, pushed, run, lane, request, begun>>
        /\ UNCHANGED <<opened, minted, deletes, rotations>>
    BY DEF Fade, store, volatile
  <1>3. /\ Peer(p) \in Party /\ Peer(p) # p /\ Local(p)
        /\ run[p] \in Runs /\ run' = [run EXCEPT ![p] = run[p]]
    BY <1>2, Peers, SameAt DEF ContactInv
  <1>4. /\ control' \in [Party -> [Chans -> Controls \cup {None}]]
        /\ slot0' \in [Party -> [Chans -> Messages \cup {None}]]
        /\ control'[Peer(p)] = control[Peer(p)]
        /\ \A e \in Chans : control'[p][e] \in {control[p][e], None}
        /\ \A e \in Chans : e # g => control'[p][e] = control[p][e]
    <2>1. /\ control \in [Party -> [Chans -> Controls \cup {None}]]
          /\ slot0 \in [Party -> [Chans -> Messages \cup {None}]]
      BY DEF ContactTypes
    <2>2. CASE control' = [control EXCEPT ![p][g] = None] /\ UNCHANGED slot0
      BY <1>3, <2>1, <2>2
    <2>3. CASE slot0' = [slot0 EXCEPT ![p][g] = None] /\ UNCHANGED control
      BY <1>3, <2>1, <2>3
    <2> QED BY <1>1, <2>2, <2>3
  <1>5. ContactTypes'
    BY <1>2, <1>4 DEF ContactTypes
  <1>6. conv[p] # None /\ Carries(p, conv[p]) => Carries(p, conv[p])'
    <2>1. conv[p] # None => conv[p].gen \in Chans
      BY SameAt, RecordFields
    <2> QED BY <1>1, <1>2, <1>4, <2>1 DEF Open, Carries
  <1>7. ChannelOk(p)'
    BY <1>2, <1>3, <1>4, <1>6 DEF Local, ChannelOk, ControlOk
  <1>8. DropOk(p)'
    BY <1>2, <1>3, <1>6 DEF Local, DropOk, Places, OpeningSerialFits
  <1>9. TaskOk(p, run[p], conv[p])'
    BY <1>2, <1>3, <1>6 DEF Local, RunOk, TaskOk, Places, OpeningSerialFits
  <1>10. ContactInv'
    BY <1>2, <1>3, <1>4, <1>5, <1>7, <1>8, <1>9, NetworkStep
  <1> QED BY <1>5, <1>10

(* The batch of both flows: the channel is written, so the hello that      *)
(* comes next points at one that is there.                                 *)
LEMMA WriteChannelStep ==
  ASSUME ContactTypes, ContactInv, NEW p \in Party, WriteChannel(p)
  PROVE  ContactTypes' /\ ContactInv'
  <1> DEFINE q == Peer(p)
             c == conv[p]
             u == run[p]
             k == ControlOf(c, c.read)
             m == [gen |-> c.gen, root |-> Root(c), half |-> c.half]
             fresh == HelloOf(c, c.opening.serial, FALSE)
             a == [hello |-> fresh, control |-> k, reply |-> m]
             H == {h \in drop[p] : h.secret # u.erase}
             t == IF c.hello # None THEN [u EXCEPT !.pc = "write", !.hello = c.hello]
                                    ELSE [u EXCEPT !.pc = "load", !.hello = fresh]
  <1>1. q \in Party /\ q # p /\ Peer(q) = p
    BY Peers
  <1>2. /\ control' = [control EXCEPT ![p][c.gen] = k] /\ slot0' = [slot0 EXCEPT ![p][c.gen] = m]
        /\ drop' = [drop EXCEPT ![p] = H] /\ run' = [run EXCEPT ![p] = t]
        /\ \/ pushed' = [pushed EXCEPT ![q] = pushed[q] \cup {a}]
           \/ pushed' = pushed
        /\ UNCHANGED <<conv, advert, lane, request, begun, counters>>
    BY DEF WriteChannel, ChannelBatch, WrittenCursor, Does, store
  <1>3. u \in Runs /\ u.pc = "channel" /\ TaskOk(p, u, c) /\ Local(p) /\ DrawnOk(p)
    BY SameAt DEF WriteChannel, ContactInv, Local, RunOk
  <1>4. /\ c # None /\ c \in Records /\ RecordOk(c) /\ c.gen \in Chans /\ c.gen \in Nat
        /\ c.opening.secret \in Nat /\ c.opening.secret # 0 /\ c.opening.serial \in Nat
        /\ c.read \in BOOLEAN /\ c.half \in {Ini, Acc} /\ c.peerSecret \in Nat
        /\ c.gen <= opened
    BY <1>3, SameAt, RecordFields DEF TaskOk, Local, DrawnOk
  <1>5. /\ k \in Controls /\ k # None /\ k.secret = c.opening.secret /\ k.serial = c.opening.serial
        /\ k.cursor = c.read /\ k.gen = c.gen
    BY <1>4, ControlIsWritten
  <1>6. m \in Messages
    <2>1. Root(c) \in Nat
      BY <1>4 DEF Root
    <2> QED BY <1>4, <2>1 DEF Messages
  <1>7. fresh \in Hellos /\ Places(c, fresh) /\ fresh.gen = c.gen /\ Answers(p, fresh)
    BY <1>4 DEF HelloOf, Hellos, Places, OpeningSerialFits, Answers
  <1> HIDE DEF k, m, fresh
  <1>8. a \in Acceptances /\ Answers(p, a.hello)
    BY <1>4, <1>5, <1>6, <1>7 DEF Acceptances
  <1> HIDE DEF a
  <1>9. /\ t \in Runs /\ t.pc \in {"write", "load"} /\ t.accepting = u.accepting
        /\ t.hello # None /\ Places(c, t.hello) /\ (t.pc = "write" => c.hello # None)
    <2>1. CASE c.hello # None
      <3>1. c.hello \in Hellos /\ Places(c, c.hello)
        BY <1>4, <2>1, RecordFields DEF RecordOk
      <3>2. t = [u EXCEPT !.pc = "write", !.hello = c.hello]
        BY <2>1
      <3>3. t \in Runs /\ t.pc = "write" /\ t.accepting = u.accepting /\ t.hello = c.hello
        BY <1>3, <3>1, <3>2 DEF Runs, Steps
      <3> HIDE DEF t
      <3> QED BY <2>1, <3>1, <3>3
    <2>2. CASE c.hello = None
      <3>2. t = [u EXCEPT !.pc = "load", !.hello = fresh]
        BY <2>2
      <3>3. t \in Runs /\ t.pc = "load" /\ t.accepting = u.accepting /\ t.hello = fresh
        BY <1>3, <1>7, <3>2 DEF Runs, Steps
      <3> HIDE DEF t
      <3> QED BY <1>7, <3>3, HelloFields
    <2> QED BY <2>1, <2>2
  <1> HIDE DEF t
  <1>11. slot0' \in [Party -> [Chans -> Messages \cup {None}]]
    BY <1>2, <1>4, <1>6 DEF ContactTypes
  <1>12. /\ drop' \in [Party -> SUBSET Hellos] /\ drop'[q] = drop[q] /\ drop'[p] \subseteq drop[p]
    BY <1>1, <1>2 DEF ContactTypes
  <1>10. UNCHANGED <<conv, lane, request, begun, opened, minted>>
    BY <1>2 DEF counters
  <1>15. /\ control' \in [Party -> [Chans -> Controls \cup {None}]]
         /\ control'[Peer(p)] = control[Peer(p)]
         /\ \A g \in Chans : \/ control'[p][g] \in {control[p][g], None}
                             \/ g <= opened /\ control'[p][g].secret <= minted
         /\ ChannelOk(p)' /\ DropOk(p)' /\ Carries(p, conv[p])'
    BY <1>2, <1>4, <1>5, <1>10, <1>12, WrittenControl
  <1>13. /\ pushed' \in [Party -> SUBSET Acceptances] /\ pushed'[p] = pushed[p]
         /\ \A b \in pushed'[q] : b \in pushed[q] \/ Answers(p, b.hello)
    <2>1. pushed \in [Party -> SUBSET Acceptances]
      BY DEF ContactTypes
    <2>2. CASE pushed' = pushed
      BY <2>1, <2>2
    <2>3. CASE pushed' = [pushed EXCEPT ![q] = pushed[q] \cup {a}]
      BY <1>1, <1>8, <2>1, <2>3
    <2> QED BY <1>2, <2>2, <2>3
  <1>14. ContactTypes'
    BY <1>2, <1>9, <1>11, <1>12, <1>13, <1>15 DEF ContactTypes, counters
  <1>17. TaskOk(p, run[p], conv[p])'
    <2>1. run'[p] = t /\ conv'[p] = c
      BY <1>2 DEF ContactTypes
    <2>2. u.accepting => c.pending
      BY <1>3 DEF TaskOk
    <2> QED BY <1>4, <1>9, <1>15, <2>1, <2>2 DEF TaskOk, Places, OpeningSerialFits
  <1>18. ContactInv'
    BY <1>2, <1>9, <1>10, <1>12, <1>13, <1>14, <1>15, <1>17, NetworkStep
  <1> QED BY <1>14, <1>18

-----------------------------------------------------------------------------
(* The invariant, and what follows from it.                                *)

LEMMA ContactInit == Init => ContactTypes /\ ContactInv
  <1> SUFFICES ASSUME Init
               PROVE  ContactTypes /\ ContactInv
    OBVIOUS
  <1>1. ContactTypes
    <2>1. 0 \in 0 .. MaxOpened
      BY BoundAssumption
    <2>2. NoChans \in [Chans -> {None}]
      BY DEF NoChans
    <2>3. [serial |-> 1, retained |-> FALSE] \in [serial : Nat, retained : BOOLEAN]
      OBVIOUS
    <2> QED BY <2>1, <2>2, <2>3, TaskFields DEF Init, ContactTypes
  <1>2. SUFFICES ASSUME NEW p \in Party
                 PROVE  Local(p) /\ DrawnOk(p) /\ HeardOk(p) /\ MeetOk(p)
    BY <1>1 DEF ContactInv
  <1>3. /\ conv[p] = None /\ run[p] = Idle /\ lane[p] = LaneIdle /\ drop[Peer(p)] = {}
        /\ pushed[p] = {} /\ request[p] = None /\ \A g \in Chans : control[p][g] = None
    BY Peers DEF Init, NoChans
  <1>4. ChannelOk(p)
    BY <1>3 DEF ChannelOk
  <1>5. RunOk(p)
    BY <1>3, IdleIsOk DEF RunOk
  <1>6. DropOk(p) /\ DrawnOk(p) /\ HeardOk(p)
    BY <1>3 DEF DropOk, DrawnOk, HeardOk, RequestDrawn
  <1>7. MeetOk(p)
    <2>1. /\ conv[Peer(p)] = None /\ request[Peer(p)] = None /\ pushed[Peer(p)] = {}
          /\ \A g \in Chans : begun[p][g] = 0
      BY Peers DEF Init
    <2> QED BY <1>3, <2>1 DEF MeetOk, Brought
  <1> QED BY <1>3, <1>4, <1>5, <1>6, <1>7 DEF Local

LEMMA ContactStep ==
  ASSUME ContactTypes, ContactInv, [Next]_vars
  PROVE  ContactTypes' /\ ContactInv'
  <1>1. CASE UNCHANGED vars
    <2>1. /\ UNCHANGED <<conv, advert, control, slot0, drop, pushed, run, lane, request, begun>>
          /\ UNCHANGED <<opened, minted, deletes, rotations, faults>>
      BY <1>1 DEF vars, store, network, volatile, counters
    <2>2. ContactTypes'
      BY <2>1 DEF ContactTypes
    <2>3. \A p \in Party : Local(p)' /\ DrawnOk(p)' /\ HeardOk(p)'
      BY <2>1 DEF ContactInv, Local, DrawnOk, HeardOk, RecordOk, ChannelOk, ControlOk,
                  RunOk, TaskOk, LaneOk, DropOk, Carries, Places, OpeningSerialFits, RequestDrawn
    <2>4. \A p \in Party : MeetOk(p)'
      <3>1. \A y \in Party : \A g, s : Brought(y, g, s)' <=> Brought(y, g, s)
        BY <2>1 DEF Brought
      <3> SUFFICES ASSUME NEW p \in Party
                   PROVE  MeetOk(p)'
        OBVIOUS
      <3>2. MeetOk(p) /\ \A g, s : Brought(Peer(p), g, s)' <=> Brought(Peer(p), g, s)
        BY <3>1, Peers DEF ContactInv
      <3> QED BY <2>1, <3>2 DEF MeetOk
    <2> QED BY <2>2, <2>3, <2>4 DEF ContactInv
  <1>2. CASE Next
    <2>1. PICK p \in Party :
            \/ Flow(p) \/ Owed(p) \/ SettleHello(p)
            \/ Collect(p) \/ ForgetRequest(p)
            \/ FirstContact(p) \/ Accept(p)
            \/ MarkDelete(p) \/ CloseControl(p) \/ EraseChannel(p)
            \/ TakePush(p) \/ CommitPush(p) \/ CollectChannel(p) \/ PublishCursor(p)
            \/ Stop(p) \/ RotateAdvert(p) \/ PruneAdvert(p) \/ LoseHello(p) \/ Fade(p)
      BY <1>2 DEF Next
    <2>2. CASE Flow(p)
      BY <2>2, WriteChannelStep, PlaceLoadStep, PlacePersistStep, WriteHelloStep, RecogniseStep,
         RestStep, AcceptOpeningStep, FinishAcceptStep, DropRecordStep DEF Flow
    <2>3. CASE Owed(p)
      BY <2>3, ContinueFirstContactStep, RefreshFirstContactStep, ResumeFirstContactStep,
         ContinueAcceptanceStep DEF Owed
    <2>4. CASE SettleHello(p) \/ EraseChannel(p) \/ Collect(p) \/ FirstContact(p) \/ Accept(p)
      BY <2>4, SettleHelloStep, EraseChannelStep, CollectStep, FirstContactStep, AcceptStep
    <2>5. CASE \/ MarkDelete(p) \/ TakePush(p) \/ CommitPush(p) \/ CollectChannel(p)
               \/ PublishCursor(p) \/ CloseControl(p)
      BY <2>5, MarkDeleteStep, TakePushStep, CommitPushStep, CollectChannelStep,
         PublishCursorStep, CloseControlStep
    <2>6. CASE \/ ForgetRequest(p) \/ Stop(p) \/ RotateAdvert(p) \/ PruneAdvert(p)
               \/ LoseHello(p) \/ Fade(p)
      BY <2>6, RestStep, FadeStep
    <2> QED BY <2>1, <2>2, <2>3, <2>4, <2>5, <2>6
  <1> QED BY <1>1, <1>2

(* The records, channels, hellos and tasks have their types, and each      *)
(* side's channel, hellos and unfinished task are those of its record, and *)
(* what came of it carries its opening, whatever the number of first       *)
(* contacts, deletions, rotations and faults.                              *)
THEOREM ContactHolds == Spec => [](ContactTypes /\ ContactInv)
  <1>1. Init => ContactTypes /\ ContactInv
    BY ContactInit
  <1>2. ContactTypes /\ ContactInv /\ [Next]_vars => (ContactTypes /\ ContactInv)'
    BY ContactStep
  <1> QED BY <1>1, <1>2, PTL DEF Spec

(* A hello in the drop that its reader can decapsulate, of a conversation  *)
(* its writer keeps, points at a channel that verifies: place_hello and    *)
(* the batch before it never leave one ahead of its opening.               *)
THEOREM HelloFindsChannel == Spec => []HelloLeadsToChannel
  <1>1. ContactTypes /\ ContactInv => HelloLeadsToChannel
    <2> SUFFICES ASSUME ContactTypes, ContactInv, NEW p \in Party, NEW h \in drop[p],
                        conv[Peer(p)] # None, ~conv[Peer(p)].marked,
                        h = conv[Peer(p)].hello \/ h.secret = conv[Peer(p)].opening.secret,
                        Decapsulates(p, h)
                 PROVE  Verifies(p, h, control[Peer(p)][h.gen])
      BY DEF HelloLeadsToChannel
    <2> DEFINE q == Peer(p)
               c == conv[q]
    <2>1. q \in Party /\ Peer(q) = p
      BY Peers
    <2>2. c \in Records /\ RecordOk(c) /\ ChannelOk(q) /\ DropOk(q) /\ h \in Hellos
      BY <2>1 DEF ContactTypes, ContactInv, Local
    <2>3. c.gen \in Chans /\ h # None
      BY <2>2, RecordFields, HelloFields
    <2>4. h.secret = c.opening.secret
      BY <2>2, <2>3 DEF RecordOk, Places
    <2>5. Places(c, h) /\ Carries(q, c)
      BY <2>1, <2>2, <2>4 DEF DropOk
    <2>6. /\ control[q][c.gen] # None /\ control[q][c.gen].secret = c.opening.secret
          /\ control[q][c.gen].serial = c.opening.serial
      BY <2>2, <2>3, <2>5 DEF ChannelOk, ControlOk, Carries
    <2> QED BY <2>4, <2>5, <2>6 DEF Verifies, Places
  <1> QED BY <1>1, ContactHolds, PTL

(* A control subkey says the first message was collected only where the    *)
(* record has it: finish_accept and the channel batch write the cursor on  *)
(* disk, never the one a flow that may still stop has read.                *)
THEOREM CursorIsRecorded == Spec => []PublishedIsRecorded
  <1>1. ContactTypes /\ ContactInv => PublishedIsRecorded
    <2> SUFFICES ASSUME ContactTypes, ContactInv, NEW p \in Party, conv[p] # None,
                        control[p][conv[p].gen] # None, control[p][conv[p].gen].cursor,
                        control[p][conv[p].gen].secret = conv[p].opening.secret
                 PROVE  conv[p].read
      BY DEF PublishedIsRecorded
    <2>1. conv[p].gen \in Chans /\ ChannelOk(p)
      BY RecordFields DEF ContactTypes, ContactInv, Local
    <2> QED BY <2>1 DEF ChannelOk, ControlOk
  <1> QED BY <1>1, ContactHolds, PTL

(* An acceptor lets go of its hello only when the initiator it was for has *)
(* recognised the acceptance: settle_hello waits for the correspondent's   *)
(* cursor, and only a record no longer awaiting publishes one.             *)
THEOREM WithdrawnAfterRecognised == Spec => []WithdrawnIsRecognised
  <1>1. ContactTypes /\ ContactInv => WithdrawnIsRecognised
    <2> SUFFICES ASSUME ContactTypes, ContactInv, NEW p \in Party, Established(conv[p]),
                        conv[p].half = Acc, conv[p].hello = None, Living(Peer(p)),
                        conv[Peer(p)].gen = conv[p].gen
                 PROVE  ~conv[Peer(p)].awaiting
      BY DEF WithdrawnIsRecognised
    <2>1. conv[p] # None /\ RecordOk(conv[p]) /\ HeardOk(p)
      BY DEF Established, ContactInv, Local
    <2>2. conv[p].heard
      BY <2>1 DEF RecordOk, Established
    <2> QED BY <2>1, <2>2 DEF HeardOk, Living
  <1> QED BY <1>1, ContactHolds, PTL

(* Two records of one first contact, both established, are the two halves  *)
(* of one key schedule: acceptance takes the secret of the opening that    *)
(* first_contact persisted, and recognition that of the opening the        *)
(* acceptor's record holds, unless the acceptor deleted the conversation   *)
(* and began that channel again; whoever deletes, however often.           *)
THEOREM TwoHalvesOfOne == Spec => []HalvesAgree
  <1>1. ContactTypes /\ ContactInv => HalvesAgree
    <2> SUFFICES ASSUME ContactTypes, ContactInv, NEW p \in Party, Met(p)
                 PROVE  LET a == conv[p]  b == conv[Peer(p)] IN
                        /\ b.half = Acc /\ Root(a) = Root(b) /\ b.peerSecret = a.opening.secret
                        /\ begun[Peer(p)][b.gen] = 1 => a.peerSecret = b.opening.secret
      BY DEF HalvesAgree
    <2> DEFINE q == Peer(p)
               a == conv[p]
               b == conv[q]
    <2>1. q \in Party /\ Peer(q) = p /\ MeetOk(p) /\ MeetOk(q) /\ Ini # Acc
      BY Peers DEF ContactInv, Ini, Acc
    <2>2. /\ a # None /\ b # None /\ a.half = Ini /\ a.gen = b.gen
          /\ a.incoming = b.gen /\ b.incoming = a.gen
      BY DEF Met, Established
    <2>3. b.half = Acc
      BY <2>1, <2>2, RecordFields DEF ContactTypes, MeetOk
    <2>7. a.gen \in Chans /\ b.gen \in Chans
      BY <2>1, <2>2, RecordFields DEF ContactTypes
    <2>4. b.peerSecret = a.opening.secret
      <3>1. Brought(q, a.gen, b.peerSecret)
        BY <2>2 DEF Brought
      <3> QED BY <2>1, <2>2, <2>7, <3>1 DEF MeetOk
    <2>5. begun[q][b.gen] = 1 => a.peerSecret = b.opening.secret
      <3>1. Brought(p, b.gen, a.peerSecret)
        BY <2>2 DEF Brought
      <3> QED BY <2>1, <2>2, <2>7, <3>1 DEF MeetOk
    <2>6. Root(a) = Root(b)
      BY <2>1, <2>2, <2>3, <2>4 DEF Root
    <2> QED BY <2>3, <2>4, <2>5, <2>6
  <1> QED BY <1>1, ContactHolds, PTL
=============================================================================
