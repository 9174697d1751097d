----------------------------- MODULE MeshProofs -----------------------------
(***************************************************************************)
(* Proofs about module Mesh, for any mesh whose tables agree in the sense  *)
(* of RouteAssumption, any buffer size, any commands and any crashes.      *)
(***************************************************************************)
EXTENDS Mesh, FiniteSetTheorems, TLAPS

(* The ids not used yet are those of the packets not sent yet. *)
Fresh == \A i \in Ids : fate[i] = "unsent" <=> i > sent

(* Only what was under way is ever condemned. *)
CondemnedWasSent == \A i \in condemned : fate[i] # "unsent"

(* A condemned packet that is still under way still has a closed node ahead *)
(* of it: closed nodes stay closed, and the node that passed it on was not  *)
(* the one.                                                                 *)
CondemnedAhead ==
  \A n \in Nodes : \A p \in inbox[n] :
    p.id \in condemned => \E m \in Ahead(n, p) : Closed(m, p.src)

IInv == /\ TypeOK /\ Fresh /\ OnePlace /\ NoDetour
        /\ CondemnedWasSent /\ CondemnedAhead /\ IsolatedForGood

-----------------------------------------------------------------------------
(* About the routes. *)

(* A route is a finite set, one larger than the rest of it. *)
LEMMA RouteGrows ==
  ASSUME NEW n \in Nodes, NEW d \in DOMAIN NextHop[n]
  PROVE  LET m == NextHop[n][d]
         IN  /\ m \in Nodes /\ m # n /\ d \in DOMAIN Route[m] /\ d \in DOMAIN Route[n]
             /\ Route[n][d] = {n} \cup Route[m][d]
             /\ Cardinality(Route[m][d]) \in Nat
             /\ Cardinality(Route[n][d]) = Cardinality(Route[m][d]) + 1
PROOF
<1> DEFINE m == NextHop[n][d]
<1>1. /\ m \in Nodes \ {n} /\ d \in DOMAIN Route[m] /\ d \in DOMAIN Route[n]
      /\ IsFiniteSet(Route[m][d]) /\ n \notin Route[m][d]
      /\ Route[n][d] = {n} \cup Route[m][d]
  BY RouteAssumption DEF AreRoutes
<1>2. Cardinality(Route[m][d] \cup {n}) = Cardinality(Route[m][d]) + 1
  BY <1>1, FS_AddElement
<1>3. Cardinality(Route[m][d]) \in Nat
  BY <1>1, FS_CardinalityType
<1>4. Route[n][d] = Route[m][d] \cup {n}
  BY <1>1
<1> QED
  BY <1>1, <1>2, <1>3, <1>4

LEMMA RouteCounted ==
  ASSUME NEW n \in Nodes, NEW d \in DOMAIN Route[n]
  PROVE  Cardinality(Route[n][d]) \in Nat
PROOF
<1>1. CASE d = n
  <2>1. Route[n][d] = {n}
    BY <1>1, RouteAssumption DEF AreRoutes
  <2>2. Cardinality({n}) = 1
    BY FS_Singleton, Zenon
  <2> QED
    BY <2>1, <2>2
<1>2. CASE d # n
  <2>1. d \in DOMAIN NextHop[n]
    BY <1>2, RouteAssumption DEF AreRoutes
  <2> QED
    BY <2>1, RouteGrows
<1> QED
  BY <1>1, <1>2

(* What a little-endian 16-bit field is read as is again a natural. *)
LEMMA FieldIsNat ==
  ASSUME NEW a \in Probes, NEW v \in Nat
  PROVE  Field(a, v) \in Nat
PROOF
<1>1. v % 256 \in Nat /\ v \div 256 \in Nat
  OBVIOUS
<1>2. (v % 256) * 256 \in Nat
  BY <1>1
<1> QED
  BY <1>1, <1>2 DEF Field, Swap

-----------------------------------------------------------------------------
(* What the assumptions say of ids, of one attack and of one probe. *)
LEMMA FieldsAreNat == U16 \subseteq Nat /\ FalseLength \in Nat
  BY SMT DEF U16, FalseLength

LEMMA IdsAreNat ==
  /\ Nodes \subseteq Nat
  /\ EdgeNodes \subseteq Nat /\ EdgeNodes \subseteq Nodes
PROOF
<1>1. Nodes \subseteq U16 /\ EdgeNodes \subseteq Nodes
  BY MeshAssumption
<1> QED
  BY <1>1, FieldsAreNat

LEMMA AttackTyped ==
  ASSUME NEW a \in Attacks
  PROVE  a[1] \in Nodes /\ a[1] \in Nat /\ a[2] \in Nat
PROOF
<1>1. Attacks \subseteq Nodes \X Nodes
  BY MeshAssumption
<1>2. a \in Nodes \X Nodes
  BY <1>1
<1>3. a[1] \in Nodes /\ a[2] \in Nodes
  BY <1>2
<1> QED
  BY <1>3, IdsAreNat

LEMMA ProbeTyped ==
  ASSUME NEW a \in Probes
  PROVE  /\ a.port \in Nodes /\ a.src \in Nat /\ a.dest \in Nat
         /\ (IF a.badLen THEN FalseLength ELSE a.len) \in Nat
PROOF
<1>1. a.port \in Nodes /\ a.src \in U16 /\ a.dest \in U16 /\ a.len \in U16
  BY MeshAssumption
<1> QED
  BY <1>1, FieldsAreNat

-----------------------------------------------------------------------------
(* The kinds of step there are. *)

Sends == \E n \in Nodes, s, d, l \in Nat, w \in BOOLEAN : Send(n, s, d, l, w)

Settles ==
  \E n \in Nodes : \E p \in inbox[n] : \E end \in DL!Ends :
    /\ n \in alive /\ Settle(n, p, end)
    /\ end = "delivered" => p.dest = n /\ ~Blocks(n, p)

Forwards == \E n \in Nodes : \E p \in inbox[n] : n \in alive /\ Forward(n, p)

LEMMA StepKinds ==
  ASSUME Step
  PROVE  \/ Sends \/ Settles \/ Forwards
         \/ \E r \in Rules : SendControl(r)
         \/ \E n \in Nodes : HandleControl(n) \/ Crash(n)
PROOF
<1>1. CASE Flood
  <2>1. PICK a \in Attacks : Send(a[1], a[1], a[2], 64, TRUE)
    BY <1>1 DEF Flood
  <2>2. a[1] \in Nodes /\ a[1] \in Nat /\ a[2] \in Nat
    BY AttackTyped
  <2>3. 64 \in Nat /\ TRUE \in BOOLEAN
    OBVIOUS
  <2> QED
    <3> SUFFICES \E n \in Nodes, s, d, l \in Nat, w \in BOOLEAN : Send(n, s, d, l, w)
      BY DEF Sends
    <3> USE <2>2, <2>3
    <3> WITNESS a[1] \in Nodes, a[1] \in Nat, a[2] \in Nat, 64 \in Nat, TRUE \in BOOLEAN
    <3> QED
      BY <2>1
<1>2. CASE Benign
  <2>1. PICK e \in EdgeNodes, g \in EdgeNodes : Send(e, e, g, 32, TRUE)
    BY <1>2 DEF Benign
  <2>2. e \in Nodes /\ e \in Nat /\ g \in Nat
    BY IdsAreNat
  <2>3. 32 \in Nat /\ TRUE \in BOOLEAN
    OBVIOUS
  <2> QED
    <3> SUFFICES \E n \in Nodes, s, d, l \in Nat, w \in BOOLEAN : Send(n, s, d, l, w)
      BY DEF Sends
    <3> USE <2>2, <2>3
    <3> WITNESS e \in Nodes, e \in Nat, g \in Nat, 32 \in Nat, TRUE \in BOOLEAN
    <3> QED
      BY <2>1
<1>3. CASE Probe
  <2> DEFINE L(a) == IF a.badLen THEN FalseLength ELSE a.len
  <2>1. PICK a \in Probes :
          Send(a.port, Field(a, a.src), Field(a, a.dest), Field(a, L(a)), ~a.short)
    BY <1>3 DEF Probe
  <2>2. a.port \in Nodes /\ a.src \in Nat /\ a.dest \in Nat /\ L(a) \in Nat
    BY ProbeTyped
  <2> HIDE DEF L
  <2>3. Field(a, a.src) \in Nat /\ Field(a, a.dest) \in Nat /\ Field(a, L(a)) \in Nat
    BY <2>2, FieldIsNat
  <2>4. (~a.short) \in BOOLEAN
    OBVIOUS
  <2> QED
    <3> SUFFICES \E n \in Nodes, s, d, l \in Nat, w \in BOOLEAN : Send(n, s, d, l, w)
      BY DEF Sends
    <3> USE <2>2, <2>3, <2>4
    <3> WITNESS a.port \in Nodes, Field(a, a.src) \in Nat, Field(a, a.dest) \in Nat,
                Field(a, L(a)) \in Nat, (~a.short) \in BOOLEAN
    <3> QED
      BY <2>1
<1>4. ASSUME NEW n \in Nodes, Handle(n)
      PROVE  Settles \/ Forwards
  <2>1. PICK p \in inbox[n] :
          GateDrops(n, p) \/ Reject(n, p) \/ Deliver(n, p) \/ SendFails(n, p)
                          \/ Forward(n, p)
    BY <1>4 DEF Handle
  <2>2. n \in alive
    BY <1>4 DEF Handle
  <2>3. CASE GateDrops(n, p)
    BY <2>2, <2>3 DEF GateDrops, Settles, DL!Ends
  <2>4. CASE Reject(n, p)
    <3>1. Settle(n, p, "rejected")
      BY <2>4 DEF Reject
    <3> QED
      BY <2>2, <3>1 DEF Settles, DL!Ends
  <2>5. CASE Deliver(n, p)
    BY <2>2, <2>5 DEF Deliver, Settles, DL!Ends
  <2>6. CASE SendFails(n, p)
    BY <2>2, <2>6 DEF SendFails, Settles, DL!Ends
  <2>7. CASE Forward(n, p)
    BY <2>2, <2>7 DEF Forwards
  <2> QED
    BY <2>1, <2>3, <2>4, <2>5, <2>6, <2>7
<1> QED
  BY <1>1, <1>2, <1>3, <1>4 DEF Step

-----------------------------------------------------------------------------
(* Types. *)

LEMMA SetSizes ==
  ASSUME NEW S, IsFiniteSet(S), NEW x
  PROVE  /\ IsFiniteSet(S \cup {x}) /\ IsFiniteSet(S \ {x})
         /\ Cardinality(S) \in Nat /\ Cardinality(S \cup {x}) \in Nat
         /\ Cardinality(S \ {x}) \in Nat
         /\ Cardinality(S \cup {x}) <= Cardinality(S) + 1
         /\ Cardinality(S \ {x}) <= Cardinality(S)
PROOF
<1>1. IsFiniteSet(S \cup {x}) /\ IsFiniteSet(S \ {x})
  BY FS_AddElement, FS_RemoveElement
<1>2. /\ Cardinality(S) \in Nat /\ Cardinality(S \cup {x}) \in Nat
      /\ Cardinality(S \ {x}) \in Nat
  BY <1>1, FS_CardinalityType
<1>3. Cardinality(S \cup {x}) <= Cardinality(S) + 1
  BY <1>2, FS_AddElement
<1>4. Cardinality(S \ {x}) <= Cardinality(S)
  BY <1>2, FS_RemoveElement
<1> QED
  BY <1>1, <1>2, <1>3, <1>4

(* What TypeOK says of one buffer. *)
Fits(ib, cs) ==
  /\ IsFiniteSet(ib) /\ IsFiniteSet(cs)
  /\ Cardinality(ib) + Cardinality(cs) <= BufferSize

LEMMA FitsAfter ==
  ASSUME NEW ib, NEW cs, Fits(ib, cs), NEW x
  PROVE  /\ Fits(ib \ {x}, cs) /\ Fits(ib, cs \ {x})
         /\ Cardinality(ib) + Cardinality(cs) < BufferSize
              => Fits(ib \cup {x}, cs) /\ Fits(ib, cs \cup {x})
PROOF
<1>1. IsFiniteSet(ib) /\ IsFiniteSet(cs) /\ Cardinality(ib) + Cardinality(cs) <= BufferSize
  BY DEF Fits
<1>2. BufferSize \in Nat
  BY MeshAssumption
<1>3. /\ IsFiniteSet(ib \cup {x}) /\ IsFiniteSet(ib \ {x})
      /\ Cardinality(ib) \in Nat /\ Cardinality(ib \cup {x}) \in Nat
      /\ Cardinality(ib \ {x}) \in Nat
      /\ Cardinality(ib \cup {x}) <= Cardinality(ib) + 1
      /\ Cardinality(ib \ {x}) <= Cardinality(ib)
  BY <1>1, SetSizes
<1>4. /\ IsFiniteSet(cs \cup {x}) /\ IsFiniteSet(cs \ {x})
      /\ Cardinality(cs) \in Nat /\ Cardinality(cs \cup {x}) \in Nat
      /\ Cardinality(cs \ {x}) \in Nat
      /\ Cardinality(cs \cup {x}) <= Cardinality(cs) + 1
      /\ Cardinality(cs \ {x}) <= Cardinality(cs)
  BY <1>1, SetSizes
<1> QED
  BY <1>1, <1>2, <1>3, <1>4 DEF Fits

LEMMA TypedStep ==
  ASSUME TypeOK, Step, Record
  PROVE  TypeOK'
PROOF
<1>f. \A k \in Nodes : Fits(inbox[k], commands[k])
  BY DEF TypeOK, Fits
<1>r. ASSUME NEW k \in Nodes, Room(k)
      PROVE  Cardinality(inbox[k]) + Cardinality(commands[k]) < BufferSize
  BY <1>r DEF Room
<1>c. condemned' \subseteq Ids
  BY DEF Record, Hopeless, TypeOK
<1>g. ASSUME /\ sent' \in 0 .. MaxSent
             /\ inbox' \in [Nodes -> SUBSET Packet] /\ commands' \in [Nodes -> SUBSET Int]
             /\ acl' \in [Nodes -> SUBSET Nat] /\ alive' \subseteq Nodes /\ rules' \subseteq Rules
             /\ fate' \in [Ids -> DL!Fates]
             /\ \A k \in Nodes : Fits(inbox'[k], commands'[k])
      PROVE  TypeOK'
  BY <1>c, <1>g DEF TypeOK, Fits, DL!Fates, DL!Ends
<1>t. fate \in [Ids -> DL!Fates]
  BY DEF TypeOK, DL!Fates, DL!Ends
<1>1. CASE Sends
  <2>1. PICK n \in Nodes, s \in Nat, d \in Nat, l \in Nat, w \in BOOLEAN : Send(n, s, d, l, w)
    BY <1>1 DEF Sends
  <2> DEFINE p == [id |-> sent + 1, src |-> s, dest |-> d, len |-> l, whole |-> w,
                   at |-> n, hops |-> 0]
  <2>2. /\ sent < MaxSent /\ sent' = sent + 1
        /\ inbox' = IF Room(n) THEN [inbox EXCEPT ![n] = @ \cup {p}] ELSE inbox
        /\ fate' = [fate EXCEPT ![sent + 1] = IF Room(n) THEN "flying" ELSE "lost"]
        /\ UNCHANGED <<commands, acl, alive, rules>>
    BY <2>1 DEF Send
  <2>3. sent' \in 0 .. MaxSent /\ sent + 1 \in Ids
    BY <2>2, MeshAssumption DEF TypeOK, Ids
  <2>4. p \in Packet
    BY <2>3 DEF Packet
  <2> HIDE DEF p
  <2>5. inbox' \in [Nodes -> SUBSET Packet]
    BY <2>2, <2>4 DEF TypeOK
  <2>6. fate' \in [Ids -> DL!Fates]
    BY <2>2, <1>t DEF DL!Fates, DL!Ends
  <2>7. ASSUME NEW k \in Nodes
        PROVE  Fits(inbox'[k], commands'[k])
    <3>1. inbox'[k] = IF Room(n) /\ k = n THEN inbox[k] \cup {p} ELSE inbox[k]
      BY <2>2 DEF TypeOK
    <3>2. Room(n) /\ k = n => Fits(inbox[k] \cup {p}, commands[k])
      BY <1>f, <1>r, FitsAfter
    <3>3. commands'[k] = commands[k] /\ Fits(inbox[k], commands[k])
      BY <2>2, <1>f
    <3> QED
      BY <3>1, <3>2, <3>3
  <2> QED
    BY <2>2, <2>3, <2>5, <2>6, <2>7, <1>g DEF TypeOK
<1>2. CASE Settles
  <2>0. PICK n \in Nodes : \E p \in inbox[n] : \E end \in DL!Ends : Settle(n, p, end)
    BY <1>2 DEF Settles
  <2>1. PICK p \in inbox[n], end \in DL!Ends : Settle(n, p, end)
    BY <2>0
  <2>2. /\ inbox' = [inbox EXCEPT ![n] = @ \ {p}]
        /\ fate' = [fate EXCEPT ![p.id] = end]
        /\ UNCHANGED <<sent, commands, acl, alive, rules>>
    BY <2>1 DEF Settle
  <2>3. inbox' \in [Nodes -> SUBSET Packet]
    BY <2>2 DEF TypeOK
  <2>4. fate' \in [Ids -> DL!Fates]
    BY <2>2, <1>t DEF DL!Fates
  <2>5. ASSUME NEW k \in Nodes
        PROVE  Fits(inbox'[k], commands'[k])
    <3>1. inbox'[k] = IF k = n THEN inbox[k] \ {p} ELSE inbox[k]
      BY <2>2 DEF TypeOK
    <3>2. Fits(inbox[k], commands[k])
      BY <1>f
    <3>3. Fits(inbox[k] \ {p}, commands[k])
      BY <3>2, FitsAfter
    <3>4. commands'[k] = commands[k]
      BY <2>2
    <3> QED
      BY <3>1, <3>2, <3>3, <3>4
  <2> QED
    BY <2>2, <2>3, <2>4, <2>5, <1>g DEF TypeOK
<1>3. CASE Forwards
  <2>0. PICK n \in Nodes : \E p \in inbox[n] : Forward(n, p)
    BY <1>3 DEF Forwards
  <2>1. PICK p \in inbox[n] : Forward(n, p)
    BY <2>0
  <2> DEFINE m == Hop(n, p)
             q == [p EXCEPT !.hops = @ + 1]
  <2>2. /\ inbox' = [inbox EXCEPT ![n] = @ \ {p}, ![m] = IF Room(m) THEN @ \cup {q} ELSE @]
        /\ fate' = [fate EXCEPT ![p.id] = IF Room(m) THEN @ ELSE "lost"]
        /\ UNCHANGED <<sent, commands, acl, alive, rules>>
        /\ p.dest \in DOMAIN NextHop[n]
    BY <2>1 DEF Forward, ToForward
  <2>3. m \in Nodes /\ m # n
    BY <2>2, RouteGrows DEF Hop
  <2>4. q \in Packet
    BY DEF Packet, TypeOK
  <2> HIDE DEF m, q
  <2>5. \A k \in Nodes : inbox'[k] = IF k = n THEN inbox[k] \ {p}
                                    ELSE IF k = m /\ Room(m) THEN inbox[k] \cup {q}
                                    ELSE inbox[k]
    BY <2>2, <2>3 DEF TypeOK
  <2>6. inbox' \in [Nodes -> SUBSET Packet]
    BY <2>2, <2>3, <2>4 DEF TypeOK
  <2>7. fate' \in [Ids -> DL!Fates]
    BY <2>2, <1>t DEF DL!Fates, DL!Ends
  <2>8. ASSUME NEW k \in Nodes
        PROVE  Fits(inbox'[k], commands'[k])
    <3>1. commands'[k] = commands[k] /\ Fits(inbox[k], commands[k])
      BY <2>2, <1>f
    <3>2. Fits(inbox[k] \ {p}, commands[k])
      BY <3>1, FitsAfter
    <3>3. Room(m) /\ k = m => Fits(inbox[k] \cup {q}, commands[k])
      BY <3>1, <1>r, FitsAfter
    <3> QED
      BY <2>5, <3>1, <3>2, <3>3
  <2> QED
    BY <2>2, <2>6, <2>7, <2>8, <1>g DEF TypeOK
<1>4. ASSUME NEW r \in Rules, SendControl(r)
      PROVE  TypeOK'
  <2>1. /\ rules' \subseteq rules
        /\ commands' = IF Room(r.to) THEN [commands EXCEPT ![r.to] = @ \cup {r.block}]
                                     ELSE commands
        /\ UNCHANGED <<sent, inbox, acl, alive, fate>>
    BY <1>4 DEF SendControl
  <2>2. r.to \in Nodes /\ r.block \in Int
    BY MeshAssumption
  <2>3. commands' \in [Nodes -> SUBSET Int]
    BY <2>1, <2>2 DEF TypeOK
  <2>4. ASSUME NEW k \in Nodes
        PROVE  Fits(inbox'[k], commands'[k])
    <3>1. commands'[k] = IF Room(r.to) /\ k = r.to THEN commands[k] \cup {r.block}
                                                   ELSE commands[k]
      BY <2>1 DEF TypeOK
    <3>2. Room(r.to) /\ k = r.to => Fits(inbox[k], commands[k] \cup {r.block})
      BY <1>f, <1>r, FitsAfter
    <3>3. inbox'[k] = inbox[k] /\ Fits(inbox[k], commands[k])
      BY <2>1, <1>f
    <3> QED
      BY <3>1, <3>2, <3>3
  <2> QED
    BY <2>1, <2>3, <2>4, <1>g, <1>t DEF TypeOK
<1>5. ASSUME NEW n \in Nodes, HandleControl(n)
      PROVE  TypeOK'
  <2>1. PICK b \in commands[n] :
          /\ commands' = [commands EXCEPT ![n] = @ \ {b}]
          /\ acl' = IF b > 0 THEN [acl EXCEPT ![n] = @ \cup {b}] ELSE acl
    BY <1>5 DEF HandleControl
  <2>2. UNCHANGED <<sent, inbox, alive, rules, fate>>
    BY <1>5 DEF HandleControl
  <2>3. b \in Int
    BY DEF TypeOK
  <2>4. commands' \in [Nodes -> SUBSET Int]
    BY <2>1 DEF TypeOK
  <2>5. acl' \in [Nodes -> SUBSET Nat]
    BY <2>1, <2>3 DEF TypeOK
  <2>6. ASSUME NEW k \in Nodes
        PROVE  Fits(inbox'[k], commands'[k])
    <3>1. commands'[k] = IF k = n THEN commands[k] \ {b} ELSE commands[k]
      BY <2>1 DEF TypeOK
    <3>2. Fits(inbox[k], commands[k])
      BY <1>f
    <3>3. Fits(inbox[k], commands[k] \ {b})
      BY <3>2, FitsAfter
    <3>4. inbox'[k] = inbox[k]
      BY <2>2
    <3> QED
      BY <3>1, <3>2, <3>3, <3>4
  <2> QED
    BY <2>2, <2>4, <2>5, <2>6, <1>g, <1>t DEF TypeOK
<1>6. ASSUME NEW n \in Nodes, Crash(n)
      PROVE  TypeOK'
  <2>1. /\ alive' = alive \ {n}
        /\ fate' = [i \in Ids |-> IF \E p \in inbox[n] : p.id = i THEN "lost" ELSE fate[i]]
        /\ inbox' = [inbox EXCEPT ![n] = {}]
        /\ commands' = [commands EXCEPT ![n] = {}]
        /\ acl' = [acl EXCEPT ![n] = {}]
        /\ UNCHANGED <<sent, rules>>
    BY <1>6 DEF Crash
  <2>2. fate' \in [Ids -> DL!Fates]
    BY <2>1, <1>t DEF DL!Fates, DL!Ends
  <2>3. Fits({}, {})
    BY FS_EmptySet, MeshAssumption DEF Fits
  <2>4. ASSUME NEW k \in Nodes
        PROVE  Fits(inbox'[k], commands'[k])
    BY <2>1, <2>3, <1>f DEF TypeOK
  <2>5. /\ inbox' \in [Nodes -> SUBSET Packet] /\ commands' \in [Nodes -> SUBSET Int]
        /\ acl' \in [Nodes -> SUBSET Nat]
    BY <2>1 DEF TypeOK
  <2> QED
    BY <2>1, <2>2, <2>4, <2>5, <1>g DEF TypeOK
<1> QED
  BY <1>1, <1>2, <1>3, <1>4, <1>5, <1>6, StepKinds

-----------------------------------------------------------------------------
(* What each kind of step does to the packets and to the nodes, pointwise.  *)

SentOne(n, p) ==
  /\ p.id = sent + 1 /\ p.at = n /\ p.hops = 0 /\ p.id \in Ids
  /\ sent < MaxSent /\ sent' = sent + 1
  /\ \A k \in Nodes : \A o : o \in inbox'[k] <=> o \in inbox[k] \/ (Room(n) /\ k = n /\ o = p)
  /\ \A i \in Ids : fate'[i] = IF i = p.id THEN IF Room(n) THEN "flying" ELSE "lost"
                                         ELSE fate[i]
  /\ alive' = alive /\ acl' = acl

LEMMA SendEffect ==
  ASSUME TypeOK, Sends
  PROVE  \E n \in Nodes, p \in Packet : SentOne(n, p)
PROOF
<1>1. PICK n \in Nodes, s \in Nat, d \in Nat, l \in Nat, w \in BOOLEAN : Send(n, s, d, l, w)
  BY DEF Sends
<1> DEFINE p == [id |-> sent + 1, src |-> s, dest |-> d, len |-> l, whole |-> w,
                 at |-> n, hops |-> 0]
<1>2. /\ sent < MaxSent /\ sent' = sent + 1
      /\ inbox' = IF Room(n) THEN [inbox EXCEPT ![n] = @ \cup {p}] ELSE inbox
      /\ fate' = [fate EXCEPT ![sent + 1] = IF Room(n) THEN "flying" ELSE "lost"]
      /\ alive' = alive /\ acl' = acl
  BY <1>1 DEF Send
<1>3. sent + 1 \in Ids
  BY <1>2, MeshAssumption DEF TypeOK, Ids
<1>4. p \in Packet /\ p.id = sent + 1 /\ p.at = n /\ p.hops = 0
  BY <1>3 DEF Packet
<1> HIDE DEF p
<1>5. \A k \in Nodes : inbox'[k] = IF Room(n) /\ k = n THEN inbox[k] \cup {p} ELSE inbox[k]
  BY <1>2 DEF TypeOK
<1>6. \A k \in Nodes : \A o : o \in inbox'[k] <=> o \in inbox[k] \/ (Room(n) /\ k = n /\ o = p)
  BY <1>5
<1>7. \A i \in Ids : fate'[i] = IF i = p.id THEN IF Room(n) THEN "flying" ELSE "lost"
                                         ELSE fate[i]
  BY <1>2, <1>4 DEF TypeOK
<1> QED
  BY <1>2, <1>3, <1>4, <1>6, <1>7 DEF SentOne

Settled(n, p, end) ==
  /\ p.id \in Ids
  /\ \A k \in Nodes : \A o : o \in inbox'[k] <=> o \in inbox[k] /\ ~(k = n /\ o = p)
  /\ \A i \in Ids : fate'[i] = IF i = p.id THEN end ELSE fate[i]
  /\ sent' = sent /\ alive' = alive /\ acl' = acl

LEMMA SettleEffect ==
  ASSUME TypeOK, NEW n \in Nodes, NEW p \in inbox[n], NEW end, Settle(n, p, end)
  PROVE  Settled(n, p, end)
PROOF
<1>1. /\ inbox' = [inbox EXCEPT ![n] = @ \ {p}]
      /\ fate' = [fate EXCEPT ![p.id] = end]
      /\ sent' = sent /\ alive' = alive /\ acl' = acl
  BY DEF Settle
<1>2. p.id \in Ids
  BY DEF TypeOK, Packet
<1>3. \A k \in Nodes : inbox'[k] = IF k = n THEN inbox[k] \ {p} ELSE inbox[k]
  BY <1>1 DEF TypeOK
<1>4. \A i \in Ids : fate'[i] = IF i = p.id THEN end ELSE fate[i]
  BY <1>1 DEF TypeOK
<1>5. \A k \in Nodes : \A o : o \in inbox'[k] <=> o \in inbox[k] /\ ~(k = n /\ o = p)
  BY <1>3
<1> QED
  BY <1>1, <1>2, <1>4, <1>5 DEF Settled

(* q is what becomes of p when n passes it on. *)
Forwarded(n, p, q) ==
  /\ ToForward(n, p) /\ Hop(n, p) \in Nodes /\ Hop(n, p) # n
  /\ q.id = p.id /\ q.src = p.src /\ q.dest = p.dest /\ q.at = p.at
  /\ q.hops = p.hops + 1 /\ p.id \in Ids
  /\ \A k \in Nodes : \A o :
       o \in inbox'[k] <=> \/ o \in inbox[k] /\ ~(k = n /\ o = p)
                           \/ k = Hop(n, p) /\ Room(Hop(n, p)) /\ o = q
  /\ \A i \in Ids : fate'[i] = IF i = p.id /\ ~Room(Hop(n, p)) THEN "lost" ELSE fate[i]
  /\ sent' = sent /\ alive' = alive /\ acl' = acl

LEMMA ForwardEffect ==
  ASSUME TypeOK, NEW n \in Nodes, NEW p \in inbox[n], Forward(n, p)
  PROVE  \E q \in Packet : Forwarded(n, p, q)
PROOF
<1> DEFINE m == Hop(n, p)
           q == [p EXCEPT !.hops = @ + 1]
<1>1. /\ ToForward(n, p)
      /\ inbox' = [inbox EXCEPT ![n] = @ \ {p}, ![m] = IF Room(m) THEN @ \cup {q} ELSE @]
      /\ fate' = [fate EXCEPT ![p.id] = IF Room(m) THEN @ ELSE "lost"]
      /\ sent' = sent /\ alive' = alive /\ acl' = acl
  BY DEF Forward
<1>2. m \in Nodes /\ m # n
  BY <1>1, RouteGrows DEF Hop, ToForward
<1>3. p \in Packet
  BY DEF TypeOK
<1>4. /\ q \in Packet /\ p.id \in Ids
      /\ q.id = p.id /\ q.src = p.src /\ q.dest = p.dest /\ q.at = p.at
      /\ q.hops = p.hops + 1
  BY <1>3 DEF Packet
<1> HIDE DEF m, q
<1>5. /\ inbox'[n] = inbox[n] \ {p}
      /\ inbox'[m] = IF Room(m) THEN inbox[m] \cup {q} ELSE inbox[m]
      /\ \A k \in Nodes : k # n /\ k # m => inbox'[k] = inbox[k]
  BY <1>1, <1>2 DEF TypeOK
<1>6. ASSUME NEW k \in Nodes, NEW o
      PROVE  o \in inbox'[k] <=> \/ o \in inbox[k] /\ ~(k = n /\ o = p)
                                 \/ k = m /\ Room(m) /\ o = q
  <2>1. CASE k = n
    BY <2>1, <1>2, <1>5
  <2>2. CASE k = m
    BY <2>2, <1>2, <1>5
  <2>3. CASE k # n /\ k # m
    BY <2>3, <1>5
  <2> QED
    BY <2>1, <2>2, <2>3
<1>7. \A i \in Ids : fate'[i] = IF i = p.id /\ ~Room(m) THEN "lost" ELSE fate[i]
  BY <1>1, <1>4 DEF TypeOK
<1>8. Forwarded(n, p, q)
  BY <1>1, <1>2, <1>4, <1>6, <1>7 DEF Forwarded, m
<1> QED
  BY <1>4, <1>8

LEMMA ControlEffect ==
  ASSUME TypeOK,
         (\E r \in Rules : SendControl(r)) \/ (\E n \in Nodes : HandleControl(n))
  PROVE  /\ inbox' = inbox /\ fate' = fate /\ sent' = sent /\ alive' = alive
         /\ \A k \in Nodes : acl[k] \subseteq acl'[k]
PROOF
<1>1. ASSUME NEW r \in Rules, SendControl(r)
      PROVE  /\ inbox' = inbox /\ fate' = fate /\ sent' = sent /\ alive' = alive
             /\ acl' = acl
  BY <1>1 DEF SendControl
<1>2. ASSUME NEW n \in Nodes, HandleControl(n)
      PROVE  /\ inbox' = inbox /\ fate' = fate /\ sent' = sent /\ alive' = alive
             /\ \A k \in Nodes : acl[k] \subseteq acl'[k]
  BY <1>2 DEF HandleControl, TypeOK
<1> QED
  BY <1>1, <1>2

LEMMA CrashEffect ==
  ASSUME TypeOK, NEW n \in Nodes, Crash(n)
  PROVE  /\ alive' = alive \ {n}
         /\ \A k \in Nodes : \A o : o \in inbox'[k] <=> k # n /\ o \in inbox[k]
         /\ \A k \in Nodes : acl'[k] = IF k = n THEN {} ELSE acl[k]
         /\ \A i \in Ids : fate'[i] = IF \E p \in inbox[n] : p.id = i THEN "lost" ELSE fate[i]
         /\ sent' = sent
  BY DEF Crash, TypeOK

(* How a packet got to where it is after a step. *)
Came(k, p) ==
  \/ p \in inbox[k]
  \/ p.id = sent + 1 /\ p.at = k /\ p.hops = 0 /\ sent < MaxSent
  \/ \E n \in Nodes : \E o \in inbox[n] :
       /\ n \in alive /\ ToForward(n, o) /\ k = Hop(n, o)
       /\ p.id = o.id /\ p.src = o.src /\ p.dest = o.dest /\ p.at = o.at
       /\ p.hops = o.hops + 1

LEMMA AllCame ==
  ASSUME TypeOK, Step, NEW k \in Nodes, NEW p \in inbox'[k]
  PROVE  Came(k, p)
PROOF
<1>1. CASE Sends
  <2>1. PICK n \in Nodes, o \in Packet : SentOne(n, o)
    BY <1>1, SendEffect
  <2> QED
    BY <2>1 DEF SentOne, Came
<1>2. CASE Settles
  <2>1. PICK n \in Nodes : \E o \in inbox[n] : \E end \in DL!Ends : Settle(n, o, end)
    BY <1>2 DEF Settles
  <2>2. PICK o \in inbox[n], end \in DL!Ends : Settle(n, o, end)
    BY <2>1
  <2>3. Settled(n, o, end)
    BY <2>2, SettleEffect
  <2> QED
    BY <2>3 DEF Settled, Came
<1>3. CASE Forwards
  <2>1. PICK n \in Nodes : \E o \in inbox[n] : n \in alive /\ Forward(n, o)
    BY <1>3 DEF Forwards
  <2>2. PICK o \in inbox[n] : n \in alive /\ Forward(n, o)
    BY <2>1
  <2>3. PICK q \in Packet : Forwarded(n, o, q)
    BY <2>2, ForwardEffect
  <2>4. p \in inbox[k] \/ (p = q /\ k = Hop(n, o))
    BY <2>3 DEF Forwarded
  <2>5. ASSUME p = q, k = Hop(n, o)
        PROVE  Came(k, p)
    BY <2>2, <2>3, <2>5 DEF Came, Forwarded
  <2> QED
    BY <2>4, <2>5 DEF Came
<1>4. CASE (\E r \in Rules : SendControl(r)) \/ (\E n \in Nodes : HandleControl(n))
  BY <1>4, ControlEffect DEF Came
<1>5. ASSUME NEW n \in Nodes, Crash(n)
      PROVE  Came(k, p)
  BY <1>5, CrashEffect DEF Came
<1> QED
  BY <1>1, <1>2, <1>3, <1>4, <1>5, StepKinds

(* A node closed to a source stays closed to it. *)
LEMMA ClosedStays ==
  ASSUME TypeOK, TypeOK', Step, NEW m, NEW s, Closed(m, s)
  PROVE  Closed(m, s)'
PROOF
<1>0. CASE m \notin Nodes
  BY <1>0 DEF TypeOK, Closed
<1> SUFFICES ASSUME m \in Nodes
             PROVE  Closed(m, s)'
  BY <1>0
<1>1. CASE Sends
  BY <1>1 DEF Sends, Send, Closed
<1>2. CASE Settles
  BY <1>2 DEF Settles, Settle, Closed
<1>3. CASE Forwards
  BY <1>3 DEF Forwards, Forward, Closed
<1>4. CASE (\E r \in Rules : SendControl(r)) \/ (\E n \in Nodes : HandleControl(n))
  BY <1>4, ControlEffect DEF Closed
<1>5. ASSUME NEW n \in Nodes, Crash(n)
      PROVE  Closed(m, s)'
  BY <1>5, CrashEffect DEF Closed
<1> QED
  BY <1>1, <1>2, <1>3, <1>4, <1>5, StepKinds

-----------------------------------------------------------------------------
(* Each part of the invariant is kept by every step. *)

LEMMA FreshStep ==
  ASSUME TypeOK, Fresh, OnePlace, Step
  PROVE  Fresh' /\ \A i \in Ids : fate[i] # "unsent" => fate'[i] # "unsent"
PROOF
<1>s. sent \in Nat /\ \A i \in Ids : i \in Nat
  BY MeshAssumption DEF TypeOK, Ids
<1>o. \A n \in Nodes : \A p \in inbox[n] : p.id \in Ids /\ fate[p.id] = "flying"
  BY DEF OnePlace, TypeOK, Packet
<1>g. ASSUME sent' = sent,
             \A i \in Ids : fate'[i] = "unsent" <=> fate[i] = "unsent"
      PROVE  Fresh' /\ \A i \in Ids : fate[i] # "unsent" => fate'[i] # "unsent"
  BY <1>g DEF Fresh, Ids
<1>1. CASE Sends
  <2>0. PICK n \in Nodes, p \in Packet : SentOne(n, p)
    BY <1>1, SendEffect
  <2>1. /\ p.id = sent + 1 /\ sent' = sent + 1
        /\ \A i \in Ids : fate'[i] = IF i = p.id
                                     THEN IF Room(n) THEN "flying" ELSE "lost"
                                     ELSE fate[i]
    BY <2>0 DEF SentOne
  <2>2. ASSUME NEW i \in Ids
        PROVE  /\ fate'[i] = "unsent" <=> i > sent'
               /\ fate[i] # "unsent" => fate'[i] # "unsent"
    <3>1. fate[i] = "unsent" <=> i > sent
      BY DEF Fresh
    <3>2. i > sent' <=> i > sent /\ i # sent + 1
      BY <1>s, <2>1
    <3>3. CASE i = sent + 1
      BY <2>1, <3>2, <3>3
    <3>4. CASE i # sent + 1
      BY <2>1, <3>1, <3>2, <3>4
    <3> QED
      BY <3>3, <3>4
  <2> QED
    BY <2>2 DEF Fresh, Ids
<1>2. CASE Settles
  <2>1. PICK n \in Nodes : \E p \in inbox[n] : \E end \in DL!Ends : Settle(n, p, end)
    BY <1>2 DEF Settles
  <2>2. PICK p \in inbox[n], end \in DL!Ends : Settle(n, p, end)
    BY <2>1
  <2>3. sent' = sent /\ \A i \in Ids : fate'[i] = IF i = p.id THEN end ELSE fate[i]
    BY <2>2, SettleEffect DEF Settled
  <2>4. end # "unsent"
    BY DEF DL!Ends
  <2> QED
    BY <2>3, <2>4, <1>o, <1>g
<1>3. CASE Forwards
  <2>1. PICK n \in Nodes : \E p \in inbox[n] : Forward(n, p)
    BY <1>3 DEF Forwards
  <2>2. PICK p \in inbox[n] : Forward(n, p)
    BY <2>1
  <2>3. sent' = sent /\ \A i \in Ids : fate'[i] = fate[i] \/ (i = p.id /\ fate'[i] = "lost")
    BY <2>2, ForwardEffect DEF Forwarded
  <2> QED
    BY <2>3, <1>o, <1>g
<1>4. CASE (\E r \in Rules : SendControl(r)) \/ (\E n \in Nodes : HandleControl(n))
  BY <1>4, <1>g, ControlEffect
<1>5. ASSUME NEW n \in Nodes, Crash(n)
      PROVE  Fresh' /\ \A i \in Ids : fate[i] # "unsent" => fate'[i] # "unsent"
  <2>1. /\ sent' = sent
        /\ \A i \in Ids : fate'[i] = IF \E p \in inbox[n] : p.id = i THEN "lost" ELSE fate[i]
    BY <1>5, CrashEffect
  <2> QED
    BY <2>1, <1>o, <1>g
<1> QED
  BY <1>1, <1>2, <1>3, <1>4, <1>5, StepKinds

LEMMA OnePlaceStep ==
  ASSUME TypeOK, Fresh, OnePlace, Step
  PROVE  OnePlace'
PROOF
<1>o. \A n, m \in Nodes : \A p \in inbox[n], q \in inbox[m] : p.id = q.id => n = m /\ p = q
  BY DEF OnePlace
<1>f. \A i \in Ids : fate[i] = "flying" <=> \E n \in Nodes : \E p \in inbox[n] : p.id = i
  BY DEF OnePlace
<1>i. \A n \in Nodes : \A p \in inbox[n] : p.id \in Ids
  BY DEF TypeOK, Packet
<1>g. ASSUME \A n, m \in Nodes : \A p \in inbox'[n], q \in inbox'[m] :
               p.id = q.id => n = m /\ p = q,
             \A i \in Ids : fate'[i] = "flying" <=>
                              \E n \in Nodes : \E p \in inbox'[n] : p.id = i
      PROVE  OnePlace'
  BY <1>g DEF OnePlace, Ids
<1>1. CASE Sends
  <2>0. PICK n \in Nodes, p \in Packet : SentOne(n, p)
    BY <1>1, SendEffect
  <2> DEFINE ok == Room(n)
  <2>a. p.id = sent + 1 /\ p.id \in Ids
    BY <2>0 DEF SentOne
  <2>b. \A k \in Nodes : \A o : o \in inbox'[k] <=> o \in inbox[k] \/ (ok /\ k = n /\ o = p)
    BY <2>0 DEF SentOne
  <2>c. \A i \in Ids : fate'[i] = IF i = p.id THEN IF ok THEN "flying" ELSE "lost" ELSE fate[i]
    BY <2>0 DEF SentOne
  <2> HIDE DEF ok
  <2>2. p.id \in Ids /\ fate[p.id] = "unsent"
    <3>1. sent \in Nat
      BY MeshAssumption DEF TypeOK
    <3> QED
      BY <3>1, <2>a DEF Fresh
  <2>3. \A k \in Nodes : \A q \in inbox[k] : q.id # p.id
    BY <2>2, <1>f
  <2>4. ASSUME NEW k \in Nodes, NEW j \in Nodes, NEW q \in inbox'[k], NEW o \in inbox'[j],
               q.id = o.id
        PROVE  k = j /\ q = o
    <3>1. q \in inbox[k] \/ (ok /\ k = n /\ q = p)
      BY <2>b
    <3>2. o \in inbox[j] \/ (ok /\ j = n /\ o = p)
      BY <2>b
    <3> QED
      BY <3>1, <3>2, <2>3, <2>4, <1>o
  <2>5. ASSUME NEW i \in Ids
        PROVE  fate'[i] = "flying" <=> \E k \in Nodes : \E q \in inbox'[k] : q.id = i
    <3>1. CASE i = p.id
      <4>1. CASE ok
        <5>1. p \in inbox'[n] /\ fate'[i] = "flying"
          BY <4>1, <3>1, <2>b, <2>c
        <5> QED
          BY <5>1, <3>1
      <4>2. CASE ~ok
        <5>1. fate'[i] = "lost"
          BY <4>2, <3>1, <2>c
        <5>2. \A k \in Nodes : \A q \in inbox'[k] : q \in inbox[k]
          BY <4>2, <2>b
        <5> QED
          BY <5>1, <5>2, <3>1, <2>3
      <4> QED
        BY <4>1, <4>2
    <3>2. CASE i # p.id
      <4>1. fate'[i] = fate[i]
        BY <3>2, <2>c
      <4>2. \A k \in Nodes : \A q \in inbox[k] : q \in inbox'[k]
        BY <2>b
      <4>3. \A k \in Nodes : \A q \in inbox'[k] : q.id = i => q \in inbox[k]
        BY <3>2, <2>b
      <4> QED
        BY <4>1, <4>2, <4>3, <1>f
    <3> QED
      BY <3>1, <3>2
  <2> QED
    BY <2>4, <2>5, <1>g
<1>2. CASE Settles
  <2>1. PICK n \in Nodes : \E p \in inbox[n] : \E end \in DL!Ends : Settle(n, p, end)
    BY <1>2 DEF Settles
  <2>2. PICK p \in inbox[n], end \in DL!Ends : Settle(n, p, end)
    BY <2>1
  <2>3. /\ p.id \in Ids
        /\ \A k \in Nodes : \A o : o \in inbox'[k] <=> o \in inbox[k] /\ ~(k = n /\ o = p)
        /\ \A i \in Ids : fate'[i] = IF i = p.id THEN end ELSE fate[i]
    BY <2>2, SettleEffect DEF Settled
  <2>4. end # "flying"
    BY DEF DL!Ends
  <2>5. ASSUME NEW i \in Ids
        PROVE  fate'[i] = "flying" <=> \E k \in Nodes : \E q \in inbox'[k] : q.id = i
    <3>1. CASE i = p.id
      BY <3>1, <2>3, <2>4, <1>o
    <3>2. CASE i # p.id
      BY <3>2, <2>3, <1>f
    <3> QED
      BY <3>1, <3>2
  <2>6. \A k, j \in Nodes : \A q \in inbox'[k], o \in inbox'[j] : q.id = o.id => k = j /\ q = o
    BY <2>3, <1>o
  <2> QED
    BY <2>5, <2>6, <1>g
<1>3. CASE Forwards
  <2>1. PICK n \in Nodes : \E p \in inbox[n] : Forward(n, p)
    BY <1>3 DEF Forwards
  <2>2. PICK p \in inbox[n] : Forward(n, p)
    BY <2>1
  <2> DEFINE m == Hop(n, p)
  <2>q. PICK q \in Packet : Forwarded(n, p, q)
    BY <2>2, ForwardEffect
  <2>3. /\ m \in Nodes /\ m # n /\ q.id = p.id
        /\ \A k \in Nodes : \A o : o \in inbox'[k] <=> \/ o \in inbox[k] /\ ~(k = n /\ o = p)
                                                       \/ k = m /\ Room(m) /\ o = q
        /\ \A i \in Ids : fate'[i] = IF i = p.id /\ ~Room(m) THEN "lost" ELSE fate[i]
    BY <2>q DEF Forwarded
  <2> HIDE DEF m
  <2>4. ASSUME NEW k \in Nodes, NEW o \in inbox'[k]
        PROVE  (o \in inbox[k] /\ o # p /\ o.id # p.id) \/ (o = q /\ k = m /\ Room(m))
    BY <2>3, <2>4, <1>o
  <2>5. ASSUME NEW k \in Nodes, NEW j \in Nodes, NEW u \in inbox'[k], NEW v \in inbox'[j],
               u.id = v.id
        PROVE  k = j /\ u = v
    BY <2>3, <2>4, <2>5, <1>o
  <2>6. ASSUME NEW i \in Ids
        PROVE  fate'[i] = "flying" <=> \E k \in Nodes : \E o \in inbox'[k] : o.id = i
    <3>1. CASE i = p.id
      <4>1. fate[i] = "flying"
        BY <3>1, <1>f
      <4>2. Room(m) => q \in inbox'[m]
        BY <2>3
      <4>3. CASE Room(m)
        BY <4>1, <4>2, <4>3, <3>1, <2>3
      <4>4. CASE ~Room(m)
        BY <4>4, <3>1, <2>3, <2>4
      <4> QED
        BY <4>3, <4>4
    <3>2. CASE i # p.id
      <4>1. fate'[i] = fate[i]
        BY <3>2, <2>3
      <4>2. \A k \in Nodes : \A o \in inbox[k] : o.id = i => o \in inbox'[k]
        BY <3>2, <2>3
      <4>3. \A k \in Nodes : \A o \in inbox'[k] : o.id = i => o \in inbox[k]
        BY <3>2, <2>3, <2>4
      <4> QED
        BY <4>1, <4>2, <4>3, <1>f
    <3> QED
      BY <3>1, <3>2
  <2> QED
    BY <2>5, <2>6, <1>g
<1>4. CASE (\E r \in Rules : SendControl(r)) \/ (\E n \in Nodes : HandleControl(n))
  <2>1. inbox' = inbox /\ fate' = fate
    BY <1>4, ControlEffect
  <2> QED
    BY <2>1, <1>g, <1>o, <1>f
<1>5. ASSUME NEW n \in Nodes, Crash(n)
      PROVE  OnePlace'
  <2>1. /\ \A k \in Nodes : \A o : o \in inbox'[k] <=> k # n /\ o \in inbox[k]
        /\ \A i \in Ids : fate'[i] = IF \E p \in inbox[n] : p.id = i THEN "lost" ELSE fate[i]
    BY <1>5, CrashEffect
  <2>2. \A k, j \in Nodes : \A q \in inbox'[k], o \in inbox'[j] : q.id = o.id => k = j /\ q = o
    BY <2>1, <1>o
  <2>3. ASSUME NEW i \in Ids
        PROVE  fate'[i] = "flying" <=> \E k \in Nodes : \E q \in inbox'[k] : q.id = i
    <3>1. CASE \E p \in inbox[n] : p.id = i
      BY <3>1, <2>1, <1>o
    <3>2. CASE ~\E p \in inbox[n] : p.id = i
      BY <3>2, <2>1, <1>f
    <3> QED
      BY <3>1, <3>2
  <2> QED
    BY <2>2, <2>3, <1>g
<1> QED
  BY <1>1, <1>2, <1>3, <1>4, <1>5, StepKinds

(* At most two changes in a packet's life; and where the second one is its  *)
(* delivery, the packet was at its destination, which lived and did not     *)
(* block it.                                                                *)
DeliveredAt(i) ==
  \E n \in Nodes : \E p \in inbox[n] :
    p.id = i /\ p.dest = n /\ n \in alive /\ ~Blocks(n, p)

LEMMA FateStep ==
  ASSUME TypeOK, Fresh, OnePlace, Step, NEW i \in Ids
  PROVE  \/ fate'[i] = fate[i]
         \/ fate[i] = "unsent" /\ fate'[i] \in {"flying", "lost"}
         \/ /\ fate[i] = "flying" /\ fate'[i] \in DL!Ends
            /\ fate'[i] = "delivered" => DeliveredAt(i)
PROOF
<1>o. \A n \in Nodes : \A p \in inbox[n] : p.id \in Ids /\ fate[p.id] = "flying"
  BY DEF OnePlace, TypeOK, Packet
<1>l. "lost" \in DL!Ends
  BY DEF DL!Ends
<1>1. CASE Sends
  <2>1. PICK n \in Nodes, p \in Packet : SentOne(n, p)
    BY <1>1, SendEffect
  <2>2. p.id = sent + 1 /\ p.id \in Ids /\ sent \in Nat
    BY <2>1, MeshAssumption DEF SentOne, TypeOK
  <2>3. fate[p.id] = "unsent"
    BY <2>2 DEF Fresh
  <2>4. fate'[i] = fate[i] \/ (i = p.id /\ fate'[i] \in {"flying", "lost"})
    BY <2>1 DEF SentOne
  <2> QED
    BY <2>3, <2>4
<1>2. CASE Settles
  <2>1. PICK n \in Nodes : \E p \in inbox[n] : \E end \in DL!Ends :
          /\ n \in alive /\ Settle(n, p, end)
          /\ end = "delivered" => p.dest = n /\ ~Blocks(n, p)
    BY <1>2 DEF Settles
  <2>2. PICK p \in inbox[n], end \in DL!Ends :
          /\ n \in alive /\ Settle(n, p, end)
          /\ end = "delivered" => p.dest = n /\ ~Blocks(n, p)
    BY <2>1
  <2>3. fate'[i] = IF i = p.id THEN end ELSE fate[i]
    BY <2>2, SettleEffect DEF Settled
  <2>4. CASE i = p.id
    <3>1. fate[i] = "flying" /\ fate'[i] = end
      BY <2>3, <2>4, <1>o
    <3>2. end = "delivered" => DeliveredAt(i)
      BY <2>2, <2>4 DEF DeliveredAt
    <3> QED
      BY <3>1, <3>2
  <2> QED
    BY <2>3, <2>4
<1>3. CASE Forwards
  <2>1. PICK n \in Nodes : \E p \in inbox[n] : Forward(n, p)
    BY <1>3 DEF Forwards
  <2>2. PICK p \in inbox[n] : Forward(n, p)
    BY <2>1
  <2>3. fate'[i] = fate[i] \/ (i = p.id /\ fate'[i] = "lost")
    BY <2>2, ForwardEffect DEF Forwarded
  <2> QED
    BY <2>3, <1>o, <1>l
<1>4. CASE (\E r \in Rules : SendControl(r)) \/ (\E n \in Nodes : HandleControl(n))
  BY <1>4, ControlEffect
<1>5. ASSUME NEW n \in Nodes, Crash(n)
      PROVE  \/ fate'[i] = fate[i]
             \/ fate[i] = "flying" /\ fate'[i] = "lost"
  BY <1>5, <1>o, CrashEffect
<1> QED
  BY <1>1, <1>2, <1>3, <1>4, <1>5, <1>l, StepKinds

LEMMA NoDetourStep ==
  ASSUME TypeOK, NoDetour, Step, TypeOK'
  PROVE  NoDetour'
PROOF
<1> SUFFICES ASSUME NEW k \in Nodes, NEW p \in inbox'[k], p.dest \in DOMAIN Route[p.at]
             PROVE  /\ p.dest \in DOMAIN Route[k]
                    /\ p.hops + Cardinality(Route[k][p.dest]) = Cardinality(Route[p.at][p.dest])
  BY DEF NoDetour
<1>1. CASE p \in inbox[k]
  BY <1>1 DEF NoDetour
<1>2. CASE p.at = k /\ p.hops = 0
  <2>1. Cardinality(Route[k][p.dest]) \in Nat
    BY <1>2, RouteCounted
  <2> QED
    BY <1>2, <2>1
<1>3. ASSUME NEW n \in Nodes, NEW o \in inbox[n],
             ToForward(n, o), k = Hop(n, o), p.dest = o.dest, p.at = o.at,
             p.hops = o.hops + 1
      PROVE  /\ p.dest \in DOMAIN Route[k]
             /\ p.hops + Cardinality(Route[k][p.dest]) = Cardinality(Route[p.at][p.dest])
  <2>1. /\ o.dest \in DOMAIN Route[n]
        /\ o.hops + Cardinality(Route[n][o.dest]) = Cardinality(Route[o.at][o.dest])
    BY <1>3 DEF NoDetour
  <2>2. o.dest \in DOMAIN NextHop[n] /\ k = NextHop[n][o.dest]
    BY <1>3 DEF ToForward, Hop
  <2>3. /\ o.dest \in DOMAIN Route[k]
        /\ Cardinality(Route[k][o.dest]) \in Nat
        /\ Cardinality(Route[n][o.dest]) = Cardinality(Route[k][o.dest]) + 1
    BY <2>2, RouteGrows
  <2>4. o.hops \in Nat
    BY DEF TypeOK, Packet
  <2> QED
    BY <1>3, <2>1, <2>3, <2>4
<1>4. Came(k, p)
  BY AllCame
<1> QED
  BY <1>1, <1>2, <1>3, <1>4 DEF Came

(* The step that matters: a condemned packet that is passed on leaves a     *)
(* node that is open to it, so the closed one is still ahead; and the node  *)
(* that delivers is the last on the route.                                  *)
LEMMA CondemnedStep ==
  ASSUME TypeOK, Fresh, OnePlace, CondemnedWasSent, CondemnedAhead, IsolatedForGood,
         Step, Record, TypeOK', OnePlace',
         \A i \in Ids : fate[i] # "unsent" => fate'[i] # "unsent"
  PROVE  CondemnedWasSent' /\ CondemnedAhead' /\ IsolatedForGood'
PROOF
<1>c. condemned' = condemned \cup Hopeless' /\ condemned \subseteq Ids
  BY DEF Record, TypeOK
<1>h. \A i \in Hopeless' : i \in Ids /\ fate'[i] = "flying"
  BY DEF Hopeless, OnePlace, Ids
<1>1. CondemnedWasSent'
  BY <1>c, <1>h DEF CondemnedWasSent
<1>2. ASSUME NEW k \in Nodes, NEW p \in inbox'[k], p.id \in condemned'
      PROVE  \E m \in Ahead(k, p) : Closed(m, p.src)'
  <2>1. CASE p.id \in Hopeless'
    <3>1. PICK n \in Nodes : \E q \in inbox'[n] :
            q.id = p.id /\ \E m \in Ahead(n, q) : Closed(m, q.src)'
      BY <2>1 DEF Hopeless
    <3>2. PICK q \in inbox'[n] :
            q.id = p.id /\ \E m \in Ahead(n, q) : Closed(m, q.src)'
      BY <3>1
    <3>3. n = k /\ q = p
      BY <3>2 DEF OnePlace
    <3> QED
      BY <3>2, <3>3
  <2>2. CASE p.id \in condemned
    <3>1. CASE p \in inbox[k]
      BY <2>2, <3>1, ClosedStays DEF CondemnedAhead
    <3>2. p.id # sent + 1
      <4>1. p.id \in Ids /\ sent \in Nat
        BY MeshAssumption DEF TypeOK, Packet
      <4>2. fate[p.id] # "unsent"
        BY <2>2 DEF CondemnedWasSent
      <4> QED
        BY <4>1, <4>2 DEF Fresh
    <3>3. ASSUME NEW n \in Nodes, NEW o \in inbox[n], n \in alive, ToForward(n, o),
                 k = Hop(n, o), p.id = o.id, p.src = o.src, p.dest = o.dest
          PROVE  \E m \in Ahead(k, p) : Closed(m, p.src)'
      <4>1. PICK m \in Ahead(n, o) : Closed(m, o.src)
        BY <2>2, <3>3 DEF CondemnedAhead
      <4>2. m # n
        BY <4>1, <3>3 DEF Closed, ToForward, Blocks
      <4>3. o.dest \in DOMAIN NextHop[n] /\ k = NextHop[n][o.dest]
        BY <3>3 DEF ToForward, Hop
      <4>4. /\ o.dest \in DOMAIN Route[k] /\ o.dest \in DOMAIN Route[n]
            /\ Route[n][o.dest] = {n} \cup Route[k][o.dest]
        BY <4>3, RouteGrows
      <4>5. m \in Ahead(k, p)
        BY <4>1, <4>2, <4>4, <3>3 DEF Ahead
      <4>6. Closed(m, p.src)'
        BY <4>1, <3>3, ClosedStays
      <4> QED
        BY <4>5, <4>6
    <3>4. Came(k, p)
      BY AllCame
    <3> QED
      BY <3>1, <3>2, <3>3, <3>4 DEF Came
  <2> QED
    BY <2>1, <2>2, <1>2, <1>c
<1>3. ASSUME NEW i \in condemned'
      PROVE  fate'[i] # "delivered"
  <2>1. CASE i \in Hopeless'
    BY <2>1, <1>h
  <2>2. CASE i \in condemned
    <3>1. i \in Ids /\ fate[i] # "delivered"
      BY <2>2, <1>c DEF IsolatedForGood
    <3>2. ~DeliveredAt(i)
      <4> SUFFICES ASSUME NEW n \in Nodes, NEW p \in inbox[n], p.id = i, p.dest = n,
                          n \in alive, ~Blocks(n, p)
                   PROVE  FALSE
        BY DEF DeliveredAt
      <4>1. PICK m \in Ahead(n, p) : Closed(m, p.src)
        BY <2>2 DEF CondemnedAhead
      <4>2. Ahead(n, p) = {n}
        BY RouteAssumption DEF AreRoutes, Ahead
      <4> QED
        BY <4>1, <4>2 DEF Closed, Blocks
    <3> QED
      BY <3>1, <3>2, FateStep
  <2> QED
    BY <2>1, <2>2, <1>c
<1> QED
  BY <1>1, <1>2, <1>3 DEF CondemnedAhead, IsolatedForGood, Ahead

-----------------------------------------------------------------------------
(* The theorems. *)

LEMMA InitInv == Init => IInv
PROOF
<1> SUFFICES ASSUME Init
             PROVE  IInv
  OBVIOUS
<1>1. TypeOK
  <2>1. MaxSent \in Nat /\ BufferSize \in Nat
    BY MeshAssumption
  <2>2. IsFiniteSet({}) /\ Cardinality({}) = 0
    BY FS_EmptySet
  <2> QED
    BY <2>1, <2>2 DEF Init, TypeOK
<1>2. Fresh
  BY DEF Init, Fresh, Ids
<1>3. OnePlace /\ NoDetour /\ CondemnedWasSent /\ CondemnedAhead /\ IsolatedForGood
  BY DEF Init, OnePlace, NoDetour, CondemnedWasSent, CondemnedAhead, IsolatedForGood
<1> QED
  BY <1>1, <1>2, <1>3 DEF IInv

LEMMA NextInv == IInv /\ [Next]_vars => IInv'
PROOF
<1> SUFFICES ASSUME IInv, [Next]_vars
             PROVE  IInv'
  OBVIOUS
<1>1. CASE Next
  <2>1. Step /\ Record
    BY <1>1 DEF Next
  <2>2. TypeOK'
    BY <2>1, TypedStep DEF IInv
  <2>3. Fresh' /\ \A i \in Ids : fate[i] # "unsent" => fate'[i] # "unsent"
    BY <2>1, FreshStep DEF IInv
  <2>4. OnePlace'
    BY <2>1, OnePlaceStep DEF IInv
  <2>5. NoDetour'
    BY <2>1, <2>2, NoDetourStep DEF IInv
  <2>6. CondemnedWasSent' /\ CondemnedAhead' /\ IsolatedForGood'
    BY <2>1, <2>2, <2>3, <2>4, CondemnedStep DEF IInv
  <2> QED
    BY <2>2, <2>3, <2>4, <2>5, <2>6 DEF IInv
<1>2. CASE UNCHANGED vars
  BY <1>2 DEF vars, IInv, TypeOK, Fresh, OnePlace, NoDetour, CondemnedWasSent,
              CondemnedAhead, IsolatedForGood, Closed
<1> QED
  BY <1>1, <1>2

LEMMA Invariance == Spec => []IInv
BY InitInv, NextInv, PTL DEF Spec

(* Every reachable state of the mesh is well typed, and no socket buffer    *)
(* holds more than its size (node.cpp:268-429).                             *)
THEOREM MeshTyped == Spec => []TypeOK
<1>1. IInv => TypeOK
  BY DEF IInv
<1> QED
  BY <1>1, Invariance, PTL

(* In any mesh, a packet is under way in one place or in none               *)
(* (node.cpp:270-429).                                                      *)
THEOREM PacketsInOnePlace == Spec => []OnePlace
<1>1. IInv => OnePlace
  BY DEF IInv
<1> QED
  BY <1>1, Invariance, PTL

(* In any mesh whose tables agree no packet circles, although none carries  *)
(* a hop limit (node.cpp:394-415, packet.h:31-38).                          *)
THEOREM NoPacketTakesADetour == Spec => []NoDetour
<1>1. IInv => NoDetour
  BY DEF IInv
<1> QED
  BY <1>1, Invariance, PTL

(* In any mesh, for any commands and crashes: once a closed node lies ahead *)
(* of a packet, the packet is not delivered (node.cpp:356-366).             *)
THEOREM Isolation == Spec => []IsolatedForGood
<1>1. IInv => IsolatedForGood
  BY DEF IInv
<1> QED
  BY <1>1, Invariance, PTL

(* The mesh, hop by hop, implements the abstract delivery service.          *)
THEOREM MeshImplementsDelivery == Spec => DeliverySpec
PROOF
<1>1. Init => DL!Init
  BY DEF Init, DL!Init
<1>2. ASSUME IInv, IInv', [Next]_vars
      PROVE  [DL!Next]_DL!vars
  <2>1. CASE Next
    <3>1. Step /\ Record
      BY <2>1 DEF Next
    <3>2. fate' \in [Ids -> DL!Fates]
      BY <1>2 DEF IInv, TypeOK, DL!Fates, DL!Ends
    <3>3. ASSUME NEW i \in Ids
          PROVE  DL!Stays(i) \/ DL!Sent(i) \/ DL!Comes(i)
      <4>1. \/ fate'[i] = fate[i]
            \/ fate[i] = "unsent" /\ fate'[i] \in {"flying", "lost"}
            \/ fate[i] = "flying" /\ fate'[i] \in DL!Ends
        BY <1>2, <3>1, FateStep DEF IInv
      <4>2. i \in condemned => fate'[i] # "delivered"
        BY <1>2, <3>1 DEF IInv, IsolatedForGood, Record
      <4> QED
        BY <4>1, <4>2 DEF DL!Stays, DL!Sent, DL!Comes
    <3>4. condemned \subseteq condemned'
      BY <3>1 DEF Record
    <3>5. ASSUME NEW i \in condemned' \ condemned
          PROVE  i \in Ids /\ fate'[i] = "flying"
      <4>1. i \in Hopeless'
        BY <3>1 DEF Record
      <4>2. OnePlace'
        BY <1>2 DEF IInv
      <4> QED
        BY <4>1, <4>2 DEF Hopeless, OnePlace, Ids
    <3> QED
      BY <3>2, <3>3, <3>4, <3>5 DEF DL!Next
  <2>2. CASE UNCHANGED vars
    BY <2>2 DEF vars, DL!vars
  <2> QED
    BY <2>1, <2>2, <1>2
<1> QED
  BY <1>1, <1>2, Invariance, PTL DEF Spec, DeliverySpec, DL!Spec
=============================================================================
