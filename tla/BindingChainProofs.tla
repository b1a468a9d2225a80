------------------------- MODULE BindingChainProofs -------------------------
(***************************************************************************)
(* The proofs about BindingChain, for any binding the device starts with,  *)
(* any names, keys, wirings and capacities, and any number of edits,       *)
(* rotations and successions.                                              *)
(***************************************************************************)
EXTENDS BindingChain, BindingRulesProofs

-----------------------------------------------------------------------------
(***************************************************************************)
(* What is in force and what is being written.                             *)
(***************************************************************************)
LegAt(leg, t) ==
  /\ leg.method \in {"pre_energisation", "commanded_and_observed", "undemonstrated"}
  /\ leg.at \in 0 .. t
  /\ leg.seen \subseteq Seen

\* The zone w with other legs.
ZoneWith(w, circuit, control) ==
  [ id |-> w.id, sensor |-> w.sensor, kind |-> w.kind, line |-> w.line,
    activeHigh |-> w.activeHigh, mapping |-> w.mapping, capacity |-> w.capacity,
    circuit |-> circuit, control |-> control ]

\* A zone, its legs dated up to t.
ZoneAt(z, t) ==
  /\ z = ZoneWith(z, z.circuit, z.control)
  /\ z.id \in Names /\ z.sensor \in Sensors /\ z.mapping \in Mappings
  /\ z.activeHigh \in BOOLEAN /\ z.capacity \in Nat
  /\ LegAt(z.circuit, t)
  /\ z.control # NoLeg => LegAt(z.control, t)

ZonesAt(zones, t) ==
  DOMAIN zones = DOMAIN FirstZones /\ \A i \in DOMAIN FirstZones : ZoneAt(zones[i], t)

\* A signed document is the draft, which a consumer accepts as it stands.
EnvelopeInv ==
  envelope # <<>> =>
    /\ draft # <<>> /\ verdict = "pass"
    /\ envelope.doc = [draft EXCEPT !.signer = envelope.doc.signer]
    /\ SoundAlone(envelope.doc) /\ SignatureStage(envelope) = "pass"

ChainInv ==
  /\ clock \in Nat
  /\ anchors = [ current |-> anchors.current, previous |-> anchors.previous,
                 provisioning |-> anchors.provisioning, rotations |-> anchors.rotations ]
  /\ anchors.current \in Signers /\ anchors.previous \in Signers \cup {NoKey}
  /\ anchors.rotations \in 0 .. MaxRotations
  /\ inForce.seq \in 1 .. MaxBindings
  /\ ZonesAt(inForce.zones, clock)
  /\ \A i \in DOMAIN FirstZones : inForce.zones[i].control # NoLeg
  /\ edits \in 0 .. MaxEdits /\ proven \subseteq DOMAIN FirstZones
  /\ draft # <<>> =>
       /\ draft = [ device |-> draft.device, seq |-> draft.seq, supersedes |-> draft.supersedes,
                    signer |-> draft.signer, zones |-> draft.zones ]
       /\ draft.seq = inForce.seq + 1 /\ draft.seq <= MaxBindings
       /\ ZonesAt(draft.zones, clock)
  /\ draft = <<>> => edits = 0 /\ proven = {}
  /\ EnvelopeInv

\* What has been proven stays proven.
LEMMA LaterZones ==
  ASSUME NEW zones, NEW t \in Nat, NEW u \in Nat, t <= u, ZonesAt(zones, t)
  PROVE  ZonesAt(zones, u)
  BY DEF ZonesAt, ZoneAt, LegAt

\* What a proof of a zone that reads as it should shows.
LEMMA LegsAreLegs ==
  ASSUME NEW z, NEW t \in Nat, z.mapping \in Mappings, z.activeHigh \in BOOLEAN
  PROVE  /\ LegAt(CircuitLeg(z, t), t) /\ CircuitLeg(z, t).on = Hardware(z)
         /\ LegAt(ControlLegOf(z, t), t) /\ ControlLegOf(z, t).on = Hardware(z)
<1>1. ASSUME NEW levels \in BOOLEAN PROVE Demonstration(z, levels) \subseteq Seen
  <2> SUFFICES ASSUME NEW o \in Demonstration(z, levels) PROVE o \in Seen
    OBVIOUS
  <2>1. PICK c \in Outcomes :
          o = [ commanded |-> c, coil |-> CoilFor(z.mapping, c),
                terminal |-> IF c = "open" THEN "open" ELSE "closed",
                before |-> c = "open", after |-> c = "close", reading |-> "none",
                level |-> IF levels THEN LevelFor(z.activeHigh, CoilFor(z.mapping, c)) ELSE "none" ]
    BY DEF Demonstration
  <2>2. CoilFor(z.mapping, c) \in Coils
    BY DEF CoilFor, Mappings
  <2>3. LevelFor(z.activeHigh, CoilFor(z.mapping, c)) \in Levels
    BY DEF LevelFor, Levels
  <2>4. (c = "open") \in BOOLEAN /\ (c = "close") \in BOOLEAN
    OBVIOUS
  <2>5. QED
    BY <2>1, <2>2, <2>3, <2>4 DEF Seen, Circuits
<1>2. Demonstration(z, FALSE) \subseteq Seen /\ Demonstration(z, TRUE) \subseteq Seen
  BY <1>1
<1>3. /\ CircuitLeg(z, t).method = "pre_energisation"
      /\ CircuitLeg(z, t).at = t /\ CircuitLeg(z, t).seen = Demonstration(z, FALSE)
      /\ CircuitLeg(z, t).on = Hardware(z)
  BY DEF CircuitLeg
<1>4. /\ ControlLegOf(z, t).method = "commanded_and_observed"
      /\ ControlLegOf(z, t).at = t /\ ControlLegOf(z, t).seen = Demonstration(z, TRUE)
      /\ ControlLegOf(z, t).on = Hardware(z)
  BY DEF ControlLegOf
<1>5. t \in 0 .. t
  OBVIOUS
<1>6. QED
  BY <1>2, <1>3, <1>4, <1>5 DEF LegAt

\* The binding a device starts with.
LEMMA FirstZonesAt == ZonesAt(FirstZones, FirstClock)
<1> SUFFICES ASSUME NEW i \in DOMAIN FirstZones PROVE ZoneAt(FirstZones[i], FirstClock)
  BY DEF ZonesAt
<1> DEFINE z == FirstZones[i]
<1>1. z.mapping \in Mappings /\ z.activeHigh \in BOOLEAN
  BY FirstZonesAssumption
<1>2. LegAt(z.circuit, FirstClock)
  <2>1. PICK t \in 0 .. FirstClock : z.circuit = CircuitLeg(z, t)
    BY FirstZonesAssumption
  <2>2. QED
    BY <1>1, <2>1, LegsAreLegs DEF LegAt, FirstClock
<1>3. LegAt(z.control, FirstClock)
  <2>1. PICK t \in 0 .. FirstClock : z.control = ControlLegOf(z, t)
    BY FirstZonesAssumption
  <2>2. QED
    BY <1>1, <2>1, LegsAreLegs DEF LegAt, FirstClock
<1>4. z.sensor \in Sensors
  <2>1. /\ z.sensor = [ id |-> z.sensor.id, cal |-> z.sensor.cal,
                        low |-> z.sensor.low, high |-> z.sensor.high ]
        /\ z.sensor.cal \in Nat /\ z.sensor.low \in Int /\ z.sensor.high \in Int
    BY FirstZonesAssumption
  <2>2. z.sensor.id \in {FirstZones[j].sensor.id : j \in DOMAIN FirstZones}
    OBVIOUS
  <2>3. QED
    BY <2>1, <2>2 DEF Sensors
<1>5. QED
  BY <1>1, <1>2, <1>3, <1>4, FirstZonesAssumption DEF ZoneAt, ZoneWith

-----------------------------------------------------------------------------
(***************************************************************************)
(* Edits.                                                                  *)
(***************************************************************************)
\* What an edit does to the legs of a zone: it proves one on the hardware the
\* zone has, drops one, or leaves them; a proven zone keeps its hardware.
LegsFollow(i) ==
  LET was == draft.zones[i]
      z == draft'.zones[i]
  IN  /\ i \in proven => Hardware(z) = Hardware(was)
      /\ z.circuit = was.circuit \/ (i \in proven' /\ z.circuit.on = Hardware(z))
      /\ z.control \in {was.control, NoLeg} \/ (i \in proven' /\ z.control.on = Hardware(z))

NamesApart(zones) ==
  \A i, j \in DOMAIN FirstZones : zones[i].id = zones[j].id => i = j

\* z is a zone with the legs of w.
SameLegs(z, w, t) ==
  ZoneAt(z, t) /\ z.circuit = w.circuit /\ z.control = w.control

DraftEdited ==
  /\ draft # <<>> /\ envelope = <<>>
  /\ edits < MaxEdits /\ edits' = edits + 1
  /\ UNCHANGED <<inForce, anchors, envelope>>
  /\ clock' \in {clock, clock + 1}
  /\ proven \subseteq proven' /\ proven' \subseteq DOMAIN FirstZones
  /\ draft' = [draft EXCEPT !.zones = draft'.zones]
  /\ DOMAIN draft'.zones = DOMAIN draft.zones
  /\ \A i \in DOMAIN FirstZones :
       /\ ZoneAt(draft'.zones[i], clock')
       /\ KeepsOne(inForce.zones[i], draft'.zones[i])
       /\ LegsFollow(i)
  /\ ~SameNames /\ NamesApart(draft.zones) => NamesApart(draft'.zones)

\* What Edit says of the draft it leaves.
LEMMA EditLeaves ==
  ASSUME ChainInv, draft # <<>>, envelope = <<>>, NEW zones, Edit(zones),
         DOMAIN zones = DOMAIN FirstZones
  PROVE  /\ draft'.zones = zones
         /\ edits < MaxEdits /\ edits' = edits + 1
         /\ UNCHANGED <<inForce, anchors, envelope>>
         /\ draft' = [draft EXCEPT !.zones = draft'.zones]
         /\ \A i \in DOMAIN FirstZones : KeepsOne(inForce.zones[i], draft'.zones[i])
<1>1. draft = [ device |-> draft.device, seq |-> draft.seq, supersedes |-> draft.supersedes,
                signer |-> draft.signer, zones |-> draft.zones ]
  BY DEF ChainInv
<1>2. draft' = [draft EXCEPT !.zones = zones]
  BY DEF Edit
<1>3. draft'.zones = zones
  BY <1>1, <1>2
<1>4. QED
  BY <1>2, <1>3 DEF Edit

\* An edit that proves nothing.
LEMMA RewriteEdits ==
  ASSUME ChainInv, draft # <<>>, envelope = <<>>, NEW i \in DOMAIN FirstZones,
         NEW z, Rewrite(i, z), ZoneAt(z, clock), z.circuit = draft.zones[i].circuit,
         z.control \in {draft.zones[i].control, NoLeg},
         z.id # draft.zones[i].id /\ ~SameNames =>
           \A j \in DOMAIN FirstZones : draft.zones[j].id # z.id
  PROVE  DraftEdited
<1> DEFINE zones == [draft.zones EXCEPT ![i] = z]
<1>1. ZonesAt(draft.zones, clock) /\ proven \subseteq DOMAIN FirstZones
  BY DEF ChainInv
<1>2. i \notin proven /\ Edit(zones) /\ UNCHANGED <<clock, proven>>
  BY DEF Rewrite
<1>3. DOMAIN zones = DOMAIN FirstZones /\ DOMAIN draft.zones = DOMAIN FirstZones
  BY <1>1 DEF ZonesAt
<1>4. \A j \in DOMAIN FirstZones : zones[j] = IF j = i THEN z ELSE draft.zones[j]
  BY <1>3
<1>5. \A j \in DOMAIN FirstZones : ZoneAt(zones[j], clock)
  BY <1>1, <1>4 DEF ZonesAt
<1> HIDE DEF zones
<1>6. /\ draft'.zones = zones
      /\ edits < MaxEdits /\ edits' = edits + 1
      /\ UNCHANGED <<inForce, anchors, envelope>>
      /\ draft' = [draft EXCEPT !.zones = draft'.zones]
      /\ \A j \in DOMAIN FirstZones : KeepsOne(inForce.zones[j], draft'.zones[j])
  BY <1>2, <1>3, EditLeaves
<1>7. \A j \in DOMAIN FirstZones : LegsFollow(j)
  BY <1>2, <1>4, <1>6 DEF LegsFollow
<1>8. ~SameNames /\ NamesApart(draft.zones) => NamesApart(draft'.zones)
  BY <1>4, <1>6 DEF NamesApart
<1>9. QED
  BY <1>1, <1>2, <1>3, <1>5, <1>6, <1>7, <1>8 DEF DraftEdited

\* A zone with another leg.
LEMMA WithLegs ==
  ASSUME NEW w, w = ZoneWith(w, w.circuit, w.control), NEW a
  PROVE  /\ [w EXCEPT !.circuit = a] = ZoneWith(w, a, w.control)
         /\ [w EXCEPT !.control = a] = ZoneWith(w, w.circuit, a)
<1>1. ASSUME NEW v, v = ZoneWith(w, w.circuit, w.control)
      PROVE  [v EXCEPT !.circuit = a] = ZoneWith(w, a, w.control)
  BY <1>1 DEF ZoneWith
<1>2. ASSUME NEW v, v = ZoneWith(w, w.circuit, w.control)
      PROVE  [v EXCEPT !.control = a] = ZoneWith(w, w.circuit, a)
  BY <1>2 DEF ZoneWith
<1>3. QED
  BY <1>1, <1>2

\* A proof, and what it may be of.
LEMMA ProveEdits ==
  ASSUME ChainInv, draft # <<>>, envelope = <<>>, NEW i \in DOMAIN FirstZones,
         ProveCircuit(i) \/ ProveControl(i) \/ ProveBoth(i)
  PROVE  DraftEdited
<1> DEFINE was == draft.zones[i]
<1>1. ZonesAt(draft.zones, clock) /\ proven \subseteq DOMAIN FirstZones /\ clock \in Nat
  BY DEF ChainInv
<1>2. ZoneAt(was, clock)
  BY <1>1 DEF ZonesAt
<1>3. PICK circuit \in {was.circuit, CircuitLeg(was, clock)},
           control \in {was.control, ControlLegOf(was, clock)} :
        Prove(i, ZoneWith(was, circuit, control))
  <2>1. was = ZoneWith(was, was.circuit, was.control)
    BY <1>2 DEF ZoneAt
  <2>2. CASE ProveCircuit(i)
    <3>1. Prove(i, [was EXCEPT !.circuit = CircuitLeg(was, clock)])
      BY <2>2 DEF ProveCircuit
    <3>2. [was EXCEPT !.circuit = CircuitLeg(was, clock)]
            = ZoneWith(was, CircuitLeg(was, clock), was.control)
      BY <2>1, WithLegs
    <3>3. QED
      BY <3>1, <3>2
  <2>3. CASE ProveControl(i)
    <3>1. Prove(i, [was EXCEPT !.control = ControlLegOf(was, clock)])
      BY <2>3 DEF ProveControl
    <3>2. [was EXCEPT !.control = ControlLegOf(was, clock)]
            = ZoneWith(was, was.circuit, ControlLegOf(was, clock))
      BY <2>1, WithLegs
    <3>3. QED
      BY <3>1, <3>2
  <2>4. CASE ProveBoth(i)
    <3>1. Prove(i, [was EXCEPT !.circuit = CircuitLeg(was, clock),
                               !.control = ControlLegOf(was, clock)])
      BY <2>4 DEF ProveBoth
    <3>2. [was EXCEPT !.circuit = CircuitLeg(was, clock), !.control = ControlLegOf(was, clock)]
            = ZoneWith(was, CircuitLeg(was, clock), ControlLegOf(was, clock))
      <4> DEFINE one == [was EXCEPT !.circuit = CircuitLeg(was, clock)]
      <4>1. one = ZoneWith(was, CircuitLeg(was, clock), was.control)
        BY <2>1, WithLegs
      <4> HIDE DEF one
      <4>2. one = ZoneWith(one, one.circuit, one.control)
        BY <4>1 DEF ZoneWith
      <4>3. [one EXCEPT !.control = ControlLegOf(was, clock)]
              = ZoneWith(one, one.circuit, ControlLegOf(was, clock))
        BY <4>2, WithLegs
      <4>4. [was EXCEPT !.circuit = CircuitLeg(was, clock), !.control = ControlLegOf(was, clock)]
              = [one EXCEPT !.control = ControlLegOf(was, clock)]
        BY DEF one
      <4>5. QED
        BY <4>1, <4>3, <4>4 DEF ZoneWith
    <3>3. QED
      BY <3>1, <3>2
  <2>5. QED
    BY <2>2, <2>3, <2>4
<1> DEFINE z == ZoneWith(was, circuit, control)
           zones == [draft.zones EXCEPT ![i] = z]
<1>4. /\ LegAt(CircuitLeg(was, clock), clock) /\ CircuitLeg(was, clock).on = Hardware(was)
      /\ LegAt(ControlLegOf(was, clock), clock) /\ ControlLegOf(was, clock).on = Hardware(was)
  BY <1>1, <1>2, LegsAreLegs DEF ZoneAt
<1>5. ZoneAt(z, clock) /\ Hardware(z) = Hardware(was)
  BY <1>2, <1>4 DEF ZoneAt, ZoneWith, Hardware
<1>6. /\ z.circuit = was.circuit \/ z.circuit.on = Hardware(z)
      /\ z.control = was.control \/ z.control.on = Hardware(z)
  BY <1>4, <1>5 DEF ZoneWith
<1>7. z.id = was.id
  BY DEF ZoneWith
<1> HIDE DEF z
<1>8. Edit(zones) /\ proven' = proven \cup {i} /\ clock' = clock + 1
  BY <1>3 DEF Prove, z
<1>9. DOMAIN zones = DOMAIN FirstZones /\ DOMAIN draft.zones = DOMAIN FirstZones
  BY <1>1 DEF ZonesAt
<1>10. \A j \in DOMAIN FirstZones : zones[j] = IF j = i THEN z ELSE draft.zones[j]
  BY <1>9
<1>11. \A j \in DOMAIN FirstZones : ZoneAt(zones[j], clock)
  BY <1>1, <1>5, <1>10 DEF ZonesAt
<1> HIDE DEF zones
<1>12. \A j \in DOMAIN FirstZones : ZoneAt(zones[j], clock')
  <2>1. ZonesAt(zones, clock)
    BY <1>9, <1>11 DEF ZonesAt
  <2>2. clock' \in Nat /\ clock <= clock'
    BY <1>1, <1>8
  <2>3. ZonesAt(zones, clock')
    BY <1>1, <2>1, <2>2, LaterZones
  <2>4. QED
    BY <2>3 DEF ZonesAt
<1>13. /\ draft'.zones = zones
       /\ edits < MaxEdits /\ edits' = edits + 1
       /\ UNCHANGED <<inForce, anchors, envelope>>
       /\ draft' = [draft EXCEPT !.zones = draft'.zones]
       /\ \A j \in DOMAIN FirstZones : KeepsOne(inForce.zones[j], draft'.zones[j])
  BY <1>8, <1>9, EditLeaves
<1>14. \A j \in DOMAIN FirstZones : LegsFollow(j)
  BY <1>5, <1>6, <1>8, <1>10, <1>13 DEF LegsFollow
<1>15. NamesApart(draft.zones) => NamesApart(draft'.zones)
  BY <1>7, <1>10, <1>13 DEF NamesApart
<1>16. QED
  BY <1>1, <1>8, <1>9, <1>12, <1>13, <1>14, <1>15 DEF DraftEdited

\* The zone on another line.
LEMMA OtherLine ==
  ASSUME NEW w, NEW t, ZoneAt(w, t), NEW x
  PROVE  SameLegs([w EXCEPT !.line = x], w, t) /\ [w EXCEPT !.line = x].id = w.id
  BY DEF SameLegs, ZoneAt, ZoneWith

\* The zone with another sensor.
LEMMA OtherSensor ==
  ASSUME NEW w, NEW t, ZoneAt(w, t), NEW x \in Sensors
  PROVE  SameLegs([w EXCEPT !.sensor = x], w, t) /\ [w EXCEPT !.sensor = x].id = w.id
  BY DEF SameLegs, ZoneAt, ZoneWith

\* A zone with another name, mapping, polarity, sensor, line or capacity is a
\* zone still, and keeps its legs; so does one that loses its control leg.
LEMMA OtherField ==
  ASSUME NEW w, NEW t, ZoneAt(w, t), NEW x
  PROVE  /\ x \in Names => SameLegs([w EXCEPT !.id = x], w, t) /\ [w EXCEPT !.id = x].id = x
         /\ x \in Mappings => SameLegs([w EXCEPT !.mapping = x], w, t)
                                /\ [w EXCEPT !.mapping = x].id = w.id
         /\ x \in BOOLEAN => SameLegs([w EXCEPT !.activeHigh = x], w, t)
                                /\ [w EXCEPT !.activeHigh = x].id = w.id
         /\ x \in Sensors => SameLegs([w EXCEPT !.sensor = x], w, t)
                                /\ [w EXCEPT !.sensor = x].id = w.id
         /\ SameLegs([w EXCEPT !.line = x], w, t) /\ [w EXCEPT !.line = x].id = w.id
         /\ x \in Nat => SameLegs([w EXCEPT !.capacity = x], w, t)
                            /\ [w EXCEPT !.capacity = x].id = w.id
         /\ /\ ZoneAt([w EXCEPT !.control = NoLeg], t)
            /\ [w EXCEPT !.control = NoLeg].circuit = w.circuit
            /\ [w EXCEPT !.control = NoLeg].control = NoLeg
            /\ [w EXCEPT !.control = NoLeg].id = w.id
<1>1. ASSUME x \in Names
      PROVE  SameLegs([w EXCEPT !.id = x], w, t) /\ [w EXCEPT !.id = x].id = x
  BY <1>1 DEF SameLegs, ZoneAt, ZoneWith
<1>2. ASSUME x \in Mappings
      PROVE  SameLegs([w EXCEPT !.mapping = x], w, t) /\ [w EXCEPT !.mapping = x].id = w.id
  BY <1>2 DEF SameLegs, ZoneAt, ZoneWith
<1>3. ASSUME x \in BOOLEAN
      PROVE  SameLegs([w EXCEPT !.activeHigh = x], w, t) /\ [w EXCEPT !.activeHigh = x].id = w.id
  BY <1>3 DEF SameLegs, ZoneAt, ZoneWith
<1>4. ASSUME x \in Sensors
      PROVE  SameLegs([w EXCEPT !.sensor = x], w, t) /\ [w EXCEPT !.sensor = x].id = w.id
  BY <1>4, OtherSensor
<1>5. SameLegs([w EXCEPT !.line = x], w, t) /\ [w EXCEPT !.line = x].id = w.id
  BY OtherLine
<1>6. ASSUME x \in Nat
      PROVE  SameLegs([w EXCEPT !.capacity = x], w, t) /\ [w EXCEPT !.capacity = x].id = w.id
  BY <1>6 DEF SameLegs, ZoneAt, ZoneWith
<1>7. /\ ZoneAt([w EXCEPT !.control = NoLeg], t)
      /\ [w EXCEPT !.control = NoLeg].circuit = w.circuit
      /\ [w EXCEPT !.control = NoLeg].control = NoLeg
      /\ [w EXCEPT !.control = NoLeg].id = w.id
  BY DEF ZoneAt, ZoneWith
<1>8. QED
  BY <1>1, <1>2, <1>3, <1>4, <1>5, <1>6, <1>7

\* An edit that leaves every leg where it is, and every proven zone as it is.
LEMMA LegsKeptEdits ==
  ASSUME ChainInv, draft # <<>>, envelope = <<>>, NEW zones, Edit(zones),
         DOMAIN zones = DOMAIN FirstZones, UNCHANGED <<clock, proven>>,
         \A k \in DOMAIN FirstZones :
           SameLegs(zones[k], draft.zones[k], clock) /\ (k \in proven => zones[k] = draft.zones[k]),
         ~SameNames /\ NamesApart(draft.zones) => NamesApart(zones)
  PROVE  DraftEdited
<1>1. /\ draft'.zones = zones
      /\ edits < MaxEdits /\ edits' = edits + 1
      /\ UNCHANGED <<inForce, anchors, envelope>>
      /\ draft' = [draft EXCEPT !.zones = draft'.zones]
      /\ \A k \in DOMAIN FirstZones : KeepsOne(inForce.zones[k], draft'.zones[k])
  BY EditLeaves
<1>2. \A k \in DOMAIN FirstZones : ZoneAt(draft'.zones[k], clock') /\ LegsFollow(k)
  BY <1>1 DEF SameLegs, LegsFollow
<1>3. DOMAIN draft.zones = DOMAIN FirstZones /\ proven \subseteq DOMAIN FirstZones
  BY DEF ChainInv, ZonesAt
<1>4. QED
  BY <1>1, <1>2, <1>3 DEF DraftEdited

\* Two zones exchange a sensor, a line or a name, or one takes the other's sensor.
LEMMA ExchangeEdits ==
  ASSUME ChainInv, draft # <<>>, envelope = <<>>, NEW i \in DOMAIN FirstZones,
         NEW j \in DOMAIN FirstZones, Exchange(i, j)
  PROVE  DraftEdited
<1> DEFINE a == draft.zones[i]
           b == draft.zones[j]
<1>1. /\ i # j /\ i \notin proven /\ j \notin proven /\ UNCHANGED <<clock, proven>>
      /\ i \in Nat /\ j \in Nat
  BY FirstZonesAssumption DEF Exchange
<1>2. DOMAIN draft.zones = DOMAIN FirstZones
  BY DEF ChainInv, ZonesAt
<1>3. /\ ZoneAt(a, clock) /\ ZoneAt(b, clock)
      /\ \A k \in DOMAIN FirstZones : ZoneAt(draft.zones[k], clock)
  BY DEF ChainInv, ZonesAt
<1>s. a.sensor \in Sensors /\ b.sensor \in Sensors
  BY <1>3 DEF ZoneAt
<1>4. ASSUME Edit([draft.zones EXCEPT ![i].sensor = b.sensor, ![j].sensor = a.sensor])
      PROVE  DraftEdited
  <2> DEFINE zones == [draft.zones EXCEPT ![i].sensor = b.sensor, ![j].sensor = a.sensor]
  <2>1. DOMAIN zones = DOMAIN FirstZones
    BY <1>2
  <2>2. \A k \in DOMAIN FirstZones :
          zones[k] = IF k = i THEN [a EXCEPT !.sensor = b.sensor]
                     ELSE IF k = j THEN [b EXCEPT !.sensor = a.sensor] ELSE draft.zones[k]
    BY <1>1, <1>2
  <2>3. /\ SameLegs([a EXCEPT !.sensor = b.sensor], a, clock)
        /\ SameLegs([b EXCEPT !.sensor = a.sensor], b, clock)
        /\ [a EXCEPT !.sensor = b.sensor].id = a.id
        /\ [b EXCEPT !.sensor = a.sensor].id = b.id
    BY <1>3, <1>s, OtherSensor
  <2> HIDE DEF zones
  <2>4. \A k \in DOMAIN FirstZones :
          zones[k].id = IF k = i THEN a.id ELSE IF k = j THEN b.id ELSE draft.zones[k].id
    BY <2>2, <2>3
  <2>5. NamesApart(draft.zones) => NamesApart(zones)
    BY <1>1, <2>4 DEF NamesApart
  <2>6. \A k \in DOMAIN FirstZones :
          SameLegs(zones[k], draft.zones[k], clock) /\ (k \in proven => zones[k] = draft.zones[k])
    BY <1>1, <1>3, <2>2, <2>3 DEF SameLegs
  <2>7. Edit(zones)
    BY <1>4 DEF zones
  <2>8. QED
    BY <1>1, <2>1, <2>5, <2>6, <2>7, LegsKeptEdits
<1>5. ASSUME Edit([draft.zones EXCEPT ![i].line = b.line, ![j].line = a.line])
      PROVE  DraftEdited
  <2> DEFINE zones == [draft.zones EXCEPT ![i].line = b.line, ![j].line = a.line]
  <2>1. DOMAIN zones = DOMAIN FirstZones
    BY <1>2
  <2>2. \A k \in DOMAIN FirstZones :
          zones[k] = IF k = i THEN [a EXCEPT !.line = b.line]
                     ELSE IF k = j THEN [b EXCEPT !.line = a.line] ELSE draft.zones[k]
    BY <1>1, <1>2
  <2>3. /\ SameLegs([a EXCEPT !.line = b.line], a, clock)
        /\ SameLegs([b EXCEPT !.line = a.line], b, clock)
        /\ [a EXCEPT !.line = b.line].id = a.id
        /\ [b EXCEPT !.line = a.line].id = b.id
    BY <1>3, OtherLine
  <2> HIDE DEF zones
  <2>4. \A k \in DOMAIN FirstZones :
          zones[k].id = IF k = i THEN a.id ELSE IF k = j THEN b.id ELSE draft.zones[k].id
    BY <2>2, <2>3
  <2>5. NamesApart(draft.zones) => NamesApart(zones)
    BY <1>1, <2>4 DEF NamesApart
  <2>6. \A k \in DOMAIN FirstZones :
          SameLegs(zones[k], draft.zones[k], clock) /\ (k \in proven => zones[k] = draft.zones[k])
    BY <1>1, <1>3, <2>2, <2>3 DEF SameLegs
  <2>7. Edit(zones)
    BY <1>5 DEF zones
  <2>8. QED
    BY <1>1, <2>1, <2>5, <2>6, <2>7, LegsKeptEdits
<1>6. ASSUME Edit([draft.zones EXCEPT ![i].id = b.id, ![j].id = a.id])
      PROVE  DraftEdited
  <2> DEFINE zones == [draft.zones EXCEPT ![i].id = b.id, ![j].id = a.id]
  <2>1. DOMAIN zones = DOMAIN FirstZones
    BY <1>2
  <2>2. \A k \in DOMAIN FirstZones :
          zones[k] = IF k = i THEN [a EXCEPT !.id = b.id]
                     ELSE IF k = j THEN [b EXCEPT !.id = a.id] ELSE draft.zones[k]
    BY <1>1, <1>2
  <2>3. /\ SameLegs([a EXCEPT !.id = b.id], a, clock)
        /\ SameLegs([b EXCEPT !.id = a.id], b, clock)
        /\ [a EXCEPT !.id = b.id].id = b.id
        /\ [b EXCEPT !.id = a.id].id = a.id
    <3>1. a.id \in Names /\ b.id \in Names
      BY <1>3 DEF ZoneAt
    <3>2. /\ SameLegs([a EXCEPT !.id = b.id], a, clock)
          /\ SameLegs([b EXCEPT !.id = a.id], b, clock)
      BY <1>3, <3>1, OtherField
    <3>3. [a EXCEPT !.id = b.id].id = b.id
      BY <1>3 DEF ZoneAt, ZoneWith
    <3>4. [b EXCEPT !.id = a.id].id = a.id
      BY <1>3 DEF ZoneAt, ZoneWith
    <3>5. QED
      BY <3>2, <3>3, <3>4
  <2> HIDE DEF zones
  <2>4. \A k \in DOMAIN FirstZones :
          zones[k].id = IF k = i THEN b.id ELSE IF k = j THEN a.id ELSE draft.zones[k].id
    BY <2>2, <2>3
  <2>5. NamesApart(draft.zones) => NamesApart(zones)
    BY <1>1, <2>4 DEF NamesApart
  <2>6. \A k \in DOMAIN FirstZones :
          SameLegs(zones[k], draft.zones[k], clock) /\ (k \in proven => zones[k] = draft.zones[k])
    BY <1>1, <1>3, <2>2, <2>3 DEF SameLegs
  <2>7. Edit(zones)
    BY <1>6 DEF zones
  <2>8. QED
    BY <1>1, <2>1, <2>5, <2>6, <2>7, LegsKeptEdits
<1>7. ASSUME Edit([draft.zones EXCEPT ![i].sensor = b.sensor])
      PROVE  DraftEdited
  <2> DEFINE zones == [draft.zones EXCEPT ![i].sensor = b.sensor]
  <2>1. DOMAIN zones = DOMAIN FirstZones
    BY <1>2
  <2>2. \A k \in DOMAIN FirstZones :
          zones[k] = IF k = i THEN [a EXCEPT !.sensor = b.sensor] ELSE draft.zones[k]
    BY <1>1, <1>2
  <2>3. /\ SameLegs([a EXCEPT !.sensor = b.sensor], a, clock)
        /\ [a EXCEPT !.sensor = b.sensor].id = a.id
    BY <1>3, <1>s, OtherSensor
  <2>4. NamesApart(draft.zones) => NamesApart(zones)
    BY <2>2, <2>3 DEF NamesApart
  <2>5. \A k \in DOMAIN FirstZones :
          SameLegs(zones[k], draft.zones[k], clock) /\ (k \in proven => zones[k] = draft.zones[k])
    BY <1>1, <1>3, <2>2, <2>3 DEF SameLegs
  <2> HIDE DEF zones
  <2>6. Edit(zones)
    BY <1>7 DEF zones
  <2>7. QED
    BY <1>1, <2>1, <2>4, <2>5, <2>6, LegsKeptEdits
<1>8. QED
  BY <1>4, <1>5, <1>6, <1>7 DEF Exchange

\* Every edit.
LEMMA EditDraftEdits ==
  ASSUME ChainInv, EditDraft
  PROVE  DraftEdited
<1>1. draft # <<>> /\ envelope = <<>> /\ DOMAIN draft.zones = DOMAIN FirstZones
  BY DEF EditDraft, ChainInv, ZonesAt
<1>2. PICK i \in DOMAIN FirstZones :
        \/ Rename(i) \/ Rewire(i) \/ InvertPolarity(i) \/ Recalibrate(i) \/ ChangeCapacity(i)
        \/ ProveCircuit(i) \/ ProveControl(i) \/ ProveBoth(i) \/ DropControl(i)
        \/ \E j \in DOMAIN FirstZones : Exchange(i, j)
  BY <1>1 DEF EditDraft
<1> DEFINE w == draft.zones[i]
<1>3. ZoneAt(w, clock)
  BY <1>1 DEF ChainInv, ZonesAt
<1>4. CASE Rename(i)
  <2>1. PICK id \in Names :
          /\ ~SameNames => \A j \in DOMAIN draft.zones : draft.zones[j].id # id
          /\ Rewrite(i, [w EXCEPT !.id = id])
    BY <1>4 DEF Rename
  <2>2. SameLegs([w EXCEPT !.id = id], w, clock)
    BY <1>3, OtherField
  <2>3. [w EXCEPT !.id = id].id = id
    BY <1>3, OtherField
  <2>4. QED
    BY <1>1, <2>1, <2>2, <2>3, RewriteEdits DEF SameLegs
<1>5. CASE Rewire(i)
  <2>1. PICK m \in Wirings : Rewrite(i, [w EXCEPT !.mapping = m])
    BY <1>5 DEF Rewire
  <2>2. SameLegs([w EXCEPT !.mapping = m], w, clock) /\ [w EXCEPT !.mapping = m].id = w.id
    BY <1>3, OtherField, ChainAssumption
  <2>3. QED
    BY <1>1, <2>1, <2>2, RewriteEdits DEF SameLegs
<1>6. CASE InvertPolarity(i)
  <2>1. Rewrite(i, [w EXCEPT !.activeHigh = ~w.activeHigh])
    BY <1>6 DEF InvertPolarity
  <2>2. (~w.activeHigh) \in BOOLEAN
    OBVIOUS
  <2>3. /\ SameLegs([w EXCEPT !.activeHigh = ~w.activeHigh], w, clock)
        /\ [w EXCEPT !.activeHigh = ~w.activeHigh].id = w.id
    BY <1>3, <2>2, OtherField
  <2>4. QED
    BY <1>1, <2>1, <2>3, RewriteEdits DEF SameLegs
<1>7. CASE Recalibrate(i)
  <2> DEFINE s == [w.sensor EXCEPT !.cal = w.sensor.cal + 1]
  <2>1. Rewrite(i, [w EXCEPT !.sensor = s])
    BY <1>7 DEF Recalibrate
  <2>2. s \in Sensors
    BY <1>3 DEF ZoneAt, Sensors
  <2>3. SameLegs([w EXCEPT !.sensor = s], w, clock) /\ [w EXCEPT !.sensor = s].id = w.id
    BY <1>3, <2>2, OtherField
  <2>4. QED
    BY <1>1, <2>1, <2>3, RewriteEdits DEF SameLegs
<1>8. CASE ChangeCapacity(i)
  <2>1. PICK c \in Capacities : Rewrite(i, [w EXCEPT !.capacity = c])
    BY <1>8 DEF ChangeCapacity
  <2>2. SameLegs([w EXCEPT !.capacity = c], w, clock) /\ [w EXCEPT !.capacity = c].id = w.id
    BY <1>3, OtherField, ChainAssumption
  <2>3. QED
    BY <1>1, <2>1, <2>2, RewriteEdits DEF SameLegs
<1>9. CASE DropControl(i)
  <2> DEFINE z == [w EXCEPT !.control = NoLeg]
  <2>1. Rewrite(i, z)
    BY <1>9 DEF DropControl
  <2>2. ZoneAt(z, clock) /\ z.circuit = w.circuit /\ z.control = NoLeg /\ z.id = w.id
    BY <1>3, OtherField
  <2> HIDE DEF z
  <2>3. QED
    BY <1>1, <2>1, <2>2, RewriteEdits
<1>10. QED
  BY <1>1, <1>2, <1>4, <1>5, <1>6, <1>7, <1>8, <1>9, ProveEdits, ExchangeEdits

-----------------------------------------------------------------------------
(***************************************************************************)
(* The invariant.                                                          *)
(***************************************************************************)
\* A document is not the empty one.
LEMMA DraftIsWritten ==
  ASSUME NEW d, NEW a, NEW b, NEW c, NEW k, NEW zones,
         d = [device |-> a, seq |-> b, supersedes |-> c, signer |-> k, zones |-> zones]
  PROVE  d # <<>>
<1>1. "seq" \in DOMAIN d
  OBVIOUS
<1>2. "seq" \notin DOMAIN <<>>
  OBVIOUS
<1>3. QED
  BY <1>1, <1>2

\* The draft under another signer.
LEMMA DraftSigned ==
  ASSUME ChainInv, draft # <<>>, NEW k
  PROVE  LET doc == [draft EXCEPT !.signer = k]
         IN  doc.signer = k /\ doc.seq = draft.seq /\ doc.zones = draft.zones
<1>1. draft = [ device |-> draft.device, seq |-> draft.seq, supersedes |-> draft.supersedes,
                signer |-> draft.signer, zones |-> draft.zones ]
  BY DEF ChainInv
<1>2. QED
  BY <1>1

\* Where the invariant starts.
LEMMA InitChainInv == Init => ChainInv
<1> SUFFICES ASSUME Init PROVE ChainInv
  OBVIOUS
<1>1. /\ clock = FirstClock /\ FirstClock \in Nat
      /\ inForce = [seq |-> 1, zones |-> FirstZones]
      /\ draft = <<>> /\ envelope = <<>> /\ edits = 0 /\ proven = {}
  BY DEF Init, FirstClock
<1>2. PICK k \in Signers :
        anchors = [current |-> k, previous |-> NoKey, provisioning |-> Provisioning, rotations |-> 0]
  BY DEF Init
<1>3. \A i \in DOMAIN FirstZones : FirstZones[i].control # NoLeg
  BY FirstZonesAssumption
<1>4. ZonesAt(inForce.zones, clock) /\ inForce.seq = 1
  BY <1>1, FirstZonesAt
<1>5. MaxBindings \in Nat \ {0} /\ MaxEdits \in Nat /\ MaxRotations \in Nat
  BY ChainAssumption
<1>6. QED
  BY <1>1, <1>2, <1>3, <1>4, <1>5 DEF ChainInv, EnvelopeInv

\* Signing leaves the draft as it is, and what it makes a consumer accepts.
LEMMA SignKeeps ==
  ASSUME ChainInv, NEW k \in Signers, Sign(k)
  PROVE  ChainInv'
<1> DEFINE doc == [draft EXCEPT !.signer = k]
           env == [doc |-> doc, signature |-> [by |-> k, over |-> doc]]
<1>1. /\ draft # <<>> /\ envelope = <<>>
      /\ UNCHANGED <<inForce, anchors, clock, draft, edits, proven>>
  BY DEF Sign
<1>2. doc.signer = k
  BY <1>1, DraftSigned
<1>3. EnvelopeInv'
  <2>1. CASE CheckDocument(doc) = "pass"
    <3>1. envelope' = env /\ verdict' = VerifyOffline(env)
      BY <2>1 DEF Sign
    <3> HIDE DEF doc
    <3>2. SoundAlone(doc) /\ Bounds(doc, 1) = "pass"
      BY <2>1, CheckDocumentAsks
    <3>3. SignatureStage(env) = "pass" /\ env.doc = doc
      BY <1>2 DEF SignatureStage
    <3>4. VerifyOffline(env) = "pass"
      BY <3>2, <3>3, VerifyOfflineAsks
    <3>5. envelope'.doc = [draft EXCEPT !.signer = envelope'.doc.signer]
      BY <1>2, <3>1 DEF doc
    <3>6. SoundAlone(envelope'.doc) /\ SignatureStage(envelope') = "pass"
      BY <3>1, <3>2, <3>3
    <3>7. SoundAlone(envelope.doc)' /\ (SignatureStage(envelope) = "pass")'
      BY <3>6 DEF SoundAlone, Parses, MappingSelfConsistency, ObservationConsistency,
                  Disambiguation, SignatureStage
    <3>8. QED
      BY <1>1, <3>1, <3>4, <3>5, <3>7 DEF EnvelopeInv
  <2>2. CASE CheckDocument(doc) # "pass"
    BY <1>1, <2>2 DEF Sign, EnvelopeInv
  <2>3. QED
    BY <2>1, <2>2
<1>4. QED
  BY <1>1, <1>3 DEF ChainInv, ZonesAt, ZoneAt, LegAt

\* What a delivery that changes the binding in force has passed.
LEMMA DeliverPasses ==
  ASSUME ChainInv, Deliver, inForce' # inForce
  PROVE  /\ draft # <<>> /\ envelope # <<>>
         /\ inForce' = [seq |-> draft.seq, zones |-> draft.zones]
         /\ Signed(envelope, Context) /\ SoundOn(envelope.doc, Context)
         /\ envelope.doc.zones = draft.zones
         /\ \A i \in DOMAIN draft.zones :
              ClaimsCircuit(draft.zones[i]) /\ ClaimsControl(draft.zones[i])
<1>1. /\ envelope # <<>> /\ VerifyEnvelope(envelope, Context) = "pass"
      /\ InForceEligible(envelope.doc)
      /\ inForce' = [seq |-> envelope.doc.seq, zones |-> envelope.doc.zones]
  BY DEF Deliver
<1>2. draft # <<>> /\ envelope.doc = [draft EXCEPT !.signer = envelope.doc.signer]
  BY <1>1 DEF ChainInv, EnvelopeInv
<1>3. envelope.doc.seq = draft.seq /\ envelope.doc.zones = draft.zones
  BY <1>2, DraftSigned
<1>4. Signed(envelope, Context) /\ SoundOn(envelope.doc, Context)
  BY <1>1, VerifyEnvelopeAsks
<1>5. QED
  BY <1>1, <1>2, <1>3, <1>4 DEF InForceEligible

\* A delivery leaves the binding in force complete.
LEMMA DeliverKeeps ==
  ASSUME ChainInv, Deliver
  PROVE  ChainInv'
<1>1. /\ draft' = <<>> /\ edits' = 0 /\ proven' = {} /\ envelope' = <<>>
      /\ UNCHANGED <<anchors, clock>>
  BY DEF Deliver
<1>2. /\ inForce'.seq \in 1 .. MaxBindings /\ ZonesAt(inForce'.zones, clock)
      /\ \A i \in DOMAIN FirstZones : inForce'.zones[i].control # NoLeg
  <2>1. CASE inForce' = inForce
    BY <2>1 DEF ChainInv
  <2>2. CASE inForce' # inForce
    <3>1. /\ draft # <<>> /\ inForce'.seq = draft.seq /\ inForce'.zones = draft.zones
          /\ \A i \in DOMAIN draft.zones : draft.zones[i].control # NoLeg
      BY <2>2, DeliverPasses DEF ClaimsControl
    <3>2. draft.seq \in 1 .. MaxBindings /\ ZonesAt(draft.zones, clock)
      BY <3>1, ChainAssumption DEF ChainInv
    <3>3. QED
      BY <3>1, <3>2 DEF ZonesAt
  <2>3. QED
    BY <2>1, <2>2
<1>3. MaxEdits \in Nat
  BY ChainAssumption
<1>4. QED
  BY <1>1, <1>2, <1>3 DEF ChainInv, EnvelopeInv

\* Every step keeps the invariant.
LEMMA StepChainInv == ChainInv /\ [Next]_vars => ChainInv'
<1> SUFFICES ASSUME ChainInv, [Next]_vars PROVE ChainInv'
  OBVIOUS
<1>1. CASE Begin
  <2>1. /\ draft = <<>> /\ inForce.seq < MaxBindings
        /\ draft' = [ device |-> Device, seq |-> inForce.seq + 1, supersedes |-> inForce.seq,
                      signer |-> NoKey, zones |-> inForce.zones ]
        /\ UNCHANGED <<inForce, anchors, clock, edits, proven, envelope>>
    BY <1>1 DEF Begin
  <2>2. inForce.seq + 1 <= MaxBindings
    BY <2>1, ChainAssumption DEF ChainInv
  <2>3. envelope = <<>>
    BY <2>1 DEF ChainInv, EnvelopeInv
  <2>4. /\ draft' = [ device |-> draft'.device, seq |-> draft'.seq,
                      supersedes |-> draft'.supersedes, signer |-> draft'.signer,
                      zones |-> draft'.zones ]
        /\ draft'.seq = inForce.seq + 1 /\ draft'.zones = inForce.zones
    BY <2>1
  <2>5. QED
    BY <2>1, <2>2, <2>3, <2>4 DEF ChainInv, EnvelopeInv, ZonesAt, ZoneAt, LegAt
<1>2. CASE Abandon
  <2>1. MaxEdits \in Nat
    BY ChainAssumption
  <2>2. QED
    BY <1>2, <2>1 DEF Abandon, ChainInv, EnvelopeInv, ZonesAt, ZoneAt, LegAt
<1>3. CASE EditDraft
  <2>1. DraftEdited
    BY <1>3, EditDraftEdits
  <2>2. /\ envelope' = <<>> /\ UNCHANGED <<inForce, anchors>>
        /\ edits' \in 0 .. MaxEdits /\ proven' \subseteq DOMAIN FirstZones
    BY <2>1, ChainAssumption DEF DraftEdited, ChainInv
  <2>3. clock' \in Nat /\ clock <= clock'
    BY <2>1 DEF DraftEdited, ChainInv
  <2>4. ZonesAt(inForce.zones, clock')
    BY <2>3, LaterZones DEF ChainInv
  <2>5. /\ draft = [ device |-> draft.device, seq |-> draft.seq, supersedes |-> draft.supersedes,
                     signer |-> draft.signer, zones |-> draft.zones ]
        /\ draft' = [draft EXCEPT !.zones = draft'.zones]
        /\ draft.seq = inForce.seq + 1 /\ draft.seq <= MaxBindings
    BY <2>1 DEF DraftEdited, ChainInv
  <2>6. /\ draft' = [ device |-> draft'.device, seq |-> draft'.seq,
                      supersedes |-> draft'.supersedes, signer |-> draft'.signer,
                      zones |-> draft'.zones ]
        /\ draft'.seq = draft.seq
    BY <2>5
  <2>7. draft' # <<>>
    BY <2>6, DraftIsWritten
  <2>8. ZonesAt(draft'.zones, clock')
    BY <2>1 DEF DraftEdited, ZonesAt, ChainInv
  <2>9. QED
    BY <2>2, <2>3, <2>4, <2>5, <2>6, <2>7, <2>8 DEF ChainInv, EnvelopeInv
<1>4. CASE \E k \in Signers : Sign(k)
  BY <1>4, SignKeeps
<1>5. CASE Deliver
  BY <1>5, DeliverKeeps
<1>6. CASE \E k \in Signers : Rotate(k)
  <2>1. PICK k \in Signers : Rotate(k)
    BY <1>6
  <2>2. /\ anchors.rotations < MaxRotations
        /\ anchors' = [anchors EXCEPT !.current = k, !.previous = anchors.current,
                                      !.rotations = anchors.rotations + 1]
        /\ UNCHANGED <<inForce, clock, draft, edits, proven, envelope, verdict>>
    BY <2>1 DEF Rotate
  <2>3. /\ anchors' = [ current |-> anchors'.current, previous |-> anchors'.previous,
                        provisioning |-> anchors'.provisioning, rotations |-> anchors'.rotations ]
        /\ anchors'.current = k /\ anchors'.previous = anchors.current
        /\ anchors'.rotations = anchors.rotations + 1
    BY <2>2 DEF ChainInv
  <2>4. anchors'.rotations \in 0 .. MaxRotations
    BY <2>2, <2>3, ChainAssumption DEF ChainInv
  <2>5. EnvelopeInv'
    BY <2>2 DEF ChainInv, EnvelopeInv
  <2>6. QED
    BY <2>2, <2>3, <2>4, <2>5 DEF ChainInv
<1>7. CASE UNCHANGED vars
  BY <1>7 DEF vars, ChainInv, EnvelopeInv
<1>8. QED
  BY <1>1, <1>2, <1>3, <1>4, <1>5, <1>6, <1>7 DEF Next

\* The chain invariant holds of every binding the commands and the device make.
THEOREM ChainInvariance == Spec => []ChainInv
<1>1. Init => ChainInv
  BY InitChainInv
<1>2. ChainInv /\ [Next]_vars => ChainInv'
  BY StepChainInv
<1>3. QED
  BY <1>1, <1>2, PTL DEF Spec

-----------------------------------------------------------------------------
(***************************************************************************)
(* The theorems.                                                           *)
(***************************************************************************)
\* The values every variable takes, whatever is edited, signed and delivered:
\* both legs of a zone in force are there and dated no later than the clock,
\* and a signed document is the draft with its signer.
THEOREM ChainTypeCorrect == Spec => []TypeOK
<1>1. ChainInv => TypeOK
  <2>1. ASSUME NEW z, ZoneAt(z, clock) PROVE IsZone(z)
    BY <2>1 DEF ZoneAt, IsZone, LegAt, IsLeg
  <2>2. QED
    BY <2>1 DEF ChainInv, EnvelopeInv, ZonesAt, TypeOK
<1>2. QED
  BY <1>1, ChainInvariance, PTL

\* Nothing is signed that a consumer would refuse: what `ori binding sign` has
\* signed passes the offline verdict, and no device, whatever it declares and
\* holds, refuses it for a reason the document alone gives.  The command asks
\* fewer stages than the device; what it asks is enough, because each reason
\* of the document belongs to a stage it did ask.
THEOREM SignedStaysConsumable == Spec => []SignedIsConsumable
<1>1. ChainInv => SignedIsConsumable
  <2> SUFFICES ASSUME ChainInv, envelope # <<>>
               PROVE  verdict = "pass" /\ VerifyEnvelope(envelope, Context) \notin DocumentReasons
    BY DEF SignedIsConsumable
  <2>1. verdict = "pass" /\ SoundAlone(envelope.doc) /\ SignatureStage(envelope) = "pass"
    BY DEF ChainInv, EnvelopeInv
  <2>2. VerifyEnvelope(envelope, Context) # "pass" =>
          VerifyEnvelope(envelope, Context) \in
            {"wrong_device", "anchor_collision", "unknown_signer", "wrong_authority",
             "superseded_signer", "stale", "stale_proof", "unknown_hardware", "unbound_actuator",
             "undemonstrated_binding", "out_of_bounds"}
    BY <2>1, VerifyEnvelopeAsks
  <2>3. QED
    BY <2>1, <2>2 DEF DocumentReasons
<1>2. QED
  BY <1>1, ChainInvariance, PTL

\* Rotating the commissioning key voids what the old key signed: whatever comes
\* into force was signed with the key that is current then.
THEOREM RotationVoids == Spec => RotationVoidsSignature
<1>1. ASSUME ChainInv, [Next]_vars, inForce' # inForce
      PROVE  envelope.signature.by = anchors.current
  <2>1. Deliver
    <3>1. ~UNCHANGED vars
      BY <1>1 DEF vars
    <3>2. CASE EditDraft
      BY <1>1, <3>2, EditDraftEdits DEF DraftEdited
    <3>3. QED
      BY <1>1, <3>1, <3>2 DEF Next, Begin, Abandon, Sign, Rotate
  <2>2. Signed(envelope, Context)
    BY <1>1, <2>1, DeliverPasses
  <2>3. envelope.doc.signer = anchors.current
    BY <2>2 DEF Signed, Authority, Context
  <2>4. envelope.signature = [by |-> envelope.doc.signer, over |-> envelope.doc]
    BY <2>2 DEF Signed, SignatureStage
  <2>5. QED
    BY <2>3, <2>4
<1>2. ChainInv /\ [Next]_vars => [inForce' # inForce => envelope.signature.by = anchors.current]_vars
  BY <1>1
<1>3. QED
  BY <1>2, ChainInvariance, PTL DEF Spec, RotationVoidsSignature

-----------------------------------------------------------------------------
(***************************************************************************)
(* Where the legs of a zone come from.                                     *)
(***************************************************************************)
\* The leg of a zone is the one its zone in force has, or was performed on the
\* hardware the zone has now.
LegOf(leg, was, proved, z) == leg = was \/ (proved /\ leg.on = Hardware(z))

OriginInv ==
  /\ NamesApart(inForce.zones)
  /\ ProofsMatchHardware
  /\ draft # <<>> =>
       /\ NamesApart(draft.zones)
       /\ \A i \in DOMAIN FirstZones :
            LET was == inForce.zones[i]
                z == draft.zones[i]
            IN  /\ KeepsOne(was, z)
                /\ LegOf(z.circuit, was.circuit, i \in proven, z)
                /\ z.control = NoLeg \/ LegOf(z.control, was.control, i \in proven, z)

\* Where names are apart, the device keeps every zone of the binding in force.
LEMMA EveryZoneIsRetained ==
  ASSUME NEW zones, DOMAIN zones \subseteq Nat, NEW i \in DOMAIN zones,
         \A j \in DOMAIN zones : zones[j].id = zones[i].id => j = i
  PROVE  /\ zones[i].id \in DOMAIN RetainedState(zones)
         /\ RetainedState(zones)[zones[i].id] = zones[i]
<1> DEFINE named(id) == {k \in DOMAIN zones : zones[k].id = id}
           last(id) == CHOOSE k \in named(id) : \A j \in named(id) : j <= k
<1>1. named(zones[i].id) = {i}
  OBVIOUS
<1>2. last(zones[i].id) = i
  BY <1>1
<1> HIDE DEF last
<1>3. RetainedState(zones) = [id \in {zones[k].id : k \in DOMAIN zones} |-> zones[last(id)]]
  BY DEF RetainedState, last
<1>4. zones[i].id \in {zones[k].id : k \in DOMAIN zones}
  OBVIOUS
<1>5. QED
  BY <1>2, <1>3, <1>4

\* A zone the revision rule lets through carries no leg of other hardware.
LEMMA DeliveredLegsMatch ==
  ASSUME ChainInv, OriginInv, Deliver, inForce' # inForce
  PROVE  ProofsMatchHardware' /\ NamesApart(inForce'.zones)
<1>1. /\ draft # <<>> /\ inForce' = [seq |-> draft.seq, zones |-> draft.zones]
      /\ SoundOn(envelope.doc, Context) /\ envelope.doc.zones = draft.zones
      /\ \A i \in DOMAIN draft.zones : ClaimsCircuit(draft.zones[i]) /\ ClaimsControl(draft.zones[i])
  BY DeliverPasses
<1>2. DOMAIN draft.zones = DOMAIN FirstZones /\ DOMAIN inForce.zones = DOMAIN FirstZones
  BY <1>1 DEF ChainInv, ZonesAt
<1>3. ASSUME NEW i \in DOMAIN FirstZones
      PROVE  /\ draft.zones[i].circuit.on = Hardware(draft.zones[i])
             /\ draft.zones[i].control.on = Hardware(draft.zones[i])
  <2> DEFINE was == inForce.zones[i]
             z == draft.zones[i]
             prior == RetainedState(inForce.zones)
  <2>1. was.id \in DOMAIN prior /\ prior[was.id] = was
    BY <1>2, EveryZoneIsRetained, FirstZonesAssumption DEF OriginInv, NamesApart
  <2>2. /\ KeepsOne(was, z)
        /\ LegOf(z.circuit, was.circuit, i \in proven, z)
        /\ z.control = NoLeg \/ LegOf(z.control, was.control, i \in proven, z)
        /\ was.circuit.on = Hardware(was) /\ was.control.on = Hardware(was)
    BY <1>1, <1>2 DEF OriginInv, ProofsMatchHardware
  <2>3. ClaimsCircuit(z) /\ ClaimsControl(z) /\ z.control # NoLeg /\ was.control # NoLeg
    BY <1>1, <1>2 DEF ClaimsControl, ChainInv
  <2>4. /\ z.circuit.at \in Nat /\ was.circuit.at \in Nat
        /\ z.control.at \in Nat /\ was.control.at \in Nat
    <3>1. ZoneAt(was, clock) /\ ZoneAt(z, clock)
      BY <1>1 DEF ChainInv, ZonesAt
    <3> HIDE DEF was, z
    <3>2. LegAt(z.circuit, clock) /\ LegAt(was.circuit, clock)
          /\ LegAt(z.control, clock) /\ LegAt(was.control, clock)
      BY <2>3, <3>1 DEF ZoneAt
    <3>3. QED
      BY <3>2 DEF LegAt
  <2>5. Context.prior = prior
    BY DEF Context
  <2>6. Matched(was, z) /\ Changed(was, z) => FreshAgainst(was, z)
    <3>1. \A k \in DOMAIN envelope.doc.zones : \A id \in DOMAIN Context.prior :
            LET y == envelope.doc.zones[k]
            IN  Matched(Context.prior[id], y) /\ Changed(Context.prior[id], y)
                  => FreshAgainst(Context.prior[id], y)
      BY <1>1 DEF SoundOn, RevisionRule
    <3> HIDE DEF prior
    <3>2. QED
      BY <1>1, <1>2, <2>1, <2>5, <3>1
  <2>7. Matched(was, z)
    BY <2>2 DEF KeepsOne, Matched
  <2> HIDE DEF was, z
  <2>8. ASSUME Hardware(was) = Hardware(z)
        PROVE  z.circuit.on = Hardware(z) /\ z.control.on = Hardware(z)
    BY <2>2, <2>3, <2>8 DEF LegOf
  <2>9. ASSUME Hardware(was) # Hardware(z)
        PROVE  z.circuit.on = Hardware(z) /\ z.control.on = Hardware(z)
    <3>1. z.circuit.at > was.circuit.at /\ z.control.at > was.control.at
      BY <2>3, <2>6, <2>7, <2>9 DEF Changed, FreshAgainst
    <3>2. z.circuit # was.circuit /\ z.control # was.control
      BY <2>4, <3>1
    <3>3. QED
      BY <2>2, <2>3, <3>2 DEF LegOf
  <2>10. QED
    BY <2>8, <2>9 DEF z
<1>4. inForce'.zones = draft.zones
  BY <1>1
<1>5. ProofsMatchHardware'
  BY <1>2, <1>3, <1>4 DEF ProofsMatchHardware, Hardware
<1>6. QED
  BY <1>1, <1>4, <1>5 DEF OriginInv

\* Where the origins start: as the binding the device starts with was proven.
LEMMA InitOriginInv == Init => OriginInv
<1> SUFFICES ASSUME Init PROVE OriginInv
  OBVIOUS
<1>1. inForce.zones = FirstZones /\ draft = <<>>
  BY DEF Init
<1>2. ASSUME NEW i \in DOMAIN FirstZones
      PROVE  /\ FirstZones[i].circuit.on = Hardware(FirstZones[i])
             /\ FirstZones[i].control.on = Hardware(FirstZones[i])
  <2>1. PICK t \in 0 .. FirstClock : FirstZones[i].circuit = CircuitLeg(FirstZones[i], t)
    BY FirstZonesAssumption
  <2>2. PICK u \in 0 .. FirstClock : FirstZones[i].control = ControlLegOf(FirstZones[i], u)
    BY FirstZonesAssumption
  <2>3. QED
    BY <2>1, <2>2 DEF CircuitLeg, ControlLegOf
<1>3. NamesApart(FirstZones)
  BY FirstZonesAssumption DEF NamesApart
<1>4. QED
  BY <1>1, <1>2, <1>3 DEF OriginInv, ProofsMatchHardware

\* Where no edit gives two zones one name, every step keeps the origins.
LEMMA StepOriginInv ==
  ASSUME ~SameNames
  PROVE  ChainInv /\ OriginInv /\ [Next]_vars => OriginInv'
<1> SUFFICES ASSUME ChainInv, OriginInv, [Next]_vars PROVE OriginInv'
  OBVIOUS
<1>1. CASE Begin
  <2>1. draft'.zones = inForce.zones /\ UNCHANGED <<inForce, proven>>
    BY <1>1 DEF Begin
  <2>2. QED
    BY <2>1 DEF OriginInv, NamesApart, ProofsMatchHardware, Hardware, KeepsOne, LegOf
<1>2. CASE EditDraft
  <2>1. DraftEdited
    BY <1>2, EditDraftEdits
  <2>2. /\ draft # <<>> /\ inForce' = inForce /\ proven \subseteq proven'
        /\ NamesApart(draft'.zones)
    BY <2>1 DEF DraftEdited, OriginInv
  <2>3. ASSUME NEW i \in DOMAIN FirstZones
        PROVE  LET was == inForce.zones[i]
                   z == draft'.zones[i]
               IN  /\ KeepsOne(was, z)
                   /\ LegOf(z.circuit, was.circuit, i \in proven', z)
                   /\ z.control = NoLeg \/ LegOf(z.control, was.control, i \in proven', z)
    <3> DEFINE was == inForce.zones[i]
               y == draft.zones[i]
               z == draft'.zones[i]
    <3>1. /\ LegOf(y.circuit, was.circuit, i \in proven, y)
          /\ y.control = NoLeg \/ LegOf(y.control, was.control, i \in proven, y)
      BY <2>2 DEF OriginInv
    <3>2. /\ KeepsOne(was, z)
          /\ i \in proven => Hardware(z) = Hardware(y)
          /\ z.circuit = y.circuit \/ (i \in proven' /\ z.circuit.on = Hardware(z))
          /\ z.control \in {y.control, NoLeg} \/ (i \in proven' /\ z.control.on = Hardware(z))
      BY <2>1 DEF DraftEdited, LegsFollow
    <3> HIDE DEF was, y, z
    <3>3. LegOf(z.circuit, was.circuit, i \in proven', z)
      BY <2>2, <3>1, <3>2 DEF LegOf
    <3>4. z.control = NoLeg \/ LegOf(z.control, was.control, i \in proven', z)
      BY <2>2, <3>1, <3>2 DEF LegOf
    <3>5. QED
      BY <3>2, <3>3, <3>4 DEF was, z
  <2>4. ProofsMatchHardware' /\ NamesApart(inForce'.zones)
    BY <2>2 DEF OriginInv, ProofsMatchHardware, Hardware
  <2>5. QED
    BY <2>2, <2>3, <2>4 DEF OriginInv, NamesApart, KeepsOne, LegOf, Hardware
<1>3. CASE Deliver
  <2>1. draft' = <<>>
    BY <1>3 DEF Deliver
  <2>2. ProofsMatchHardware' /\ NamesApart(inForce'.zones)
    <3>1. CASE inForce' = inForce
      BY <3>1 DEF OriginInv, ProofsMatchHardware, Hardware
    <3>2. CASE inForce' # inForce
      BY <1>3, <3>2, DeliveredLegsMatch
    <3>3. QED
      BY <3>1, <3>2
  <2>3. QED
    BY <2>1, <2>2 DEF OriginInv, NamesApart
<1>4. CASE Abandon \/ (\E k \in Signers : Sign(k)) \/ (\E k \in Signers : Rotate(k)) \/ UNCHANGED vars
  <2>1. inForce' = inForce /\ (draft' = <<>> \/ UNCHANGED <<draft, proven>>)
    BY <1>4 DEF Abandon, Sign, Rotate, vars
  <2>2. ProofsMatchHardware' /\ NamesApart(inForce.zones)'
    BY <2>1 DEF OriginInv, NamesApart, ProofsMatchHardware, Hardware
  <2>3. CASE draft' = <<>>
    BY <2>2, <2>3 DEF OriginInv
  <2>4. CASE UNCHANGED <<draft, proven>>
    BY <2>1, <2>2, <2>4 DEF OriginInv
  <2>5. QED
    BY <2>1, <2>3, <2>4
<1>5. QED
  BY <1>1, <1>2, <1>3, <1>4 DEF Next

\* Each leg of a zone in force was performed on the sensor, the line, the
\* polarity and the mapping the zone has now, for any number of edits, proofs
\* and successions, as long as no document gives two of its zones one name:
\* the device keeps one zone of a name, and the other is compared with nothing.
THEOREM ProofsStayWithHardware ==
  ASSUME ~SameNames
  PROVE  Spec => []ProofsMatchHardware
<1>1. Init => OriginInv
  BY InitOriginInv
<1>2. ChainInv /\ OriginInv /\ [Next]_vars => OriginInv'
  BY StepOriginInv
<1>3. OriginInv => ProofsMatchHardware
  BY DEF OriginInv
<1>4. QED
  BY <1>1, <1>2, <1>3, ChainInvariance, PTL DEF Spec
=============================================================================
