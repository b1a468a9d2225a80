---------------------------- MODULE BindingChain ----------------------------
(***************************************************************************)
(* The succession of bindings on one device, whoever writes the documents. *)
(* A draft starts as a copy of the binding in force and is edited by hand: *)
(* zones are renamed, sensors and lines exchanged, circuits rewired, legs  *)
(* proven afresh or dropped.  `ori binding sign` signs it and the device   *)
(* decides it with VerifyEnvelope; only a document in which every zone has *)
(* both legs replaces the one in force.  No edit touches the time or the   *)
(* observations of a leg, and a zone is proven after its last edit.        *)
(*                                                                         *)
(* The device is not part of the repository: it is taken to keep what      *)
(* RetainedState says of the binding in force.                             *)
(***************************************************************************)
EXTENDS BindingRules

CONSTANTS
  Names,          \* zone names
  Signers,        \* keys documents are signed with
  Provisioning,   \* the provisioning anchor
  FirstZones,     \* zones of the first binding in force
  Multiplier,     \* the trip-point factor of the release
  Wirings,        \* mappings a circuit may be rewired to
  Capacities,
  SameNames,      \* whether an edit may give two zones one name
  MaxEdits, MaxBindings, MaxRotations, MaxClock   \* bounds

ASSUME ChainAssumption ==
  /\ Names # {} /\ NoKey \notin Signers
  /\ Multiplier \in Nat \ {0}
  /\ Wirings \subseteq Mappings /\ Capacities \subseteq Nat
  /\ {MaxEdits, MaxRotations, MaxClock} \subseteq Nat /\ MaxBindings \in Nat \ {0}

\* The clock when the model starts.
FirstClock == 5

\* The first binding came into force as any other does: its zones have names of
\* their own, and both legs of each were proven on the hardware it names.
ASSUME FirstZonesAssumption ==
  /\ DOMAIN FirstZones \subseteq Nat
  /\ \A i \in DOMAIN FirstZones :
       LET z == FirstZones[i]
           s == z.sensor
       IN  /\ z = [ id |-> z.id, sensor |-> s, kind |-> z.kind, line |-> z.line,
                    activeHigh |-> z.activeHigh, mapping |-> z.mapping, capacity |-> z.capacity,
                    circuit |-> z.circuit, control |-> z.control ]
           /\ s = [id |-> s.id, cal |-> s.cal, low |-> s.low, high |-> s.high]
           /\ s.cal \in Nat /\ {s.low, s.high} \subseteq Int
           /\ z.id \in Names /\ z.mapping \in Mappings
           /\ z.activeHigh \in BOOLEAN /\ z.capacity \in Nat
           /\ \E t \in 0 .. FirstClock : z.circuit = CircuitLeg(z, t)
           /\ \E t \in 0 .. FirstClock : z.control = ControlLegOf(z, t)
           /\ z.control # NoLeg
           /\ \A j \in DOMAIN FirstZones : FirstZones[j].id = z.id => j = i

VARIABLES
  inForce,   \* the binding in force: its number and its zones
  anchors,   \* commissioning keys the device trusts
  clock,
  draft,     \* the document being written; <<>> is none
  edits,     \* edits made to it
  proven,    \* zones of it that were proven since
  envelope,  \* the signed document; <<>> is none
  verdict    \* of the last sign or delivery

vars == <<inForce, anchors, clock, draft, edits, proven, envelope, verdict>>

\* Two bindings in force never have one number, so the number stands for the
\* hash a successor names.
Context ==
  [ device |-> Device, anchors |-> anchors, seq |-> inForce.seq, hash |-> inForce.seq,
    sensors |-> {z.sensor.id : z \in {FirstZones[i] : i \in DOMAIN FirstZones}},
    lines |-> {z.line : z \in {FirstZones[i] : i \in DOMAIN FirstZones}},
    posture |-> "production", multiplier |-> Multiplier,
    prior |-> RetainedState(inForce.zones) ]

-----------------------------------------------------------------------------
Begin ==
  /\ draft = <<>>
  /\ inForce.seq < MaxBindings
  /\ draft' = [ device |-> Device, seq |-> inForce.seq + 1, supersedes |-> inForce.seq,
                signer |-> NoKey, zones |-> inForce.zones ]
  /\ verdict' = "none"
  /\ UNCHANGED <<inForce, anchors, clock, edits, proven, envelope>>

Abandon ==
  /\ draft # <<>>
  /\ draft' = <<>>
  /\ edits' = 0 /\ proven' = {}
  /\ envelope' = <<>>
  /\ verdict' = "none"
  /\ UNCHANGED <<inForce, anchors, clock>>

KeepsOne(was, z) == was.id = z.id \/ was.line = z.line \/ was.sensor.id = z.sensor.id

\* An edited zone keeps its name, its line or its sensor: one that keeps none
\* of them is a new zone, and the device holds nothing to compare it with.
Edit(zones) ==
  /\ edits < MaxEdits
  /\ zones # draft.zones
  /\ \A i \in DOMAIN zones : KeepsOne(inForce.zones[i], zones[i])
  /\ draft' = [draft EXCEPT !.zones = zones]
  /\ edits' = edits + 1
  /\ verdict' = "none"
  /\ UNCHANGED <<inForce, anchors, envelope>>

Rewrite(i, z) ==
  /\ i \notin proven
  /\ Edit([draft.zones EXCEPT ![i] = z])
  /\ UNCHANGED <<clock, proven>>

Rename(i) ==
  \E id \in Names :
    /\ ~SameNames => \A j \in DOMAIN draft.zones : draft.zones[j].id # id
    /\ Rewrite(i, [draft.zones[i] EXCEPT !.id = id])

Rewire(i) ==
  \E m \in Wirings : Rewrite(i, [draft.zones[i] EXCEPT !.mapping = m])

InvertPolarity(i) == Rewrite(i, [draft.zones[i] EXCEPT !.activeHigh = ~@])

Recalibrate(i) == Rewrite(i, [draft.zones[i] EXCEPT !.sensor.cal = @ + 1])

ChangeCapacity(i) ==
  \E c \in Capacities : Rewrite(i, [draft.zones[i] EXCEPT !.capacity = c])

Exchange(i, j) ==
  LET a == draft.zones[i]
      b == draft.zones[j]
  IN  /\ i < j /\ {i, j} \cap proven = {}
      /\ \/ Edit([draft.zones EXCEPT ![i].sensor = b.sensor, ![j].sensor = a.sensor])
         \/ Edit([draft.zones EXCEPT ![i].line = b.line, ![j].line = a.line])
         \/ Edit([draft.zones EXCEPT ![i].id = b.id, ![j].id = a.id])
         \/ Edit([draft.zones EXCEPT ![i].sensor = b.sensor])
      /\ UNCHANGED <<clock, proven>>

Prove(i, z) ==
  /\ clock < MaxClock
  /\ Edit([draft.zones EXCEPT ![i] = z])
  /\ proven' = proven \cup {i}
  /\ clock' = clock + 1

ProveCircuit(i) == Prove(i, [draft.zones[i] EXCEPT !.circuit = CircuitLeg(draft.zones[i], clock)])

ProveControl(i) == Prove(i, [draft.zones[i] EXCEPT !.control = ControlLegOf(draft.zones[i], clock)])

ProveBoth(i) ==
  Prove(i, [draft.zones[i] EXCEPT !.circuit = CircuitLeg(draft.zones[i], clock),
                                  !.control = ControlLegOf(draft.zones[i], clock)])

DropControl(i) == Rewrite(i, [draft.zones[i] EXCEPT !.control = NoLeg])

EditDraft ==
  /\ draft # <<>> /\ envelope = <<>>
  /\ \E i \in DOMAIN draft.zones :
       \/ Rename(i)
       \/ Rewire(i)
       \/ InvertPolarity(i)
       \/ Recalibrate(i)
       \/ ChangeCapacity(i)
       \/ ProveCircuit(i)
       \/ ProveControl(i)
       \/ ProveBoth(i)
       \/ DropControl(i)
       \/ \E j \in DOMAIN draft.zones : Exchange(i, j)

\* sign: what a consumer would refuse on the document alone is refused here.
Sign(k) ==
  LET doc == [draft EXCEPT !.signer = k]
      env == [doc |-> doc, signature |-> [by |-> k, over |-> doc]]
  IN  /\ draft # <<>> /\ envelope = <<>>
      /\ verdict = "none"
      /\ IF CheckDocument(doc) = "pass"
         THEN envelope' = env /\ verdict' = VerifyOffline(env)
         ELSE verdict' = CheckDocument(doc) /\ UNCHANGED envelope
      /\ UNCHANGED <<inForce, anchors, clock, draft, edits, proven>>

Deliver ==
  /\ envelope # <<>>
  /\ LET decision == VerifyEnvelope(envelope, Context)
         doc == envelope.doc
     IN  IF decision # "pass"
         THEN verdict' = decision /\ UNCHANGED inForce
         ELSE IF InForceEligible(doc)
         THEN /\ verdict' = "in_force"
              /\ inForce' = [seq |-> doc.seq, zones |-> doc.zones]
         ELSE verdict' = "provisional" /\ UNCHANGED inForce
  /\ draft' = <<>>
  /\ edits' = 0 /\ proven' = {}
  /\ envelope' = <<>>
  /\ UNCHANGED <<anchors, clock>>

\* The commissioning key changes generation.
Rotate(k) ==
  /\ anchors.rotations < MaxRotations
  /\ k # anchors.current
  /\ anchors' = [anchors EXCEPT !.current = k, !.previous = anchors.current,
                                !.rotations = @ + 1]
  /\ UNCHANGED <<inForce, clock, draft, edits, proven, envelope, verdict>>

Init ==
  /\ inForce = [seq |-> 1, zones |-> FirstZones]
  /\ \E k \in Signers :
       anchors = [current |-> k, previous |-> NoKey, provisioning |-> Provisioning,
                  rotations |-> 0]
  /\ clock = FirstClock
  /\ draft = <<>>
  /\ edits = 0
  /\ proven = {}
  /\ envelope = <<>>
  /\ verdict = "none"

Next ==
  \/ Begin
  \/ Abandon
  \/ EditDraft
  \/ \E k \in Signers : Sign(k)
  \/ Deliver
  \/ \E k \in Signers : Rotate(k)

Spec == Init /\ [][Next]_vars

-----------------------------------------------------------------------------
Sensors == [id : {FirstZones[i].sensor.id : i \in DOMAIN FirstZones}, cal : Nat, low : Int, high : Int]

Seen == [ commanded : Outcomes, coil : Coils, terminal : Circuits, before : BOOLEAN,
          after : BOOLEAN, reading : {"none", "rises", "falls", "flat"},
          level : Levels \cup {"none"} ]

IsLeg(leg) ==
  /\ leg.method \in {"pre_energisation", "commanded_and_observed", "undemonstrated"}
  /\ leg.at \in 0 .. clock
  /\ leg.seen \subseteq Seen

IsZone(z) ==
  /\ z.id \in Names /\ z.sensor \in Sensors /\ z.mapping \in Mappings
  /\ z.activeHigh \in BOOLEAN /\ z.capacity \in Nat
  /\ IsLeg(z.circuit)
  /\ z.control # NoLeg => IsLeg(z.control)

\* The values every variable takes.
TypeOK ==
  /\ inForce.seq \in 1 .. MaxBindings
  /\ \A i \in DOMAIN inForce.zones : IsZone(inForce.zones[i]) /\ inForce.zones[i].control # NoLeg
  /\ anchors.current \in Signers /\ anchors.previous \in Signers \cup {NoKey}
  /\ anchors.rotations \in 0 .. MaxRotations
  /\ edits \in 0 .. MaxEdits /\ proven \subseteq DOMAIN FirstZones
  /\ draft # <<>> => \A i \in DOMAIN draft.zones : IsZone(draft.zones[i])
  /\ envelope # <<>> => draft # <<>> /\ envelope.doc = [draft EXCEPT !.signer = envelope.doc.signer]

\* Each leg of a zone in force was performed on the sensor, the line, the
\* polarity and the mapping the zone has now: no sequence of renamings,
\* exchanges, rewirings and partial proofs over several bindings carries a
\* proof onto hardware nobody proved (the revision rule, verify.go:982-986).
ProofsMatchHardware ==
  \A i \in DOMAIN inForce.zones :
    LET z == inForce.zones[i]
    IN  z.circuit.on = Hardware(z) /\ z.control.on = Hardware(z)

\* The reasons a document is refused for whatever the device holds.
DocumentReasons ==
  {"malformed", "bad_signature", "mapping_contradiction", "proof_contradiction", "ambiguous_binding"}

\* Nothing is signed that a consumer would refuse (document.go:465-466): what
\* has been signed passes the offline verdict, and no device refuses it for a
\* reason the document alone gives.
SignedIsConsumable ==
  envelope # <<>> =>
    /\ verdict = "pass"
    /\ VerifyEnvelope(envelope, Context) \notin DocumentReasons

\* Rotating the commissioning key voids what the old key signed: a document
\* signed before a rotation and delivered after it never comes into force,
\* unless the key was rotated back.
RotationVoidsSignature ==
  [][inForce' # inForce => envelope.signature.by = anchors.current]_vars
=============================================================================
