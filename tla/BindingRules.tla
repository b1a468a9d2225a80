---------------------------- MODULE BindingRules ----------------------------
(***************************************************************************)
(* What decides whether a binding document is acceptable:                  *)
(* internal/binding/verify.go and revision.go.  A document says which      *)
(* sensor watches which circuit and which actuator opens it, and carries   *)
(* two proofs per zone: the circuit leg, measured by the installer, and    *)
(* the control leg, recorded by the runtime as it drove the line.          *)
(*                                                                         *)
(* A zone is a record; a document holds a sequence of zones.  Names, keys, *)
(* sensors and lines are values of constant sets, times and capacities are *)
(* numbers, and the bytes of the wire form are left out: what the closed   *)
(* grammar refuses is what Parses says.                                    *)
(*                                                                         *)
(* `on` in a leg is not in the code: it is the hardware the proof was      *)
(* performed on, which nothing in a document records.                      *)
(***************************************************************************)
EXTENDS Integers, Sequences, FiniteSets

CONSTANTS
  NoLeg,     \* a proof without a control_path
  NoLine,    \* an actuator whose identity is not recorded
  NoKey      \* an anchor that is not configured

Outcomes == {"open", "close"}
Coils == {"energised", "de_energised"}
Circuits == {"open", "closed"}
Levels == {"high", "low"}

Mappings == [open : Coils, close : Coils, rest : Circuits]

CoilFor(m, outcome) == IF outcome = "open" THEN m.open ELSE m.close

\* What a proof of a zone establishes: every field but its name and capacity.
Hardware(z) ==
  [sensor |-> z.sensor, line |-> z.line, activeHigh |-> z.activeHigh, mapping |-> z.mapping]

-----------------------------------------------------------------------------
(***************************************************************************)
(* The grammar, and the stages that need nothing but the document.  A      *)
(* stage is "pass" or the reason it refuses with.                          *)
(***************************************************************************)

\* parseObservation: a channel without a pin has no pin level.
ObservationParses(z, o) ==
  /\ o.commanded \in Outcomes /\ o.coil \in Coils /\ o.terminal \in Circuits
  /\ o.level \in Levels => z.kind = "local_gpio"

\* parseControlPath: a commanded leg is for a local line, has observations
\* and records the level driven in each; an undemonstrated one has none.
ControlParses(z) ==
  \/ z.control = NoLeg
  \/ z.control.method = "undemonstrated" /\ z.control.seen = {}
  \/ /\ z.control.method = "commanded_and_observed"
     /\ z.kind = "local_gpio"
     /\ z.control.seen # {}
     /\ \A o \in z.control.seen : ObservationParses(z, o) /\ o.level \in Levels

\* parseZone.
ZoneParses(z) ==
  /\ z.line # NoLine
  /\ z.sensor.low < z.sensor.high
  /\ ControlParses(z)
  /\ (z.circuit.method = "undemonstrated") <=> (z.circuit.seen = {})
  /\ \A o \in z.circuit.seen : ObservationParses(z, o)

Parses(doc) ==
  IF /\ doc.seq >= 1
     /\ doc.zones # <<>>
     /\ \A i \in DOMAIN doc.zones : ZoneParses(doc.zones[i])
  THEN "pass" ELSE "malformed"

\* One coil state cannot produce both outcomes, and the circuit at rest is what
\* releasing the coil produces.
Coherent(m) ==
  /\ m.open # m.close
  /\ (m.open = "de_energised") <=> (m.rest = "open")

MappingSelfConsistency(doc) ==
  IF \A i \in DOMAIN doc.zones : Coherent(doc.zones[i].mapping)
  THEN "pass" ELSE "mapping_contradiction"

\* The output level that energises or releases the coil.
LevelFor(activeHigh, coil) == IF (coil = "energised") = activeHigh THEN "high" ELSE "low"

\* Readings of the zone's sensor around the command; "flat" is a change its
\* noise floor hides.
ReadingAgrees(o) ==
  o.reading = "none" \/ o.reading = (IF o.after THEN "rises" ELSE "falls")

\* checkObservations: both outcomes were commanded, and each observation shows
\* the coil, the circuit, the load and the level that the mapping names.
ObservationsAgree(z, seen) ==
  /\ {o.commanded : o \in seen} = Outcomes
  /\ \A o \in seen :
       /\ o.coil = CoilFor(z.mapping, o.commanded)
       /\ o.terminal = (IF o.commanded = "open" THEN "open" ELSE "closed")
       /\ o.before = (o.commanded = "open")
       /\ o.after = (o.commanded = "close")
       /\ ReadingAgrees(o)
       /\ o.level \in {"none", LevelFor(z.activeHigh, o.coil)}

ClaimsCircuit(z) == z.circuit.method # "undemonstrated"

ClaimsControl(z) == z.control # NoLeg /\ z.control.method = "commanded_and_observed"

ObservationConsistency(doc) ==
  IF \A i \in DOMAIN doc.zones :
       LET z == doc.zones[i]
       IN  /\ ClaimsCircuit(z) => ObservationsAgree(z, z.circuit.seen)
           /\ ClaimsControl(z) => ObservationsAgree(z, z.control.seen)
  THEN "pass" ELSE "proof_contradiction"

-----------------------------------------------------------------------------
(***************************************************************************)
(* The revision rule: a changed zone cannot inherit the proof of the       *)
(* hardware it replaced.                                                   *)
(***************************************************************************)

\* RetainedState: what is kept of the zones of an accepted document, by zone
\* name.  The map is filled in document order, so the last zone of a name is
\* the one it keeps.
RetainedState(zones) ==
  LET named(id) == {i \in DOMAIN zones : zones[i].id = id}
      last(id) == CHOOSE i \in named(id) : \A j \in named(id) : j <= i
  IN  [id \in {zones[i].id : i \in DOMAIN zones} |-> zones[last(id)]]

\* Mutant: a zone is compared with the retained zone of its name only.
MatchedByName(was, z) == was.id = z.id

\* The retained zones a zone is held to: those it shares its name, its line
\* (whatever the polarity) or its sensor with.
Matched(was, z) ==
  was.id = z.id \/ was.line = z.line \/ was.sensor.id = z.sensor.id

Changed(was, z) == Hardware(was) # Hardware(z)

\* Each claimed leg is newer than the same leg of the retained zone.
FreshAgainst(was, z) ==
  /\ ClaimsCircuit(z) => z.circuit.at > was.circuit.at
  /\ ClaimsControl(z) /\ was.control # NoLeg => z.control.at > was.control.at

RevisionRule(doc, prior) ==
  IF \A i \in DOMAIN doc.zones : \A id \in DOMAIN prior :
       LET z == doc.zones[i]
       IN  Matched(prior[id], z) /\ Changed(prior[id], z) => FreshAgainst(prior[id], z)
  THEN "pass" ELSE "stale_proof"

-----------------------------------------------------------------------------
(***************************************************************************)
(* The remaining stages.                                                   *)
(***************************************************************************)

\* multiplier is the release's trip-point factor, 1 where it is not known.
Bounds(doc, multiplier) ==
  IF \A i \in DOMAIN doc.zones :
       LET z == doc.zones[i]
       IN  /\ z.capacity > 0
           /\ z.sensor.low <= z.capacity /\ z.capacity <= z.sensor.high
           /\ z.capacity * multiplier <= z.sensor.high
  THEN "pass" ELSE "out_of_bounds"

Disambiguation(doc) ==
  IF \A i, j \in DOMAIN doc.zones :
       i # j => /\ doc.zones[i].sensor.id # doc.zones[j].sensor.id
                /\ doc.zones[i].line # doc.zones[j].line
  THEN "pass" ELSE "ambiguous_binding"

\* ctx.sensors and ctx.lines are what the device declares.
InventoryStage(doc, ctx) ==
  LET zones == {doc.zones[i] : i \in DOMAIN doc.zones}
  IN  IF \E z \in zones : z.sensor.id \notin ctx.sensors \/ z.line \notin ctx.lines
      THEN "unknown_hardware"
      ELSE IF ctx.lines \ {z.line : z \in zones} # {} THEN "unbound_actuator"
      ELSE "pass"

ActivationPosture(doc, posture) ==
  IF posture = "development" \/ \A i \in DOMAIN doc.zones : ClaimsCircuit(doc.zones[i])
  THEN "pass" ELSE "undemonstrated_binding"

KeySelection(named, anchors) ==
  IF anchors.provisioning # NoKey /\ anchors.provisioning \in {anchors.current, anchors.previous}
  THEN "anchor_collision"
  ELSE IF named = NoKey \/ named \notin {anchors.current, anchors.previous, anchors.provisioning}
  THEN "unknown_signer"
  ELSE "pass"

\* Mutant: the previous key keeps its authority.
AuthorityOfPrevious(named, anchors) ==
  IF named = anchors.provisioning THEN "wrong_authority" ELSE "pass"

Authority(named, anchors) ==
  IF named = anchors.provisioning THEN "wrong_authority"
  ELSE IF named = anchors.previous THEN "superseded_signer"
  ELSE IF named # anchors.current THEN "unknown_signer"
  ELSE "pass"

\* The signature covers the document and was made with the key it names.
SignatureStage(env) ==
  IF env.signature = [by |-> env.doc.signer, over |-> env.doc] THEN "pass" ELSE "bad_signature"

\* Mutant: a document is accepted over any binding in force.
FreshnessNever(doc, ctx) == "pass"

\* A document follows the one in force, by number and by hash.
Freshness(doc, ctx) ==
  IF doc.seq > ctx.seq /\ doc.supersedes = ctx.hash THEN "pass" ELSE "stale"

-----------------------------------------------------------------------------
(***************************************************************************)
(* The verdicts: "pass", or the reason of the first stage that refuses.    *)
(***************************************************************************)
FirstRefusal(stages) ==
  LET refused == {i \in DOMAIN stages : stages[i] # "pass"}
  IN  IF refused = {} THEN "pass"
      ELSE stages[CHOOSE i \in refused : \A j \in refused : i <= j]

VerifyEnvelope(env, ctx) ==
  LET doc == env.doc
  IN  FirstRefusal(
        << Parses(doc),
           IF doc.device = ctx.device THEN "pass" ELSE "wrong_device",
           KeySelection(doc.signer, ctx.anchors),
           SignatureStage(env),
           Authority(doc.signer, ctx.anchors),
           Freshness(doc, ctx),
           MappingSelfConsistency(doc),
           ObservationConsistency(doc),
           RevisionRule(doc, ctx.prior),
           Bounds(doc, ctx.multiplier),
           Disambiguation(doc),
           InventoryStage(doc, ctx),
           ActivationPosture(doc, ctx.posture) >>)

\* Mutant: two zones may share a sensor or a line.
CheckDocumentAmbiguous(doc) ==
  FirstRefusal(
    << Parses(doc), MappingSelfConsistency(doc), ObservationConsistency(doc), Bounds(doc, 1) >>)

\* What the producer checks before it signs (checkDocument): no retained
\* zones and no multiplier are at hand.
CheckDocument(doc) ==
  FirstRefusal(
    << Parses(doc), MappingSelfConsistency(doc), ObservationConsistency(doc),
       Bounds(doc, 1), Disambiguation(doc) >>)

VerifyOffline(env) ==
  FirstRefusal(
    << Parses(env.doc), SignatureStage(env), MappingSelfConsistency(env.doc),
       ObservationConsistency(env.doc), Bounds(env.doc, 1), Disambiguation(env.doc) >>)

\* CheckRevision: everything a consumer decides but the signature, the key and
\* the place in the succession.
CheckRevision(doc, ctx) ==
  FirstRefusal(
    << Parses(doc), MappingSelfConsistency(doc), ObservationConsistency(doc),
       RevisionRule(doc, ctx.prior), Bounds(doc, ctx.multiplier), Disambiguation(doc),
       InventoryStage(doc, ctx), ActivationPosture(doc, ctx.posture) >>)

\* Mutant: the control leg is not asked for.
InForceEligibleCircuit(doc) ==
  \A i \in DOMAIN doc.zones : ClaimsCircuit(doc.zones[i])

\* An accepted document is in force once every zone carries both legs; one
\* zone short leaves it provisional.
InForceEligible(doc) ==
  \A i \in DOMAIN doc.zones :
    LET z == doc.zones[i]
    IN  z.kind = "local_gpio" /\ ClaimsCircuit(z) /\ ClaimsControl(z)

-----------------------------------------------------------------------------
(***************************************************************************)
(* Legs as the ceremony and the runtime record them.  The ceremony refuses *)
(* an observation its mapping does not explain, so what is recorded agrees *)
(* with the zone.                                                          *)
(***************************************************************************)
Device == "device"

\* What an honest proof of a zone shows.
Demonstration(z, levels) ==
  { [ commanded |-> c, coil |-> CoilFor(z.mapping, c),
      terminal |-> IF c = "open" THEN "open" ELSE "closed",
      before |-> c = "open", after |-> c = "close", reading |-> "none",
      level |-> IF levels THEN LevelFor(z.activeHigh, CoilFor(z.mapping, c)) ELSE "none" ]
    : c \in Outcomes }

CircuitLeg(z, t) ==
  [method |-> "pre_energisation", at |-> t, seen |-> Demonstration(z, FALSE), on |-> Hardware(z)]

ControlLegOf(z, t) ==
  [method |-> "commanded_and_observed", at |-> t, seen |-> Demonstration(z, TRUE),
   on |-> Hardware(z)]
=============================================================================
