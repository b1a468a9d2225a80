--------------------------- MODULE Commissioning ---------------------------
(***************************************************************************)
(* Commissioning a device with `ori binding`: several installers capture   *)
(* or revise a binding, sign it, deliver it, prove its control leg through *)
(* the runtime and export the leg.  Each command is one or more steps of   *)
(* an installer: cmd/binding.go, cmd/binding_sign.go, internal/capture.    *)
(* The device decides with the rules of BindingRules.  It is not part of   *)
(* the repository and is modelled by how the commands use it: the binding  *)
(* in force, one provisional binding, the proofs recorded against that     *)
(* one, and the hardware it declares.                                      *)
(***************************************************************************)
EXTENDS BindingRules

CONSTANTS
  Installers,
  Facts,          \* what a ceremony may be told of a zone
  FirstBindings,  \* bindings in force at the start, each with what is declared
  Inventories,    \* [sensors, lines] the device may come to declare
  FirmwareLines,  \* the lines that are firmware channels
  Posture, Multiplier,
  Key, OtherKey,  \* the commissioning key, the provisioning anchor
  Careful,        \* a leg is attached only to the document it was proven for
  Skew,           \* how far past the clock a proof may be dated
  MaxClock, MaxBindings   \* bounds

ASSUME CommissioningAssumption ==
  /\ Careful \in BOOLEAN
  /\ Key # NoKey /\ Key # OtherKey
  /\ {Skew, MaxClock, MaxBindings} \subseteq Nat /\ Multiplier \in Nat \ {0}
  /\ \A f \in Facts : f.mapping \in Mappings /\ f.capacity \in Nat

VARIABLES
  inForce,    \* the binding in force; seq 0 is none
  staged,     \* the provisional binding; None is none
  attempts,   \* matched commands recorded against it
  declared,   \* the hardware the device declares
  clock,
  ceremony,   \* the inventory and the prior an installer's capture works with
  draft,      \* an installer's draft, with the inventory it was made for
  leg,        \* an installer's exported leg, with the binding it was proven for
  envelope    \* an installer's signed document, with the draft's inventory

device == <<inForce, staged, attempts, declared>>
papers == <<draft, leg, envelope>>
vars == <<device, clock, ceremony, papers>>

None == <<>>
NoBinding == [device |-> Device, seq |-> 0, supersedes |-> 0, signer |-> NoKey, zones |-> <<>>]

\* The clock when the model starts.
FirstClock == 5

ASSUME ClockAssumption == FirstClock <= MaxClock

\* What the runtime decides with.  The number of a binding in force stands for
\* its hash.
Context ==
  [ device |-> Device,
    anchors |-> [current |-> Key, previous |-> NoKey, provisioning |-> OtherKey],
    seq |-> inForce.seq, hash |-> inForce.seq,
    sensors |-> declared.sensors, lines |-> declared.lines,
    posture |-> Posture, multiplier |-> Multiplier, prior |-> RetainedState(inForce.zones) ]

Driven(doc) == {z.line : z \in {doc.zones[i] : i \in DOMAIN doc.zones}}

-----------------------------------------------------------------------------
(***************************************************************************)
(* binding capture.  The inventory is read, then the binding in force, and *)
(* then the installer is asked; the device may change in between.          *)
(***************************************************************************)
ReadInventory(i) ==
  /\ ceremony[i] = None
  /\ inForce.seq < MaxBindings
  /\ ceremony' = [ceremony EXCEPT ![i] =
       [inv |-> declared, reported |-> inForce, loaded |-> inForce.seq = 0]]
  /\ UNCHANGED <<device, clock, papers>>

GiveUp(i) ==
  /\ ceremony[i] # None
  /\ ceremony' = [ceremony EXCEPT ![i] = None]
  /\ UNCHANGED <<device, clock, papers>>

\* LoadExported: the runtime's export must be the binding it reported.
AgreesWithReport(c) == inForce.seq = c.reported.seq

\* The prior comes from the runtime or from a file, and is refused unless it
\* hashes to what the inventory reported.
LoadPrior(i, fromFile) ==
  LET c == ceremony[i]
  IN  /\ c # None /\ ~c.loaded
      /\ ceremony' = [ceremony EXCEPT ![i] =
           IF fromFile THEN [c EXCEPT !.loaded = TRUE]
           ELSE IF AgreesWithReport(c) THEN [c EXCEPT !.loaded = TRUE, !.reported = inForce]
           ELSE None]
      /\ UNCHANGED <<device, clock, papers>>

\* identityFrom copies the pin and the polarity, and nothing of a firmware
\* channel.
KindOf(line) == IF line \in FirmwareLines THEN "firmware" ELSE "local_gpio"
IdentityFrom(line) == IF line \in FirmwareLines THEN NoLine ELSE line

Zone(id, f) ==
  [ id |-> id, sensor |-> f.sensor, kind |-> KindOf(f.line), line |-> IdentityFrom(f.line),
    activeHigh |-> f.activeHigh, mapping |-> f.mapping, capacity |-> f.capacity ]

WithLegs(z, circuit, control) ==
  [ id |-> z.id, sensor |-> z.sensor, kind |-> z.kind, line |-> z.line,
    activeHigh |-> z.activeHigh, mapping |-> z.mapping, capacity |-> z.capacity,
    circuit |-> circuit, control |-> control ]

\* A first binding came into force as any other does: its zones have names of
\* their own, and both legs of each were proven, before now, on the hardware it
\* names.
ASSUME FirstBindingsAssumption ==
  \A b \in FirstBindings :
    LET zones == b.binding.zones
    IN  \/ b.binding = NoBinding
        \/ /\ b.binding.seq \in 1 .. MaxBindings /\ InForceEligible(b.binding)
           /\ DOMAIN zones \subseteq Nat
           /\ \A n \in DOMAIN zones :
                LET z == zones[n]
                IN  /\ z = WithLegs(z, z.circuit, z.control)
                    /\ \E t \in 0 .. FirstClock - 1 : z.circuit = CircuitLeg(z, t)
                    /\ \E t \in 0 .. FirstClock - 1 : z.control = ControlLegOf(z, t)
                    /\ \A m \in DOMAIN zones : zones[m].id = z.id => m = n

\* captureProof: no leg, or one dated after the proof in force and not far
\* past the clock.
CapturedLegs(z, after) ==
  {[method |-> "undemonstrated", at |-> clock, seen |-> {}, on |-> Hardware(z)]}
    \cup {CircuitLeg(z, t) : t \in {s \in {clock, clock + Skew} : s > after}}

\* Mutant: the document keeps the number of the one it supersedes.
DocumentUnnumbered(c, zones) ==
  [ device |-> Device, seq |-> c.reported.seq, supersedes |-> c.reported.seq,
    signer |-> NoKey, zones |-> zones ]

Document(c, zones) ==
  [ device |-> Device, seq |-> c.reported.seq + 1, supersedes |-> c.reported.seq,
    signer |-> NoKey, zones |-> zones ]

Write(i, doc) ==
  /\ draft' = [draft EXCEPT ![i] = [doc |-> doc, inv |-> ceremony[i].inv]]
  /\ ceremony' = [ceremony EXCEPT ![i] = None]
  /\ clock' = clock + 1
  /\ UNCHANGED <<device, leg, envelope>>

\* What either ceremony refuses as it is answered; of the capacity only the
\* upper bound is asked.
Answerable(c, f) ==
  /\ f.sensor.id \in c.inv.sensors /\ f.line \in c.inv.lines
  /\ f.sensor.low < f.sensor.high
  /\ Coherent(f.mapping)
  /\ 0 < f.capacity /\ f.capacity <= f.sensor.high

\* A first binding has one zone.
Capture(i) ==
  LET c == ceremony[i]
  IN  /\ c # None /\ c.loaded /\ c.reported.seq = 0 /\ clock < MaxClock
      /\ \E f \in Facts :
           /\ Answerable(c, f)
           /\ \E circuit \in CapturedLegs(Zone("feeder", f), 0) :
                Write(i, Document(c, <<WithLegs(Zone("feeder", f), circuit, NoLeg)>>))

\* Mutant: a line the binding in force drives may be proven afresh.
ProvableAnywhere(c, line) == TRUE

\* Fresh legs can be proven only on a line no zone in force drives.
Provable(c, line) == line \notin Driven(c.reported)

\* Anything but the capacity asks for fresh legs, and so does hardware that
\* was replaced like for like.
NeedsProof(was, now, replaced) == Hardware(was) # Hardware(now) \/ replaced

\* The zone a revision writes for the facts it is told.
Revised(c, was, f, replaced) ==
  LET now == Zone(was.id, f)
  IN  IF NeedsProof(was, now, replaced)
      THEN {WithLegs(now, circuit, NoLeg) : circuit \in CapturedLegs(now, was.circuit.at)}
      ELSE {WithLegs(now, was.circuit, was.control)}

\* What Revise refuses as it is told it.
Revisable(c, was, f, replaced) ==
  /\ was.kind = "local_gpio" /\ KindOf(f.line) = "local_gpio"
  /\ Answerable(c, f)
  /\ NeedsProof(was, Zone(was.id, f), replaced) => Provable(c, f.line)
  /\ \A j \in DOMAIN c.reported.zones :
       c.reported.zones[j].sensor.id = f.sensor.id
         => c.reported.zones[j].id = was.id \/ f.sensor.id = was.sensor.id

\* What the ceremony knows of the device when it checks a revision; the
\* release's multiplier is not known.
RevisionContext(c) ==
  [ sensors |-> c.inv.sensors, lines |-> c.inv.lines, posture |-> Posture, multiplier |-> 1,
    prior |-> RetainedState(c.reported.zones) ]

\* Mutant: a revision is written as it was told.
CheckedAlways(doc, c) == TRUE

Checked(doc, c) == CheckRevision(doc, RevisionContext(c)) = "pass"

\* A revision changes one zone and carries the others.
Revise(i) ==
  LET c == ceremony[i]
  IN  /\ c # None /\ c.loaded /\ c.reported.seq > 0 /\ clock < MaxClock
      /\ \E n \in DOMAIN c.reported.zones, f \in Facts, replaced \in BOOLEAN :
           LET was == c.reported.zones[n]
           IN  /\ Revisable(c, was, f, replaced)
               /\ \E z \in Revised(c, was, f, replaced) :
                    LET doc == Document(c, [c.reported.zones EXCEPT ![n] = z])
                    IN  Checked(doc, c) /\ Write(i, doc)

-----------------------------------------------------------------------------
(***************************************************************************)
(* binding sign: an exported leg is put on the zone it was exported for, a *)
(* leg that is there is never replaced, and what a consumer would refuse   *)
(* on the document alone is not signed.                                    *)
(***************************************************************************)
\* Mutant: the leg is put on every zone.
AttachedEverywhere(doc, l) ==
  [doc EXCEPT !.zones = [n \in DOMAIN doc.zones |-> [doc.zones[n] EXCEPT !.control = l.leg]]]

Attached(doc, l) ==
  [doc EXCEPT !.zones = [n \in DOMAIN doc.zones |->
     IF doc.zones[n].id = l.zone THEN [doc.zones[n] EXCEPT !.control = l.leg] ELSE doc.zones[n]]]

Attachable(doc, l) ==
  /\ \E n \in DOMAIN doc.zones : doc.zones[n].id = l.zone
  /\ \A n \in DOMAIN doc.zones : doc.zones[n].id = l.zone => doc.zones[n].control = NoLeg

\* fillOwnedFields: the key signs under its own name.
Owned(doc) == [doc EXCEPT !.signer = Key]

SignDocument(i, unsigned) ==
  LET doc == Owned(unsigned)
      env == [doc |-> doc, signature |-> [by |-> Key, over |-> doc]]
  IN  /\ CheckDocument(doc) = "pass" /\ VerifyOffline(env) = "pass"
      /\ envelope' = [envelope EXCEPT ![i] = [env |-> env, inv |-> draft[i].inv]]
      /\ UNCHANGED <<device, clock, ceremony, draft, leg>>

Sign(i) == draft[i] # None /\ SignDocument(i, draft[i].doc)

SignWithLeg(i) ==
  /\ draft[i] # None /\ leg[i] # None
  /\ Careful => leg[i].of = draft[i].doc.zones
  /\ Attachable(draft[i].doc, leg[i])
  /\ SignDocument(i, Attached(draft[i].doc, leg[i]))

-----------------------------------------------------------------------------
(***************************************************************************)
(* binding deliver, binding prove and binding export.                      *)
(***************************************************************************)

\* The runtime decides; a provisional binding awaits its proofs.
Deliver(i) ==
  /\ envelope[i] # None
  /\ VerifyEnvelope(envelope[i].env, Context) = "pass"
  /\ LET doc == envelope[i].env.doc
     IN  IF InForceEligible(doc)
         THEN inForce' = doc /\ staged' = None /\ attempts' = {}
         ELSE /\ doc # staged
              /\ staged' = doc /\ attempts' = {}
              /\ UNCHANGED inForce
  /\ UNCHANGED <<declared, clock, ceremony, papers>>

\* A command on a line of the provisional binding that nothing in force drives.
Prove(outcome) ==
  /\ staged # None /\ clock < MaxClock
  /\ \E n \in DOMAIN staged.zones :
       LET z == staged.zones[n]
       IN  /\ z.kind = "local_gpio" /\ z.line \notin Driven(inForce)
           /\ attempts' = attempts \cup {[zone |-> z.id, outcome |-> outcome, at |-> clock]}
  /\ clock' = clock + 1
  /\ UNCHANGED <<inForce, staged, declared, ceremony, papers>>

\* ControlPathFor: both outcomes, and the time of the last command.
Export(i) ==
  /\ staged # None
  /\ \E n \in DOMAIN staged.zones :
       LET z == staged.zones[n]
           rows == {a \in attempts : a.zone = z.id}
       IN  /\ {a.outcome : a \in rows} = Outcomes
           /\ \E last \in rows :
                /\ \A a \in rows : a.at <= last.at
                /\ leg' = [leg EXCEPT ![i] =
                     [zone |-> z.id, leg |-> ControlLegOf(z, last.at), of |-> staged.zones]]
  /\ UNCHANGED <<device, clock, ceremony, draft, envelope>>

\* The hardware is rewired and the runtime restarted on a new inventory.
Rewire ==
  /\ declared' \in Inventories \ {declared}
  /\ UNCHANGED <<inForce, staged, attempts, clock, ceremony, papers>>

Init ==
  /\ \E b \in FirstBindings : inForce = b.binding /\ declared = b.declared
  /\ staged = None
  /\ attempts = {}
  /\ clock = FirstClock
  /\ ceremony = [i \in Installers |-> None]
  /\ draft = [i \in Installers |-> None]
  /\ leg = [i \in Installers |-> None]
  /\ envelope = [i \in Installers |-> None]

Next ==
  \/ \E i \in Installers :
       \/ ReadInventory(i)
       \/ GiveUp(i)
       \/ \E fromFile \in BOOLEAN : LoadPrior(i, fromFile)
       \/ Capture(i)
       \/ Revise(i)
       \/ Sign(i)
       \/ SignWithLeg(i)
       \/ Deliver(i)
       \/ Export(i)
  \/ \E outcome \in Outcomes : Prove(outcome)
  \/ Rewire

Spec == Init /\ [][Next]_vars

-----------------------------------------------------------------------------
(***************************************************************************)
(* Properties.                                                             *)
(***************************************************************************)

\* The type invariant.  A draft is numbered after the binding it revises, an
\* envelope carries a signature over what it holds, and only a binding that is
\* not eligible is staged (cmd/binding.go:429-449).
TypeOK ==
  /\ inForce.seq \in 0..MaxBindings
  /\ inForce.seq > 0 => InForceEligible(inForce)
  /\ staged # None => staged.seq \in 1..MaxBindings /\ ~InForceEligible(staged)
  /\ \A a \in attempts : a.outcome \in Outcomes /\ a.at \in 0..MaxClock
  /\ clock \in 0..MaxClock
  /\ \A i \in Installers :
       /\ ceremony[i] # None => ceremony[i].reported.seq \in 0..(MaxBindings - 1)
       /\ draft[i] # None => draft[i].doc.seq \in 1..MaxBindings /\ draft[i].doc.signer = NoKey
       /\ leg[i] # None => leg[i].leg.method = "commanded_and_observed"
       /\ envelope[i] # None => SignatureStage(envelope[i].env) = "pass"

Bindings == {inForce} \cup (IF staged = None THEN {} ELSE {staged})

\* Every leg of a zone the device accepted was performed on the hardware the
\* zone names: `commanded_and_observed` establishes that the control input this
\* binding names is what moves that coil (verify.go:148-150).
LegsMatchHardware ==
  \A b \in Bindings : \A n \in DOMAIN b.zones :
    LET z == b.zones[n]
    IN  z.circuit.on = Hardware(z) /\ (z.control # NoLeg => z.control.on = Hardware(z))

\* A revision the runtime would refuse is refused before a signature exists
\* (cmd/binding.go:288-290): while the device declares what the ceremony read, a
\* signed revision of the binding in force is accepted, but for the trip point
\* that only delivery bounds.
SignedRevisionAccepted ==
  \A i \in Installers :
    ( /\ envelope[i] # None
      /\ envelope[i].env.doc.supersedes = inForce.seq /\ inForce.seq > 0
      /\ envelope[i].inv = declared )
    => VerifyEnvelope(envelope[i].env, Context) \in {"pass", "out_of_bounds"}

\* A revision whose proof could never be performed is refused as it is declared
\* (revise.go:219-229): whatever other installers deliver meanwhile, each leg
\* a provisional binding waits for is on a line nothing in force drives.
StagedCanBeProven ==
  staged # None =>
    \A n \in DOMAIN staged.zones :
      staged.zones[n].control = NoLeg => staged.zones[n].line \notin Driven(inForce)

\* Installers who revise at the same time do not undo each other: a binding
\* comes into force over the one it was captured against, and differs from it
\* in the zone that was revised (cmd/binding.go:225-300).
OneRevisionAtATime ==
  [][inForce' # inForce /\ inForce.seq > 0 =>
       \E n \in DOMAIN inForce.zones :
         \A m \in DOMAIN inForce.zones : m = n \/ inForce'.zones[m] = inForce.zones[m]]_vars

\* A draft that capture wrote can be signed: it is checked as a consumer would
\* check it before it is returned (capture.go:65-67).
CaptureIsSignable ==
  \A i \in Installers :
    draft[i] # None => CheckDocument(Owned(draft[i].doc)) = "pass"
=============================================================================
