------------------------ MODULE CommissioningProofs ------------------------
(***************************************************************************)
(* The proofs about Commissioning, for any installers, any facts they may  *)
(* tell, any hardware the device may come to declare and any number of     *)
(* bindings.                                                               *)
(***************************************************************************)
EXTENDS Commissioning, BindingRulesProofs

-----------------------------------------------------------------------------
(***************************************************************************)
(* The invariant.  A document that supersedes the binding in force was     *)
(* made from it; one that supersedes an earlier binding is never accepted  *)
(* again, because a device's bindings only grow in number.                 *)
(***************************************************************************)
ZonesInv(zones) ==
  /\ DOMAIN zones \subseteq Nat
  /\ \A n \in DOMAIN zones :
       zones[n] = WithLegs(zones[n], zones[n].circuit, zones[n].control)
  /\ \A n, m \in DOMAIN zones : zones[n].id = zones[m].id => n = m

\* zones are those of the binding b but for one.
OneChanged(zones, b) ==
  /\ DOMAIN zones = DOMAIN b.zones
  /\ \E n \in DOMAIN b.zones : \A m \in DOMAIN b.zones : m = n \/ zones[m] = b.zones[m]

\* A zone that awaits its control leg is on a line nothing in b drives.
Awaits(zones, b) ==
  \A n \in DOMAIN zones : zones[n].control = NoLeg => zones[n].line \notin Driven(b)

\* The zones of a document made from the binding b.
MadeFrom(zones, b) ==
  /\ ZonesInv(zones)
  /\ Awaits(zones, b)
  /\ b.seq > 0 => OneChanged(zones, b)

\* A document written while b, or a binding before it, was in force.
DocInv(doc, b) ==
  /\ doc = [ device |-> Device, seq |-> doc.seq, supersedes |-> doc.supersedes,
             signer |-> doc.signer, zones |-> doc.zones ]
  /\ doc.supersedes \in 0 .. MaxBindings - 1 /\ doc.seq = doc.supersedes + 1
  /\ doc.supersedes <= b.seq
  /\ doc.supersedes = b.seq => MadeFrom(doc.zones, b)

BindingInv(b) ==
  /\ b.seq \in 0 .. MaxBindings /\ ZonesInv(b.zones)
  /\ b.seq > 0 => InForceEligible(b)
  /\ b.seq = 0 => b.zones = <<>>

\* A provisional binding beside the binding b in force.
StagedInv(s, b) ==
  /\ s.seq \in 1 .. MaxBindings /\ ~InForceEligible(s)
  /\ ZonesInv(s.zones)
  /\ Awaits(s.zones, b)

\* What a ceremony read is the binding in force, or was.
CeremonyInv(c, b) ==
  /\ c = [inv |-> c.inv, reported |-> c.reported, loaded |-> c.loaded]
  /\ c.reported.seq \in 0 .. MaxBindings - 1 /\ c.reported.seq <= b.seq
  /\ c.reported.seq = b.seq => c.reported = b

PapersInv(d, l, e, b) ==
  /\ d # None => DocInv(d.doc, b) /\ d.doc.signer = NoKey
  /\ l # None => l.leg.method = "commanded_and_observed"
  /\ e # None => DocInv(e.env.doc, b) /\ SignatureStage(e.env) = "pass"

DeskInv ==
  /\ DOMAIN ceremony = Installers /\ DOMAIN draft = Installers
  /\ DOMAIN leg = Installers /\ DOMAIN envelope = Installers
  /\ \A i \in Installers :
       /\ ceremony[i] # None => CeremonyInv(ceremony[i], inForce)
       /\ PapersInv(draft[i], leg[i], envelope[i], inForce)

CommInv ==
  /\ BindingInv(inForce)
  /\ staged # None => StagedInv(staged, inForce)
  /\ \A a \in attempts : a.outcome \in Outcomes /\ a.at \in 0 .. MaxClock /\ a.at < clock
  /\ clock \in 0 .. MaxClock
  /\ DeskInv

-----------------------------------------------------------------------------
(***************************************************************************)
(* Where the legs of a zone come from, and when.                           *)
(***************************************************************************)
Matches(zones) ==
  \A n \in DOMAIN zones :
    /\ zones[n].circuit.on = Hardware(zones[n])
    /\ zones[n].control # NoLeg => zones[n].control.on = Hardware(zones[n])

\* The leg was performed on the hardware of the zone it was exported for.
LegMatches(l) == \E n \in DOMAIN l.of : l.of[n].id = l.zone /\ l.leg.on = Hardware(l.of[n])

MatchInv ==
  /\ Matches(inForce.zones)
  /\ staged # None => Matches(staged.zones)
  /\ \A i \in Installers :
       /\ draft[i] # None /\ draft[i].doc.supersedes = inForce.seq => Matches(draft[i].doc.zones)
       /\ leg[i] # None => LegMatches(leg[i])
       /\ envelope[i] # None /\ envelope[i].env.doc.supersedes = inForce.seq
            => Matches(envelope[i].env.doc.zones)

\* The legs of the zones are dated before t.
DatedBefore(zones, t) ==
  \A n \in DOMAIN zones :
    /\ zones[n].circuit.at \in Nat /\ zones[n].circuit.at < t
    /\ zones[n].control # NoLeg => zones[n].control.at \in Nat /\ zones[n].control.at < t

\* What a revision of the binding b was checked against.
RevisionSound(doc, inv, b) ==
  /\ RevisionRule(doc, RetainedState(b.zones)) = "pass"
  /\ InventoryStage(doc, inv) = "pass" /\ ActivationPosture(doc, Posture) = "pass"

\* What awaits a leg was captured after every leg of the binding b.
CapturedAfter(zones, b) ==
  \A n \in DOMAIN zones : zones[n].control = NoLeg =>
    \A m \in DOMAIN b.zones : b.zones[m].control.at < zones[n].circuit.at

\* The exported leg is no older than the circuit leg of its zone.
LegDated(l, t) ==
  /\ l.leg.at \in Nat /\ l.leg.at < t
  /\ \E n \in DOMAIN l.of : l.of[n].id = l.zone /\ l.of[n].circuit.at <= l.leg.at

StagedDated(s, commands, t) ==
  /\ DatedBefore(s.zones, t)
  /\ \A a \in commands : \A n \in DOMAIN s.zones : s.zones[n].circuit.at <= a.at

DraftDated(d, b, t) ==
  d.doc.supersedes = b.seq =>
    /\ DatedBefore(d.doc.zones, t)
    /\ b.seq > 0 => RevisionSound(d.doc, d.inv, b) /\ CapturedAfter(d.doc.zones, b)

EnvelopeDated(e, b, t) ==
  /\ e.env.doc.signer = Key /\ SoundAlone(e.env.doc)
  /\ e.env.doc.supersedes = b.seq =>
       /\ DatedBefore(e.env.doc.zones, t)
       /\ b.seq > 0 => RevisionSound(e.env.doc, e.inv, b)

DatedInv ==
  /\ DatedBefore(inForce.zones, clock)
  /\ staged # None => StagedDated(staged, attempts, clock)
  /\ \A i \in Installers :
       /\ leg[i] # None => LegDated(leg[i], clock)
       /\ draft[i] # None => DraftDated(draft[i], inForce, clock)
       /\ envelope[i] # None => EnvelopeDated(envelope[i], inForce, clock)

-----------------------------------------------------------------------------
(***************************************************************************)
(* What signing does to a document.                                        *)
(***************************************************************************)
\* The key signs under its own name, and changes nothing else.
LEMMA OwnedKeeps ==
  ASSUME NEW doc, NEW b, DocInv(doc, b)
  PROVE  /\ DocInv(Owned(doc), b) /\ Owned(doc).signer = Key
         /\ Owned(doc).zones = doc.zones /\ Owned(doc).supersedes = doc.supersedes
<1>1. doc = [ device |-> Device, seq |-> doc.seq, supersedes |-> doc.supersedes,
              signer |-> doc.signer, zones |-> doc.zones ]
  BY DEF DocInv
<1>2. Owned(doc) = [ device |-> Device, seq |-> doc.seq, supersedes |-> doc.supersedes,
                     signer |-> Key, zones |-> doc.zones ]
  <2>1. ASSUME NEW d, d = [ device |-> Device, seq |-> doc.seq, supersedes |-> doc.supersedes,
                            signer |-> doc.signer, zones |-> doc.zones ]
        PROVE  [d EXCEPT !.signer = Key]
                 = [ device |-> Device, seq |-> doc.seq, supersedes |-> doc.supersedes,
                     signer |-> Key, zones |-> doc.zones ]
    BY <2>1
  <2>2. QED
    BY <1>1, <2>1 DEF Owned
<1>3. /\ Owned(doc).seq = doc.seq /\ Owned(doc).supersedes = doc.supersedes
      /\ Owned(doc).signer = Key /\ Owned(doc).zones = doc.zones
  BY <1>2
<1>4. Owned(doc) = [ device |-> Device, seq |-> Owned(doc).seq,
                     supersedes |-> Owned(doc).supersedes, signer |-> Owned(doc).signer,
                     zones |-> Owned(doc).zones ]
  BY <1>2, <1>3
<1>5. QED
  BY <1>3, <1>4 DEF DocInv

\* The control leg of a zone with the leg l attached where it belongs.
LegGiven(z, l) == IF z.id = l.zone THEN l.leg ELSE z.control

\* The zones of a document with a leg attached.
LEMMA AttachedZones ==
  ASSUME NEW doc, NEW b, DocInv(doc, b), NEW l
  PROVE  LET new == Attached(doc, l)
         IN  /\ new = [ device |-> Device, seq |-> doc.seq, supersedes |-> doc.supersedes,
                        signer |-> doc.signer, zones |-> new.zones ]
             /\ DOMAIN new.zones = DOMAIN doc.zones
             /\ ZonesInv(doc.zones) =>
                  \A n \in DOMAIN doc.zones :
                    new.zones[n] = WithLegs(doc.zones[n], doc.zones[n].circuit,
                                            LegGiven(doc.zones[n], l))
<1> DEFINE zs == [n \in DOMAIN doc.zones |->
                    IF doc.zones[n].id = l.zone THEN [doc.zones[n] EXCEPT !.control = l.leg]
                    ELSE doc.zones[n]]
<1>1. ASSUME NEW d, NEW zones,
             d = [ device |-> Device, seq |-> doc.seq, supersedes |-> doc.supersedes,
                   signer |-> doc.signer, zones |-> doc.zones ]
      PROVE  [d EXCEPT !.zones = zones]
               = [ device |-> Device, seq |-> doc.seq, supersedes |-> doc.supersedes,
                   signer |-> doc.signer, zones |-> zones ]
  BY <1>1
<1>2. doc = [ device |-> Device, seq |-> doc.seq, supersedes |-> doc.supersedes,
              signer |-> doc.signer, zones |-> doc.zones ]
  BY DEF DocInv
<1>3. Attached(doc, l) = [doc EXCEPT !.zones = zs]
  BY DEF Attached
<1>4. DOMAIN zs = DOMAIN doc.zones
  OBVIOUS
<1>5. ASSUME ZonesInv(doc.zones), NEW n \in DOMAIN doc.zones
      PROVE  zs[n] = WithLegs(doc.zones[n], doc.zones[n].circuit, LegGiven(doc.zones[n], l))
  <2> DEFINE z == doc.zones[n]
  <2>1. z = WithLegs(z, z.circuit, z.control)
    BY <1>5 DEF ZonesInv
  <2>2. ASSUME NEW v, v = WithLegs(z, z.circuit, z.control)
        PROVE  [v EXCEPT !.control = l.leg] = WithLegs(z, z.circuit, l.leg)
    BY <2>2 DEF WithLegs
  <2>3. [z EXCEPT !.control = l.leg] = WithLegs(z, z.circuit, l.leg)
    BY <2>1, <2>2
  <2>4. zs[n] = IF z.id = l.zone THEN [z EXCEPT !.control = l.leg] ELSE z
    OBVIOUS
  <2> HIDE DEF z, zs
  <2>5. zs[n] = WithLegs(z, z.circuit, LegGiven(z, l))
    BY <2>1, <2>3, <2>4 DEF LegGiven
  <2>6. QED
    BY <2>5 DEF z
<1> HIDE DEF zs
<1>6. Attached(doc, l) = [ device |-> Device, seq |-> doc.seq, supersedes |-> doc.supersedes,
                           signer |-> doc.signer, zones |-> zs ]
  BY <1>1, <1>2, <1>3
<1>7. Attached(doc, l).zones = zs
  BY <1>6
<1>8. QED
  BY <1>4, <1>5, <1>6, <1>7

\* A leg goes to a zone that awaited it, so the document stays one made from b.
LEMMA AttachedKeeps ==
  ASSUME NEW doc, NEW b, DocInv(doc, b), BindingInv(b), NEW l, Attachable(doc, l)
  PROVE  DocInv(Attached(doc, l), b)
<1> DEFINE new == Attached(doc, l)
<1>1. /\ new = [ device |-> Device, seq |-> doc.seq, supersedes |-> doc.supersedes,
                 signer |-> doc.signer, zones |-> new.zones ]
      /\ DOMAIN new.zones = DOMAIN doc.zones
  BY AttachedZones
<1> HIDE DEF new
<1>2. /\ new.seq = doc.seq /\ new.supersedes = doc.supersedes
      /\ new = [ device |-> Device, seq |-> new.seq, supersedes |-> new.supersedes,
                 signer |-> new.signer, zones |-> new.zones ]
  BY <1>1
<1>3. ASSUME doc.supersedes = b.seq
      PROVE  MadeFrom(new.zones, b)
  <2>1. MadeFrom(doc.zones, b)
    BY <1>3 DEF DocInv
  <2>2. \A n \in DOMAIN doc.zones :
          new.zones[n] = WithLegs(doc.zones[n], doc.zones[n].circuit, LegGiven(doc.zones[n], l))
    BY <2>1, AttachedZones DEF MadeFrom, new
  <2>3. ASSUME NEW n \in DOMAIN doc.zones
        PROVE  /\ new.zones[n] = WithLegs(new.zones[n], new.zones[n].circuit, new.zones[n].control)
               /\ new.zones[n].id = doc.zones[n].id /\ new.zones[n].line = doc.zones[n].line
               /\ new.zones[n].control = LegGiven(doc.zones[n], l)
               /\ doc.zones[n].id # l.zone => new.zones[n] = doc.zones[n]
    <3> DEFINE z == doc.zones[n]
               y == new.zones[n]
    <3>1. y = WithLegs(z, z.circuit, LegGiven(z, l)) /\ z = WithLegs(z, z.circuit, z.control)
      BY <2>1, <2>2 DEF MadeFrom, ZonesInv
    <3> HIDE DEF z, y
    <3>2. y.id = z.id /\ y.line = z.line /\ y.control = LegGiven(z, l) /\ y.circuit = z.circuit
      BY <3>1 DEF WithLegs
    <3>3. y = WithLegs(y, y.circuit, y.control)
      BY <3>1 DEF WithLegs
    <3>4. z.id # l.zone => y = z
      BY <3>1 DEF LegGiven
    <3>5. QED
      BY <3>2, <3>3, <3>4 DEF z, y
  <2>4. ZonesInv(new.zones)
    BY <1>1, <2>1, <2>3 DEF MadeFrom, ZonesInv
  <2>5. Awaits(new.zones, b)
    BY <1>1, <2>1, <2>3 DEF MadeFrom, Awaits, LegGiven, Attachable
  <2>6. ASSUME b.seq > 0
        PROVE  OneChanged(new.zones, b)
    <3>1. PICK n \in DOMAIN b.zones : \A m \in DOMAIN b.zones : m = n \/ doc.zones[m] = b.zones[m]
      BY <2>1, <2>6 DEF MadeFrom, OneChanged
    <3>2. DOMAIN doc.zones = DOMAIN b.zones
      BY <2>1, <2>6 DEF MadeFrom, OneChanged
    <3>3. \A m \in DOMAIN b.zones : b.zones[m].control # NoLeg
      BY <2>6 DEF BindingInv, InForceEligible, ClaimsControl
    <3>4. \A m \in DOMAIN b.zones : m = n \/ new.zones[m] = b.zones[m]
      BY <2>3, <3>1, <3>2, <3>3 DEF Attachable
    <3>5. QED
      BY <1>1, <3>2, <3>4 DEF OneChanged
  <2>7. QED
    BY <2>4, <2>5, <2>6 DEF MadeFrom
<1>4. DocInv(new, b)
  BY <1>2, <1>3 DEF DocInv
<1>5. QED
  BY <1>4 DEF new

-----------------------------------------------------------------------------
(***************************************************************************)
(* Every command keeps the invariant.                                      *)
(***************************************************************************)
\* What is signed.
LEMMA SignDocumentKeeps ==
  ASSUME CommInv, NEW i \in Installers, NEW doc, DocInv(doc, inForce), SignDocument(i, doc)
  PROVE  CommInv'
<1> DEFINE own == Owned(doc)
           env == [doc |-> own, signature |-> [by |-> Key, over |-> own]]
<1>1. DocInv(own, inForce) /\ own.signer = Key
  BY OwnedKeeps
<1> HIDE DEF own
<1>2. SignatureStage(env) = "pass" /\ env.doc = own
  BY <1>1 DEF SignatureStage
<1>3. /\ envelope' = [envelope EXCEPT ![i] = [env |-> env, inv |-> draft[i].inv]]
      /\ UNCHANGED <<device, clock, ceremony, draft, leg>>
  BY DEF SignDocument, own
<1> HIDE DEF env
<1>4. \A j \in Installers : PapersInv(draft'[j], leg'[j], envelope'[j], inForce')
  BY <1>1, <1>2, <1>3 DEF CommInv, DeskInv, PapersInv, device
<1>5. QED
  BY <1>3, <1>4 DEF CommInv, DeskInv, device

\* What a ceremony writes: a document numbered after the binding it read.
LEMMA DocumentIs ==
  ASSUME NEW c, NEW b, NEW zones, CeremonyInv(c, b), c.reported.seq = b.seq => MadeFrom(zones, b)
  PROVE  /\ DocInv(Document(c, zones), b) /\ Document(c, zones).signer = NoKey
         /\ Document(c, zones).zones = zones /\ Document(c, zones).supersedes = c.reported.seq
<1> DEFINE doc == Document(c, zones)
<1>1. doc = [ device |-> Device, seq |-> c.reported.seq + 1, supersedes |-> c.reported.seq,
              signer |-> NoKey, zones |-> zones ]
  BY DEF Document
<1> HIDE DEF doc
<1>2. /\ doc.seq = c.reported.seq + 1 /\ doc.supersedes = c.reported.seq
      /\ doc.signer = NoKey /\ doc.zones = zones
      /\ doc = [ device |-> Device, seq |-> doc.seq, supersedes |-> doc.supersedes,
                 signer |-> doc.signer, zones |-> doc.zones ]
  BY <1>1
<1>3. DocInv(doc, b)
  BY <1>2 DEF DocInv, CeremonyInv
<1>4. QED
  BY <1>2, <1>3 DEF doc

\* Writing it.
LEMMA WriteKeeps ==
  ASSUME CommInv, NEW i \in Installers, NEW doc, DocInv(doc, inForce), doc.signer = NoKey,
         clock < MaxClock, Write(i, doc)
  PROVE  CommInv'
<1> DEFINE new == [doc |-> doc, inv |-> ceremony[i].inv]
<1>1. /\ draft' = [draft EXCEPT ![i] = new] /\ ceremony' = [ceremony EXCEPT ![i] = None]
      /\ clock' = clock + 1
      /\ UNCHANGED <<device, leg, envelope>>
  BY DEF Write
<1>2. new.doc = doc
  OBVIOUS
<1> HIDE DEF new
<1>3. \A j \in Installers : PapersInv(draft'[j], leg'[j], envelope'[j], inForce')
  BY <1>1, <1>2 DEF CommInv, DeskInv, PapersInv, device
<1>4. \A j \in Installers : ceremony'[j] # None => CeremonyInv(ceremony'[j], inForce')
  BY <1>1 DEF CommInv, DeskInv, device
<1>5. clock' \in 0 .. MaxClock /\ \A a \in attempts : a.at < clock'
  BY <1>1, CommissioningAssumption DEF CommInv
<1>6. QED
  BY <1>1, <1>3, <1>4, <1>5 DEF CommInv, DeskInv, device

\* A first binding of one zone is a document like any other.
LEMMA CapturedZones ==
  ASSUME NEW b, BindingInv(b), b.seq = 0, NEW z, NEW circuit, NEW control
  PROVE  MadeFrom(<<WithLegs(z, circuit, control)>>, b)
<1> DEFINE y == WithLegs(z, circuit, control)
<1>1. y = WithLegs(y, y.circuit, y.control)
  BY DEF WithLegs
<1> HIDE DEF y
<1>2. ZonesInv(<<y>>)
  BY <1>1 DEF ZonesInv
<1>3. Driven(b) = {}
  BY DEF Driven, BindingInv
<1>4. QED
  BY <1>2, <1>3 DEF MadeFrom, Awaits, y

\* A revised zone keeps its name; where it has no control leg, it is on a line
\* that nothing in force drives, unless it was read without one.
LEMMA RevisedZone ==
  ASSUME NEW c, NEW was, NEW f, NEW replaced \in BOOLEAN, Revisable(c, was, f, replaced),
         NEW z \in Revised(c, was, f, replaced)
  PROVE  /\ z = WithLegs(z, z.circuit, z.control) /\ z.id = was.id
         /\ z.control = NoLeg => was.control = NoLeg \/ z.line \notin Driven(c.reported)
<1> DEFINE now == Zone(was.id, f)
<1>1. now.id = was.id /\ now.line = f.line
  BY DEF Zone, Revisable, KindOf, IdentityFrom
<1>2. CASE NeedsProof(was, now, replaced)
  <2>1. PICK circuit \in CapturedLegs(now, was.circuit.at) : z = WithLegs(now, circuit, NoLeg)
    BY <1>2 DEF Revised
  <2>2. f.line \notin Driven(c.reported)
    BY <1>2 DEF Revisable, Provable
  <2> HIDE DEF now
  <2>3. QED
    BY <1>1, <2>1, <2>2 DEF WithLegs
<1>3. CASE ~NeedsProof(was, now, replaced)
  <2>1. z = WithLegs(now, was.circuit, was.control)
    BY <1>3 DEF Revised
  <2> HIDE DEF now
  <2>2. QED
    BY <1>1, <2>1 DEF WithLegs
<1>4. QED
  BY <1>2, <1>3

\* A revision of the binding in force is made from it.
LEMMA RevisedZones ==
  ASSUME NEW c, NEW b, BindingInv(b), b.seq > 0, c.reported = b, NEW n \in DOMAIN b.zones,
         NEW f, NEW replaced \in BOOLEAN, Revisable(c, b.zones[n], f, replaced),
         NEW z \in Revised(c, b.zones[n], f, replaced)
  PROVE  MadeFrom([b.zones EXCEPT ![n] = z], b)
<1> DEFINE zones == [b.zones EXCEPT ![n] = z]
<1>1. /\ z = WithLegs(z, z.circuit, z.control) /\ z.id = b.zones[n].id
      /\ z.control = NoLeg => b.zones[n].control = NoLeg \/ z.line \notin Driven(b)
  BY RevisedZone
<1>2. DOMAIN zones = DOMAIN b.zones
  OBVIOUS
<1>3. \A m \in DOMAIN b.zones : zones[m] = IF m = n THEN z ELSE b.zones[m]
  OBVIOUS
<1> HIDE DEF zones
<1>4. \A m \in DOMAIN b.zones : b.zones[m].control # NoLeg
  BY DEF BindingInv, InForceEligible, ClaimsControl
<1>5. ZonesInv(zones)
  BY <1>1, <1>2, <1>3 DEF ZonesInv, BindingInv
<1>6. Awaits(zones, b)
  BY <1>1, <1>2, <1>3, <1>4 DEF Awaits
<1>7. OneChanged(zones, b)
  BY <1>2, <1>3 DEF OneChanged
<1>8. QED
  BY <1>5, <1>6, <1>7 DEF MadeFrom, zones

\* Capturing a first binding.
LEMMA CaptureKeeps ==
  ASSUME CommInv, NEW i \in Installers, Capture(i)
  PROVE  CommInv'
<1> DEFINE c == ceremony[i]
<1>1. c # None /\ c.reported.seq = 0 /\ clock < MaxClock
  BY DEF Capture
<1>2. PICK f \in Facts : \E circuit \in CapturedLegs(Zone("feeder", f), 0) :
        Write(i, Document(c, <<WithLegs(Zone("feeder", f), circuit, NoLeg)>>))
  BY DEF Capture
<1>3. PICK circuit :
        Write(i, Document(c, <<WithLegs(Zone("feeder", f), circuit, NoLeg)>>))
  BY <1>2
<1> DEFINE zones == <<WithLegs(Zone("feeder", f), circuit, NoLeg)>>
<1>4. CeremonyInv(c, inForce) /\ BindingInv(inForce)
  BY <1>1 DEF CommInv, DeskInv
<1>5. c.reported.seq = inForce.seq => MadeFrom(zones, inForce)
  BY <1>1, <1>4, CapturedZones
<1> HIDE DEF c, zones
<1>6. DocInv(Document(c, zones), inForce) /\ Document(c, zones).signer = NoKey
  BY <1>4, <1>5, DocumentIs
<1>7. QED
  BY <1>1, <1>3, <1>6, WriteKeeps DEF c, zones

\* Revising a binding.
LEMMA ReviseKeeps ==
  ASSUME CommInv, NEW i \in Installers, Revise(i)
  PROVE  CommInv'
<1> DEFINE c == ceremony[i]
<1>1. c # None /\ c.reported.seq > 0 /\ clock < MaxClock
  BY DEF Revise
<1>2. PICK n \in DOMAIN c.reported.zones, f \in Facts, replaced \in BOOLEAN :
        /\ Revisable(c, c.reported.zones[n], f, replaced)
        /\ \E z \in Revised(c, c.reported.zones[n], f, replaced) :
             Write(i, Document(c, [c.reported.zones EXCEPT ![n] = z]))
  BY DEF Revise
<1>3. PICK z \in Revised(c, c.reported.zones[n], f, replaced) :
        Write(i, Document(c, [c.reported.zones EXCEPT ![n] = z]))
  BY <1>2
<1> DEFINE zones == [c.reported.zones EXCEPT ![n] = z]
<1>4. CeremonyInv(c, inForce) /\ BindingInv(inForce)
  BY <1>1 DEF CommInv, DeskInv
<1> HIDE DEF c
<1>5. ASSUME c.reported.seq = inForce.seq
      PROVE  MadeFrom(zones, inForce)
  <2>1. c.reported = inForce /\ inForce.seq > 0
    BY <1>1, <1>4, <1>5 DEF CeremonyInv
  <2>2. QED
    BY <1>2, <1>4, <2>1, RevisedZones
<1> HIDE DEF zones
<1>6. DocInv(Document(c, zones), inForce) /\ Document(c, zones).signer = NoKey
  BY <1>4, <1>5, DocumentIs
<1>7. QED
  BY <1>1, <1>3, <1>6, WriteKeeps DEF c, zones

\* What is delivered with success was made from the binding in force.
LEMMA DeliverAccepts ==
  ASSUME CommInv, NEW i \in Installers, Deliver(i)
  PROVE  LET doc == envelope[i].env.doc
         IN  /\ envelope[i] # None /\ DocInv(doc, inForce)
             /\ doc.supersedes = inForce.seq /\ MadeFrom(doc.zones, inForce)
             /\ doc.seq = inForce.seq + 1 /\ doc.seq \in 1 .. MaxBindings
             /\ Signed(envelope[i].env, Context) /\ SoundOn(doc, Context)
<1> DEFINE doc == envelope[i].env.doc
<1>1. envelope[i] # None /\ VerifyEnvelope(envelope[i].env, Context) = "pass"
  BY DEF Deliver
<1>2. DocInv(doc, inForce)
  BY <1>1 DEF CommInv, DeskInv, PapersInv
<1>3. Signed(envelope[i].env, Context) /\ SoundOn(doc, Context)
  BY <1>1, VerifyEnvelopeAsks
<1>4. doc.supersedes = inForce.seq
  BY <1>3 DEF Signed, Freshness, Context
<1> HIDE DEF doc
<1>5. MaxBindings \in Nat
  BY CommissioningAssumption
<1>6. /\ doc.seq = inForce.seq + 1 /\ doc.seq \in 1 .. MaxBindings
      /\ MadeFrom(doc.zones, inForce)
  BY <1>2, <1>4, <1>5 DEF DocInv, CommInv, BindingInv
<1>7. QED
  BY <1>1, <1>2, <1>3, <1>4, <1>6 DEF doc

\* What was made from an earlier binding stays what it was.
LEMMA OlderDocument ==
  ASSUME NEW doc, NEW b, NEW n, BindingInv(b), n.seq = b.seq + 1, DocInv(doc, b)
  PROVE  DocInv(doc, n)
  BY DEF DocInv, BindingInv

\* A delivery.
LEMMA DeliverKeeps ==
  ASSUME CommInv, NEW i \in Installers, Deliver(i)
  PROVE  CommInv'
<1> DEFINE doc == envelope[i].env.doc
<1>1. /\ MadeFrom(doc.zones, inForce)
      /\ doc.seq = inForce.seq + 1 /\ doc.seq \in 1 .. MaxBindings
  BY DeliverAccepts
<1>2. UNCHANGED <<declared, clock, ceremony, draft, leg, envelope>>
  BY DEF Deliver, papers
<1>3. CASE InForceEligible(doc)
  <2>1. inForce' = doc /\ staged' = None /\ attempts' = {}
    BY <1>3 DEF Deliver
  <2> HIDE DEF doc
  <2>2. BindingInv(inForce')
    BY <1>1, <1>3, <2>1 DEF BindingInv, MadeFrom
  <2>3. \A j \in Installers : ceremony[j] # None => CeremonyInv(ceremony[j], inForce')
    BY <1>1, <2>1 DEF CommInv, DeskInv, CeremonyInv, BindingInv
  <2>4. \A j \in Installers : PapersInv(draft[j], leg[j], envelope[j], inForce')
    BY <1>1, <2>1, OlderDocument DEF CommInv, DeskInv, PapersInv
  <2>5. QED
    BY <1>2, <2>1, <2>2, <2>3, <2>4 DEF CommInv, DeskInv
<1>4. CASE ~InForceEligible(doc)
  <2>1. inForce' = inForce /\ staged' = doc /\ attempts' = {}
    BY <1>4 DEF Deliver
  <2> HIDE DEF doc
  <2>2. StagedInv(staged', inForce')
    BY <1>1, <1>4, <2>1 DEF StagedInv, MadeFrom
  <2>3. QED
    BY <1>2, <2>1, <2>2 DEF CommInv, DeskInv
<1>5. QED
  BY <1>3, <1>4

\* Reading the inventory, loading the prior and giving up.
LEMMA CeremonyKeeps ==
  ASSUME CommInv, NEW i \in Installers,
         ReadInventory(i) \/ GiveUp(i) \/ (\E fromFile \in BOOLEAN : LoadPrior(i, fromFile))
  PROVE  CommInv'
<1> DEFINE c == ceremony[i]
<1>1. /\ UNCHANGED <<inForce, staged, attempts, clock, draft, leg, envelope>>
      /\ \A j \in Installers : j # i => ceremony'[j] = ceremony[j]
      /\ DOMAIN ceremony' = Installers
  BY DEF ReadInventory, GiveUp, LoadPrior, device, papers, CommInv, DeskInv
<1>2. ceremony'[i] # None => CeremonyInv(ceremony'[i], inForce)
  <2>1. CASE ReadInventory(i)
    <3>1. /\ inForce.seq < MaxBindings
          /\ ceremony'[i] = [inv |-> declared, reported |-> inForce, loaded |-> inForce.seq = 0]
      BY <2>1 DEF ReadInventory, CommInv, DeskInv
    <3>2. QED
      BY <3>1, CommissioningAssumption DEF CeremonyInv, CommInv, BindingInv
  <2>2. CASE GiveUp(i)
    BY <2>2 DEF GiveUp, CommInv, DeskInv
  <2>3. CASE \E fromFile \in BOOLEAN : LoadPrior(i, fromFile)
    <3>1. PICK fromFile \in BOOLEAN : LoadPrior(i, fromFile)
      BY <2>3
    <3>2. c # None /\ CeremonyInv(c, inForce)
      BY <3>1 DEF LoadPrior, CommInv, DeskInv
    <3>3. \/ ceremony'[i] = [c EXCEPT !.loaded = TRUE]
          \/ AgreesWithReport(c) /\ ceremony'[i] = [c EXCEPT !.loaded = TRUE, !.reported = inForce]
          \/ ceremony'[i] = None
      BY <3>1 DEF LoadPrior, CommInv, DeskInv
    <3> HIDE DEF c
    <3>4. c = [inv |-> c.inv, reported |-> c.reported, loaded |-> c.loaded]
      BY <3>2 DEF CeremonyInv
    <3>5. ASSUME NEW d, NEW x, d = [inv |-> c.inv, reported |-> c.reported, loaded |-> c.loaded]
          PROVE  [d EXCEPT !.loaded = x] = [inv |-> c.inv, reported |-> c.reported, loaded |-> x]
      BY <3>5
    <3>6. AgreesWithReport(c) => c.reported = inForce
      BY <3>2 DEF AgreesWithReport, CeremonyInv
    <3>7. ASSUME NEW d, NEW x, d = [inv |-> c.inv, reported |-> c.reported, loaded |-> x]
          PROVE  [d EXCEPT !.reported = c.reported] = d
      BY <3>7
    <3>8. [c EXCEPT !.loaded = TRUE, !.reported = inForce]
            = [[c EXCEPT !.loaded = TRUE] EXCEPT !.reported = inForce]
      OBVIOUS
    <3>9. [c EXCEPT !.loaded = TRUE] = [inv |-> c.inv, reported |-> c.reported, loaded |-> TRUE]
      BY <3>4, <3>5
    <3>10. \/ ceremony'[i] = [inv |-> c.inv, reported |-> c.reported, loaded |-> TRUE]
          \/ ceremony'[i] = None
      BY <3>3, <3>6, <3>7, <3>8, <3>9
    <3>11. QED
      BY <3>2, <3>10 DEF CeremonyInv
  <2>4. QED
    BY <2>1, <2>2, <2>3
<1>3. \A j \in Installers : ceremony'[j] # None => CeremonyInv(ceremony'[j], inForce)
  BY <1>1, <1>2 DEF CommInv, DeskInv
<1>4. QED
  BY <1>1, <1>3 DEF CommInv, DeskInv

\* Where the invariant starts.
LEMMA InitCommInv == Init => CommInv
<1> SUFFICES ASSUME Init PROVE CommInv
  OBVIOUS
<1>1. PICK b \in FirstBindings : inForce = b.binding
  BY DEF Init
<1>2. BindingInv(inForce)
  <2>1. CASE b.binding = NoBinding
    <3>1. inForce.seq = 0 /\ inForce.zones = <<>>
      BY <1>1, <2>1 DEF NoBinding
    <3>2. ZonesInv(<<>>)
      BY DEF ZonesInv
    <3>3. QED
      BY <3>1, <3>2, CommissioningAssumption DEF BindingInv
  <2>2. CASE b.binding # NoBinding
    <3>1. /\ inForce.seq \in 1 .. MaxBindings /\ InForceEligible(inForce)
          /\ DOMAIN inForce.zones \subseteq Nat
          /\ \A n \in DOMAIN inForce.zones :
               /\ inForce.zones[n] = WithLegs(inForce.zones[n], inForce.zones[n].circuit,
                                              inForce.zones[n].control)
               /\ \A m \in DOMAIN inForce.zones :
                    inForce.zones[m].id = inForce.zones[n].id => m = n
      BY <1>1, <2>2, FirstBindingsAssumption
    <3>2. QED
      BY <3>1 DEF BindingInv, ZonesInv
  <2>3. QED
    BY <2>1, <2>2
<1>3. clock \in 0 .. MaxClock
  BY ClockAssumption, CommissioningAssumption DEF Init, FirstClock
<1>4. QED
  BY <1>2, <1>3 DEF Init, CommInv, DeskInv, PapersInv

\* Every step keeps the invariant.
LEMMA StepCommInv == CommInv /\ [Next]_vars => CommInv'
<1> SUFFICES ASSUME CommInv, [Next]_vars PROVE CommInv'
  OBVIOUS
<1>1. ASSUME NEW i \in Installers,
             ReadInventory(i) \/ GiveUp(i) \/ (\E fromFile \in BOOLEAN : LoadPrior(i, fromFile))
      PROVE  CommInv'
  BY <1>1, CeremonyKeeps
<1>2. ASSUME NEW i \in Installers, Capture(i) \/ Revise(i)
      PROVE  CommInv'
  BY <1>2, CaptureKeeps, ReviseKeeps
<1>3. ASSUME NEW i \in Installers, Sign(i)
      PROVE  CommInv'
  <2>1. DocInv(draft[i].doc, inForce) /\ SignDocument(i, draft[i].doc)
    BY <1>3 DEF Sign, CommInv, DeskInv, PapersInv
  <2>2. QED
    BY <2>1, SignDocumentKeeps
<1>4. ASSUME NEW i \in Installers, SignWithLeg(i)
      PROVE  CommInv'
  <2>1. /\ DocInv(draft[i].doc, inForce) /\ Attachable(draft[i].doc, leg[i])
        /\ SignDocument(i, Attached(draft[i].doc, leg[i])) /\ BindingInv(inForce)
    BY <1>4 DEF SignWithLeg, CommInv, DeskInv, PapersInv
  <2>2. DocInv(Attached(draft[i].doc, leg[i]), inForce)
    BY <2>1, AttachedKeeps
  <2>3. QED
    BY <2>1, <2>2, SignDocumentKeeps
<1>5. ASSUME NEW i \in Installers, Deliver(i)
      PROVE  CommInv'
  BY <1>5, DeliverKeeps
<1>6. ASSUME NEW i \in Installers, Export(i)
      PROVE  CommInv'
  <2>1. PICK l : /\ leg' = [leg EXCEPT ![i] = l]
                 /\ l.leg.method = "commanded_and_observed"
    <3>1. PICK n \in DOMAIN staged.zones, last \in attempts :
            leg' = [leg EXCEPT ![i] = [ zone |-> staged.zones[n].id,
                                        leg |-> ControlLegOf(staged.zones[n], last.at),
                                        of |-> staged.zones ]]
      BY <1>6 DEF Export
    <3> DEFINE l == [ zone |-> staged.zones[n].id, leg |-> ControlLegOf(staged.zones[n], last.at),
                      of |-> staged.zones ]
    <3>2. leg' = [leg EXCEPT ![i] = l] /\ l.leg.method = "commanded_and_observed"
      BY <3>1 DEF ControlLegOf
    <3> HIDE DEF l
    <3>3. QED
      BY <3>2
  <2>2. UNCHANGED <<inForce, staged, attempts, clock, ceremony, draft, envelope>>
    BY <1>6 DEF Export, device
  <2>3. \A j \in Installers : PapersInv(draft'[j], leg'[j], envelope'[j], inForce')
    BY <2>1, <2>2 DEF CommInv, DeskInv, PapersInv
  <2>4. QED
    BY <2>1, <2>2, <2>3 DEF CommInv, DeskInv
<1>7. ASSUME NEW outcome \in Outcomes, Prove(outcome)
      PROVE  CommInv'
  <2>1. /\ clock < MaxClock /\ clock' = clock + 1
        /\ UNCHANGED <<inForce, staged, ceremony, draft, leg, envelope>>
        /\ \E n \in DOMAIN staged.zones :
             attempts' = attempts \cup {[zone |-> staged.zones[n].id, outcome |-> outcome, at |-> clock]}
    BY <1>7 DEF Prove, papers
  <2>2. clock' \in 0 .. MaxClock /\ clock \in 0 .. MaxClock /\ clock < clock'
    BY <2>1, CommissioningAssumption DEF CommInv
  <2>3. \A a \in attempts' : a.outcome \in Outcomes /\ a.at \in 0 .. MaxClock /\ a.at < clock'
    BY <2>1, <2>2 DEF CommInv
  <2>4. QED
    BY <2>1, <2>2, <2>3 DEF CommInv, DeskInv
<1>8. CASE Rewire
  BY <1>8 DEF Rewire, papers, CommInv, DeskInv
<1>9. CASE UNCHANGED vars
  BY <1>9 DEF vars, device, papers, CommInv, DeskInv
<1>10. QED
  BY <1>1, <1>2, <1>3, <1>4, <1>5, <1>6, <1>7, <1>8, <1>9 DEF Next

\* The invariant holds of every way installers commission a device.
THEOREM CommInvariance == Spec => []CommInv
<1>1. QED
  BY InitCommInv, StepCommInv, PTL DEF Spec

-----------------------------------------------------------------------------
(***************************************************************************)
(* What holds whoever attaches which leg.                                  *)
(***************************************************************************)
\* The type invariant: a binding comes into force only when it is eligible and
\* is staged only when it is not, a draft is numbered after the binding it was
\* made from, and an envelope's signature covers what it holds.
THEOREM CommissioningTypeCorrect == Spec => []TypeOK
<1>1. CommInv => TypeOK
  <2> SUFFICES ASSUME CommInv PROVE TypeOK
    OBVIOUS
  <2>1. MaxBindings \in Nat
    BY CommissioningAssumption
  <2>2. ASSUME NEW i \in Installers
        PROVE  /\ ceremony[i] # None => ceremony[i].reported.seq \in 0 .. MaxBindings - 1
               /\ draft[i] # None => draft[i].doc.seq \in 1 .. MaxBindings /\ draft[i].doc.signer = NoKey
               /\ leg[i] # None => leg[i].leg.method = "commanded_and_observed"
               /\ envelope[i] # None => SignatureStage(envelope[i].env) = "pass"
    <3>1. ceremony[i] # None => ceremony[i].reported.seq \in 0 .. MaxBindings - 1
      BY DEF CommInv, DeskInv, CeremonyInv
    <3>2. PapersInv(draft[i], leg[i], envelope[i], inForce)
      BY DEF CommInv, DeskInv
    <3>3. ASSUME NEW doc, DocInv(doc, inForce) PROVE doc.seq \in 1 .. MaxBindings
      BY <2>1, <3>3 DEF DocInv
    <3>4. QED
      BY <3>1, <3>2, <3>3 DEF PapersInv
  <2>3. QED
    BY <2>2 DEF CommInv, BindingInv, StagedInv, TypeOK
<1>2. QED
  BY <1>1, CommInvariance, PTL

\* Each leg a provisional binding waits for can be proven: its line is one that
\* nothing in force drives, whatever others deliver, because a document made
\* from another binding than the one in force is refused, and a binding that
\* comes into force takes the provisional one with it.
THEOREM StagedIsProvable == Spec => []StagedCanBeProven
<1>1. CommInv => StagedCanBeProven
  BY DEF CommInv, StagedInv, Awaits, StagedCanBeProven
<1>2. QED
  BY <1>1, CommInvariance, PTL

\* Nothing but a delivery changes what is in force.
LEMMA OnlyDeliveriesActivate ==
  ASSUME [Next]_vars, inForce' # inForce
  PROVE  \E i \in Installers : Deliver(i)
<1>1. ~UNCHANGED vars /\ Next
  BY DEF vars, device
<1>2. ASSUME NEW i \in Installers, ReadInventory(i) \/ GiveUp(i) \/ Export(i)
      PROVE  FALSE
  BY <1>2 DEF ReadInventory, GiveUp, Export, device
<1>3. ASSUME NEW i \in Installers, NEW fromFile \in BOOLEAN, LoadPrior(i, fromFile)
      PROVE  FALSE
  BY <1>3 DEF LoadPrior, device
<1>4. ASSUME NEW i \in Installers, Capture(i) \/ Revise(i)
      PROVE  FALSE
  BY <1>4 DEF Capture, Revise, Write, device
<1>5. ASSUME NEW i \in Installers, Sign(i) \/ SignWithLeg(i)
      PROVE  FALSE
  BY <1>5 DEF Sign, SignWithLeg, SignDocument, device
<1>6. ASSUME (\E outcome \in Outcomes : Prove(outcome)) \/ Rewire
      PROVE  FALSE
  BY <1>6 DEF Prove, Rewire
<1>7. QED
  BY <1>1, <1>2, <1>3, <1>4, <1>5, <1>6 DEF Next

\* Installers who revise at the same time do not undo each other: what comes
\* into force over a binding differs from it in one zone.
THEOREM OneRevision == Spec => OneRevisionAtATime
<1>1. ASSUME CommInv, [Next]_vars, inForce' # inForce, inForce.seq > 0
      PROVE  \E n \in DOMAIN inForce.zones :
               \A m \in DOMAIN inForce.zones : m = n \/ inForce'.zones[m] = inForce.zones[m]
  <2>1. PICK i \in Installers : Deliver(i)
    BY <1>1, OnlyDeliveriesActivate
  <2>2. inForce' = envelope[i].env.doc
    BY <1>1, <2>1 DEF Deliver
  <2>3. MadeFrom(envelope[i].env.doc.zones, inForce)
    BY <1>1, <2>1, DeliverAccepts
  <2>4. QED
    BY <1>1, <2>2, <2>3 DEF MadeFrom, OneChanged
<1>2. CommInv /\ [Next]_vars =>
        [inForce' # inForce /\ inForce.seq > 0 =>
           \E n \in DOMAIN inForce.zones :
             \A m \in DOMAIN inForce.zones : m = n \/ inForce'.zones[m] = inForce.zones[m]]_vars
  BY <1>1
<1>3. QED
  BY <1>2, CommInvariance, PTL DEF Spec, OneRevisionAtATime

-----------------------------------------------------------------------------
(***************************************************************************)
(* Legs and hardware, where a leg is attached only to the document it was  *)
(* proven for.                                                             *)
(***************************************************************************)
\* Attaching the leg of a document's own zone.
LEMMA AttachedMatches ==
  ASSUME NEW doc, NEW b, DocInv(doc, b), ZonesInv(doc.zones), Matches(doc.zones),
         NEW l, l.of = doc.zones, LegMatches(l)
  PROVE  Matches(Attached(doc, l).zones)
<1> DEFINE new == Attached(doc, l)
<1>1. PICK n \in DOMAIN doc.zones : doc.zones[n].id = l.zone /\ l.leg.on = Hardware(doc.zones[n])
  BY DEF LegMatches
<1>2. /\ DOMAIN new.zones = DOMAIN doc.zones
      /\ \A m \in DOMAIN doc.zones :
           new.zones[m] = WithLegs(doc.zones[m], doc.zones[m].circuit, LegGiven(doc.zones[m], l))
  BY AttachedZones
<1> HIDE DEF new
<1>3. ASSUME NEW m \in DOMAIN new.zones
      PROVE  /\ new.zones[m].circuit.on = Hardware(new.zones[m])
             /\ new.zones[m].control # NoLeg => new.zones[m].control.on = Hardware(new.zones[m])
  <2> DEFINE z == doc.zones[m]
             y == new.zones[m]
  <2>1. y = WithLegs(z, z.circuit, LegGiven(z, l))
    BY <1>2
  <2>2. z.id = l.zone => l.leg.on = Hardware(z)
    BY <1>1, <1>2 DEF ZonesInv
  <2>3. z.circuit.on = Hardware(z) /\ (z.control # NoLeg => z.control.on = Hardware(z))
    BY <1>2 DEF Matches
  <2> HIDE DEF z, y
  <2>4. y.circuit = z.circuit /\ y.control = LegGiven(z, l) /\ Hardware(y) = Hardware(z)
    BY <2>1 DEF WithLegs, Hardware
  <2>5. QED
    BY <2>2, <2>3, <2>4 DEF LegGiven, y
<1>4. QED
  BY <1>3 DEF Matches, new

\* A fresh circuit leg is of the hardware it was captured on.
LEMMA CapturedOn ==
  ASSUME NEW z, NEW t, NEW circuit \in CapturedLegs(z, t)
  PROVE  circuit.on = Hardware(z)
<1>1. \/ circuit = [method |-> "undemonstrated", at |-> clock, seen |-> {}, on |-> Hardware(z)]
      \/ \E s : circuit = CircuitLeg(z, s)
  BY DEF CapturedLegs
<1>2. CASE circuit = [method |-> "undemonstrated", at |-> clock, seen |-> {}, on |-> Hardware(z)]
  BY <1>2
<1>3. CASE \E s : circuit = CircuitLeg(z, s)
  BY <1>3 DEF CircuitLeg
<1>4. QED
  BY <1>1, <1>2, <1>3

\* A zone with other legs is on the hardware it was on.
LEMMA SameHardware ==
  ASSUME NEW z, NEW circuit, NEW control
  PROVE  /\ Hardware(WithLegs(z, circuit, control)) = Hardware(z)
         /\ WithLegs(z, circuit, control).circuit = circuit
         /\ WithLegs(z, circuit, control).control = control
  BY DEF WithLegs, Hardware

\* A revised zone keeps its legs or has a fresh one.
LEMMA RevisedMatches ==
  ASSUME NEW c, NEW was, NEW f, NEW replaced \in BOOLEAN, NEW z \in Revised(c, was, f, replaced),
         was.circuit.on = Hardware(was), was.control # NoLeg => was.control.on = Hardware(was)
  PROVE  z.circuit.on = Hardware(z) /\ (z.control # NoLeg => z.control.on = Hardware(z))
<1> DEFINE now == Zone(was.id, f)
<1>1. CASE NeedsProof(was, now, replaced)
  <2>1. PICK circuit \in CapturedLegs(now, was.circuit.at) : z = WithLegs(now, circuit, NoLeg)
    BY <1>1 DEF Revised
  <2> HIDE DEF now
  <2>2. QED
    BY <2>1, CapturedOn, SameHardware
<1>2. CASE ~NeedsProof(was, now, replaced)
  <2>1. z = WithLegs(now, was.circuit, was.control) /\ Hardware(was) = Hardware(now)
    BY <1>2 DEF Revised, NeedsProof
  <2> HIDE DEF now
  <2>2. QED
    BY <2>1, SameHardware
<1>3. QED
  BY <1>1, <1>2

\* Where the match starts.
LEMMA InitMatchInv == Init => MatchInv
<1> SUFFICES ASSUME Init PROVE MatchInv
  OBVIOUS
<1>1. PICK b \in FirstBindings : inForce = b.binding
  BY DEF Init
<1>2. Matches(inForce.zones)
  <2>1. CASE b.binding = NoBinding
    BY <1>1, <2>1 DEF NoBinding, Matches
  <2>2. CASE b.binding # NoBinding
    <3>1. \A n \in DOMAIN inForce.zones :
            LET z == inForce.zones[n]
            IN  /\ \E t \in 0 .. FirstClock - 1 : z.circuit = CircuitLeg(z, t)
                /\ \E t \in 0 .. FirstClock - 1 : z.control = ControlLegOf(z, t)
      BY <1>1, <2>2, FirstBindingsAssumption
    <3>2. ASSUME NEW n \in DOMAIN inForce.zones
          PROVE  /\ inForce.zones[n].circuit.on = Hardware(inForce.zones[n])
                 /\ inForce.zones[n].control.on = Hardware(inForce.zones[n])
      <4> DEFINE z == inForce.zones[n]
      <4>1. PICK t : z.circuit = CircuitLeg(z, t)
        BY <3>1
      <4>2. PICK u : z.control = ControlLegOf(z, u)
        BY <3>1
      <4> HIDE DEF z
      <4>3. z.circuit.on = Hardware(z) /\ z.control.on = Hardware(z)
        BY <4>1, <4>2 DEF CircuitLeg, ControlLegOf
      <4>4. QED
        BY <4>3 DEF z
    <3>3. QED
      BY <3>2 DEF Matches
  <2>3. QED
    BY <2>1, <2>2
<1>3. QED
  BY <1>2 DEF Init, MatchInv

\* Signing a document of the binding in force whose legs match.
LEMMA SignMatches ==
  ASSUME MatchInv, NEW i \in Installers, NEW doc, DocInv(doc, inForce), SignDocument(i, doc),
         DOMAIN envelope = Installers,
         doc.supersedes = inForce.seq => Matches(doc.zones)
  PROVE  MatchInv'
<1> DEFINE own == Owned(doc)
           signed == [env |-> [doc |-> own, signature |-> [by |-> Key, over |-> own]],
                      inv |-> draft[i].inv]
<1>1. own.supersedes = doc.supersedes /\ own.zones = doc.zones
  BY OwnedKeeps
<1>2. /\ envelope' = [envelope EXCEPT ![i] = signed]
      /\ UNCHANGED <<inForce, staged, draft, leg>>
  BY DEF SignDocument, device
<1>3. signed.env.doc = own
  OBVIOUS
<1> HIDE DEF own, signed
<1>4. QED
  BY <1>1, <1>2, <1>3 DEF MatchInv

\* Writing one.
LEMMA WriteMatches ==
  ASSUME MatchInv, NEW i \in Installers, NEW doc, Write(i, doc), DOMAIN draft = Installers,
         doc.supersedes = inForce.seq => Matches(doc.zones)
  PROVE  MatchInv'
<1> DEFINE new == [doc |-> doc, inv |-> ceremony[i].inv]
<1>1. draft' = [draft EXCEPT ![i] = new] /\ UNCHANGED <<inForce, staged, leg, envelope>>
  BY DEF Write, device
<1>2. new.doc = doc
  OBVIOUS
<1> HIDE DEF new
<1>3. QED
  BY <1>1, <1>2 DEF MatchInv

\* Every step keeps the match.
LEMMA StepMatchInv ==
  ASSUME Careful
  PROVE  CommInv /\ MatchInv /\ [Next]_vars => MatchInv'
<1> SUFFICES ASSUME CommInv, MatchInv, [Next]_vars PROVE MatchInv'
  OBVIOUS
<1>1. DOMAIN draft = Installers /\ DOMAIN leg = Installers /\ DOMAIN envelope = Installers
  BY DEF CommInv, DeskInv
<1>2. ASSUME UNCHANGED <<inForce, staged, draft, leg, envelope>>
      PROVE  MatchInv'
  BY <1>2 DEF MatchInv
<1>3. ASSUME NEW i \in Installers, Capture(i)
      PROVE  MatchInv'
  <2> DEFINE c == ceremony[i]
  <2>1. PICK f \in Facts : \E circuit \in CapturedLegs(Zone("feeder", f), 0) :
          Write(i, Document(c, <<WithLegs(Zone("feeder", f), circuit, NoLeg)>>))
    BY <1>3 DEF Capture
  <2>2. PICK circuit \in CapturedLegs(Zone("feeder", f), 0) :
          Write(i, Document(c, <<WithLegs(Zone("feeder", f), circuit, NoLeg)>>))
    BY <2>1
  <2> DEFINE y == WithLegs(Zone("feeder", f), circuit, NoLeg)
  <2>3. y.circuit.on = Hardware(y) /\ y.control = NoLeg
    BY CapturedOn, SameHardware
  <2> HIDE DEF y
  <2>4. Matches(<<y>>)
    BY <2>3 DEF Matches
  <2>5. Document(c, <<y>>).zones = <<y>>
    BY DEF Document
  <2>6. QED
    BY <1>1, <2>2, <2>4, <2>5, WriteMatches DEF y
<1>4. ASSUME NEW i \in Installers, Revise(i)
      PROVE  MatchInv'
  <2> DEFINE c == ceremony[i]
  <2>1. PICK n \in DOMAIN c.reported.zones, f \in Facts, replaced \in BOOLEAN :
          \E z \in Revised(c, c.reported.zones[n], f, replaced) :
            Write(i, Document(c, [c.reported.zones EXCEPT ![n] = z]))
    BY <1>4 DEF Revise
  <2>2. PICK z \in Revised(c, c.reported.zones[n], f, replaced) :
          Write(i, Document(c, [c.reported.zones EXCEPT ![n] = z]))
    BY <2>1
  <2> DEFINE zones == [c.reported.zones EXCEPT ![n] = z]
  <2>3. CeremonyInv(c, inForce)
    BY <1>4 DEF Revise, CommInv, DeskInv
  <2> HIDE DEF c
  <2>4. Document(c, zones).zones = zones /\ Document(c, zones).supersedes = c.reported.seq
    BY DEF Document
  <2>5. ASSUME c.reported.seq = inForce.seq
        PROVE  Matches(zones)
    <3>1. c.reported = inForce
      BY <2>3, <2>5 DEF CeremonyInv
    <3>2. \A m \in DOMAIN inForce.zones :
            /\ inForce.zones[m].circuit.on = Hardware(inForce.zones[m])
            /\ inForce.zones[m].control # NoLeg => inForce.zones[m].control.on = Hardware(inForce.zones[m])
      BY DEF MatchInv, Matches
    <3>3. z.circuit.on = Hardware(z) /\ (z.control # NoLeg => z.control.on = Hardware(z))
      BY <3>1, <3>2, RevisedMatches
    <3>4. /\ DOMAIN zones = DOMAIN inForce.zones
          /\ \A m \in DOMAIN inForce.zones : zones[m] = IF m = n THEN z ELSE inForce.zones[m]
      BY <3>1
    <3> HIDE DEF zones
    <3>5. QED
      BY <3>2, <3>3, <3>4 DEF Matches
  <2> HIDE DEF zones
  <2>6. QED
    BY <1>1, <2>2, <2>4, <2>5, WriteMatches DEF zones
<1>5. ASSUME NEW i \in Installers, Sign(i)
      PROVE  MatchInv'
  <2>1. /\ DocInv(draft[i].doc, inForce) /\ SignDocument(i, draft[i].doc)
        /\ draft[i].doc.supersedes = inForce.seq => Matches(draft[i].doc.zones)
    BY <1>5 DEF Sign, CommInv, DeskInv, PapersInv, MatchInv
  <2>2. QED
    BY <1>1, <2>1, SignMatches
<1>6. ASSUME NEW i \in Installers, SignWithLeg(i)
      PROVE  MatchInv'
  <2> DEFINE doc == draft[i].doc
             l == leg[i]
  <2>1. /\ DocInv(doc, inForce) /\ Attachable(doc, l) /\ SignDocument(i, Attached(doc, l))
        /\ BindingInv(inForce) /\ l.of = doc.zones /\ LegMatches(l)
        /\ doc.supersedes = inForce.seq => Matches(doc.zones)
    BY <1>6 DEF SignWithLeg, CommInv, DeskInv, PapersInv, MatchInv
  <2> HIDE DEF doc, l
  <2>2. DocInv(Attached(doc, l), inForce)
    BY <2>1, AttachedKeeps
  <2>3. Attached(doc, l).supersedes = doc.supersedes
    <3>1. Attached(doc, l) = [ device |-> Device, seq |-> doc.seq, supersedes |-> doc.supersedes,
                               signer |-> doc.signer, zones |-> Attached(doc, l).zones ]
      BY <2>1, AttachedZones
    <3>2. QED
      BY <3>1
  <2>4. doc.supersedes = inForce.seq => Matches(Attached(doc, l).zones)
    BY <2>1, AttachedMatches DEF DocInv, MadeFrom
  <2>5. QED
    BY <1>1, <2>1, <2>2, <2>3, <2>4, SignMatches
<1>7. ASSUME NEW i \in Installers, Deliver(i)
      PROVE  MatchInv'
  <2> DEFINE doc == envelope[i].env.doc
  <2>1. /\ Matches(doc.zones) /\ doc.seq = inForce.seq + 1
        /\ inForce.seq \in Nat
    BY <1>7, DeliverAccepts DEF MatchInv, CommInv, BindingInv
  <2>2. \/ inForce' = doc /\ staged' = None
        \/ inForce' = inForce /\ staged' = doc
    BY <1>7 DEF Deliver
  <2>3. UNCHANGED <<draft, leg, envelope>>
    BY <1>7 DEF Deliver, papers
  <2> HIDE DEF doc
  <2>4. CASE inForce' = doc /\ staged' = None
    <3>1. \A j \in Installers :
            /\ draft[j] # None => draft[j].doc.supersedes <= inForce.seq /\ draft[j].doc.supersedes \in Nat
            /\ envelope[j] # None => envelope[j].env.doc.supersedes <= inForce.seq
                                       /\ envelope[j].env.doc.supersedes \in Nat
      <4>1. ASSUME NEW d, DocInv(d, inForce)
            PROVE  d.supersedes <= inForce.seq /\ d.supersedes \in Nat
        BY <4>1, CommissioningAssumption DEF DocInv
      <4>2. QED
        BY <4>1 DEF CommInv, DeskInv, PapersInv
    <3>2. \A j \in Installers :
            /\ draft[j] # None => draft[j].doc.supersedes # inForce'.seq
            /\ envelope[j] # None => envelope[j].env.doc.supersedes # inForce'.seq
      BY <2>1, <2>4, <3>1
    <3>3. QED
      BY <2>1, <2>3, <2>4, <3>2 DEF MatchInv
  <2>5. CASE inForce' = inForce /\ staged' = doc
    BY <2>1, <2>3, <2>5 DEF MatchInv
  <2>6. QED
    BY <2>2, <2>4, <2>5
<1>8. ASSUME NEW i \in Installers, Export(i)
      PROVE  MatchInv'
  <2>1. PICK n \in DOMAIN staged.zones, last \in attempts :
          leg' = [leg EXCEPT ![i] = [ zone |-> staged.zones[n].id,
                                      leg |-> ControlLegOf(staged.zones[n], last.at),
                                      of |-> staged.zones ]]
    BY <1>8 DEF Export
  <2> DEFINE l == [ zone |-> staged.zones[n].id, leg |-> ControlLegOf(staged.zones[n], last.at),
                    of |-> staged.zones ]
  <2>2. LegMatches(l)
    BY DEF LegMatches, ControlLegOf
  <2> HIDE DEF l
  <2>3. leg' = [leg EXCEPT ![i] = l]
    BY <2>1 DEF l
  <2>4. UNCHANGED <<inForce, staged, draft, envelope>>
    BY <1>8 DEF Export, device
  <2>5. QED
    BY <1>1, <2>2, <2>3, <2>4 DEF MatchInv
<1>9. ASSUME NEW i \in Installers,
             ReadInventory(i) \/ GiveUp(i) \/ (\E fromFile \in BOOLEAN : LoadPrior(i, fromFile))
      PROVE  MatchInv'
  BY <1>2, <1>9 DEF ReadInventory, GiveUp, LoadPrior, device, papers
<1>10. CASE (\E outcome \in Outcomes : Prove(outcome)) \/ Rewire \/ UNCHANGED vars
  BY <1>2, <1>10 DEF Prove, Rewire, vars, device, papers
<1>11. QED
  BY <1>3, <1>4, <1>5, <1>6, <1>7, <1>8, <1>9, <1>10 DEF Next

\* Every leg of a binding the device accepted, in force or provisional, was
\* performed on the hardware its zone names, where installers attach a leg only
\* to the document it was proven for.  Nothing in the code asks that of them:
\* the leg names a zone and no document.
THEOREM LegsStayWithHardware ==
  ASSUME Careful
  PROVE  Spec => []LegsMatchHardware
<1>1. MatchInv => LegsMatchHardware
  BY DEF MatchInv, Matches, LegsMatchHardware, Bindings
<1>2. Init => MatchInv
  BY InitMatchInv
<1>3. CommInv /\ MatchInv /\ [Next]_vars => MatchInv'
  BY StepMatchInv
<1>4. QED
  BY <1>1, <1>2, <1>3, CommInvariance, PTL DEF Spec

-----------------------------------------------------------------------------
(***************************************************************************)
(* Dates, where no proof is dated past the clock.                          *)
(***************************************************************************)
\* What the inventory stage passes.
LEMMA InventoryAsks ==
  ASSUME NEW doc, NEW ctx
  PROVE  InventoryStage(doc, ctx) = "pass" <=>
           /\ \A n \in DOMAIN doc.zones :
                doc.zones[n].sensor.id \in ctx.sensors /\ doc.zones[n].line \in ctx.lines
           /\ \A x \in ctx.lines : \E n \in DOMAIN doc.zones : doc.zones[n].line = x
<1> DEFINE zones == {doc.zones[i] : i \in DOMAIN doc.zones}
<1>1. InventoryStage(doc, ctx) = "pass" <=>
        /\ ~(\E z \in zones : z.sensor.id \notin ctx.sensors \/ z.line \notin ctx.lines)
        /\ ctx.lines \ {z.line : z \in zones} = {}
  BY DEF InventoryStage
<1>2. (\E z \in zones : z.sensor.id \notin ctx.sensors \/ z.line \notin ctx.lines) <=>
        \E n \in DOMAIN doc.zones :
          doc.zones[n].sensor.id \notin ctx.sensors \/ doc.zones[n].line \notin ctx.lines
  OBVIOUS
<1>3. ctx.lines \ {z.line : z \in zones} = {} <=>
        \A x \in ctx.lines : \E n \in DOMAIN doc.zones : doc.zones[n].line = x
  OBVIOUS
<1>4. QED
  BY <1>1, <1>2, <1>3

\* What the device retains of a binding whose names are apart is its zones.
LEMMA RetainedIsAZone ==
  ASSUME NEW zones, ZonesInv(zones), NEW id \in DOMAIN RetainedState(zones)
  PROVE  \E k \in DOMAIN zones : RetainedState(zones)[id] = zones[k]
<1> DEFINE named(x) == {k \in DOMAIN zones : zones[k].id = x}
           last(x) == CHOOSE k \in named(x) : \A j \in named(x) : j <= k
<1>1. RetainedState(zones) = [x \in {zones[k].id : k \in DOMAIN zones} |-> zones[last(x)]]
  BY DEF RetainedState
<1>2. PICK k \in DOMAIN zones : id = zones[k].id
  BY <1>1
<1>3. named(id) = {k} /\ k <= k
  BY <1>2 DEF ZonesInv
<1>4. last(id) = k
  BY <1>3
<1> HIDE DEF last
<1>5. QED
  BY <1>1, <1>2, <1>4

\* Dates stay behind a clock that goes on.
LEMMA DatedLater ==
  ASSUME NEW zones, NEW t \in Nat, NEW u \in Nat, t <= u, DatedBefore(zones, t)
  PROVE  DatedBefore(zones, u)
  BY DEF DatedBefore

\* The rules read the zones of a document and nothing else of it.
LEMMA SoundByZones ==
  ASSUME NEW d, NEW e, d.zones = e.zones, NEW inv, NEW b, RevisionSound(d, inv, b)
  PROVE  RevisionSound(e, inv, b)
  BY DEF RevisionSound, RevisionRule, InventoryStage, ActivationPosture

\* A leg exported for a document leaves it acceptable: it is newer than every
\* leg in force, because the zone that awaited it was captured after them.
LEMMA AttachedSound ==
  ASSUME NEW doc, NEW b, NEW t \in Nat, NEW inv, NEW l,
         DocInv(doc, b), BindingInv(b), b.seq > 0, ZonesInv(doc.zones), Attachable(doc, l),
         RevisionSound(doc, inv, b), CapturedAfter(doc.zones, b),
         DatedBefore(doc.zones, t), DatedBefore(b.zones, t), l.of = doc.zones, LegDated(l, t)
  PROVE  /\ RevisionSound(Attached(doc, l), inv, b)
         /\ DatedBefore(Attached(doc, l).zones, t)
<1> DEFINE new == Attached(doc, l)
           prior == RetainedState(b.zones)
<1>1. /\ DOMAIN new.zones = DOMAIN doc.zones
      /\ \A m \in DOMAIN doc.zones :
           new.zones[m] = WithLegs(doc.zones[m], doc.zones[m].circuit, LegGiven(doc.zones[m], l))
  BY AttachedZones
<1> HIDE DEF new, prior
<1>2. ASSUME NEW m \in DOMAIN doc.zones
      PROVE  LET y == new.zones[m]
                 z == doc.zones[m]
             IN  /\ y.id = z.id /\ y.line = z.line /\ y.sensor = z.sensor
                 /\ Hardware(y) = Hardware(z) /\ y.circuit = z.circuit
                 /\ y.control = LegGiven(z, l)
  <2> DEFINE y == new.zones[m]
             z == doc.zones[m]
  <2>1. y = WithLegs(z, z.circuit, LegGiven(z, l))
    BY <1>1
  <2> HIDE DEF y, z
  <2>2. /\ y.id = z.id /\ y.line = z.line /\ y.sensor = z.sensor
        /\ Hardware(y) = Hardware(z) /\ y.circuit = z.circuit
        /\ y.control = LegGiven(z, l)
    BY <2>1 DEF WithLegs, Hardware
  <2>3. QED
    BY <2>2 DEF y, z
<1>3. PICK n \in DOMAIN doc.zones : doc.zones[n].id = l.zone /\ doc.zones[n].circuit.at <= l.leg.at
  BY DEF LegDated
<1>4. RevisionRule(new, prior) = "pass"
  <2> SUFFICES ASSUME NEW m \in DOMAIN new.zones, NEW id \in DOMAIN prior,
                      Matched(prior[id], new.zones[m]), Changed(prior[id], new.zones[m])
               PROVE  FreshAgainst(prior[id], new.zones[m])
    BY DEF RevisionRule
  <2> DEFINE y == new.zones[m]
             z == doc.zones[m]
             was == prior[id]
  <2>1. /\ y.id = z.id /\ y.line = z.line /\ y.sensor = z.sensor
        /\ Hardware(y) = Hardware(z) /\ y.circuit = z.circuit
        /\ y.control = LegGiven(z, l)
    BY <1>1, <1>2
  <2>2. Matched(was, z) /\ Changed(was, z) => FreshAgainst(was, z)
    BY <1>1 DEF RevisionSound, RevisionRule, prior
  <2>3. PICK k \in DOMAIN b.zones : was = b.zones[k]
    BY RetainedIsAZone DEF BindingInv, prior
  <2>4. was.control # NoLeg /\ was.control.at \in Nat
    BY <2>3 DEF BindingInv, InForceEligible, ClaimsControl, DatedBefore
  <2>5. z.id = l.zone => /\ was.control.at < z.circuit.at /\ z.circuit.at <= l.leg.at
                         /\ z.circuit.at \in Nat
    <3>1. z.id = l.zone => m = n /\ z.control = NoLeg
      BY <1>1, <1>3 DEF ZonesInv, Attachable
    <3>2. z.circuit.at \in Nat
      BY <1>1 DEF DatedBefore
    <3>3. z.id = l.zone => was.control.at < z.circuit.at
      BY <1>1, <2>3, <3>1 DEF CapturedAfter
    <3>4. QED
      BY <1>3, <3>1, <3>2, <3>3
  <2>6. l.leg.at \in Nat
    BY DEF LegDated
  <2>7. FreshAgainst(was, z)
    <3> HIDE DEF y, z, was
    <3>1. Matched(was, y) /\ Changed(was, y)
      BY DEF y, was
    <3>2. QED
      BY <2>1, <2>2, <3>1 DEF Matched, Changed
  <2> HIDE DEF y, z, was
  <2>8. FreshAgainst(was, y)
    <3>1. CASE z.id = l.zone
      <4>1. l.leg.at > was.control.at
        BY <2>4, <2>5, <2>6, <3>1
      <4>2. QED
        BY <2>1, <2>7, <3>1, <4>1 DEF FreshAgainst, ClaimsCircuit, LegGiven
    <3>2. CASE z.id # l.zone
      BY <2>1, <2>7, <3>2 DEF FreshAgainst, ClaimsCircuit, ClaimsControl, LegGiven
    <3>3. QED
      BY <3>1, <3>2
  <2>9. QED
    BY <2>8 DEF y, was
<1>5. InventoryStage(new, inv) = "pass"
  <2>1. InventoryStage(doc, inv) = "pass"
    BY DEF RevisionSound
  <2>2. QED
    BY <1>1, <1>2, <2>1, InventoryAsks
<1>6. ActivationPosture(new, Posture) = "pass"
  <2>1. ActivationPosture(doc, Posture) = "pass"
    BY DEF RevisionSound
  <2>2. QED
    BY <1>1, <1>2, <2>1 DEF ActivationPosture, ClaimsCircuit
<1>7. DatedBefore(new.zones, t)
  BY <1>1, <1>2 DEF DatedBefore, LegDated, LegGiven
<1>8. QED
  BY <1>4, <1>5, <1>6, <1>7 DEF RevisionSound, new, prior

\* An attached leg is dated before the clock, like the document.
LEMMA AttachedDates ==
  ASSUME NEW doc, NEW b, NEW t \in Nat, NEW l, DocInv(doc, b), ZonesInv(doc.zones),
         DatedBefore(doc.zones, t), LegDated(l, t)
  PROVE  DatedBefore(Attached(doc, l).zones, t)
<1> DEFINE new == Attached(doc, l)
<1>1. /\ DOMAIN new.zones = DOMAIN doc.zones
      /\ \A m \in DOMAIN doc.zones :
           new.zones[m] = WithLegs(doc.zones[m], doc.zones[m].circuit, LegGiven(doc.zones[m], l))
  BY AttachedZones
<1> HIDE DEF new
<1>2. \A m \in DOMAIN doc.zones : /\ new.zones[m].circuit = doc.zones[m].circuit
                                  /\ new.zones[m].control = LegGiven(doc.zones[m], l)
  BY <1>1, SameHardware
<1>3. DatedBefore(new.zones, t)
  BY <1>1, <1>2 DEF DatedBefore, LegDated, LegGiven
<1>4. QED
  BY <1>3 DEF new

\* What a later clock leaves of the dates.
LEMMA LaterClock ==
  ASSUME NEW t \in Nat, NEW u \in Nat, t <= u, NEW b, NEW x
  PROVE  /\ LegDated(x, t) => LegDated(x, u)
         /\ DraftDated(x, b, t) => DraftDated(x, b, u)
         /\ EnvelopeDated(x, b, t) => EnvelopeDated(x, b, u)
         /\ \A commands : StagedDated(x, commands, t) => StagedDated(x, commands, u)
<1>1. LegDated(x, t) => LegDated(x, u)
  BY DEF LegDated
<1>2. \A zones : DatedBefore(zones, t) => DatedBefore(zones, u)
  BY DatedLater
<1>3. DraftDated(x, b, t) => DraftDated(x, b, u)
  BY <1>2 DEF DraftDated
<1>4. EnvelopeDated(x, b, t) => EnvelopeDated(x, b, u)
  BY <1>2 DEF EnvelopeDated
<1>5. \A commands : StagedDated(x, commands, t) => StagedDated(x, commands, u)
  BY <1>2 DEF StagedDated
<1>6. QED
  BY <1>1, <1>3, <1>4, <1>5

\* Where the dates start.
LEMMA InitDatedInv == Init => DatedInv
<1> SUFFICES ASSUME Init PROVE DatedInv
  OBVIOUS
<1>1. PICK b \in FirstBindings : inForce = b.binding
  BY DEF Init
<1>2. clock = 5
  BY DEF Init, FirstClock
<1>3. DatedBefore(inForce.zones, clock)
  <2>1. CASE b.binding = NoBinding
    BY <1>1, <2>1 DEF NoBinding, DatedBefore
  <2>2. CASE b.binding # NoBinding
    <3>1. ASSUME NEW n \in DOMAIN inForce.zones
          PROVE  /\ inForce.zones[n].circuit.at \in 0 .. 4
                 /\ inForce.zones[n].control.at \in 0 .. 4
      <4> DEFINE z == inForce.zones[n]
      <4>1. /\ \E t \in 0 .. FirstClock - 1 : z.circuit = CircuitLeg(z, t)
            /\ \E t \in 0 .. FirstClock - 1 : z.control = ControlLegOf(z, t)
        BY <1>1, <2>2, FirstBindingsAssumption
      <4>2. PICK t \in 0 .. 4 : z.circuit = CircuitLeg(z, t)
        BY <4>1 DEF FirstClock
      <4>3. PICK u \in 0 .. 4 : z.control = ControlLegOf(z, u)
        BY <4>1 DEF FirstClock
      <4> HIDE DEF z
      <4>4. z.circuit.at = t /\ z.control.at = u
        BY <4>2, <4>3 DEF CircuitLeg, ControlLegOf
      <4>5. QED
        BY <4>4 DEF z
    <3>2. QED
      BY <1>2, <3>1 DEF DatedBefore
  <2>3. QED
    BY <2>1, <2>2
<1>4. QED
  BY <1>3 DEF Init, DatedInv

\* Signing a document that is as dated as its draft.
LEMMA SignDated ==
  ASSUME DatedInv, NEW i \in Installers, NEW doc, DocInv(doc, inForce), SignDocument(i, doc),
         DOMAIN envelope = Installers,
         doc.supersedes = inForce.seq =>
           /\ DatedBefore(doc.zones, clock)
           /\ inForce.seq > 0 => RevisionSound(doc, draft[i].inv, inForce)
  PROVE  DatedInv'
<1> DEFINE own == Owned(doc)
           signed == [env |-> [doc |-> own, signature |-> [by |-> Key, over |-> own]],
                      inv |-> draft[i].inv]
<1>1. own.supersedes = doc.supersedes /\ own.zones = doc.zones /\ own.signer = Key
  BY OwnedKeeps
<1>2. /\ envelope' = [envelope EXCEPT ![i] = signed]
      /\ UNCHANGED <<inForce, staged, attempts, clock, draft, leg>>
      /\ CheckDocument(own) = "pass"
  BY DEF SignDocument, device
<1>3. signed.env.doc = own /\ signed.inv = draft[i].inv
  OBVIOUS
<1> HIDE DEF own, signed
<1>4. SoundAlone(own)
  BY <1>2, CheckDocumentAsks
<1>5. EnvelopeDated(signed, inForce, clock)
  BY <1>1, <1>3, <1>4, SoundByZones DEF EnvelopeDated
<1>6. QED
  BY <1>2, <1>5 DEF DatedInv

\* Writing one dates it before the clock that follows.
LEMMA WriteDated ==
  ASSUME CommInv, DatedInv, NEW i \in Installers, NEW doc, Write(i, doc),
         doc.supersedes = inForce.seq =>
           /\ DatedBefore(doc.zones, clock + 1)
           /\ inForce.seq > 0 => /\ RevisionSound(doc, ceremony[i].inv, inForce)
                                 /\ CapturedAfter(doc.zones, inForce)
  PROVE  DatedInv'
<1> DEFINE new == [doc |-> doc, inv |-> ceremony[i].inv]
<1>1. /\ draft' = [draft EXCEPT ![i] = new] /\ clock' = clock + 1
      /\ UNCHANGED <<inForce, staged, attempts, leg, envelope>>
  BY DEF Write, device
<1>2. new.doc = doc /\ new.inv = ceremony[i].inv
  OBVIOUS
<1> HIDE DEF new
<1>3. DraftDated(new, inForce, clock')
  BY <1>1, <1>2 DEF DraftDated
<1>4. clock \in Nat /\ clock' \in Nat /\ clock <= clock' /\ DOMAIN draft = Installers
  BY <1>1 DEF CommInv, DeskInv
<1>5. DatedBefore(inForce.zones, clock')
  BY <1>4, DatedLater DEF DatedInv
<1>6. \A j \in Installers : draft'[j] # None => DraftDated(draft'[j], inForce, clock')
  BY <1>1, <1>3, <1>4, LaterClock DEF DatedInv
<1>7. \A j \in Installers :
        /\ leg[j] # None => LegDated(leg[j], clock')
        /\ envelope[j] # None => EnvelopeDated(envelope[j], inForce, clock')
  BY <1>4, LaterClock DEF DatedInv
<1>8. staged # None => StagedDated(staged, attempts, clock')
  BY <1>4, LaterClock DEF DatedInv
<1>9. QED
  BY <1>1, <1>5, <1>6, <1>7, <1>8 DEF DatedInv

\* A circuit leg captured now is dated now.
LEMMA CapturedAt ==
  ASSUME Skew = 0, clock \in Nat, NEW z, NEW t, NEW circuit \in CapturedLegs(z, t)
  PROVE  circuit.at = clock
<1>1. \/ circuit = [method |-> "undemonstrated", at |-> clock, seen |-> {}, on |-> Hardware(z)]
      \/ circuit = CircuitLeg(z, clock)
  BY DEF CapturedLegs
<1>2. CircuitLeg(z, clock).at = clock
  BY DEF CircuitLeg
<1>3. CASE circuit = [method |-> "undemonstrated", at |-> clock, seen |-> {}, on |-> Hardware(z)]
  BY <1>3
<1>4. QED
  BY <1>1, <1>2, <1>3

\* A revised zone keeps its legs or awaits one, captured now.
LEMMA RevisedDates ==
  ASSUME Skew = 0, clock \in Nat, NEW c, NEW was, NEW f, NEW replaced \in BOOLEAN,
         NEW z \in Revised(c, was, f, replaced)
  PROVE  \/ z.circuit = was.circuit /\ z.control = was.control
         \/ z.circuit.at = clock /\ z.control = NoLeg
<1> DEFINE now == Zone(was.id, f)
<1>1. CASE NeedsProof(was, now, replaced)
  <2>1. PICK circuit \in CapturedLegs(now, was.circuit.at) : z = WithLegs(now, circuit, NoLeg)
    BY <1>1 DEF Revised
  <2> HIDE DEF now
  <2>2. QED
    BY <2>1, CapturedAt, SameHardware
<1>2. CASE ~NeedsProof(was, now, replaced)
  <2>1. z = WithLegs(now, was.circuit, was.control)
    BY <1>2 DEF Revised
  <2> HIDE DEF now
  <2>2. QED
    BY <2>1, SameHardware
<1>3. QED
  BY <1>1, <1>2

\* Capturing a first binding.
LEMMA CaptureDated ==
  ASSUME Skew = 0, CommInv, DatedInv, NEW i \in Installers, Capture(i)
  PROVE  DatedInv'
<1> DEFINE c == ceremony[i]
<1>1. PICK f \in Facts : \E circuit \in CapturedLegs(Zone("feeder", f), 0) :
        Write(i, Document(c, <<WithLegs(Zone("feeder", f), circuit, NoLeg)>>))
  BY DEF Capture
<1>2. PICK circuit \in CapturedLegs(Zone("feeder", f), 0) :
        Write(i, Document(c, <<WithLegs(Zone("feeder", f), circuit, NoLeg)>>))
  BY <1>1
<1> DEFINE y == WithLegs(Zone("feeder", f), circuit, NoLeg)
<1>3. clock \in Nat
  BY DEF CommInv
<1>4. y.circuit.at = clock /\ y.control = NoLeg
  BY <1>3, CapturedAt, SameHardware
<1> HIDE DEF y
<1>5. DatedBefore(<<y>>, clock + 1)
  BY <1>3, <1>4 DEF DatedBefore
<1>6. Document(c, <<y>>).zones = <<y>> /\ Document(c, <<y>>).supersedes = c.reported.seq
  BY DEF Document
<1>7. c.reported.seq = 0
  BY DEF Capture
<1> HIDE DEF c
<1>8. Document(c, <<y>>).supersedes = inForce.seq =>
        DatedBefore(Document(c, <<y>>).zones, clock + 1) /\ ~(inForce.seq > 0)
  BY <1>5, <1>6, <1>7
<1>9. QED
  BY <1>2, <1>8, WriteDated DEF c, y

\* Revising a binding.
LEMMA ReviseDated ==
  ASSUME Skew = 0, CommInv, DatedInv, NEW i \in Installers, Revise(i)
  PROVE  DatedInv'
<1> DEFINE c == ceremony[i]
<1>1. PICK n \in DOMAIN c.reported.zones, f \in Facts, replaced \in BOOLEAN :
        \E z \in Revised(c, c.reported.zones[n], f, replaced) :
          LET doc == Document(c, [c.reported.zones EXCEPT ![n] = z])
          IN  Checked(doc, c) /\ Write(i, doc)
  BY DEF Revise
<1>2. PICK z \in Revised(c, c.reported.zones[n], f, replaced) :
        LET doc == Document(c, [c.reported.zones EXCEPT ![n] = z])
        IN  Checked(doc, c) /\ Write(i, doc)
  BY <1>1
<1> DEFINE zones == [c.reported.zones EXCEPT ![n] = z]
           doc == Document(c, zones)
<1>3. CeremonyInv(c, inForce) /\ clock \in Nat
  BY DEF Revise, CommInv, DeskInv
<1>4. doc.zones = zones /\ doc.supersedes = c.reported.seq
  BY DEF Document
<1>5. Checked(doc, c) /\ Write(i, doc)
  BY <1>2
<1>6. ASSUME c.reported.seq = inForce.seq
      PROVE  /\ DatedBefore(zones, clock + 1)
             /\ inForce.seq > 0 => CapturedAfter(zones, inForce) /\ RevisionSound(doc, c.inv, inForce)
  <2> HIDE DEF c
  <2>1. c.reported = inForce
    BY <1>3, <1>6 DEF CeremonyInv
  <2>2. /\ DOMAIN zones = DOMAIN inForce.zones
        /\ \A m \in DOMAIN inForce.zones : zones[m] = IF m = n THEN z ELSE inForce.zones[m]
    BY <2>1
  <2> HIDE DEF zones
  <2>3. \/ z.circuit = inForce.zones[n].circuit /\ z.control = inForce.zones[n].control
        \/ z.circuit.at = clock /\ z.control = NoLeg
    BY <1>3, <2>1, RevisedDates
  <2>4. DatedBefore(inForce.zones, clock)
    BY DEF DatedInv
  <2>5. DatedBefore(zones, clock + 1)
    BY <1>3, <2>1, <2>2, <2>3, <2>4 DEF DatedBefore
  <2>6. ASSUME inForce.seq > 0
        PROVE  CapturedAfter(zones, inForce)
    <3>1. \A m \in DOMAIN inForce.zones : inForce.zones[m].control # NoLeg
      BY <2>6 DEF CommInv, BindingInv, InForceEligible, ClaimsControl
    <3>2. \A m \in DOMAIN inForce.zones : inForce.zones[m].control.at < clock
      BY <2>4, <3>1 DEF DatedBefore
    <3>3. \A m \in DOMAIN zones : zones[m].control = NoLeg => zones[m].circuit.at = clock
      BY <2>1, <2>2, <2>3, <3>1
    <3>4. QED
      BY <3>2, <3>3 DEF CapturedAfter
  <2>7. RevisionSound(doc, c.inv, inForce)
    <3> HIDE DEF doc
    <3>1. SoundOn(doc, RevisionContext(c))
      BY <1>5, CheckRevisionAsks DEF Checked
    <3>2. /\ RevisionContext(c).prior = RetainedState(inForce.zones)
          /\ RevisionContext(c).posture = Posture
          /\ RevisionContext(c).sensors = c.inv.sensors /\ RevisionContext(c).lines = c.inv.lines
      BY <2>1 DEF RevisionContext
    <3>3. InventoryStage(doc, c.inv) = InventoryStage(doc, RevisionContext(c))
      BY <3>2 DEF InventoryStage
    <3>4. QED
      BY <3>1, <3>2, <3>3 DEF SoundOn, RevisionSound
  <2>8. QED
    BY <2>5, <2>6, <2>7
<1> HIDE DEF zones, doc
<1>7. doc.supersedes = inForce.seq =>
        /\ DatedBefore(doc.zones, clock + 1)
        /\ inForce.seq > 0 => /\ RevisionSound(doc, ceremony[i].inv, inForce)
                              /\ CapturedAfter(doc.zones, inForce)
  BY <1>4, <1>6
<1>8. QED
  BY <1>5, <1>7, WriteDated

\* A delivery: what it makes stale loses its base, and what it stages has no
\* command recorded yet.
LEMMA DeliverDated ==
  ASSUME CommInv, DatedInv, NEW i \in Installers, Deliver(i)
  PROVE  DatedInv'
<1> DEFINE doc == envelope[i].env.doc
<1>1. /\ DatedBefore(doc.zones, clock) /\ doc.seq = inForce.seq + 1 /\ inForce.seq \in Nat
  BY DeliverAccepts DEF DatedInv, EnvelopeDated, CommInv, BindingInv
<1>2. \/ inForce' = doc /\ staged' = None
      \/ inForce' = inForce /\ staged' = doc /\ attempts' = {}
  BY DEF Deliver
<1>3. UNCHANGED <<clock, draft, leg, envelope>>
  BY DEF Deliver, papers
<1> HIDE DEF doc
<1>4. CASE inForce' = doc /\ staged' = None
  <2>1. ASSUME NEW d, DocInv(d, inForce)
        PROVE  d.supersedes # inForce'.seq
    BY <1>1, <1>4, <2>1, CommissioningAssumption DEF DocInv
  <2>2. \A j \in Installers :
          /\ draft[j] # None => DraftDated(draft[j], inForce', clock)
          /\ envelope[j] # None => EnvelopeDated(envelope[j], inForce', clock)
    BY <2>1 DEF CommInv, DeskInv, PapersInv, DatedInv, DraftDated, EnvelopeDated
  <2>3. QED
    BY <1>1, <1>3, <1>4, <2>2 DEF DatedInv
<1>5. CASE inForce' = inForce /\ staged' = doc /\ attempts' = {}
  <2>1. StagedDated(staged', attempts', clock)
    BY <1>1, <1>5 DEF StagedDated
  <2>2. QED
    BY <1>3, <1>5, <2>1 DEF DatedInv
<1>6. QED
  BY <1>2, <1>4, <1>5

\* A command on a line of the provisional binding is dated now.
LEMMA ProveDated ==
  ASSUME CommInv, DatedInv, NEW outcome \in Outcomes, Prove(outcome)
  PROVE  DatedInv'
<1>1. PICK n \in DOMAIN staged.zones :
        attempts' = attempts \cup {[zone |-> staged.zones[n].id, outcome |-> outcome, at |-> clock]}
  BY DEF Prove
<1>2. /\ staged # None /\ clock' = clock + 1
      /\ UNCHANGED <<inForce, staged, draft, leg, envelope>>
  BY DEF Prove, papers
<1>3. clock \in Nat /\ clock' \in Nat /\ clock <= clock'
  BY <1>2 DEF CommInv
<1>4. StagedDated(staged, attempts, clock)
  BY <1>2 DEF DatedInv
<1>5. StagedDated(staged, attempts', clock')
  <2>1. DatedBefore(staged.zones, clock')
    BY <1>3, <1>4, DatedLater DEF StagedDated
  <2>2. \A a \in attempts' : \A m \in DOMAIN staged.zones : staged.zones[m].circuit.at <= a.at
    BY <1>1, <1>3, <1>4 DEF StagedDated, DatedBefore
  <2>3. QED
    BY <2>1, <2>2 DEF StagedDated
<1>6. DatedBefore(inForce.zones, clock')
  BY <1>3, DatedLater DEF DatedInv
<1>7. \A j \in Installers :
        /\ leg[j] # None => LegDated(leg[j], clock')
        /\ draft[j] # None => DraftDated(draft[j], inForce, clock')
        /\ envelope[j] # None => EnvelopeDated(envelope[j], inForce, clock')
  BY <1>3, LaterClock DEF DatedInv
<1>8. QED
  BY <1>2, <1>5, <1>6, <1>7 DEF DatedInv

\* An exported leg is dated by a recorded command.
LEMMA ExportDated ==
  ASSUME CommInv, DatedInv, NEW i \in Installers, Export(i)
  PROVE  DatedInv'
<1>1. PICK n \in DOMAIN staged.zones, last \in attempts :
        leg' = [leg EXCEPT ![i] = [ zone |-> staged.zones[n].id,
                                    leg |-> ControlLegOf(staged.zones[n], last.at),
                                    of |-> staged.zones ]]
  BY DEF Export
<1> DEFINE l == [ zone |-> staged.zones[n].id, leg |-> ControlLegOf(staged.zones[n], last.at),
                  of |-> staged.zones ]
<1>2. /\ staged # None /\ UNCHANGED <<inForce, staged, attempts, clock, draft, envelope>>
      /\ DOMAIN leg = Installers
  BY DEF Export, device, CommInv, DeskInv
<1>3. last.at \in Nat /\ last.at < clock /\ staged.zones[n].circuit.at <= last.at
  BY <1>2 DEF CommInv, DatedInv, StagedDated
<1>4. l.zone = staged.zones[n].id /\ l.leg.at = last.at /\ l.of = staged.zones
  BY DEF ControlLegOf
<1>5. leg' = [leg EXCEPT ![i] = l]
  BY <1>1
<1> HIDE DEF l
<1>6. LegDated(l, clock)
  BY <1>3, <1>4 DEF LegDated
<1>7. QED
  BY <1>2, <1>5, <1>6 DEF DatedInv

\* Every step keeps the dates.
LEMMA StepDatedInv ==
  ASSUME Careful, Skew = 0
  PROVE  CommInv /\ DatedInv /\ [Next]_vars => DatedInv'
<1> SUFFICES ASSUME CommInv, DatedInv, [Next]_vars PROVE DatedInv'
  OBVIOUS
<1>1. ASSUME UNCHANGED <<inForce, staged, attempts, clock, draft, leg, envelope>>
      PROVE  DatedInv'
  BY <1>1 DEF DatedInv
<1>2. ASSUME NEW i \in Installers, Sign(i)
      PROVE  DatedInv'
  <2>1. /\ DocInv(draft[i].doc, inForce) /\ SignDocument(i, draft[i].doc)
        /\ DraftDated(draft[i], inForce, clock) /\ DOMAIN envelope = Installers
    BY <1>2 DEF Sign, CommInv, DeskInv, PapersInv, DatedInv
  <2>2. QED
    BY <2>1, SignDated DEF DraftDated
<1>3. ASSUME NEW i \in Installers, SignWithLeg(i)
      PROVE  DatedInv'
  <2> DEFINE doc == draft[i].doc
             l == leg[i]
  <2>1. /\ DocInv(doc, inForce) /\ Attachable(doc, l) /\ SignDocument(i, Attached(doc, l))
        /\ BindingInv(inForce) /\ l.of = doc.zones /\ DOMAIN envelope = Installers
        /\ clock \in Nat
    BY <1>3 DEF SignWithLeg, CommInv, DeskInv, PapersInv
  <2>2. /\ LegDated(l, clock) /\ DatedBefore(inForce.zones, clock)
        /\ DraftDated(draft[i], inForce, clock)
    BY <1>3 DEF SignWithLeg, DatedInv
  <2>3. doc.supersedes = inForce.seq =>
          /\ DatedBefore(doc.zones, clock) /\ ZonesInv(doc.zones)
          /\ inForce.seq > 0 => /\ RevisionSound(doc, draft[i].inv, inForce)
                                /\ CapturedAfter(doc.zones, inForce)
    BY <2>1, <2>2 DEF DraftDated, DocInv, MadeFrom
  <2> HIDE DEF doc, l
  <2>4. DocInv(Attached(doc, l), inForce)
    BY <2>1, AttachedKeeps
  <2>5. Attached(doc, l).supersedes = doc.supersedes
    <3>1. Attached(doc, l) = [ device |-> Device, seq |-> doc.seq, supersedes |-> doc.supersedes,
                               signer |-> doc.signer, zones |-> Attached(doc, l).zones ]
      BY <2>1, AttachedZones
    <3>2. QED
      BY <3>1
  <2>6. ASSUME doc.supersedes = inForce.seq
        PROVE  /\ DatedBefore(Attached(doc, l).zones, clock)
               /\ inForce.seq > 0 => RevisionSound(Attached(doc, l), draft[i].inv, inForce)
    <3>1. CASE inForce.seq > 0
      BY <2>1, <2>2, <2>3, <2>6, <3>1, AttachedSound
    <3>2. CASE ~(inForce.seq > 0)
      BY <2>1, <2>2, <2>3, <2>6, <3>2, AttachedDates
    <3>3. QED
      BY <3>1, <3>2
  <2>7. QED
    BY <2>1, <2>4, <2>5, <2>6, SignDated
<1>4. ASSUME NEW i \in Installers,
             ReadInventory(i) \/ GiveUp(i) \/ (\E fromFile \in BOOLEAN : LoadPrior(i, fromFile))
      PROVE  DatedInv'
  BY <1>1, <1>4 DEF ReadInventory, GiveUp, LoadPrior, device, papers
<1>5. CASE Rewire \/ UNCHANGED vars
  BY <1>1, <1>5 DEF Rewire, vars, device, papers
<1>6. QED
  BY <1>2, <1>3, <1>4, <1>5, CaptureDated, ReviseDated, DeliverDated, ProveDated, ExportDated
     DEF Next

\* A document of the ceremony's own key that follows the binding in force.
LEMMA OwnSignature ==
  ASSUME NEW env, DocInv(env.doc, inForce), SignatureStage(env) = "pass", env.doc.signer = Key,
         env.doc.supersedes = inForce.seq, inForce.seq \in Nat
  PROVE  Signed(env, Context)
<1> DEFINE doc == env.doc
<1>1. /\ Context.device = Device /\ Context.seq = inForce.seq /\ Context.hash = inForce.seq
      /\ Context.anchors = [current |-> Key, previous |-> NoKey, provisioning |-> OtherKey]
  BY DEF Context
<1>2. doc.device = Device /\ doc.seq = inForce.seq + 1 /\ doc.supersedes = inForce.seq
  BY DEF DocInv
<1>3. Key # NoKey /\ Key # OtherKey
  BY CommissioningAssumption
<1>4. KeySelection(Key, Context.anchors) = "pass" /\ Authority(Key, Context.anchors) = "pass"
  BY <1>1, <1>3 DEF KeySelection, Authority
<1>5. Freshness(doc, Context) = "pass"
  BY <1>1, <1>2 DEF Freshness
<1>6. QED
  BY <1>1, <1>2, <1>4, <1>5 DEF Signed

\* A revision the runtime would refuse is refused before a signature exists:
\* while the device declares what the ceremony read, a signed revision of the
\* binding in force is accepted, but for the trip point that only delivery
\* bounds.  The legs are dated as they are performed, and a leg is attached only
\* to the document it was proven for; a proof dated ahead of the clock, or the
\* leg of another document, could be older than a leg in force.
THEOREM SignedRevisionsPass ==
  ASSUME Careful, Skew = 0
  PROVE  Spec => []SignedRevisionAccepted
<1>1. CommInv /\ DatedInv => SignedRevisionAccepted
  <2> SUFFICES ASSUME CommInv, DatedInv, NEW i \in Installers, envelope[i] # None,
                      envelope[i].env.doc.supersedes = inForce.seq, inForce.seq > 0,
                      envelope[i].inv = declared
               PROVE  VerifyEnvelope(envelope[i].env, Context) \in {"pass", "out_of_bounds"}
    BY DEF SignedRevisionAccepted
  <2> DEFINE env == envelope[i].env
             doc == env.doc
  <2>1. /\ DocInv(doc, inForce) /\ SignatureStage(env) = "pass"
        /\ EnvelopeDated(envelope[i], inForce, clock) /\ inForce.seq \in Nat
    BY DEF CommInv, DeskInv, PapersInv, DatedInv, BindingInv
  <2>2. /\ doc.signer = Key /\ SoundAlone(doc) /\ RevisionSound(doc, declared, inForce)
    BY <2>1 DEF EnvelopeDated
  <2> HIDE DEF env
  <2>3. /\ Context.prior = RetainedState(inForce.zones) /\ Context.posture = Posture
        /\ Context.sensors = declared.sensors /\ Context.lines = declared.lines
    BY DEF Context
  <2>4. Signed(env, Context)
    BY <2>1, <2>2, OwnSignature DEF env
  <2>5. SoundOn(doc, Context)
    <3>1. InventoryStage(doc, Context) = InventoryStage(doc, declared)
      BY <2>3 DEF InventoryStage
    <3>2. QED
      BY <2>2, <2>3, <3>1 DEF SoundOn, RevisionSound
  <2>6. VerifyEnvelope(env, Context) \in {"pass", "out_of_bounds"}
    BY <2>2, <2>4, <2>5, VerifyEnvelopeAsks
  <2>7. QED
    BY <2>6 DEF env
<1>2. Init => DatedInv
  BY InitDatedInv
<1>3. CommInv /\ DatedInv /\ [Next]_vars => DatedInv'
  BY StepDatedInv
<1>4. QED
  BY <1>1, <1>2, <1>3, CommInvariance, PTL DEF Spec
-----------------------------------------------------------------------------
(***************************************************************************)
(* Whatever leg is attached and however a proof is dated.                  *)
(***************************************************************************)
\* Among changed zones, each circuit leg is newer than the one retained.
CircuitsNewer(zones, prior) ==
  \A n \in DOMAIN zones, id \in DOMAIN prior :
    Matched(prior[id], zones[n]) /\ Changed(prior[id], zones[n]) /\ ClaimsCircuit(zones[n])
      => zones[n].circuit.at > prior[id].circuit.at

\* What no control leg changes of a revision of the binding b.
RevisionHeld(doc, inv, b) ==
  /\ CircuitsNewer(doc.zones, RetainedState(b.zones))
  /\ InventoryStage(doc, inv) = "pass" /\ ActivationPosture(doc, Posture) = "pass"

DraftHeld(d, b) ==
  d.doc.supersedes = b.seq /\ b.seq > 0 => RevisionHeld(d.doc, d.inv, b)

EnvelopeHeld(e, b) ==
  /\ e.env.doc.signer = Key /\ SoundAlone(e.env.doc)
  /\ e.env.doc.supersedes = b.seq /\ b.seq > 0 => RevisionHeld(e.env.doc, e.inv, b)

HeldInv ==
  \A i \in Installers :
    /\ draft[i] # None => DraftHeld(draft[i], inForce)
    /\ envelope[i] # None => EnvelopeHeld(envelope[i], inForce)

\* A control leg on a changed zone that is not newer than one in force.
OlderControl(doc, b) ==
  \E n \in DOMAIN doc.zones, m \in DOMAIN b.zones :
    LET z == doc.zones[n]
        was == b.zones[m]
    IN  /\ Matched(was, z) /\ Changed(was, z) /\ ClaimsControl(z)
        /\ ~(z.control.at > was.control.at)

\* A signed revision of the binding in force is refused by a device that
\* declares what the ceremony read for its trip point or for its control leg.
RefusedOnlyForTheLeg ==
  \A i \in Installers :
    ( /\ envelope[i] # None
      /\ envelope[i].env.doc.supersedes = inForce.seq /\ inForce.seq > 0
      /\ envelope[i].inv = declared )
    => \/ VerifyEnvelope(envelope[i].env, Context) \in {"pass", "out_of_bounds"}
       \/ /\ VerifyEnvelope(envelope[i].env, Context) = "stale_proof"
          /\ OlderControl(envelope[i].env.doc, inForce)

\* The rules read the zones of a document and nothing else of it.
LEMMA HeldByZones ==
  ASSUME NEW d, NEW e, d.zones = e.zones, NEW inv, NEW b, RevisionHeld(d, inv, b)
  PROVE  RevisionHeld(e, inv, b)
  BY DEF RevisionHeld, InventoryStage, ActivationPosture

\* An attached leg is a control leg.
LEMMA AttachedHeld ==
  ASSUME NEW doc, NEW b, NEW inv, NEW l, DocInv(doc, b), ZonesInv(doc.zones),
         RevisionHeld(doc, inv, b)
  PROVE  RevisionHeld(Attached(doc, l), inv, b)
<1> DEFINE new == Attached(doc, l)
           prior == RetainedState(b.zones)
<1>1. /\ DOMAIN new.zones = DOMAIN doc.zones
      /\ \A m \in DOMAIN doc.zones :
           new.zones[m] = WithLegs(doc.zones[m], doc.zones[m].circuit, LegGiven(doc.zones[m], l))
  BY AttachedZones
<1> HIDE DEF new, prior
<1>2. ASSUME NEW m \in DOMAIN doc.zones
      PROVE  /\ new.zones[m].id = doc.zones[m].id /\ new.zones[m].line = doc.zones[m].line
             /\ new.zones[m].sensor = doc.zones[m].sensor
             /\ Hardware(new.zones[m]) = Hardware(doc.zones[m])
             /\ new.zones[m].circuit = doc.zones[m].circuit
  <2> DEFINE y == new.zones[m]
             z == doc.zones[m]
  <2>1. y = WithLegs(z, z.circuit, LegGiven(z, l))
    BY <1>1
  <2> HIDE DEF y, z
  <2>2. /\ y.id = z.id /\ y.line = z.line /\ y.sensor = z.sensor
        /\ Hardware(y) = Hardware(z) /\ y.circuit = z.circuit
    BY <2>1 DEF WithLegs, Hardware
  <2>3. QED
    BY <2>2 DEF y, z
<1>3. CircuitsNewer(new.zones, prior)
  <2> SUFFICES ASSUME NEW m \in DOMAIN new.zones, NEW id \in DOMAIN prior,
                      Matched(prior[id], new.zones[m]), Changed(prior[id], new.zones[m]),
                      ClaimsCircuit(new.zones[m])
               PROVE  new.zones[m].circuit.at > prior[id].circuit.at
    BY DEF CircuitsNewer
  <2>1. /\ Matched(prior[id], doc.zones[m]) /\ Changed(prior[id], doc.zones[m])
        /\ ClaimsCircuit(doc.zones[m])
    BY <1>1, <1>2 DEF Matched, Changed, ClaimsCircuit
  <2>2. doc.zones[m].circuit.at > prior[id].circuit.at
    BY <1>1, <2>1 DEF RevisionHeld, CircuitsNewer, prior
  <2>3. QED
    BY <1>1, <1>2, <2>2
<1>4. InventoryStage(new, inv) = "pass"
  <2>1. InventoryStage(doc, inv) = "pass"
    BY DEF RevisionHeld
  <2>2. QED
    BY <1>1, <1>2, <2>1, InventoryAsks
<1>5. ActivationPosture(new, Posture) = "pass"
  <2>1. ActivationPosture(doc, Posture) = "pass"
    BY DEF RevisionHeld
  <2>2. QED
    BY <1>1, <1>2, <2>1 DEF ActivationPosture, ClaimsCircuit
<1>6. QED
  BY <1>3, <1>4, <1>5 DEF RevisionHeld, new, prior

\* Signing.
LEMMA SignHeld ==
  ASSUME HeldInv, NEW i \in Installers, NEW doc, DocInv(doc, inForce), SignDocument(i, doc),
         DOMAIN envelope = Installers,
         doc.supersedes = inForce.seq /\ inForce.seq > 0 =>
           RevisionHeld(doc, draft[i].inv, inForce)
  PROVE  HeldInv'
<1> DEFINE own == Owned(doc)
           signed == [env |-> [doc |-> own, signature |-> [by |-> Key, over |-> own]],
                      inv |-> draft[i].inv]
<1>1. own.supersedes = doc.supersedes /\ own.zones = doc.zones /\ own.signer = Key
  BY OwnedKeeps
<1>2. /\ envelope' = [envelope EXCEPT ![i] = signed]
      /\ UNCHANGED <<inForce, draft>>
      /\ CheckDocument(own) = "pass"
  BY DEF SignDocument, device
<1>3. signed.env.doc = own /\ signed.inv = draft[i].inv
  OBVIOUS
<1> HIDE DEF own, signed
<1>4. SoundAlone(own)
  BY <1>2, CheckDocumentAsks
<1>5. EnvelopeHeld(signed, inForce)
  BY <1>1, <1>3, <1>4, HeldByZones DEF EnvelopeHeld
<1>6. QED
  BY <1>2, <1>5 DEF HeldInv

\* Revising a binding: what is written has been checked against the one read.
LEMMA ReviseHeld ==
  ASSUME CommInv, HeldInv, NEW i \in Installers, Revise(i)
  PROVE  HeldInv'
<1> DEFINE c == ceremony[i]
<1>1. PICK n \in DOMAIN c.reported.zones, f \in Facts, replaced \in BOOLEAN :
        \E z \in Revised(c, c.reported.zones[n], f, replaced) :
          LET doc == Document(c, [c.reported.zones EXCEPT ![n] = z])
          IN  Checked(doc, c) /\ Write(i, doc)
  BY DEF Revise
<1>2. PICK z \in Revised(c, c.reported.zones[n], f, replaced) :
        LET doc == Document(c, [c.reported.zones EXCEPT ![n] = z])
        IN  Checked(doc, c) /\ Write(i, doc)
  BY <1>1
<1> DEFINE doc == Document(c, [c.reported.zones EXCEPT ![n] = z])
           new == [doc |-> doc, inv |-> c.inv]
<1>3. CeremonyInv(c, inForce) /\ DOMAIN draft = Installers
  BY DEF Revise, CommInv, DeskInv
<1>4. doc.supersedes = c.reported.seq
  BY DEF Document
<1>5. /\ Checked(doc, c) /\ draft' = [draft EXCEPT ![i] = new]
      /\ UNCHANGED <<inForce, envelope>>
  BY <1>2 DEF Write, device
<1>6. new.doc = doc /\ new.inv = c.inv
  OBVIOUS
<1> HIDE DEF c, doc, new
<1>7. ASSUME doc.supersedes = inForce.seq
      PROVE  RevisionHeld(doc, c.inv, inForce)
  <2>1. c.reported = inForce
    BY <1>3, <1>4, <1>7 DEF CeremonyInv
  <2>2. SoundOn(doc, RevisionContext(c))
    BY <1>5, CheckRevisionAsks DEF Checked
  <2>3. /\ RevisionContext(c).prior = RetainedState(inForce.zones)
        /\ RevisionContext(c).posture = Posture
        /\ RevisionContext(c).sensors = c.inv.sensors /\ RevisionContext(c).lines = c.inv.lines
    BY <2>1 DEF RevisionContext
  <2>4. InventoryStage(doc, c.inv) = InventoryStage(doc, RevisionContext(c))
    BY <2>3 DEF InventoryStage
  <2>5. CircuitsNewer(doc.zones, RetainedState(inForce.zones))
    BY <2>2, <2>3 DEF SoundOn, RevisionRule, FreshAgainst, CircuitsNewer
  <2>6. QED
    BY <2>2, <2>3, <2>4, <2>5 DEF SoundOn, RevisionHeld
<1>8. DraftHeld(new, inForce)
  BY <1>6, <1>7 DEF DraftHeld
<1>9. QED
  BY <1>3, <1>5, <1>8 DEF HeldInv

\* A delivery: what it makes stale loses its base.
LEMMA DeliverHeld ==
  ASSUME CommInv, HeldInv, NEW i \in Installers, Deliver(i)
  PROVE  HeldInv'
<1> DEFINE doc == envelope[i].env.doc
<1>1. doc.seq = inForce.seq + 1 /\ inForce.seq \in Nat
  BY DeliverAccepts DEF CommInv, BindingInv
<1>2. (inForce' = doc \/ inForce' = inForce) /\ UNCHANGED <<draft, envelope>>
  BY DEF Deliver, papers
<1> HIDE DEF doc
<1>3. CASE inForce' = doc
  <2>1. ASSUME NEW d, DocInv(d, inForce)
        PROVE  d.supersedes # inForce'.seq
    BY <1>1, <1>3, <2>1, CommissioningAssumption DEF DocInv
  <2>2. QED
    BY <1>2, <2>1 DEF CommInv, DeskInv, PapersInv, HeldInv, DraftHeld, EnvelopeHeld
<1>4. CASE inForce' = inForce
  BY <1>2, <1>4 DEF HeldInv
<1>5. QED
  BY <1>2, <1>3, <1>4

\* A first binding supersedes none.
LEMMA CaptureHeld ==
  ASSUME CommInv, HeldInv, NEW i \in Installers, Capture(i)
  PROVE  HeldInv'
<1> DEFINE c == ceremony[i]
<1>1. PICK f \in Facts : \E circuit \in CapturedLegs(Zone("feeder", f), 0) :
        Write(i, Document(c, <<WithLegs(Zone("feeder", f), circuit, NoLeg)>>))
  BY DEF Capture
<1>2. PICK circuit : Write(i, Document(c, <<WithLegs(Zone("feeder", f), circuit, NoLeg)>>))
  BY <1>1
<1> DEFINE doc == Document(c, <<WithLegs(Zone("feeder", f), circuit, NoLeg)>>)
           new == [doc |-> doc, inv |-> c.inv]
<1>3. c.reported.seq = 0 /\ DOMAIN draft = Installers
  BY DEF Capture, CommInv, DeskInv
<1>4. doc.supersedes = 0 /\ new.doc = doc
  BY <1>3 DEF Document
<1>5. draft' = [draft EXCEPT ![i] = new] /\ UNCHANGED <<inForce, envelope>>
  BY <1>2 DEF Write, device
<1> HIDE DEF c, doc, new
<1>6. DraftHeld(new, inForce)
  BY <1>4 DEF DraftHeld
<1>7. QED
  BY <1>3, <1>5, <1>6 DEF HeldInv

\* Every step keeps what a revision was checked for.
LEMMA StepHeldInv == CommInv /\ HeldInv /\ [Next]_vars => HeldInv'
<1> SUFFICES ASSUME CommInv, HeldInv, [Next]_vars PROVE HeldInv'
  OBVIOUS
<1>1. ASSUME UNCHANGED <<inForce, draft, envelope>>
      PROVE  HeldInv'
  BY <1>1 DEF HeldInv
<1>2. ASSUME NEW i \in Installers, Sign(i)
      PROVE  HeldInv'
  <2>1. /\ DocInv(draft[i].doc, inForce) /\ SignDocument(i, draft[i].doc)
        /\ DraftHeld(draft[i], inForce) /\ DOMAIN envelope = Installers
    BY <1>2 DEF Sign, CommInv, DeskInv, PapersInv, HeldInv
  <2>2. QED
    BY <2>1, SignHeld DEF DraftHeld
<1>3. ASSUME NEW i \in Installers, SignWithLeg(i)
      PROVE  HeldInv'
  <2> DEFINE doc == draft[i].doc
             l == leg[i]
  <2>1. /\ DocInv(doc, inForce) /\ Attachable(doc, l) /\ SignDocument(i, Attached(doc, l))
        /\ BindingInv(inForce) /\ DOMAIN envelope = Installers
        /\ DraftHeld(draft[i], inForce)
    BY <1>3 DEF SignWithLeg, CommInv, DeskInv, PapersInv, HeldInv
  <2>2. doc.supersedes = inForce.seq /\ inForce.seq > 0 =>
          ZonesInv(doc.zones) /\ RevisionHeld(doc, draft[i].inv, inForce)
    BY <2>1 DEF DraftHeld, DocInv, MadeFrom
  <2> HIDE DEF doc, l
  <2>3. DocInv(Attached(doc, l), inForce)
    BY <2>1, AttachedKeeps
  <2>4. Attached(doc, l).supersedes = doc.supersedes
    <3>1. Attached(doc, l) = [ device |-> Device, seq |-> doc.seq, supersedes |-> doc.supersedes,
                               signer |-> doc.signer, zones |-> Attached(doc, l).zones ]
      BY <2>1, AttachedZones
    <3>2. QED
      BY <3>1
  <2>5. QED
    BY <2>1, <2>2, <2>3, <2>4, AttachedHeld, SignHeld
<1>4. ASSUME NEW i \in Installers,
             \/ ReadInventory(i) \/ GiveUp(i) \/ (\E fromFile \in BOOLEAN : LoadPrior(i, fromFile))
             \/ Export(i)
      PROVE  HeldInv'
  BY <1>1, <1>4 DEF ReadInventory, GiveUp, LoadPrior, Export, device, papers
<1>5. CASE Rewire \/ UNCHANGED vars \/ \E outcome \in Outcomes : Prove(outcome)
  BY <1>1, <1>5 DEF Rewire, Prove, vars, device, papers
<1>6. QED
  BY <1>2, <1>3, <1>4, <1>5, CaptureHeld, ReviseHeld, DeliverHeld DEF Next

\* Whoever attaches which leg, and whatever a proof is dated, a signed revision
\* is refused by a device that declares what the ceremony read for two reasons
\* only: its trip point, which nothing before delivery knows, and a control leg
\* that is not newer than the one in force on the hardware it changes.  What the
\* ceremony checked of everything else still holds when the document arrives.
THEOREM RevisionsFailForTheLeg == Spec => []RefusedOnlyForTheLeg
<1>1. CommInv /\ HeldInv => RefusedOnlyForTheLeg
  <2> SUFFICES ASSUME CommInv, HeldInv, NEW i \in Installers, envelope[i] # None,
                      envelope[i].env.doc.supersedes = inForce.seq, inForce.seq > 0,
                      envelope[i].inv = declared
               PROVE  \/ VerifyEnvelope(envelope[i].env, Context) \in {"pass", "out_of_bounds"}
                      \/ /\ VerifyEnvelope(envelope[i].env, Context) = "stale_proof"
                         /\ OlderControl(envelope[i].env.doc, inForce)
    BY DEF RefusedOnlyForTheLeg
  <2> DEFINE env == envelope[i].env
             doc == env.doc
             prior == RetainedState(inForce.zones)
  <2>1. /\ DocInv(doc, inForce) /\ SignatureStage(env) = "pass" /\ inForce.seq \in Nat
        /\ EnvelopeHeld(envelope[i], inForce) /\ ZonesInv(inForce.zones)
    BY DEF CommInv, DeskInv, PapersInv, HeldInv, BindingInv
  <2>2. doc.signer = Key /\ SoundAlone(doc) /\ RevisionHeld(doc, declared, inForce)
    BY <2>1 DEF EnvelopeHeld
  <2>3. Signed(env, Context)
    BY <2>1, <2>2, OwnSignature
  <2>4. /\ Context.prior = prior /\ Context.posture = Posture
        /\ Context.sensors = declared.sensors /\ Context.lines = declared.lines
    BY DEF Context
  <2> HIDE DEF env, prior
  <2>5. /\ InventoryStage(doc, Context) = "pass"
        /\ ActivationPosture(doc, Context.posture) = "pass"
    <3>1. InventoryStage(doc, Context) = InventoryStage(doc, declared)
      BY <2>4 DEF InventoryStage
    <3>2. QED
      BY <2>2, <2>4, <3>1 DEF RevisionHeld
  <2>6. ASSUME RevisionRule(doc, prior) # "pass"
        PROVE  OlderControl(doc, inForce)
    <3>1. PICK n \in DOMAIN doc.zones, id \in DOMAIN prior :
            /\ Matched(prior[id], doc.zones[n]) /\ Changed(prior[id], doc.zones[n])
            /\ ~FreshAgainst(prior[id], doc.zones[n])
      BY <2>6 DEF RevisionRule
    <3>2. PICK m \in DOMAIN inForce.zones : prior[id] = inForce.zones[m]
      BY <2>1, RetainedIsAZone DEF prior
    <3>3. ClaimsCircuit(doc.zones[n]) => doc.zones[n].circuit.at > prior[id].circuit.at
      BY <2>2, <3>1 DEF RevisionHeld, CircuitsNewer, prior
    <3>4. /\ ClaimsControl(doc.zones[n])
          /\ ~(doc.zones[n].control.at > inForce.zones[m].control.at)
      BY <3>1, <3>2, <3>3 DEF FreshAgainst
    <3>5. QED
      BY <3>1, <3>2, <3>4 DEF OlderControl
  <2>7. QED
    BY <2>2, <2>3, <2>4, <2>5, <2>6, DatesAndBounds DEF env
<1>2. Init => HeldInv
  BY DEF Init, HeldInv
<1>3. CommInv /\ HeldInv /\ [Next]_vars => HeldInv'
  BY StepHeldInv
<1>4. QED
  BY <1>1, <1>2, <1>3, CommInvariance, PTL DEF Spec
=============================================================================
