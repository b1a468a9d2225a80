------------------------- MODULE BindingRulesProofs -------------------------
(***************************************************************************)
(* Facts about the verdicts of BindingRules, for any document, any device  *)
(* and any binding in force: a verdict is the reason of the first stage    *)
(* that refuses, so it passes only when every stage does, and what one     *)
(* verdict passes another can refuse only for the stages they do not       *)
(* share.  The proofs about the commands rest on these.                    *)
(***************************************************************************)
EXTENDS BindingRules, WellFoundedInduction, TLAPS

\* A set of numbers that holds anything holds a least one.
LEMMA LeastNumber ==
  ASSUME NEW T, T \subseteq Nat, T # {}
  PROVE  \E x \in T : \A y \in T : x <= y
<1>1. PICK x \in T : \A y \in T : ~(<<y, x>> \in OpToRel(<, Nat))
  BY NatLessThanWellFounded, WFMin
<1>2. \A y \in T : x <= y
  <2> SUFFICES ASSUME NEW y \in T PROVE x <= y
    OBVIOUS
  <2>1. y \in Nat /\ x \in Nat
    OBVIOUS
  <2>2. ~(<<y, x>> \in OpToRel(<, Nat))
    BY <1>1
  <2>3. ~(y < x)
    BY <2>1, <2>2 DEF OpToRel
  <2>4. QED
    BY <2>1, <2>3
<1>3. QED
  BY <1>2

\* The verdict on a list of stages.
LEMMA FirstRefusalIsOne ==
  ASSUME NEW stages, DOMAIN stages \subseteq Nat
  PROVE  /\ FirstRefusal(stages) = "pass" <=> \A i \in DOMAIN stages : stages[i] = "pass"
         /\ FirstRefusal(stages) # "pass" =>
              \E i \in DOMAIN stages : stages[i] = FirstRefusal(stages) /\ stages[i] # "pass"
<1> DEFINE refused == {i \in DOMAIN stages : stages[i] # "pass"}
<1>1. CASE refused = {}
  BY <1>1 DEF FirstRefusal
<1>2. CASE refused # {}
  <2> DEFINE first == CHOOSE i \in refused : \A j \in refused : i <= j
  <2>1. \E i \in refused : \A j \in refused : i <= j
    BY <1>2, LeastNumber
  <2>2. first \in refused
    BY <2>1
  <2>3. FirstRefusal(stages) = stages[first]
    BY <1>2 DEF FirstRefusal
  <2>4. QED
    BY <2>2, <2>3
<1>3. QED
  BY <1>1, <1>2

\* What the document alone is asked, and what a consumer asks besides.
SoundAlone(doc) ==
  /\ Parses(doc) = "pass" /\ MappingSelfConsistency(doc) = "pass"
  /\ ObservationConsistency(doc) = "pass" /\ Disambiguation(doc) = "pass"

SoundOn(doc, ctx) ==
  /\ RevisionRule(doc, ctx.prior) = "pass" /\ InventoryStage(doc, ctx) = "pass"
  /\ ActivationPosture(doc, ctx.posture) = "pass"

\* What checkDocument passes.
LEMMA CheckDocumentAsks ==
  ASSUME NEW doc
  PROVE  CheckDocument(doc) = "pass" <=> SoundAlone(doc) /\ Bounds(doc, 1) = "pass"
<1> DEFINE stages == << Parses(doc), MappingSelfConsistency(doc), ObservationConsistency(doc),
                        Bounds(doc, 1), Disambiguation(doc) >>
<1>1. CheckDocument(doc) = FirstRefusal(stages)
  BY DEF CheckDocument
<1>2. DOMAIN stages = 1 .. 5
  OBVIOUS
<1>3. (\A i \in DOMAIN stages : stages[i] = "pass") <=> SoundAlone(doc) /\ Bounds(doc, 1) = "pass"
  BY <1>2 DEF SoundAlone
<1>4. QED
  BY <1>1, <1>2, <1>3, FirstRefusalIsOne

\* What the offline verdict passes.
LEMMA VerifyOfflineAsks ==
  ASSUME NEW env
  PROVE  VerifyOffline(env) = "pass" <=>
           /\ SoundAlone(env.doc) /\ Bounds(env.doc, 1) = "pass"
           /\ SignatureStage(env) = "pass"
<1> DEFINE doc == env.doc
           stages == << Parses(doc), SignatureStage(env), MappingSelfConsistency(doc),
                        ObservationConsistency(doc), Bounds(doc, 1), Disambiguation(doc) >>
<1>1. VerifyOffline(env) = FirstRefusal(stages)
  BY DEF VerifyOffline
<1>2. DOMAIN stages = 1 .. 6
  OBVIOUS
<1>3. (\A i \in DOMAIN stages : stages[i] = "pass") <=>
        SoundAlone(doc) /\ Bounds(doc, 1) = "pass" /\ SignatureStage(env) = "pass"
  BY <1>2 DEF SoundAlone
<1>4. QED
  BY <1>1, <1>2, <1>3, FirstRefusalIsOne

\* What CheckRevision passes.
LEMMA CheckRevisionAsks ==
  ASSUME NEW doc, NEW ctx
  PROVE  CheckRevision(doc, ctx) = "pass" <=>
           SoundAlone(doc) /\ SoundOn(doc, ctx) /\ Bounds(doc, ctx.multiplier) = "pass"
<1> DEFINE stages == << Parses(doc), MappingSelfConsistency(doc), ObservationConsistency(doc),
                        RevisionRule(doc, ctx.prior), Bounds(doc, ctx.multiplier),
                        Disambiguation(doc), InventoryStage(doc, ctx),
                        ActivationPosture(doc, ctx.posture) >>
<1>1. CheckRevision(doc, ctx) = FirstRefusal(stages)
  BY DEF CheckRevision
<1>2. DOMAIN stages = 1 .. 8
  OBVIOUS
<1>3. (\A i \in DOMAIN stages : stages[i] = "pass") <=>
        SoundAlone(doc) /\ SoundOn(doc, ctx) /\ Bounds(doc, ctx.multiplier) = "pass"
  BY <1>2 DEF SoundAlone, SoundOn
<1>4. QED
  BY <1>1, <1>2, <1>3, FirstRefusalIsOne

\* Whose document it is, and whether it follows the one in force.
Signed(env, ctx) ==
  /\ env.doc.device = ctx.device
  /\ KeySelection(env.doc.signer, ctx.anchors) = "pass"
  /\ SignatureStage(env) = "pass" /\ Authority(env.doc.signer, ctx.anchors) = "pass"
  /\ Freshness(env.doc, ctx) = "pass"

\* What VerifyEnvelope passes, and what a refusal says.
LEMMA VerifyEnvelopeAsks ==
  ASSUME NEW env, NEW ctx
  PROVE  /\ VerifyEnvelope(env, ctx) = "pass" <=>
              /\ Signed(env, ctx) /\ SoundAlone(env.doc) /\ SoundOn(env.doc, ctx)
              /\ Bounds(env.doc, ctx.multiplier) = "pass"
         /\ VerifyEnvelope(env, ctx) # "pass" =>
              \/ ~Signed(env, ctx)
                   /\ VerifyEnvelope(env, ctx) \in
                        {"wrong_device", "anchor_collision", "unknown_signer", "bad_signature",
                         "wrong_authority", "superseded_signer", "stale"}
                   /\ (VerifyEnvelope(env, ctx) = "bad_signature" => SignatureStage(env) # "pass")
              \/ ~SoundAlone(env.doc)
                   /\ VerifyEnvelope(env, ctx) \in
                        {"malformed", "mapping_contradiction", "proof_contradiction",
                         "ambiguous_binding"}
              \/ ~SoundOn(env.doc, ctx)
                   /\ VerifyEnvelope(env, ctx) \in
                        {"stale_proof", "unknown_hardware", "unbound_actuator",
                         "undemonstrated_binding"}
              \/ Bounds(env.doc, ctx.multiplier) # "pass"
                   /\ VerifyEnvelope(env, ctx) = "out_of_bounds"
<1> DEFINE doc == env.doc
           stages == << Parses(doc),
                        IF doc.device = ctx.device THEN "pass" ELSE "wrong_device",
                        KeySelection(doc.signer, ctx.anchors), SignatureStage(env),
                        Authority(doc.signer, ctx.anchors), Freshness(doc, ctx),
                        MappingSelfConsistency(doc), ObservationConsistency(doc),
                        RevisionRule(doc, ctx.prior), Bounds(doc, ctx.multiplier),
                        Disambiguation(doc), InventoryStage(doc, ctx),
                        ActivationPosture(doc, ctx.posture) >>
<1>1. VerifyEnvelope(env, ctx) = FirstRefusal(stages)
  BY DEF VerifyEnvelope
<1>2. DOMAIN stages = 1 .. 13
  OBVIOUS
<1>3. (\A i \in DOMAIN stages : stages[i] = "pass") <=>
        /\ Signed(env, ctx) /\ SoundAlone(doc) /\ SoundOn(doc, ctx)
        /\ Bounds(doc, ctx.multiplier) = "pass"
  BY <1>2 DEF Signed, SoundAlone, SoundOn
<1>4. VerifyEnvelope(env, ctx) = "pass" <=>
        /\ Signed(env, ctx) /\ SoundAlone(doc) /\ SoundOn(doc, ctx)
        /\ Bounds(doc, ctx.multiplier) = "pass"
  BY <1>1, <1>2, <1>3, FirstRefusalIsOne
<1>5. ASSUME VerifyEnvelope(env, ctx) # "pass"
      PROVE  \/ ~Signed(env, ctx)
                  /\ VerifyEnvelope(env, ctx) \in
                       {"wrong_device", "anchor_collision", "unknown_signer", "bad_signature",
                        "wrong_authority", "superseded_signer", "stale"}
                  /\ (VerifyEnvelope(env, ctx) = "bad_signature" => SignatureStage(env) # "pass")
             \/ ~SoundAlone(doc)
                  /\ VerifyEnvelope(env, ctx) \in
                       {"malformed", "mapping_contradiction", "proof_contradiction",
                        "ambiguous_binding"}
             \/ ~SoundOn(doc, ctx)
                  /\ VerifyEnvelope(env, ctx) \in
                       {"stale_proof", "unknown_hardware", "unbound_actuator",
                        "undemonstrated_binding"}
             \/ Bounds(doc, ctx.multiplier) # "pass"
                  /\ VerifyEnvelope(env, ctx) = "out_of_bounds"
  <2> DEFINE v == VerifyEnvelope(env, ctx)
  <2>1. PICK i \in 1 .. 13 : stages[i] = v /\ stages[i] # "pass"
    BY <1>1, <1>2, <1>5, FirstRefusalIsOne
  <2>2. CASE i \in {1, 7, 8, 11}
    <3>1. ~SoundAlone(doc)
      BY <2>1, <2>2 DEF SoundAlone
    <3>2. /\ Parses(doc) \in {"pass", "malformed"}
          /\ MappingSelfConsistency(doc) \in {"pass", "mapping_contradiction"}
          /\ ObservationConsistency(doc) \in {"pass", "proof_contradiction"}
          /\ Disambiguation(doc) \in {"pass", "ambiguous_binding"}
      BY DEF Parses, MappingSelfConsistency, ObservationConsistency, Disambiguation
    <3>3. v \in {"malformed", "mapping_contradiction", "proof_contradiction", "ambiguous_binding"}
      BY <2>1, <2>2, <3>2
    <3>4. QED
      BY <3>1, <3>3
  <2>3. CASE i \in {2, 3, 4, 5, 6}
    <3>1. ~Signed(env, ctx)
      BY <2>1, <2>3 DEF Signed
    <3>2. v \in {"wrong_device", "anchor_collision", "unknown_signer", "bad_signature",
                 "wrong_authority", "superseded_signer", "stale"}
      BY <2>1, <2>3 DEF KeySelection, SignatureStage, Authority, Freshness
    <3>3. v = "bad_signature" => SignatureStage(env) # "pass"
      BY <2>1, <2>3 DEF KeySelection, SignatureStage, Authority, Freshness
    <3>4. QED
      BY <3>1, <3>2, <3>3
  <2>4. CASE i \in {9, 12, 13}
    <3>1. ~SoundOn(doc, ctx)
      BY <2>1, <2>4 DEF SoundOn
    <3>2. v \in {"stale_proof", "unknown_hardware", "unbound_actuator", "undemonstrated_binding"}
      BY <2>1, <2>4 DEF RevisionRule, InventoryStage, ActivationPosture
    <3>3. QED
      BY <3>1, <3>2
  <2>5. CASE i = 10
    BY <2>1, <2>5 DEF Bounds
  <2>6. QED
    BY <2>2, <2>3, <2>4, <2>5
<1>6. QED
  BY <1>4, <1>5
\* What can still be said of a document that is sound but for its dates and its
\* capacities.
LEMMA DatesAndBounds ==
  ASSUME NEW env, NEW ctx, Signed(env, ctx), SoundAlone(env.doc),
         InventoryStage(env.doc, ctx) = "pass", ActivationPosture(env.doc, ctx.posture) = "pass"
  PROVE  \/ VerifyEnvelope(env, ctx) \in {"pass", "out_of_bounds"}
         \/ VerifyEnvelope(env, ctx) = "stale_proof" /\ RevisionRule(env.doc, ctx.prior) # "pass"
<1> DEFINE doc == env.doc
           stages == << Parses(doc),
                        IF doc.device = ctx.device THEN "pass" ELSE "wrong_device",
                        KeySelection(doc.signer, ctx.anchors), SignatureStage(env),
                        Authority(doc.signer, ctx.anchors), Freshness(doc, ctx),
                        MappingSelfConsistency(doc), ObservationConsistency(doc),
                        RevisionRule(doc, ctx.prior), Bounds(doc, ctx.multiplier),
                        Disambiguation(doc), InventoryStage(doc, ctx),
                        ActivationPosture(doc, ctx.posture) >>
<1>1. VerifyEnvelope(env, ctx) = FirstRefusal(stages)
  BY DEF VerifyEnvelope
<1>2. DOMAIN stages = 1 .. 13
  OBVIOUS
<1>3. SUFFICES ASSUME VerifyEnvelope(env, ctx) # "pass"
               PROVE  \/ VerifyEnvelope(env, ctx) = "out_of_bounds"
                      \/ /\ VerifyEnvelope(env, ctx) = "stale_proof"
                         /\ RevisionRule(doc, ctx.prior) # "pass"
  OBVIOUS
<1>4. PICK i \in 1 .. 13 : stages[i] = VerifyEnvelope(env, ctx) /\ stages[i] # "pass"
  BY <1>1, <1>2, <1>3, FirstRefusalIsOne
<1>5. i \in {9, 10}
  BY <1>4 DEF Signed, SoundAlone
<1>6. /\ Bounds(doc, ctx.multiplier) \in {"pass", "out_of_bounds"}
      /\ RevisionRule(doc, ctx.prior) \in {"pass", "stale_proof"}
  BY DEF Bounds, RevisionRule
<1>7. stages[9] = RevisionRule(doc, ctx.prior) /\ stages[10] = Bounds(doc, ctx.multiplier)
  OBVIOUS
<1> HIDE DEF stages
<1>8. QED
  BY <1>4, <1>5, <1>6, <1>7
=============================================================================
