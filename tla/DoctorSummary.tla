---------------------------- MODULE DoctorSummary ----------------------------
(***************************************************************************)
(* The report of `ori doctor` on one parsed health payload: BuildSummary   *)
(* (internal/doctor/doctor.go).  Each section is the set of reasons it has *)
(* to call itself degraded; a tier also says whether it is ready, which is *)
(* "unknown" when the payload cannot tell.                                 *)
(***************************************************************************)
EXTENDS HealthContract

When(condition, reason) == IF condition THEN {reason} ELSE {}

PostureKnown(s) == Flag(s, "capability_posture", "available")

Posture(s, n) == Flag(s, "capability_posture", n)

Backlog(s) == Says(s, "alert_outbox", "backlog_count") \notin {"null", "zero"}

SensorReasons(sensor) ==
  LET seen == Told(sensor.fields, "last_seen_ms")
  IN  When(sensor.fields.connected = "false", "sensor_disconnected")
        \cup When(seen = "null", "timestamp_missing")
        \cup When(seen = "future", "timestamp_in_future")
        \cup When(sensor.fields.stale = "true", "runtime_stale")

SensorFreshnessDelta(s) == UNION {SensorReasons(sensor) : sensor \in Items(s, "sensors")}

AlertChannel(s) ==
  When(Backlog(s), "alert_outbox_backlog") \cup
  IF PostureKnown(s)
  THEN When(~Posture(s, "sms_available"), "sms_runtime_unavailable")
         \cup When(~Posture(s, "whatsapp_available"), "whatsapp_runtime_unavailable")
         \cup When(~Posture(s, "internet_available"), "internet_unavailable")
  ELSE {"capability_posture_unavailable"}

TierA(s) ==
  [ ready |->
      IF ~PostureKnown(s) THEN "unknown"
      ELSE IF \/ Posture(s, "sms_available")
              \/ Posture(s, "whatsapp_available") /\ Posture(s, "internet_available")
           THEN "ready" ELSE "not_ready",
    reasons |-> AlertChannel(s) ]

NoRelay == "no_policy_field"   \* tier D asks the device policy nothing

PolicyInForce(s) == Flag(s, "device_policy", "enabled")

\* Mutant: the device policy's expiry blocks every tier.
PolicyBlocksEveryTier(s, relay) ==
  IF PolicyInForce(s) /\ Flag(s, "device_policy", "available")
  THEN When(Flag(s, "device_policy", "is_expired"), "device_policy_expired")
         \cup When(Says(s, "device_policy", relay) = "false", "device_policy_relay_disabled")
  ELSE {}

PolicyBlocks(s, relay) ==
  IF relay # NoRelay /\ PolicyInForce(s) /\ Flag(s, "device_policy", "available")
  THEN When(Flag(s, "device_policy", "is_expired"), "device_policy_expired")
         \cup When(Says(s, "device_policy", relay) = "false", "device_policy_relay_disabled")
  ELSE {}

PolicyDoubts(s, relay) ==
  IF relay = NoRelay \/ ~PolicyInForce(s) THEN {}
  ELSE IF ~Flag(s, "device_policy", "available") THEN {"device_policy_unavailable"}
  ELSE When(\E n \in {"is_expired", relay} : Says(s, "device_policy", n) = "null",
            "device_policy_state_incomplete")

PhysicalTierState(s, relay) ==
  LET blocks == When(PostureKnown(s) /\ ~Posture(s, "relay_connected"), "relay_disconnected")
                  \cup PolicyBlocks(s, relay)
      doubts == When(~PostureKnown(s), "capability_posture_unavailable")
                  \cup PolicyDoubts(s, relay)
  IN  IF blocks # {} THEN [ready |-> "not_ready", reasons |-> blocks \cup doubts]
      ELSE [ready |-> "unknown", reasons |-> doubts \cup {"deployment_context_unavailable"}]

TierCapability(s) ==
  [ a |-> TierA(s),
    b |-> PhysicalTierState(s, "relay_b_enabled"),
    c |-> PhysicalTierState(s, "relay_c_enabled"),
    d |-> PhysicalTierState(s, NoRelay) ]

Evidence(s) ==
  When(Flag(s, "evidence", "enabled") /\ ~Flag(s, "evidence", "available"),
       "evidence_unavailable")
    \cup When(Says(s, "evidence", "attestation_gap_count") \notin {"null", "zero"},
              "attestation_gaps_present")

\* Mutant: a sender that is locked out is only counted.
LockoutDegradedByRisk(s) ==
  \E sender \in Items(s, "remote_command_lockout") :
    \/ sender.fields.risk_level \in {"elevated", "critical"}
    \/ sender.fields.stale = "true"

LockoutDegraded(s) ==
  \E sender \in Items(s, "remote_command_lockout") :
    \/ sender.fields.risk_level \in {"elevated", "critical"}
    \/ sender.fields.locked_out = "true"
    \/ sender.fields.stale = "true"

RuntimePosture(s) ==
  When(\/ ~Flag(s, "gateway_broker_posture", "available")
       \/ /\ Flag(s, "gateway_broker_posture", "gateway_enabled")
          /\ Flag(s, "gateway_broker_posture", "requires_acl_hardening"),
       "gateway_broker_posture_degraded")
    \cup When(\/ ~Flag(s, "state_store_encryption", "available")
              \/ /\ Says(s, "state_store_encryption", "mode") = "filesystem_required"
                 /\ ~Flag(s, "state_store_encryption", "satisfied"),
              "state_store_encryption_degraded")
    \cup When(Backlog(s), "alert_outbox_degraded")
    \cup When(Evidence(s) # {}, "evidence_degraded")
    \cup When(LockoutDegraded(s), "remote_command_lockout_degraded")

\* A tier whose readiness is unknown does not make the report degraded.
BuildSummary(s) ==
  LET tiers == TierCapability(s)
  IN  [ sensors |-> SensorFreshnessDelta(s),
        alerts |-> AlertChannel(s),
        tiers |-> tiers,
        evidence |-> Evidence(s),
        posture |-> RuntimePosture(s),
        degraded |-> \/ SensorFreshnessDelta(s) # {} \/ AlertChannel(s) # {}
                     \/ Evidence(s) # {} \/ RuntimePosture(s) # {}
                     \/ \E t \in DOMAIN tiers : tiers[t].ready = "not_ready" ]
=============================================================================
