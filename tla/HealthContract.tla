--------------------------- MODULE HealthContract ---------------------------
(***************************************************************************)
(* The runtime's health payload and what ParseHealth                       *)
(* (internal/rpc/health.go) accepts of it and passes on.                   *)
(*                                                                         *)
(* A JSON value is a word for what the parser and the summaries tell apart *)
(* of it: its type, and for some types one of a few values.  An object is  *)
(* a function from the names it has.  A block is what one name of the      *)
(* health object holds: [is, fields, items], with the fields of an object  *)
(* and the items of an array (for remote_command_lockout, its senders).  A *)
(* block or an item of another type has what the objects inside it hold.   *)
(***************************************************************************)
EXTENDS Integers, Sequences, TLC

Values ==
  [ bool |-> {"true", "false"},
    int |-> {"zero", "some", "past", "future"},
    float |-> {"zero", "some", "fraction"},
    string |-> {"text", "normal", "elevated", "critical", "filesystem_required"},
    counts |-> {"counts"},
    array |-> {"array"} ]

Typed(type, names) == [name : names, type : {type}]

\* The fields a parser requires, and those that may be absent or null.
Fields(required, nullable) == [required |-> required, nullable |-> nullable]

TopFields ==
  Fields({}, Typed("float", {"uptime_s"}) \cup Typed("string", {"health_socket_path"}))

EvidenceFields ==
  Fields(Typed("bool", {"enabled", "available"}) \cup Typed("string", {"public_key_hex"}),
         Typed("string", {"protocol_version", "action_event_type", "chain_head_hash"})
           \cup Typed("int", {"pending_export_count", "last_attested_action_id",
                              "attestation_gap_count"})
           \cup Typed("counts", {"status_counts"}))

CapabilityPosture ==
  Fields(Typed("bool", {"available", "sms_available", "whatsapp_available",
                        "gateway_reachable", "local_slm_loaded", "relay_connected",
                        "internet_available"})
           \cup Typed("int", {"checked_at_ms", "expires_at_ms"}),
         Typed("int", {"gateway_last_heartbeat_ms"}))

Sensor ==
  Fields(Typed("string", {"id", "type", "protocol"}) \cup Typed("int", {"poll_interval_ms"})
           \cup Typed("bool", {"connected", "stale"}),
         Typed("int", {"last_seen_ms"}))

AlertTimestamps == Fields(Typed("counts", {"by_channel", "by_trigger"}), {})

AlertOutbox ==
  Fields(Typed("int", {"backlog_count", "max_non_tier_d_attempts",
                       "tier_d_critical_warning_threshold", "batch_size"})
           \cup Typed("float", {"retry_interval_minutes"}),
         Typed("int", {"oldest_queued_original_ts", "oldest_queued_age_ms"}))

DevicePolicy ==
  Fields(Typed("bool", {"available", "enabled"}),
         Typed("int", {"policy_version", "alert_sms_monthly_cap",
                       "alert_whatsapp_monthly_cap", "valid_until", "issued_at"})
           \cup Typed("string", {"tier"})
           \cup Typed("bool", {"relay_b_enabled", "relay_c_enabled", "cloud_llm_enabled",
                               "is_expired"}))

RemoteCommandLockout ==
  Fields(Typed("bool", {"enforcement_enabled"}) \cup Typed("array", {"senders"})
           \cup Typed("int", {"risk_window_ms", "stale_after_ms", "incident_sender_limit"}), {})

LockoutSender ==
  Fields(Typed("string", {"channel", "from_number", "risk_level", "reason"})
           \cup Typed("bool", {"locked_out", "enforcement_enabled", "stale"})
           \cup Typed("int", {"incident_count", "rejection_count", "window_ms", "checked_at_ms"}),
         {})

GatewayBrokerPosture ==
  Fields(Typed("bool", {"available", "gateway_enabled", "require_credentials",
                        "credentials_configured", "requires_acl_hardening"})
           \cup Typed("string", {"deployment_check", "anonymous_access", "acl_policy"}), {})

StateStoreEncryption ==
  Fields(Typed("bool", {"available", "satisfied", "marker_configured",
                        "path_prefix_configured"})
           \cup Typed("string", {"mode"}), {})

Schema ==
  [ top |-> TopFields, evidence |-> EvidenceFields, capability_posture |-> CapabilityPosture,
    sensors |-> Sensor, last_alert_timestamps |-> AlertTimestamps, alert_outbox |-> AlertOutbox,
    device_policy |-> DevicePolicy, remote_command_lockout |-> RemoteCommandLockout,
    senders |-> LockoutSender, gateway_broker_posture |-> GatewayBrokerPosture,
    state_store_encryption |-> StateStoreEncryption ]

\* The blocks that may be absent or null; sensors may only be absent.
Optional ==
  { "capability_posture", "last_alert_timestamps", "alert_outbox", "device_policy",
    "remote_command_lockout", "gateway_broker_posture", "state_store_encryption" }

Has(f, n) == n \in DOMAIN f

RequiredFits(block, fields) ==
  \A f \in Schema[block].required : Has(fields, f.name) /\ fields[f.name] \in Values[f.type]

NullableFits(block, fields) ==
  \A f \in Schema[block].nullable :
    Has(fields, f.name) => fields[f.name] \in {"null"} \cup Values[f.type]

Fits(block, b) ==
  b.is = "object" /\ RequiredFits(block, b.fields) /\ NullableFits(block, b.fields)

\* Mutant: an item that is no object is passed over.
AllFitLoosely(block, items) ==
  \A i \in DOMAIN items : items[i].is = "object" => Fits(block, items[i])

AllFit(block, items) == \A i \in DOMAIN items : Fits(block, items[i])

\* parseHealthV2Blocks.
BlocksFit(health) ==
  /\ Fits("top", health.top)
  /\ \A b \in Optional \cap DOMAIN health : health[b].is = "null" \/ Fits(b, health[b])
  /\ Has(health, "sensors") => health.sensors.is = "array" /\ AllFit("sensors", health.sensors.items)
  /\ Has(health, "remote_command_lockout")
       => AllFit("senders", health.remote_command_lockout.items)

\* parseEvidence: what a canonical payload must have, a legacy one may.
EvidenceFits(health, must) ==
  IF Has(health, "evidence") /\ health.evidence.is # "null"
  THEN /\ health.evidence.is = "object"
       /\ NullableFits("evidence", health.evidence.fields)
       /\ \A f \in EvidenceFields.required :
            IF Has(health.evidence.fields, f.name)
            THEN health.evidence.fields[f.name] \in Values[f.type]
            ELSE ~must
  ELSE ~must

\* A payload is [form, health], form being "canonical", "legacy" (no ok field),
\* "nested" (no ok field either, and a health object nonetheless) or what is wrong
\* with the envelope.  A nested payload is taken for a legacy one that has nothing
\* at its top.
BadForms ==
  {"not_json", "schema_version", "ok_not_boolean", "not_ok", "health_not_object"}

Accepted(p) ==
  \/ p.form = "canonical" /\ EvidenceFits(p.health, TRUE) /\ BlocksFit(p.health)
  \/ p.form = "legacy" /\ EvidenceFits(p.health, FALSE)
  \/ p.form = "nested"

-----------------------------------------------------------------------------
(***************************************************************************)
(* What a parsed payload says.  A legacy payload is parsed for its         *)
(* evidence only; a block that is absent or null is nil.                   *)
(***************************************************************************)
Parsed(p) ==
  LET named == DOMAIN p.health \cap
                 CASE p.form = "canonical" -> DOMAIN p.health
                   [] p.form = "legacy" -> {"evidence"}
                   [] OTHER -> {}
  IN  [b \in {n \in named : p.health[n].is # "null"} |-> p.health[b]]

\* An absent field and a null one are alike.
Told(fields, n) == IF Has(fields, n) THEN fields[n] ELSE "null"

Says(s, b, n) == IF Has(s, b) THEN Told(s[b].fields, n) ELSE "null"

Flag(s, b, n) == Says(s, b, n) = "true"

Items(s, b) == IF Has(s, b) THEN {s[b].items[i] : i \in DOMAIN s[b].items} ELSE {}

Without(fields, names) == [n \in DOMAIN fields \ names |-> fields[n]]

\* Only an object has anything taken out of it.
Bare(block, names) ==
  IF block.is = "object" THEN [block EXCEPT !.fields = Without(@, names)] ELSE block

Identities == {"from_number", "channel", "reason"}

\* redactSenderIdentities gives up on a lockout or a list of senders that is of
\* another type, and passes over a sender that is.
SendersBare(block) ==
  IF block.is = "object" /\ Told(block.fields, "senders") = "array"
  THEN [block EXCEPT !.items = [i \in DOMAIN @ |-> Bare(@[i], Identities)]]
  ELSE block

\* What runtime-health prints in JSON mode: the payload with the blocks at its top
\* redacted, which are the health object's only if it is not nested.
Redacted(p) ==
  [n \in DOMAIN p.health |->
     CASE p.form = "nested" -> p.health[n]
       [] n = "remote_command_lockout" -> SendersBare(p.health[n])
       [] n = "evidence" -> Bare(p.health[n], {"artifact_version"})
       [] OTHER -> p.health[n]]
=============================================================================
