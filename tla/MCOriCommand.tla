---------------------------- MODULE MCOriCommand ----------------------------
(***************************************************************************)
(* An instance of OriCommand for TLC: a runtime that is well, or unwell in *)
(* one or two ways, its payload delivered whole, with one value garbled or *)
(* one block or item that is not what it should be, in the old form, in    *)
(* one taken for it, or in no form; and tokens with up to one fault at     *)
(* every moment around their life.                                         *)
(***************************************************************************)
EXTENDS OriCommand

\* A block of a runtime that is well.
Object(fields) == [is |-> "object", fields |-> fields, items |-> <<>>]

Ordinary(type) ==
  [bool |-> "false", int |-> "zero", float |-> "zero", string |-> "text",
   counts |-> "counts", array |-> "array"][type]

NamesIn(fields) == {f.name : f \in fields}

OrdinaryFields(block) ==
  LET fields == Schema[block].required \cup Schema[block].nullable
  IN  [n \in NamesIn(fields) |-> Ordinary((CHOOSE f \in fields : f.name = n).type)]

Well ==
  [ top |-> Object(OrdinaryFields("top")),
    evidence |->
      Object([OrdinaryFields("evidence") EXCEPT !.enabled = "true", !.available = "true"]
               @@ [artifact_version |-> "text"]),
    capability_posture |->
      Object([n \in DOMAIN OrdinaryFields("capability_posture") |->
                IF OrdinaryFields("capability_posture")[n] = "false" THEN "true" ELSE "some"]),
    sensors |->
      [is |-> "array", fields |-> <<>>,
       items |-> <<Object([OrdinaryFields("sensors") EXCEPT !.connected = "true",
                                                            !.last_seen_ms = "past"])>>],
    last_alert_timestamps |-> Object(OrdinaryFields("last_alert_timestamps")),
    alert_outbox |-> Object(OrdinaryFields("alert_outbox")),
    device_policy |->
      Object([OrdinaryFields("device_policy") EXCEPT
                !.available = "true", !.enabled = "true",
                !.relay_b_enabled = "true", !.relay_c_enabled = "true"]),
    remote_command_lockout |->
      [is |-> "object", fields |-> OrdinaryFields("remote_command_lockout"),
       items |-> <<Object([OrdinaryFields("senders") EXCEPT !.risk_level = "normal"])>>],
    gateway_broker_posture |->
      Object([OrdinaryFields("gateway_broker_posture") EXCEPT !.available = "true"]),
    state_store_encryption |->
      Object([OrdinaryFields("state_store_encryption") EXCEPT
                !.available = "true", !.satisfied = "true"]) ]

\* The block's first item has another value, or the block has.
BlockOf(b) == IF b = "senders" THEN "remote_command_lockout" ELSE b

With(h, b, n, v) ==
  IF b \in {"sensors", "senders"}
  THEN [h EXCEPT ![BlockOf(b)].items[1].fields = (n :> v) @@ @]
  ELSE [h EXCEPT ![b].fields = (n :> v) @@ @]

Dropped(h, b, n) ==
  IF b \in {"sensors", "senders"}
  THEN [h EXCEPT ![BlockOf(b)].items[1].fields = Without(@, {n})]
  ELSE [h EXCEPT ![b].fields = Without(@, {n})]

\* The ways a runtime departs from Well.
Fallen ==
  { <<"sensors", "connected", "false">>, <<"sensors", "stale", "true">>,
    <<"sensors", "last_seen_ms", "null">>, <<"sensors", "last_seen_ms", "future">>,
    <<"alert_outbox", "backlog_count", "some">>,
    <<"evidence", "available", "false">>, <<"evidence", "enabled", "false">>,
    <<"evidence", "attestation_gap_count", "some">>,
    <<"device_policy", "enabled", "false">>, <<"device_policy", "available", "false">>,
    <<"device_policy", "is_expired", "true">>, <<"device_policy", "relay_b_enabled", "false">>,
    <<"device_policy", "relay_c_enabled", "false">>, <<"device_policy", "is_expired", "null">>,
    <<"device_policy", "relay_c_enabled", "null">>,
    <<"senders", "risk_level", "elevated">>, <<"senders", "risk_level", "critical">>,
    <<"senders", "locked_out", "true">>, <<"senders", "stale", "true">>,
    <<"gateway_broker_posture", "available", "false">>,
    <<"gateway_broker_posture", "gateway_enabled", "true">>,
    <<"gateway_broker_posture", "requires_acl_hardening", "true">>,
    <<"state_store_encryption", "available", "false">>,
    <<"state_store_encryption", "satisfied", "false">>,
    <<"state_store_encryption", "mode", "filesystem_required">> }
  \cup {<<"capability_posture", n, "false">> :
          n \in {"available", "sms_available", "whatsapp_available", "gateway_reachable",
                 "local_slm_loaded", "relay_connected", "internet_available"}}

Fall(h, c) == With(h, c[1], c[2], c[3])

Nothing == [is |-> "null", fields |-> <<>>, items |-> <<>>]

Canonical(h) == [form |-> "canonical", health |-> h]
LegacyForm(h) == [form |-> "legacy", health |-> h]
NestedForm(h) == [form |-> "nested", health |-> h]

None == <<"", "", "">>

\* Two departures that bear on each other, of one block or through one tier.
Departures ==
  {<<None, None>>} \cup {<<c, None>> : c \in Fallen}
    \cup {cd \in Fallen \X Fallen :
            cd[1][1] = cd[2][1] \/ (cd[1][1] = "capability_posture" /\ cd[2][1] = "device_policy")}

Departed(h, cd) ==
  LET once == IF cd[1] = None THEN h ELSE Fall(h, cd[1])
  IN  IF cd[2] = None THEN once ELSE Fall(once, cd[2])

\* A value of the wrong type, a field that is dropped, a block or an item that is
\* no object.
Spoilt(h, how, b, n) ==
  CASE how = "dropped" -> Dropped(h, b, n)
    [] how = "block" -> [h EXCEPT ![b].is = "text"]
    [] how = "item" -> [h EXCEPT ![BlockOf(b)].items[1].is = "array"]
    [] OTHER -> With(h, b, n, "garbled")

RequiredOf(b) == NamesIn(Schema[b].required)
NamesOf(b) == RequiredOf(b) \cup NamesIn(Schema[b].nullable)

Spoilers ==
  UNION { {<<"value", b, n>> : n \in NamesOf(b)}
            \cup {<<"dropped", b, n>> : n \in RequiredOf(b) \ {"senders"}}
            \cup {<<"block", b, "">>} : b \in DOMAIN Schema \ {"senders"} }
    \cup {<<"item", b, "">> : b \in {"sensors", "senders"}}
    \cup {<<"dropped", "senders", n>> : n \in RequiredOf("senders")}
    \cup {<<"value", "senders", n>> : n \in NamesOf("senders")}

\* The ways a payload's senders are not where redaction looks for them.
Misshapen ==
  { <<"block", "remote_command_lockout", "">>, <<"value", "remote_command_lockout", "senders">>,
    <<"item", "senders", "">> }

Delivery(truth, sent) == [truth |-> Canonical(truth), sent |-> sent]

\* As it is, with a block that is absent or null, and in the old form.
Unspoilt ==
  {Delivery(h, Canonical(h)) :
     h \in {Departed(w, cd) : w \in {Well}, cd \in Departures}
             \cup {[w EXCEPT ![b] = Nothing] : w \in {Well}, b \in Optional}
             \cup {Without(w, {b}) : w \in {Well}, b \in Optional \cup {"sensors"}}}
    \cup {Delivery(h, LegacyForm(h)) :
             h \in {Departed(w, <<c, None>>) : w \in {Well}, c \in Fallen \cup {None}}}

\* Garbled where the runtime has fallen, spoilt anywhere, or hardly a payload.
Garbled ==
  {Delivery(Fall(w, c), Canonical(Spoilt(Fall(w, c), "value", c[1], c[2]))) :
     w \in {Well}, c \in Fallen}
    \cup {Delivery(w, Canonical(Spoilt(w, s[1], s[2], s[3]))) : w \in {Well}, s \in Spoilers}
    \cup {Delivery(w, [form |-> f, health |-> <<>>]) : w \in {Well}, f \in BadForms \cup {"legacy"}}
    \cup {Delivery(w, LegacyForm(With(w, "evidence", "enabled", "garbled"))) : w \in {Well}}
    \cup {Delivery(w, NestedForm(w)) : w \in {Well}}
    \cup {Delivery(w, LegacyForm(Spoilt(w, s[1], s[2], s[3]))) : w \in {Well}, s \in Misshapen}

AllDeliveries == Unspoilt \cup Garbled

-----------------------------------------------------------------------------
Flawless(issued, expires) ==
  [ encoding |-> "json", faulty |-> "none", fault |-> "none", issued_at |-> issued,
    expires_at |-> expires, device_id |-> "expected", scheme |-> "ed25519",
    signed_by |-> "anchor", signed_over |-> "this" ]

\* Skew is two seconds, and a token lives for a second and a half at the most.
SomeTokens ==
  LET sound == {Flawless(issued, expires) : issued \in 8 .. 9, expires \in 8 .. 11}
      One == Flawless(8, 11)
  IN  sound
        \cup {[One EXCEPT !.encoding = e] : e \in {"base64url", "padded_base64url", "garbage"}}
        \cup {[One EXCEPT !.faulty = c, !.fault = f] : c \in Claims, f \in Faults}
        \cup {[One EXCEPT !.device_id = "another"], [One EXCEPT !.scheme = "Ed25519"],
              [One EXCEPT !.scheme = "rsa"], [One EXCEPT !.signed_by = "another"],
              [One EXCEPT !.signed_over = "other"]}

AroundLife == 2 .. 17
=============================================================================
