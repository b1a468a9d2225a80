---------------------------- MODULE DoctorHealth ----------------------------
(***************************************************************************)
(* `ori doctor` and `ori doctor runtime-health` (cmd/doctor.go): the       *)
(* runtime's health is asked of the bridge first, then of the health       *)
(* socket, each under a deadline of its own inside the command's.          *)
(*                                                                         *)
(* The clock counts seconds from the start of the command.  The socket     *)
(* (not in the repository) is sound or not when the command starts: a      *)
(* sound one answers after a delay with a payload as the contract has it;  *)
(* anything else may answer with anything, fail, or not answer.  The       *)
(* bridge makes no promise.  What its subprocess starts in turn may hold   *)
(* the output it was given: the doctor then waits past every deadline.     *)
(***************************************************************************)
EXTENDS OriProcess, DoctorSummary

CONSTANTS
  Deliveries,   \* a set of [truth, sent]: a payload that says what is true of the
                \* runtime as the contract has it, and what a transport makes of it
  Delays        \* how long a sound socket may take

Overall == 10
BridgeTimeout == 5
SocketTimeout == 3

ASSUME DelaysAssumption == Delays \subseteq Nat

\* A payload is a form and a health object of blocks, and a block's items are such
\* blocks (HealthContract).
IsBlock(b) == b = [is |-> b.is, fields |-> b.fields, items |-> b.items]

IsPayload(p) ==
  /\ p = [form |-> p.form, health |-> p.health]
  /\ \A n \in DOMAIN p.health :
       /\ IsBlock(p.health[n])
       /\ \A i \in DOMAIN p.health[n].items : IsBlock(p.health[n].items[i])

ASSUME PayloadAssumption == \A d \in Deliveries : IsPayload(d.sent)

\* What the contract has a runtime say is a payload of its form, with each sender's
\* risk in one of its three words.
RiskLevels == {"normal", "elevated", "critical"}

ASSUME ContractAssumption ==
  \A d \in Deliveries :
    /\ d.truth.form = "canonical" /\ Accepted(d.truth)
    /\ \A sender \in Items(d.truth.health, "remote_command_lockout") :
         sender.fields.risk_level \in RiskLevels

\* A field arrives as it was told, or as something that is not of its type; a field
\* that may be absent does not vanish.
FieldsArrive(block, told, sent) ==
  LET Same(f) == Told(sent, f.name) = Told(told, f.name)
  IN  /\ \A f \in Schema[block].required :
           Same(f) \/ Told(sent, f.name) \notin Values[f.type]
      /\ \A f \in Schema[block].nullable :
           Same(f) \/ Told(sent, f.name) \notin {"null"} \cup Values[f.type]

ItemsArrive(block, told, sent) ==
  /\ DOMAIN sent = DOMAIN told
  /\ \A i \in DOMAIN told : FieldsArrive(block, told[i].fields, sent[i].fields)

\* A block that may be absent or null neither vanishes nor appears.
HealthArrives(told, sent) ==
  /\ DOMAIN sent = DOMAIN told
  /\ \A b \in DOMAIN told \cap DOMAIN Schema :
       \/ sent[b].is = told[b].is
       \/ sent[b].is \notin {"null", IF b = "sensors" THEN "array" ELSE "object"}
  /\ \A b \in DOMAIN told \cap (DOMAIN Schema \ {"sensors"}) :
       FieldsArrive(b, told[b].fields, sent[b].fields)
  /\ Has(told, "sensors") => ItemsArrive("sensors", told.sensors.items, sent.sensors.items)
  /\ Has(told, "remote_command_lockout") =>
       ItemsArrive("senders", told.remote_command_lockout.items,
                   sent.remote_command_lockout.items)

\* What a transport may make of a payload: its old form, one taken for it, no
\* payload at all, or the payload with any part of it spoilt.  It does not put one
\* sound value in the place of another.
ASSUME TransportAssumption ==
  \A d \in Deliveries :
    \/ d.sent.form \in BadForms \cup {"legacy", "nested"}
    \/ d.sent.form = "canonical" /\ HealthArrives(d.truth.health, d.sent.health)

VARIABLES
  attempt,   \* the transport being asked, since when, and whether the bridge's
             \* output is or was held: pipe is "free", "held" or "let_go"
  elapsed,   \* seconds since the command started, up to Overall
  socket,    \* what the socket will do: [sound, delay]
  shown      \* what a command that ended well was told

doctor == <<attempt, elapsed, socket, shown>>

DoctorNames == {"doctor", "runtime_health"}

Attempt(via) == [via |-> via, began |-> 0, pipe |-> "free"]
NoAttempt == Attempt("nothing")
NoSocket == [sound |-> FALSE, delay |-> 0]
NothingShown == [via |-> "nothing"]

DoctorIdle ==
  attempt = NoAttempt /\ elapsed = 0 /\ socket = NoSocket /\ shown = NothingShown

DoctorOver ==
  attempt' = NoAttempt /\ elapsed' = 0 /\ socket' = NoSocket /\ shown' = NothingShown

DoctorStart(c) ==
  /\ attempt' = CASE c.name = "doctor" -> Attempt("bridge")
                   [] c.name = "runtime_health" -> Attempt("socket")
                   [] OTHER -> NoAttempt
  /\ socket' \in IF c.name \in DoctorNames
                 THEN {NoSocket} \cup [sound : {TRUE}, delay : Delays] ELSE {NoSocket}
  /\ UNCHANGED <<elapsed, shown>>

-----------------------------------------------------------------------------
Earlier(a, b) == IF a < b THEN a ELSE b

CommandTimeout(c) == IF c.name = "doctor" THEN Overall ELSE SocketTimeout

\* Mutant: the bridge runs under the command's deadline.
DeadlineOfShared(c, a) ==
  Earlier(CommandTimeout(c), IF a.via = "bridge" THEN Overall ELSE a.began + SocketTimeout)

\* A deadline inside the command's: the earlier of the two holds.
DeadlineOf(c, a) ==
  Earlier(CommandTimeout(c),
          a.began + IF a.via = "bridge" THEN BridgeTimeout ELSE SocketTimeout)

Asking == IsRunning(DoctorNames)

FromSoundSocket == attempt.via = "socket" /\ socket.sound

DueNow == FromSoundSocket /\ elapsed - attempt.began >= socket.delay

Held == attempt.pipe = "held"

Tick ==
  /\ Asking
  /\ elapsed < (IF Held THEN Overall ELSE DeadlineOf(command, attempt)) /\ ~DueNow
  /\ elapsed' = elapsed + 1
  /\ UNCHANGED <<process, attempt, socket, shown>>

HoldsBridgeOutput ==
  /\ Asking /\ attempt.via = "bridge" /\ attempt.pipe = "free"
  /\ elapsed < DeadlineOf(command, attempt)
  /\ attempt' = [attempt EXCEPT !.pipe = "held"]
  /\ UNCHANGED <<process, elapsed, socket, shown>>

LetsBridgeOutputGo ==
  /\ Asking /\ Held
  /\ attempt' = [attempt EXCEPT !.pipe = "let_go"]
  /\ UNCHANGED <<process, elapsed, socket, shown>>

\* A doctor the bridge has failed asks the socket; one the socket has failed
\* gives up, with both errors.
FailsOver ==
  IF attempt.via = "bridge"
  THEN /\ attempt' = [attempt EXCEPT !.via = "socket", !.began = elapsed]
       /\ UNCHANGED <<process, elapsed, socket, shown>>
  ELSE /\ Returns("error", <<>>)
       /\ UNCHANGED doctor

TimesOut ==
  /\ Asking /\ ~Held
  /\ elapsed >= DeadlineOf(command, attempt)
  /\ FailsOver

\* No such program, no such socket, a refused connection, a cut line, an envelope
\* without a result.
TransportFails ==
  /\ Asking /\ ~Held
  /\ ~FromSoundSocket
  /\ FailsOver

Acceptable == {d \in Deliveries : Accepted(d.sent)}
Unacceptable == Deliveries \ Acceptable
Faithful == {d \in Deliveries : d.sent = d.truth}

\* What a sound socket may answer; nothing the parser refuses, by ContractAssumption.
SoundlyAcceptable == Faithful \cap Acceptable
SoundlyUnacceptable == Faithful \cap Unacceptable

\* An answer is read before the deadline.  A bridge that left in time has given its
\* answer, however long its output was held then.
InTime ==
  /\ Asking /\ ~Held
  /\ elapsed < DeadlineOf(command, attempt) \/ (attempt.via = "bridge" /\ attempt.pipe = "let_go")

\* The answer is one the parser accepts.
Answers ==
  /\ InTime
  /\ FromSoundSocket => DueNow
  /\ \E d \in IF FromSoundSocket THEN SoundlyAcceptable ELSE Acceptable :
       shown' = [via |-> attempt.via, heard |-> d]
  /\ Returns("none", <<"health">>)
  /\ attempt' = NoAttempt /\ elapsed' = 0 /\ socket' = NoSocket

\* Mutant: a payload the parser refuses ends the doctor, whoever sent it.
AnswersInVainAndEnds ==
  /\ InTime
  /\ FromSoundSocket => DueNow
  /\ (IF FromSoundSocket THEN SoundlyUnacceptable ELSE Unacceptable) # {}
  /\ Returns("error", <<>>)
  /\ UNCHANGED doctor

AnswersInVain ==
  /\ InTime
  /\ FromSoundSocket => DueNow
  /\ (IF FromSoundSocket THEN SoundlyUnacceptable ELSE Unacceptable) # {}
  /\ FailsOver

DoctorNext ==
  \/ Tick \/ HoldsBridgeOutput \/ LetsBridgeOutputGo
  \/ TimesOut \/ TransportFails \/ Answers \/ AnswersInVain

-----------------------------------------------------------------------------
(***************************************************************************)
(* Properties.                                                             *)
(***************************************************************************)
Reported == shown.via # "nothing"

Heard == shown.heard

Diagnosed == Reported /\ command.name = "doctor"

Report == BuildSummary(Parsed(Heard.sent))

\* A health that calls for attention, told flatly from the runtime's own words.
Present(h, b) == Has(h, b) /\ h[b].is # "null"
Is(h, b, n, v) == Present(h, b) /\ Told(h[b].fields, n) = v
Counts(h, b, n) == Present(h, b) /\ Told(h[b].fields, n) \notin {"null", "zero"}
Among(h, b, n, values) ==
  Present(h, b) /\ \E i \in DOMAIN h[b].items : Told(h[b].items[i].fields, n) \in values

Known(h, b) == Is(h, b, "available", "true")

SensorsUnwell(h) ==
  \/ Among(h, "sensors", "connected", {"false"})
  \/ Among(h, "sensors", "last_seen_ms", {"null", "future"})
  \/ Among(h, "sensors", "stale", {"true"})

SendersUnwell(h) ==
  \/ Among(h, "remote_command_lockout", "risk_level", Values["string"] \ {"normal"})
  \/ Among(h, "remote_command_lockout", "locked_out", {"true"})
  \/ Among(h, "remote_command_lockout", "stale", {"true"})

ChannelsUnwell(h) ==
  \/ ~Known(h, "capability_posture")
  \/ \E n \in {"sms_available", "whatsapp_available", "internet_available", "relay_connected"} :
       Is(h, "capability_posture", n, "false")
  \/ Counts(h, "alert_outbox", "backlog_count")

PolicyUnwell(h) ==
  /\ Is(h, "device_policy", "enabled", "true") /\ Known(h, "device_policy")
  /\ \/ Is(h, "device_policy", "is_expired", "true")
     \/ \E n \in {"relay_b_enabled", "relay_c_enabled"} : Is(h, "device_policy", n, "false")

EvidenceUnwell(h) ==
  \/ Counts(h, "evidence", "attestation_gap_count")
  \/ Is(h, "evidence", "enabled", "true") /\ Is(h, "evidence", "available", "false")

GatewayUnwell(h) ==
  \/ ~Known(h, "gateway_broker_posture")
  \/ /\ Is(h, "gateway_broker_posture", "gateway_enabled", "true")
     /\ Is(h, "gateway_broker_posture", "requires_acl_hardening", "true")

StoreUnwell(h) ==
  \/ ~Known(h, "state_store_encryption")
  \/ /\ Is(h, "state_store_encryption", "mode", "filesystem_required")
     /\ Is(h, "state_store_encryption", "satisfied", "false")

Unwell(h) ==
  \/ SensorsUnwell(h) \/ SendersUnwell(h) \/ ChannelsUnwell(h) \/ PolicyUnwell(h)
  \/ EvidenceUnwell(h) \/ GatewayUnwell(h) \/ StoreUnwell(h)

\* A doctor that reports says "degraded" of a runtime that calls for attention,
\* whatever a transport did to the payload on its way; and says it of no other,
\* unless the payload came in its old form (doctor/doctor.go:126-152,
\* health.go:418-506).
DoctorTellsTheTruth ==
  Diagnosed =>
    /\ Unwell(Heard.truth.health) => Report.degraded
    /\ Heard.sent.form = "canonical" /\ ~Unwell(Heard.truth.health) => ~Report.degraded

\* Tier D is never said to be disabled by device policy, alert channels,
\* evidence, gateway or local model: only a relay known to be disconnected
\* makes it not ready (doctor/doctor.go:245-249).
TierDStandsAlone ==
  Diagnosed =>
    LET d == Report.tiers.d
        posture == [b \in DOMAIN Heard.sent.health \cap {"capability_posture"} |->
                      Heard.sent.health[b]]
        alone == [Heard.sent EXCEPT !.health = posture]
    IN  /\ d = BuildSummary(Parsed(alone)).tiers.d
        /\ d.ready = "not_ready" => "relay_disconnected" \in d.reasons

\* What a health object says of who sent a remote command, over which channel and
\* why it was judged, or of the evidence component's version.
Identifies(h) ==
  \/ Present(h, "remote_command_lockout")
       /\ \E i \in DOMAIN h.remote_command_lockout.items :
            DOMAIN h.remote_command_lockout.items[i].fields \cap Identities # {}
  \/ Present(h, "evidence") /\ Has(h.evidence.fields, "artifact_version")

\* runtime-health in JSON mode, which passes the payload on, identifies nobody when
\* it is in the contract's form: redaction gives up on a block or a sender that is
\* not of its type, and the parser has refused every payload it would give up on.
\* Payloads without ok are not covered (health.go:271-275, 302-346, 418-506).
NobodyIdentified ==
  /\ Reported /\ command.name = "runtime_health" /\ command.json
  /\ Heard.sent.form = "canonical"
  => ~Identifies(Redacted(Heard.sent))

\* A sound socket that answers inside its own budget is heard, however the bridge
\* fails before it, hangs to its deadline included (cmd/doctor.go:57-65).  Only what
\* a bridge leaves behind can cost it that, by holding the bridge's output until the
\* command's own deadline is too near (bridge.go:40).
SoundSocketIsHeard ==
  status \in {1, 2} /\ command.name \in DoctorNames =>
    \/ ~socket.sound \/ socket.delay >= SocketTimeout
    \/ attempt.pipe # "free" /\ attempt.began + socket.delay >= Overall
=============================================================================
