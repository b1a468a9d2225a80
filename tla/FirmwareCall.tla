---------------------------- MODULE FirmwareCall ----------------------------
(***************************************************************************)
(* `ori firmware mqtt ...`: one request to the runtime's firmware socket   *)
(* (CallFirmwareMQTT, internal/rpc/firmware_mqtt.go) and what the command  *)
(* makes of the reply (cmd/firmware.go).                                   *)
(*                                                                         *)
(* The runtime is not in the repository: it decides a request and then     *)
(* replies, and the reply may be cut, doubled, oversized, against the      *)
(* contract, or late; what was decided stands whatever becomes of it.      *)
(***************************************************************************)
EXTENDS OriProcess

VARIABLES
  stage,     \* of the request: "none", "asked", "decided", "replied"
  decided,   \* what the runtime decided
  reply      \* what became of its reply: "whole", or a flaw

firmware == <<stage, decided, reply>>

Creating == {"create_csr", "prepare_install", "revoke", "status"}
Mutations == {"verify_install_result", "verify_revoke_result"}
Verifying == Mutations \cup {"verify_status_response"}
FirmwareNames == Creating \cup Verifying

\* secret: where a decision carries a private key's text, or in a result a field
\* that is named like one, at any depth.
Decision(ok, named, verdict, successful, secret) ==
  [ok |-> ok, named |-> named, verdict |-> verdict, successful |-> successful, secret |-> secret]

Undecided == Decision(FALSE, FALSE, "none", FALSE, "none")

Decisions(name) ==
  {Decision(FALSE, FALSE, "none", FALSE, secret) : secret \in {"none", "detail", "code"}}
    \cup {Decision(TRUE, named, verdict, successful, secret) :
            named \in BOOLEAN,
            verdict \in IF name \in Verifying THEN {"accepted", "refused"} ELSE {"none"},
            successful \in IF name \in Verifying THEN BOOLEAN ELSE {FALSE},
            secret \in {"none", "result"}}

\* How a reply fails to be one line that is one object of the contract.
Flaws ==
  { "unterminated", "two_lines", "oversized", "duplicate_field", "unknown_field",
    "trailing_value", "other_contract", "other_schema_version", "ok_with_error",
    "ok_without_result", "error_incomplete", "error_with_result", "result_not_object" }

FirmwareIdle == stage = "none" /\ decided = Undecided /\ reply = "whole"

FirmwareOver == stage' = "none" /\ decided' = Undecided /\ reply' = "whole"

InFirmware == IsRunning(FirmwareNames)

\* The path is absolute, the request within its limit, the socket there.
Asks ==
  /\ InFirmware /\ stage = "none"
  /\ stage' = "asked"
  /\ UNCHANGED <<process, decided, reply>>

CannotAsk ==
  /\ InFirmware /\ stage = "none"
  /\ Returns("error", <<>>)
  /\ UNCHANGED firmware

RuntimeDecides ==
  /\ InFirmware /\ stage = "asked"
  /\ decided' \in Decisions(command.name)
  /\ stage' = "decided"
  /\ UNCHANGED <<process, reply>>

RuntimeReplies ==
  /\ InFirmware /\ stage = "decided"
  /\ reply' \in {"whole"} \cup Flaws
  /\ stage' = "replied"
  /\ UNCHANGED <<process, decided>>

\* Before the reply is read: the deadline, or a connection that breaks.
NoReply ==
  /\ InFirmware /\ stage \in {"asked", "decided", "replied"}
  /\ Returns("error", <<>>)
  /\ UNCHANGED firmware

\* A result is searched to its depth, and of a failure the detail alone.
ContainsPrivateMaterial(d) == d.secret \in {"result", "detail"}

\* Mutant: a mutation is judged by its verdict alone.
UnsuccessfulByVerdict(name, d) == name \in Mutations /\ d.verdict # "accepted"

Unsuccessful(name, d) ==
  name \in Mutations /\ (d.verdict # "accepted" \/ ~d.successful)

\* A result is shown, then a mutation that did not succeed exits with a failure;
\* in text mode a result must say what operation it is of.
ShowsResult ==
  IF command.json \/ decided.named
  THEN Returns(IF Unsuccessful(command.name, decided) THEN "reported" ELSE "none", <<"result">>)
  ELSE Returns("error", <<>>)

\* A failure goes to standard output as an object, or to standard error as text,
\* its code with it.
ShowsFailure ==
  IF command.json THEN Returns("reported", <<"failure">>) ELSE Returns("error", <<>>)

ReadsReply ==
  /\ InFirmware /\ stage = "replied"
  /\ IF reply # "whole" \/ ContainsPrivateMaterial(decided)
     THEN Returns("error", <<>>)
     ELSE IF decided.ok THEN ShowsResult ELSE ShowsFailure
  /\ UNCHANGED firmware

FirmwareNext ==
  Asks \/ CannotAsk \/ RuntimeDecides \/ RuntimeReplies \/ NoReply \/ ReadsReply

-----------------------------------------------------------------------------
(***************************************************************************)
(* Properties.                                                             *)
(***************************************************************************)
\* A verified mutation that exits with success was accepted by the runtime and
\* had succeeded on the device, and the runtime's own word for it arrived whole
\* (firmware.go:197-209).
VerifiedMeansAccepted ==
  status = 0 /\ command.name \in Mutations =>
    decided.ok /\ decided.verdict = "accepted" /\ decided.successful /\ reply = "whole"
=============================================================================
