----------------------------- MODULE BridgeCall -----------------------------
(***************************************************************************)
(* Commands that run the runtime's bridge as a subprocess: Runner.Run      *)
(* (internal/bridge/bridge.go), the commissioning commands of              *)
(* cmd/binding.go, and the delegating ones of cmd/root.go and cmd/state.go.*)
(*                                                                         *)
(* The runtime is not in the repository.  It is modelled by what the       *)
(* commands say of it: it asks an operator for consent, commands a coil,   *)
(* holds and releases it, records what was attested, prints one envelope   *)
(* and exits.  It may die at any step, print nothing that can be read, or  *)
(* exit with a failure after an envelope that says otherwise; what it      *)
(* recorded stands only when it exits cleanly.  What it starts in turn may *)
(* hold its output after it is gone: the command waits for that too, and   *)
(* no deadline ends the wait (Runner.Run sets no WaitDelay).               *)
(***************************************************************************)
EXTENDS OriProcess

VARIABLES
  child,   \* the subprocess of the command's latest call
  calls,   \* how many calls the command has made
  coil,    \* the control input under proof is commanded
  died,    \* the runtime once died by itself with the coil commanded
  held     \* something the subprocess started holds its output

bridge == <<child, calls, coil, died, held>>

Commissioning == {"prove", "deliver", "export", "export_zone", "candidates", "capture"}
Delegated == {"config"}   \* config validate and show, skills list and validate
BridgeNames == Commissioning \cup Delegated \cup {"state"}

\* An envelope, as the command tells them apart: ok with the result it expects,
\* ok with one that falls short (an attestation it does not know, a leg without
\* both outcomes), ok with one it cannot decode, a refusal.
Envelopes == {"ok", "lacking", "strange", "refused"}

\* stage: "asking" for consent, "holding" the coil, "attested", "cancelling",
\* "working", "printed", "gone"; said: an envelope or "nothing"; proof: what it recorded.
Child(stage) == [stage |-> stage, said |-> "nothing", exit |-> "none", proof |-> "none"]

NoChild == Child("gone")

Alive == child.stage # "gone"

\* A coil that a dead runtime left commanded has been seen to by then.
BridgeOver ==
  /\ ~Alive
  /\ child' = NoChild /\ calls' = 0
  /\ coil' = (coil /\ ~died) /\ died' = FALSE /\ held' = FALSE

-----------------------------------------------------------------------------
(***************************************************************************)
(* The runtime's side.                                                     *)
(***************************************************************************)
Gone(k) == [k EXCEPT !.stage = "gone", !.exit = "failure"]

Stage(from, to) == child.stage = from /\ child' = [child EXCEPT !.stage = to]

Consents ==
  /\ Stage("asking", "holding")
  /\ coil' = TRUE
  /\ UNCHANGED <<process, calls, died, held>>

\* The operator attests, or the observation window closes.
Releases ==
  /\ child.stage = "holding"
  /\ \E seen \in {"matched", "other"} :
       child' = [child EXCEPT !.stage = "attested", !.proof = seen]
  /\ coil' = FALSE
  /\ UNCHANGED <<process, calls, died, held>>

\* An interrupted proof releases the coil before it leaves.
Cancels ==
  /\ child.stage = "cancelling"
  /\ child' = Gone(child)
  /\ coil' = FALSE
  /\ UNCHANGED <<process, calls, died, held>>

\* A proof is reported for a match only; a runtime this build does not know may
\* report a match in other words.
MaySay(k) ==
  CASE k.stage = "asking" -> {"refused"}
    [] k.stage = "attested" -> IF k.proof = "matched" THEN {"ok", "lacking", "strange"} ELSE {"refused"}
    [] OTHER -> Envelopes

PrintsEnvelope ==
  /\ child.stage \in {"asking", "attested", "working"}
  /\ \E said \in MaySay(child) : child' = [child EXCEPT !.stage = "printed", !.said = said]
  /\ UNCHANGED <<process, calls, coil, died, held>>

\* A refusal exits with a failure, as a crash while leaving does.
Exits ==
  /\ child.stage = "printed"
  /\ \E exit \in {"clean", "failure"} : child' = [child EXCEPT !.stage = "gone", !.exit = exit]
  /\ UNCHANGED <<process, calls, coil, died, held>>

Dies ==
  /\ Alive
  /\ child' = Gone(child)
  /\ died' = (died \/ coil)
  /\ UNCHANGED <<process, calls, coil, held>>

HoldsOutput ==
  /\ Alive /\ ~held
  /\ held' = TRUE
  /\ UNCHANGED <<process, child, calls, coil, died>>

LetsGo ==
  /\ held
  /\ held' = FALSE
  /\ UNCHANGED <<process, child, calls, coil, died>>

-----------------------------------------------------------------------------
(***************************************************************************)
(* The command's side.                                                     *)
(***************************************************************************)
Spawns ==
  /\ IsRunning(BridgeNames) /\ calls = 0
  /\ child' = Child(IF command.name = "prove" THEN "asking" ELSE "working")
  /\ calls' = 1
  /\ UNCHANGED <<process, coil, died, held>>

\* The program to run is not there.
CannotSpawn ==
  /\ IsRunning(BridgeNames) /\ calls = 0
  /\ Returns("error", <<>>)
  /\ UNCHANGED bridge

\* A call returns when the subprocess is gone and its output is closed.
CallReturned(names) == IsRunning(names) /\ calls > 0 /\ ~Alive /\ ~held

\* Mutant: a proof gets the deadline the other commands have.
HasDeadlineAlways(name) == TRUE

\* Mutant: no command has a deadline.
HasDeadlineNever(name) == FALSE

\* Every command but a proof calls the runtime under a deadline.
HasDeadline(name) == name # "prove"

\* The deadline kills the subprocess with a signal it cannot catch, and nothing
\* else; the coil stays as it is.
Deadline ==
  /\ IsRunning(BridgeNames) /\ Alive /\ HasDeadline(command.name)
  /\ child' = Gone(child)
  /\ UNCHANGED <<process, calls, coil, died, held>>

\* An interrupt ends the command at once and reaches the subprocess too.
Interrupt ==
  /\ IsRunning(BridgeNames)
  /\ status' = Signalled
  /\ child' = IF child.stage = "holding" THEN [child EXCEPT !.stage = "cancelling"]
              ELSE IF Alive THEN Gone(child) ELSE child
  /\ UNCHANGED <<command, stdout, calls, coil, died, held>>

\* The command alone is killed and the subprocess goes on.
KillsCommand ==
  /\ IsRunning(BridgeNames)
  /\ status' = Signalled
  /\ UNCHANGED <<command, stdout, bridge>>

\* The envelope is echoed in JSON mode, unless the command has an object of its
\* own.
Echoed(c) == IF c.json /\ c.name \notin {"export_zone", "capture"} THEN <<"envelope">> ELSE <<>>

Verdict(err, what) == [err |-> err, out |-> what]

InText(c, what) == IF c.json THEN <<>> ELSE <<what>>

\* What a command does with a result it was given.
OwnVerdict(c, said) ==
  CASE c.name = "prove" ->
         IF said = "ok" THEN Verdict("none", InText(c, "attested")) ELSE Verdict("refused", <<>>)
    [] c.name = "export_zone" ->
         IF said = "ok" THEN Verdict("none", <<"leg">>)
         ELSE Verdict(IF said = "lacking" THEN "refused" ELSE "error", <<>>)
    [] c.name = "candidates" ->
         IF said = "strange" /\ ~c.json THEN Verdict("error", <<>>)
         ELSE Verdict("none", InText(c, "inventory"))
    [] c.name = "deliver" -> Verdict("none", InText(c, "state"))
    [] OTHER -> Verdict("none", <<>>)

\* Mutant: the exit status is looked at before the envelope.
CommissioningVerdictByExit(c, k) ==
  IF k.exit = "failure" \/ k.said = "nothing" THEN Verdict("error", <<>>)
  ELSE IF k.said = "refused" THEN Verdict("refused", Echoed(c))
  ELSE LET own == OwnVerdict(c, k.said) IN Verdict(own.err, Echoed(c) \o own.out)

\* Mutant: an envelope that says ok is believed, whatever the exit.
CommissioningVerdictTrusting(c, k) ==
  IF k.said = "nothing" THEN Verdict("error", <<>>)
  ELSE IF k.said = "refused" THEN Verdict("refused", Echoed(c))
  ELSE LET own == OwnVerdict(c, k.said) IN Verdict(own.err, Echoed(c) \o own.out)

\* Mutant: the envelope is echoed by a command that prints an object of its own.
CommissioningVerdictEchoing(c, k) ==
  LET echo == IF c.json THEN <<"envelope">> ELSE <<>>
      own == OwnVerdict(c, k.said)
  IN  IF k.said = "nothing" THEN Verdict("error", <<>>)
      ELSE IF k.said = "refused" THEN Verdict("refused", echo)
      ELSE IF k.exit = "failure" THEN Verdict("error", echo)
      ELSE Verdict(own.err, echo \o own.out)

\* invokeBridgeEchoing, and the command that called it.
CommissioningVerdict(c, k) ==
  LET own == OwnVerdict(c, k.said)
  IN  IF k.said = "nothing" THEN Verdict("error", <<>>)
      ELSE IF k.said = "refused" THEN Verdict("refused", Echoed(c))
      ELSE IF k.exit = "failure" THEN Verdict("error", Echoed(c))
      ELSE Verdict(own.err, Echoed(c) \o own.out)

\* bridgeBacked: the envelope is passed on, whatever it says.
DelegatedVerdict(k) ==
  IF k.exit = "failure" \/ k.said = "nothing" THEN Verdict("error", <<>>)
  ELSE Verdict("none", <<"envelope">>)

\* runStateQuery: a refusal is rendered, and an error.
StateVerdict(k) ==
  IF k.exit = "failure" \/ k.said = "nothing" THEN Verdict("error", <<>>)
  ELSE Verdict(IF k.said = "refused" THEN "error" ELSE "none", <<"envelope">>)

VerdictOn(c, k) ==
  CASE c.name \in Commissioning -> CommissioningVerdict(c, k)
    [] c.name \in Delegated -> DelegatedVerdict(k)
    [] OTHER -> StateVerdict(k)

\* Run has returned, and the command ends.
BridgeReturns ==
  /\ CallReturned(BridgeNames)
  /\ LET v == VerdictOn(command, child)
     IN  /\ command.name = "capture" => v.err # "none"
         /\ Returns(v.err, v.out)
  /\ UNCHANGED bridge

\* capture has the inventory: it exports the binding in force under the same
\* deadline.
AsksForPrior ==
  /\ CallReturned({"capture"}) /\ calls = 1
  /\ VerdictOn(command, child).err = "none" /\ child.said = "ok"
  /\ child' = Child("working")
  /\ calls' = 2
  /\ UNCHANGED <<process, coil, died, held>>

\* capture has what it asked for: the account is inconsistent or a path in the
\* way, the ceremony refuses, or the draft is written, to a path or to standard
\* output, with one object in JSON mode.
Captures ==
  /\ CallReturned({"capture"})
  /\ VerdictOn(command, child).err = "none"
  /\ \/ \E err \in {"error", "refused"} : Returns(err, <<>>)
     \/ /\ child.said = "ok"
        /\ \E text \in {<<>>, <<"draft">>} :
             Returns("none", IF command.json THEN <<"report">> ELSE text)
  /\ UNCHANGED bridge

BridgeInit == child = NoChild /\ calls = 0 /\ coil = FALSE /\ died = FALSE /\ held = FALSE

RuntimeNext ==
  \/ Consents \/ Releases \/ Cancels \/ PrintsEnvelope \/ Exits \/ Dies
  \/ HoldsOutput \/ LetsGo

BridgeNext ==
  \/ RuntimeNext
  \/ Spawns \/ CannotSpawn \/ Deadline \/ Interrupt \/ KillsCommand
  \/ BridgeReturns \/ AsksForPrior \/ Captures

-----------------------------------------------------------------------------
(***************************************************************************)
(* Properties.                                                             *)
(***************************************************************************)
Ended(names) == status \in 0 .. 2 /\ command.name \in names

\* A command that exits with success has a runtime that did what it was asked
\* and left cleanly; a proof has a match on record (binding.go:576-584, 471-480).
SuccessIsOnRecord ==
  Ended(Commissioning) /\ status = 0 =>
    /\ child.exit = "clean" /\ child.said # "refused"
    /\ command.name = "prove" => child.proof = "matched"

\* An exit status of 2 says that the system refused, and nothing else does: a
\* refusal the runtime described is not lost when it then fails or is killed,
\* and a broken tool never looks like a refusal (root.go:93-103, binding.go:569-585).
RefusalsTellApart ==
  Ended(Commissioning \ {"capture"}) =>
    ( status = 2 <=>
        \/ child.said = "refused"
        \/ child.exit = "clean" /\ command.name = "prove" /\ child.said \in {"lacking", "strange"}
        \/ child.exit = "clean" /\ command.name = "export_zone" /\ child.said = "lacking" )

\* Nothing the command does leaves the coil commanded: a proof that began is
\* released, unless the runtime itself died (binding.go:453-460).
CoilReleased == coil ~> (~coil \/ died)
=============================================================================
