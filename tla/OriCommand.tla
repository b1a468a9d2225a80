----------------------------- MODULE OriCommand -----------------------------
(***************************************************************************)
(* The commands that ask something of the runtime or of a token, run one   *)
(* after another at a shell (cmd/root.go): the welcome, then what the      *)
(* command does, then its exit status.  Between two commands only the      *)
(* welcome's marker is kept; a bridge that outlives its command is gone    *)
(* before the next one starts.                                             *)
(***************************************************************************)
EXTENDS BridgeCall, DoctorHealth, FirmwareCall, OfflineToken, Welcome

\* Commands that end before they do anything: a flag that is wrong or missing, an
\* unknown output format, a token command that needs the cloud.
Idle == {"misused", "token_cloud"}

Commands ==
  [name : BridgeNames \cup DoctorNames \cup FirmwareNames \cup Idle \cup {"token_use"},
   json : BOOLEAN]

vars == <<process, bridge, doctor, firmware, use, welcome>>

Init ==
  /\ ProcessInit /\ BridgeInit /\ DoctorIdle /\ FirmwareIdle /\ TokenIdle /\ WelcomeInit

Start ==
  \E c \in Commands :
    /\ Starts(c) /\ WelcomeStart(c) /\ DoctorStart(c)
    /\ UNCHANGED <<bridge, firmware, use>>

Prompt ==
  /\ ProcessOver /\ BridgeOver /\ DoctorOver /\ FirmwareOver
  /\ use' = NoUse
  /\ UNCHANGED welcome

EndsIdle ==
  /\ IsRunning(Idle)
  /\ Returns("error", <<>>)
  /\ UNCHANGED <<bridge, doctor, firmware, use, welcome>>

\* Any command may be killed; one with a bridge by actions of its own.
Killed ==
  /\ IsRunning(DoctorNames \cup FirmwareNames)
  /\ status' = Signalled
  /\ UNCHANGED <<command, stdout, bridge, doctor, firmware, use, welcome>>

Works ==
  /\ Welcomed
  /\ \/ BridgeNext /\ UNCHANGED <<doctor, firmware, use, welcome>>
     \/ DoctorNext /\ UNCHANGED <<bridge, firmware, use, welcome>>
     \/ FirmwareNext /\ UNCHANGED <<bridge, doctor, use, welcome>>
     \/ UsesToken /\ UNCHANGED <<bridge, doctor, firmware, welcome>>
     \/ EndsIdle
     \/ Killed

Next ==
  \/ Start \/ Prompt
  \/ WelcomeNext /\ UNCHANGED <<bridge, doctor, firmware, use>>
  \/ Works

-----------------------------------------------------------------------------
(***************************************************************************)
(* What does happen once it can: the command's own steps, a deadline that  *)
(* passes, a sound socket's answer, and a runtime that lives letting go of *)
(* a coil it holds, which it does after a time of its own                  *)
(* (binding.go:453-460).  Nothing else is asked of a runtime: it may hang  *)
(* at any step, a proof's included, and what it starts may keep its output *)
(* for ever.  Nor is anything asked of an operator.                        *)
(***************************************************************************)
GreetingEnds == WelcomeNext /\ UNCHANGED <<bridge, doctor, firmware, use>>

BridgeStepsOn ==
  /\ Welcomed
  /\ \/ Spawns \/ Deadline \/ BridgeReturns \/ AsksForPrior
     \/ Releases \/ Cancels
  /\ UNCHANGED <<doctor, firmware, use, welcome>>

DoctorStepsOn ==
  /\ Welcomed
  /\ Tick \/ TimesOut \/ (DueNow /\ Answers)
  /\ UNCHANGED <<bridge, firmware, use, welcome>>

FirmwareStepsOn ==
  /\ Welcomed
  /\ Asks \/ NoReply \/ ReadsReply
  /\ UNCHANGED <<bridge, doctor, use, welcome>>

Fairness ==
  /\ WF_vars(GreetingEnds)
  /\ WF_vars(BridgeStepsOn)
  /\ WF_vars(DoctorStepsOn)
  /\ WF_vars(FirmwareStepsOn)
  /\ WF_vars(Welcomed /\ UsesToken /\ UNCHANGED <<bridge, doctor, firmware, welcome>>)
  /\ WF_vars(Welcomed /\ EndsIdle)

Spec == Init /\ [][Next]_vars /\ Fairness

-----------------------------------------------------------------------------
(***************************************************************************)
(* Properties of the whole.                                                *)
(***************************************************************************)
\* The shape of the state.  A doctor's two attempts fit in its own deadline with
\* time to spare, unless the bridge's output was held.
TypeOK ==
  /\ command \in Commands \cup {NoCommand}
  /\ status \in {Running, 0, 1, 2, Signalled}
  /\ child.stage \in {"asking", "holding", "attested", "cancelling", "working", "printed", "gone"}
  /\ child.said \in Envelopes \cup {"nothing"}
  /\ child.exit \in {"none", "clean", "failure"}
  /\ child.proof \in {"none", "matched", "other"}
  /\ calls \in 0 .. 2 /\ coil \in BOOLEAN /\ died \in BOOLEAN /\ held \in BOOLEAN
  /\ attempt.via \in {"nothing", "bridge", "socket"}
  /\ attempt.pipe \in {"free", "held", "let_go"}
  /\ elapsed \in 0 .. IF attempt.pipe = "free" THEN BridgeTimeout + SocketTimeout ELSE Overall
  /\ stage \in {"none", "asked", "decided", "replied"}
  /\ reply \in {"whole"} \cup Flaws
  /\ use.outcome \in {"none", "accepted", "refused"}
  /\ marker \in BOOLEAN /\ greeting \in {"due", "drawing", "drawn", "over"}
  /\ banner \in {"none", "lost", "seen"}

\* In JSON mode a program reading standard output finds one object of a command
\* that succeeds, and never two of one that does not (binding.go:543-546,
\* firmware.go:187-211).
OneObject ==
  command # NoCommand /\ command.json =>
    /\ Len(stdout) <= 1
    /\ status = 0 => Len(stdout) = 1

\* What a command may wait for without a bound: the runtime of a proof; the person
\* at capture's ceremony; whatever holds the output of a bridge.
Waits ==
  \/ IsRunning({"prove"}) /\ Alive
  \/ IsRunning({"capture"}) /\ calls > 0 /\ ~Alive
  \/ IsRunning(BridgeNames) /\ held
  \/ Asking /\ Held

\* A command that never ends waits for one of these in the end: the commands have
\* no other way to hang, and a proof whose runtime is gone and whose output is
\* closed ends (root.go:148, binding.go:430, 443-451, doctor.go:37, firmware.go:178,
\* bridge.go:40).
CommandsEnd == <>[](status = Running) => <>[]Waits
=============================================================================
