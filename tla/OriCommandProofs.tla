--------------------------- MODULE OriCommandProofs ---------------------------
(***************************************************************************)
(* The proofs about OriCommand, for any deliveries, delays and tokens.     *)
(* The commands have in common one process (ProcessInv); what each of them *)
(* promises is proved from an invariant of its own, and a lemma for each   *)
(* group of commands says what the steps of the others leave alone.        *)
(***************************************************************************)
EXTENDS OriCommand, TLAPS

DoctorSteps == DoctorNext /\ UNCHANGED <<bridge, firmware, use, welcome>>
BridgeSteps == BridgeNext /\ UNCHANGED <<doctor, firmware, use, welcome>>
FirmwareSteps == FirmwareNext /\ UNCHANGED <<bridge, doctor, use, welcome>>
TokenSteps == UsesToken /\ UNCHANGED <<bridge, doctor, firmware, welcome>>
WelcomeSteps == WelcomeNext /\ UNCHANGED <<bridge, doctor, firmware, use>>

\* The groups of steps Next is made of.
LEMMA StepGroups ==
  ASSUME [Next]_vars
  PROVE  \/ Start \/ Prompt \/ WelcomeSteps
         \/ BridgeSteps \/ DoctorSteps \/ FirmwareSteps \/ TokenSteps
         \/ EndsIdle \/ Killed
         \/ UNCHANGED vars
  BY DEF Next, Works, WelcomeSteps, BridgeSteps, DoctorSteps, FirmwareSteps, TokenSteps

Names == BridgeNames \cup DoctorNames \cup FirmwareNames \cup Idle \cup {"token_use"}

\* A command that runs has written nothing; no command has ended well with none.
ProcessInv ==
  /\ command \in Commands \cup {NoCommand}
  /\ status \in {Running, 0, 1, 2, Signalled}
  /\ status = Running => command # NoCommand /\ stdout = <<>>
  /\ command = NoCommand => status = 0 /\ stdout = <<>>

\* How a command that runs may go on or end.
Goes(names) ==
  \/ UNCHANGED process
  \/ /\ IsRunning(names) /\ command' = command
     /\ status' \in {0, 1, 2, Signalled}

\* Every command belongs to one group.
LEMMA Groups ==
  /\ Names \cap {"none"} = {}
  /\ BridgeNames \cap (DoctorNames \cup FirmwareNames \cup Idle \cup {"token_use"}) = {}
  /\ DoctorNames \cap (FirmwareNames \cup Idle \cup {"token_use"}) = {}
  /\ FirmwareNames \cap (Idle \cup {"token_use"}) = {}
  /\ Idle \cap {"token_use"} = {}
  BY DEF Names, BridgeNames, Commissioning, Delegated, DoctorNames, FirmwareNames, Creating,
         Verifying, Mutations, Idle

\* NoCommand is no command.
LEMMA NoCommandIsNone == NoCommand \notin Commands
  BY Groups DEF NoCommand, Commands, Names

\* An exit status is one of three.
LEMMA ReturnsGoes ==
  ASSUME NEW err, NEW what, Returns(err, what)
  PROVE  /\ status = Running /\ command' = command
         /\ status' \in {0, 1, 2} /\ (status' = 0 <=> err = "none")
         /\ status' = 2 <=> err = "refused"
         /\ stdout' = stdout \o what
  BY DEF Returns, ExitStatus

\* A step of one group ends no command of another.
LEMMA GroupSteps ==
  /\ BridgeSteps => Goes(BridgeNames)
  /\ DoctorSteps => Goes(DoctorNames)
  /\ FirmwareSteps => Goes(FirmwareNames)
  /\ TokenSteps => Goes({"token_use"})
  /\ EndsIdle => Goes(Idle)
  /\ Killed => Goes(DoctorNames \cup FirmwareNames)
  /\ WelcomeSteps => Goes(Names) \/ (status = Running /\ command' = command /\ status' = Signalled)
<1> USE DEF Goes, IsRunning, process
<1>1. BridgeSteps => Goes(BridgeNames)
  <2>1. Consents \/ Releases \/ Cancels \/ PrintsEnvelope \/ Exits \/ Dies \/ HoldsOutput \/ LetsGo
        \/ Spawns \/ Deadline \/ AsksForPrior => UNCHANGED process
    BY DEF Consents, Releases, Cancels, PrintsEnvelope, Exits, Dies, HoldsOutput, LetsGo, Spawns,
           Deadline, AsksForPrior
  <2>2. CannotSpawn \/ BridgeReturns \/ Captures => Goes(BridgeNames)
    BY ReturnsGoes
    DEF CannotSpawn, BridgeReturns, Captures, CallReturned, BridgeNames, Commissioning
  <2>3. Interrupt \/ KillsCommand => Goes(BridgeNames)
    BY DEF Interrupt, KillsCommand
  <2>4. QED
    BY <2>1, <2>2, <2>3 DEF BridgeSteps, BridgeNext, RuntimeNext
<1>2. DoctorSteps => Goes(DoctorNames)
  BY ReturnsGoes
  DEF DoctorSteps, DoctorNext, Tick, HoldsBridgeOutput, LetsBridgeOutputGo, TimesOut,
      TransportFails, Answers, AnswersInVain, InTime, FailsOver, Asking
<1>3. FirmwareSteps => Goes(FirmwareNames)
  BY ReturnsGoes
  DEF FirmwareSteps, FirmwareNext, Asks, CannotAsk, RuntimeDecides, RuntimeReplies, NoReply,
      ReadsReply, ShowsResult, ShowsFailure, InFirmware
<1>4. TokenSteps => Goes({"token_use"})
  BY ReturnsGoes DEF TokenSteps, UsesToken
<1>5. EndsIdle => Goes(Idle)
  BY ReturnsGoes DEF EndsIdle
<1>6. Killed => Goes(DoctorNames \cup FirmwareNames)
  BY DEF Killed
<1>7. WelcomeSteps => Goes(Names) \/ (status = Running /\ command' = command /\ status' = Signalled)
  BY DEF WelcomeSteps, WelcomeNext, CannotGreet, BeginsBanner, EndsBanner, WritesMarker,
         KilledInWelcome, Greeting
<1>8. QED
  BY <1>1, <1>2, <1>3, <1>4, <1>5, <1>6, <1>7

\* The names a command of one group has are not those of another, and the end of
\* a group's command is not the end of another's.
LEMMA OthersEnd ==
  ASSUME NEW mine, NEW names, mine \cap names = {}, Goes(names), command.name \in mine
  PROVE  UNCHANGED process
  BY DEF Goes, IsRunning

\* A command starts at a prompt, runs in silence, and ends in one way.
LEMMA StepProcessInv ==
  ASSUME ProcessInv, [Next]_vars
  PROVE  ProcessInv'
<1> USE DEF ProcessInv, Running, Signalled
<1>1. CASE Start
  BY <1>1, NoCommandIsNone DEF Start, Starts
<1>2. CASE Prompt
  BY <1>2 DEF Prompt, ProcessOver
<1>3. ASSUME NEW names, Goes(names) PROVE ProcessInv'
  BY <1>3 DEF Goes, IsRunning, process
<1>4. CASE WelcomeSteps
  BY <1>3, <1>4, GroupSteps
<1>5. CASE UNCHANGED vars
  BY <1>5 DEF vars, process
<1>6. QED
  BY <1>1, <1>2, <1>3, <1>4, <1>5, StepGroups, GroupSteps

-----------------------------------------------------------------------------
(***************************************************************************)
(* The welcome.                                                            *)
(***************************************************************************)
\* The marker is written by a command that has drawn the banner to its end.
WelcomeInv ==
  /\ marker \in BOOLEAN /\ greeting \in {"due", "drawing", "drawn", "over"}
  /\ banner \in {"none", "lost", "seen"}
  /\ MarkedIfGreeted
  /\ greeting = "drawn" => banner # "none"

\* The welcome's steps, and those of no concern to it.
LEMMA StepWelcomeInv ==
  ASSUME WelcomeInv, [Next]_vars
  PROVE  WelcomeInv'
<1> USE DEF WelcomeInv, MarkedIfGreeted
<1>1. CASE UNCHANGED welcome
  BY <1>1 DEF welcome
<1>2. CASE Start
  BY <1>2 DEF Start, WelcomeStart, Greets
<1>3. CASE WelcomeSteps
  <2>1. CASE CannotGreet
    BY <2>1 DEF CannotGreet, Greeting
  <2>2. CASE BeginsBanner
    BY <2>2 DEF BeginsBanner, Greeting
  <2>3. CASE EndsBanner
    BY <2>3 DEF EndsBanner, Greeting
  <2>4. CASE WritesMarker
    BY <2>4 DEF WritesMarker, Greeting
  <2>5. CASE KilledInWelcome
    BY <2>5 DEF KilledInWelcome
  <2>6. QED
    BY <1>3, <2>1, <2>2, <2>3, <2>4, <2>5 DEF WelcomeSteps, WelcomeNext
<1>4. QED
  BY <1>1, <1>2, <1>3, StepGroups
  DEF Prompt, BridgeSteps, DoctorSteps, FirmwareSteps, TokenSteps, EndsIdle, Killed, vars

-----------------------------------------------------------------------------
(***************************************************************************)
(* Firmware requests.                                                      *)
(***************************************************************************)
\* What a firmware request has come to.
FirmwareInv ==
  /\ stage \in {"none", "asked", "decided", "replied"}
  /\ reply \in {"whole"} \cup Flaws
  /\ VerifiedMeansAccepted

\* Only the reader of a reply ends a request well.
LEMMA StepFirmwareInv ==
  ASSUME FirmwareInv, [Next]_vars
  PROVE  FirmwareInv'
<1> USE DEF FirmwareInv, VerifiedMeansAccepted
<1>1. ASSUME UNCHANGED firmware, NEW names, Goes(names), FirmwareNames \cap names = {}
      PROVE  FirmwareInv'
  <2>1. Mutations \subseteq FirmwareNames
    BY DEF FirmwareNames, Verifying
  <2>2. QED
    BY <1>1, <2>1 DEF Goes, IsRunning, firmware, process
<1>2. CASE Start
  BY <1>2 DEF Start, Starts, Running, firmware
<1>3. CASE Prompt
  BY <1>3 DEF Prompt, ProcessOver, FirmwareOver, Undecided, Decision, NoCommand, Mutations
<1>4. CASE WelcomeSteps
  BY <1>4, GroupSteps
  DEF WelcomeSteps, WelcomeNext, CannotGreet, BeginsBanner, EndsBanner, WritesMarker,
      KilledInWelcome, Greeting,
      firmware, process, Signalled
<1>5. CASE Killed
  BY <1>5 DEF Killed, Signalled, firmware
<1>6. CASE FirmwareSteps
  <2> USE DEF firmware, process, Running, InFirmware, IsRunning
  <2>1. CASE Asks \/ RuntimeDecides \/ RuntimeReplies
    BY <2>1 DEF Asks, RuntimeDecides, RuntimeReplies
  <2>2. CASE CannotAsk \/ NoReply
    BY <2>2, ReturnsGoes DEF CannotAsk, NoReply
  <2>3. CASE ReadsReply
    <3>1. CASE reply # "whole" \/ ContainsPrivateMaterial(decided)
      BY <2>3, <3>1, ReturnsGoes DEF ReadsReply
    <3>2. CASE reply = "whole" /\ ~ContainsPrivateMaterial(decided) /\ decided.ok
      BY <2>3, <3>2, ReturnsGoes
      DEF ReadsReply, ShowsResult, Unsuccessful
    <3>3. CASE reply = "whole" /\ ~ContainsPrivateMaterial(decided) /\ ~decided.ok
      BY <2>3, <3>3, ReturnsGoes
      DEF ReadsReply, ShowsFailure
    <3>4. QED
      BY <3>1, <3>2, <3>3
  <2>4. QED
    BY <1>6, <2>1, <2>2, <2>3 DEF FirmwareSteps, FirmwareNext
<1>7. CASE UNCHANGED vars
  BY <1>7 DEF vars, firmware, process
<1>8. BridgeSteps \/ DoctorSteps \/ TokenSteps \/ EndsIdle => UNCHANGED firmware
  BY DEF BridgeSteps, DoctorSteps, TokenSteps, EndsIdle
<1>9. QED
  BY <1>1, <1>2, <1>3, <1>4, <1>5, <1>6, <1>7, <1>8, StepGroups, GroupSteps, Groups

-----------------------------------------------------------------------------
(***************************************************************************)
(* Offline tokens.  A clock and a claim are cut to whole seconds, which    *)
(* costs up to half a second each way.                                     *)
(***************************************************************************)
\* What cutting to seconds keeps of an order.
LEMMA SecondsFacts ==
  ASSUME NEW a \in Int, NEW b \in Int, NEW k \in Nat
  PROVE  /\ Seconds(a) <= Seconds(b) + k => b > a - 2 * k - 2
         /\ ~(Seconds(a) <= Seconds(b) + k) => b < a - 2 * k
         /\ Seconds(a) >= Seconds(b) - k => b < a + 2 * k + 2
         /\ ~(Seconds(a) >= Seconds(b) - k) => b > a + 2 * k
<1>1. /\ 2 * Seconds(a) <= a /\ a <= 2 * Seconds(a) + 1 /\ Seconds(a) \in Int
      /\ 2 * Seconds(b) <= b /\ b <= 2 * Seconds(b) + 1 /\ Seconds(b) \in Int
  BY DEF Seconds
<1>2. QED
  BY <1>1

\* What became of the last token.
TokenInv == use.outcome \in {"none", "accepted", "refused"} /\ TokenHonouredInItsTime

\* The verification of one token, every reason to refuse it included.
LEMMA StepTokenInv ==
  ASSUME TokenInv, [Next]_vars
  PROVE  TokenInv'
<1> USE DEF TokenInv
<1>1. CASE UNCHANGED use
  BY <1>1 DEF TokenHonouredInItsTime
<1>2. CASE Prompt
  BY <1>2 DEF Prompt, NoUse, TokenHonouredInItsTime
<1>3. CASE TokenSteps
  <2>1. PICK t \in Tokens, keyfile \in KeyFiles, at \in Moments :
          use' = [outcome |-> IF Accepts(t, keyfile, at) THEN "accepted" ELSE "refused",
                  token |-> t, keyfile |-> keyfile, at |-> at]
    BY <1>3 DEF TokenSteps, UsesToken
  <2>2. /\ t.issued_at \in Int /\ t.expires_at \in Int /\ at \in Int /\ SkewSeconds \in Nat
        /\ t.faulty # "none" => t.faulty \in Claims /\ t.fault \in Faults
    BY TokenAssumption
  <2>3. Accepts(t, keyfile, at) =>
          /\ Genuine(t) /\ keyfile = "sound"
          /\ at > t.issued_at - 2 * SkewSeconds - 2
          /\ at < t.expires_at + 2 * SkewSeconds + 2
    <3>1. WithinLife(t, at) =>
            /\ at > t.issued_at - 2 * SkewSeconds - 2
            /\ at < t.expires_at + 2 * SkewSeconds + 2
      BY <2>2, SecondsFacts DEF WithinLife
    <3>2. ClaimsComplete(t) => t.faulty \notin Blankable
      BY <2>2 DEF ClaimsComplete, Missing, Blankable, Faults
    <3>3. Accepts(t, keyfile, at) => Genuine(t) /\ keyfile = "sound"
      BY <2>2, <3>2 DEF Accepts, SignatureVerifies, Genuine, Times, Blankable, Claims
    <3>4. QED
      BY <3>1, <3>3 DEF Accepts
  <2>4. ~Accepts(t, keyfile, at) /\ Genuine(t) =>
          \/ keyfile # "sound" \/ ~Decodes(t) \/ t.scheme \notin {"ed25519", "Ed25519"}
          \/ at < t.issued_at - 2 * SkewSeconds \/ at > t.expires_at + 2 * SkewSeconds
    <3>1. ~WithinLife(t, at) =>
            at < t.issued_at - 2 * SkewSeconds \/ at > t.expires_at + 2 * SkewSeconds
      BY <2>2, SecondsFacts DEF WithinLife
    <3>2. QED
      BY <3>1
      DEF Accepts, Genuine, ClaimsComplete, Missing, SignatureVerifies, Times, Blankable
  <2>5. CASE Accepts(t, keyfile, at)
    BY <2>1, <2>3, <2>5 DEF TokenHonouredInItsTime
  <2>6. CASE ~Accepts(t, keyfile, at)
    BY <2>1, <2>4, <2>6 DEF TokenHonouredInItsTime
  <2>7. QED
    BY <2>5, <2>6
<1>4. QED
  BY <1>1, <1>2, <1>3, StepGroups
  DEF Start, BridgeSteps, DoctorSteps, FirmwareSteps, WelcomeSteps, EndsIdle, Killed, vars

-----------------------------------------------------------------------------
(***************************************************************************)
(* Commands with a bridge.                                                 *)
(***************************************************************************)
Alone == {"asking", "holding", "attested", "cancelling", "working"}

ChildType ==
  [ stage : Alone \cup {"printed", "gone"},
    said : Envelopes \cup {"nothing"},
    exit : {"none", "clean", "failure"},
    proof : {"none", "matched", "other"} ]

\* The subprocess says nothing before it prints, and leaves in some way; a proof
\* reports a result only for a match; a command returns after its subprocess.
ChildInv ==
  /\ child \in ChildType
  /\ calls \in 0 .. 2
  /\ calls = 0 => child = NoChild
  /\ command.name \notin BridgeNames => calls = 0
  /\ status \in {0, 1, 2} => child.stage = "gone"
  /\ child.stage \in Alone => child.said = "nothing"
  /\ child.stage = "gone" /\ child.said # "nothing" => child.exit # "none"
  /\ command.name = "prove" =>
       /\ child.stage # "working"
       /\ child.said \in {"ok", "lacking", "strange"} => child.proof = "matched"

\* The subprocess and the coil.
BridgeInv == ChildInv /\ coil \in BOOLEAN /\ died \in BOOLEAN /\ held \in BOOLEAN

\* The steps of other commands, and the end of a command.
LEMMA OthersChildInv ==
  ASSUME ProcessInv, ChildInv, [Next]_vars, ~BridgeSteps
  PROVE  ChildInv'
<1> USE DEF ChildInv
<1>1. ASSUME UNCHANGED bridge, NEW names, Goes(names), BridgeNames \cap names = {}
      PROVE  ChildInv'
  <2>1. CASE UNCHANGED process
    BY <1>1, <2>1 DEF bridge, process
  <2>2. CASE IsRunning(names) /\ command' = command
    <3>1. calls = 0 /\ child = NoChild
      BY <1>1, <2>2 DEF IsRunning
    <3>2. QED
      BY <1>1, <2>2, <3>1 DEF bridge, NoChild, Child
  <2>3. QED
    BY <1>1, <2>1, <2>2 DEF Goes
<1>2. CASE Start
  <2>1. command = NoCommand /\ UNCHANGED bridge /\ status' = Running
    BY <1>2 DEF Start, Starts
  <2>2. calls = 0 /\ child = NoChild
    BY <2>1, Groups DEF Names, NoCommand
  <2>3. QED
    BY <2>1, <2>2 DEF bridge, NoChild, Child, Running
<1>3. CASE Prompt
  BY <1>3 DEF Prompt, BridgeOver, NoChild, Child, ChildType, Alone, ProcessOver, NoCommand
<1>4. CASE WelcomeSteps
  BY <1>4
  DEF WelcomeSteps, WelcomeNext, CannotGreet, BeginsBanner, EndsBanner, WritesMarker,
      KilledInWelcome, Greeting,
      bridge, process, Signalled
<1>5. CASE Killed
  BY <1>5 DEF Killed, Signalled, bridge
<1>6. CASE UNCHANGED vars
  BY <1>6 DEF vars, bridge, process
<1>7. DoctorSteps \/ FirmwareSteps \/ TokenSteps \/ EndsIdle => UNCHANGED bridge
  BY DEF DoctorSteps, FirmwareSteps, TokenSteps, EndsIdle
<1>8. QED
  BY <1>1, <1>2, <1>3, <1>4, <1>5, <1>6, <1>7, StepGroups, GroupSteps, Groups

\* The runtime's steps, and those of a command with a bridge.
LEMMA BridgeChildInv ==
  ASSUME ProcessInv, ChildInv, BridgeSteps
  PROVE  ChildInv'
<1> USE DEF ChildInv, bridge, process
<1>0. Alive => calls # 0 /\ status \notin {0, 1, 2}
  BY DEF Alive, NoChild, Child
\* What is held changes nothing else.
<1>d. CASE UNCHANGED <<process, child, calls>>
  BY <1>d
\* A step of the runtime changes its stage, and what it says or records with it.
<1>a. ASSUME Alive, UNCHANGED <<process, calls>>,
             NEW st \in Alone \cup {"printed", "gone"}, NEW sd \in Envelopes \cup {"nothing"},
             NEW ex \in {"none", "clean", "failure"}, NEW pr \in {"none", "matched", "other"},
             child' = [stage |-> st, said |-> sd, exit |-> ex, proof |-> pr],
             st \in Alone => sd = "nothing",
             st = "gone" => ex # "none",
             command.name = "prove" =>
               st # "working" /\ (sd \in {"ok", "lacking", "strange"} => pr = "matched")
      PROVE  ChildInv'
  BY <1>0, <1>a DEF ChildType, Alone
<1>b. /\ child = [stage |-> child.stage, said |-> child.said,
                  exit |-> child.exit, proof |-> child.proof]
      /\ child.stage \in Alone \cup {"printed", "gone"}
      /\ child.said \in Envelopes \cup {"nothing"}
      /\ child.exit \in {"none", "clean", "failure"}
      /\ child.proof \in {"none", "matched", "other"}
  BY DEF ChildType
<1>c. ASSUME Alive, UNCHANGED <<process, calls>>, child' = Gone(child)
      PROVE  ChildInv'
  <2>1. child' = [stage |-> "gone", said |-> child.said, exit |-> "failure", proof |-> child.proof]
    BY <1>b, <1>c DEF Gone
  <2>2. /\ "gone" \notin Alone
        /\ command.name = "prove" /\ child.said \in {"ok", "lacking", "strange"}
             => child.proof = "matched"
    BY DEF Alone
  <2>3. QED
    BY <1>a, <1>b, <1>c, <2>1, <2>2
<1>1. CASE Consents
  <2>1. /\ Alive /\ child.said = "nothing"
        /\ child' = [stage |-> "holding", said |-> child.said,
                     exit |-> child.exit, proof |-> child.proof]
    BY <1>1, <1>b DEF Consents, Stage, Alive, Alone
  <2>2. QED
    BY <1>1, <1>a, <1>b, <2>1 DEF Consents, Alone
<1>2. CASE Releases
  <2>1. PICK seen \in {"matched", "other"} :
          child' = [child EXCEPT !.stage = "attested", !.proof = seen]
    BY <1>2 DEF Releases
  <2>2. /\ Alive /\ child.said = "nothing"
        /\ child' = [stage |-> "attested", said |-> child.said,
                     exit |-> child.exit, proof |-> seen]
    BY <1>2, <1>b, <2>1 DEF Releases, Alive, Alone
  <2>3. QED
    BY <1>2, <1>a, <1>b, <2>2 DEF Releases, Alone
<1>3. CASE Cancels
  BY <1>3, <1>c DEF Cancels, Alive
<1>4. CASE PrintsEnvelope
  <2>1. PICK said \in MaySay(child) : child' = [child EXCEPT !.stage = "printed", !.said = said]
    BY <1>4 DEF PrintsEnvelope
  <2>2. said \in Envelopes
    BY <2>1 DEF MaySay, Envelopes
  <2>3. command.name = "prove" /\ said \in {"ok", "lacking", "strange"} => child.proof = "matched"
    BY <1>4, <2>1 DEF PrintsEnvelope, MaySay
  <2>4. Alive /\ child' = [stage |-> "printed", said |-> said,
                           exit |-> child.exit, proof |-> child.proof]
    BY <1>4, <1>b, <2>1 DEF PrintsEnvelope, Alive
  <2>5. QED
    BY <1>4, <1>a, <1>b, <2>2, <2>3, <2>4 DEF PrintsEnvelope, Alone
<1>5. CASE Exits
  <2>1. PICK exit \in {"clean", "failure"} :
          child' = [child EXCEPT !.stage = "gone", !.exit = exit]
    BY <1>5 DEF Exits
  <2>2. Alive /\ child' = [stage |-> "gone", said |-> child.said,
                           exit |-> exit, proof |-> child.proof]
    BY <1>5, <1>b, <2>1 DEF Exits, Alive
  <2>3. QED
    BY <1>5, <1>a, <1>b, <2>2 DEF Exits, Alone
<1>6. CASE Dies
  BY <1>6, <1>c DEF Dies
<1>7. CASE Spawns
  BY <1>7 DEF Spawns, Child, ChildType, Alone, IsRunning, Running
<1>8. CASE CannotSpawn
  BY <1>8, ReturnsGoes DEF CannotSpawn, NoChild, Child
<1>9. CASE Deadline
  BY <1>9, <1>c DEF Deadline
<1>10. CASE Interrupt
  <2>1. status' \notin {0, 1, 2} /\ command' = command /\ calls' = calls /\ IsRunning(BridgeNames)
    BY <1>10 DEF Interrupt, Signalled
  <2>2. CASE child.stage = "holding"
    <3>1. child' = [stage |-> "cancelling", said |-> "nothing",
                    exit |-> child.exit, proof |-> child.proof]
      BY <1>10, <1>b, <2>2 DEF Interrupt, Alone
    <3>2. QED
      BY <1>0, <1>b, <2>1, <2>2, <3>1 DEF ChildType, Alone, Alive, IsRunning
  <2>3. CASE child.stage # "holding" /\ Alive
    <3>1. child' = [stage |-> "gone", said |-> child.said, exit |-> "failure", proof |-> child.proof]
      BY <1>10, <1>b, <2>3 DEF Interrupt, Gone
    <3>2. QED
      BY <1>0, <1>b, <2>1, <2>3, <3>1 DEF ChildType, Alone, IsRunning
  <2>4. CASE ~Alive
    BY <1>10, <2>1, <2>4 DEF Interrupt, Alive
  <2>5. QED
    BY <2>2, <2>3, <2>4
<1>11. CASE KillsCommand
  BY <1>11 DEF KillsCommand, Signalled
<1>12. CASE BridgeReturns
  BY <1>12, ReturnsGoes DEF BridgeReturns, CallReturned, Alive
<1>13. CASE AsksForPrior
  BY <1>13
  DEF AsksForPrior, CallReturned, IsRunning, Child, ChildType, Alone, Running, BridgeNames,
      Commissioning
<1>14. CASE Captures
  BY <1>14, ReturnsGoes DEF Captures, CallReturned, Alive
<1>15. CASE HoldsOutput \/ LetsGo
  BY <1>d, <1>15 DEF HoldsOutput, LetsGo
<1>16. QED
  BY <1>1, <1>2, <1>3, <1>4, <1>5, <1>6, <1>7, <1>8, <1>9, <1>10, <1>11, <1>12, <1>13, <1>14, <1>15
  DEF BridgeSteps, BridgeNext, RuntimeNext

\* The subprocess and the coil stay what they can be.
LEMMA StepBridgeInv ==
  ASSUME ProcessInv, BridgeInv, [Next]_vars
  PROVE  BridgeInv'
<1>1. ChildInv'
  BY OthersChildInv, BridgeChildInv DEF BridgeInv
<1>2. coil' \in BOOLEAN /\ died' \in BOOLEAN /\ held' \in BOOLEAN
  <2> USE DEF BridgeInv, bridge
  <2>1. BridgeSteps => coil' \in BOOLEAN /\ died' \in BOOLEAN /\ held' \in BOOLEAN
    BY DEF BridgeSteps, BridgeNext, RuntimeNext, Consents, Releases, Cancels, PrintsEnvelope,
           Exits, Dies, HoldsOutput, LetsGo, Spawns, CannotSpawn, Deadline, Interrupt, KillsCommand, BridgeReturns,
           AsksForPrior, Captures
  <2>2. Prompt => coil' \in BOOLEAN /\ died' \in BOOLEAN /\ held' \in BOOLEAN
    BY DEF Prompt, BridgeOver
  <2>3. QED
    BY <2>1, <2>2, StepGroups
    DEF Start, WelcomeSteps, DoctorSteps, FirmwareSteps, TokenSteps, EndsIdle, Killed, vars
<1>3. QED
  BY <1>1, <1>2 DEF BridgeInv

\* What a commissioning command makes of its subprocess, case by case.
LEMMA CommissioningVerdicts ==
  ASSUME ChildInv, status = Running, ~Alive, command.name \in Commissioning,
         NEW v, v = VerdictOn(command, child)
  PROVE  /\ v.err = "none" =>
              /\ child.exit = "clean" /\ child.said \notin {"nothing", "refused"}
              /\ command.name = "prove" => child.said = "ok"
         /\ command.name # "capture" =>
              ( v.err = "refused" <=>
                  \/ child.said = "refused"
                  \/ child.exit = "clean" /\ command.name = "prove"
                       /\ child.said \in {"lacking", "strange"}
                  \/ child.exit = "clean" /\ command.name = "export_zone"
                       /\ child.said = "lacking" )
<1> DEFINE own == OwnVerdict(command, child.said)
<1>1. v = CommissioningVerdict(command, child)
  BY DEF VerdictOn, Commissioning, Delegated
<1>2. child.said \in Envelopes \cup {"nothing"} /\ child.exit \in {"none", "clean", "failure"}
  BY DEF ChildInv, ChildType
<1>3. CASE child.said = "nothing"
  BY <1>1, <1>3 DEF CommissioningVerdict, Verdict
<1>4. CASE child.said = "refused"
  BY <1>1, <1>4 DEF CommissioningVerdict, Verdict
<1>5. CASE child.said \notin {"nothing", "refused"} /\ child.exit = "failure"
  BY <1>1, <1>5 DEF CommissioningVerdict, Verdict
<1>6. CASE child.said \notin {"nothing", "refused"} /\ child.exit # "failure"
  <2>1. child.exit = "clean"
    BY <1>2, <1>6 DEF ChildInv, Alive
  <2>2. v.err = own.err
    BY <1>1, <1>6 DEF CommissioningVerdict, Verdict
  <2>3. child.said \in {"ok", "lacking", "strange"}
    BY <1>2, <1>6 DEF Envelopes
  <2>4. /\ own.err = "none" => (command.name = "prove" => child.said = "ok")
        /\ command.name # "capture" =>
             ( own.err = "refused" <=>
                 \/ command.name = "prove" /\ child.said \in {"lacking", "strange"}
                 \/ command.name = "export_zone" /\ child.said = "lacking" )
    BY <2>3 DEF OwnVerdict, Verdict, Commissioning
  <2>5. QED
    BY <1>6, <2>1, <2>2, <2>4
<1>7. QED
  BY <1>3, <1>4, <1>5, <1>6

\* What the exit status of a commissioning command says.
RecordInv == SuccessIsOnRecord /\ RefusalsTellApart

\* Only a command that reads its subprocess's end settles its exit status.
LEMMA StepRecordInv ==
  ASSUME ProcessInv, ChildInv, RecordInv, [Next]_vars
  PROVE  RecordInv'
<1> USE DEF RecordInv, SuccessIsOnRecord, RefusalsTellApart, Ended
<1>0. ChildInv'
  BY OthersChildInv, BridgeChildInv
<1>1. Commissioning \subseteq BridgeNames
  BY DEF BridgeNames
<1>2. ASSUME UNCHANGED child, NEW names, Goes(names), BridgeNames \cap names = {}
      PROVE  RecordInv'
  BY <1>1, <1>2 DEF Goes, IsRunning, process
<1>3. CASE status' \notin {0, 1, 2}
  BY <1>3
<1>4. CASE command'.name \notin Commissioning
  BY <1>4
<1>5. CASE BridgeSteps
  <2> USE DEF bridge
  <2>0. CASE HoldsOutput \/ LetsGo
    BY <2>0 DEF HoldsOutput, LetsGo, process
  \* A runtime that takes another step is there, and its command has not ended.
  <2>1. CASE Consents \/ Releases \/ Cancels \/ PrintsEnvelope \/ Exits \/ Dies \/ Spawns
             \/ Deadline \/ AsksForPrior
    <3>1. status' = status
      BY <2>1
      DEF Consents, Releases, Cancels, PrintsEnvelope, Exits, Dies, Spawns, Deadline,
          AsksForPrior, process
    <3>2. Alive \/ status = Running
      BY <2>1
      DEF Consents, Releases, Cancels, PrintsEnvelope, Exits, Dies, Spawns, Deadline,
          AsksForPrior, CallReturned, IsRunning, Stage, Alive
    <3>3. status \notin {0, 1, 2}
      BY <3>2 DEF ChildInv, Alive, Running
    <3>4. QED
      BY <1>3, <3>1, <3>3
  <2>2. CASE CannotSpawn
    BY <2>2, ReturnsGoes DEF CannotSpawn, ChildInv, NoChild, Child
  <2>3. CASE Interrupt \/ KillsCommand
    BY <1>3, <2>3 DEF Interrupt, KillsCommand, Signalled
  <2>4. CASE BridgeReturns
    <3> DEFINE v == VerdictOn(command, child)
    <3>1. /\ command' = command /\ child' = child /\ status = Running /\ ~Alive
          /\ status' = 0 <=> v.err = "none"
          /\ status' = 2 <=> v.err = "refused"
          /\ command.name = "capture" => v.err # "none"
      BY <2>4, ReturnsGoes DEF BridgeReturns, CallReturned, IsRunning
    <3>2. CASE command.name \in Commissioning
      <4>1. /\ v.err = "none" =>
                 /\ child.exit = "clean" /\ child.said \notin {"nothing", "refused"}
                 /\ command.name = "prove" => child.said = "ok"
            /\ command.name # "capture" =>
                 ( v.err = "refused" <=>
                     \/ child.said = "refused"
                     \/ child.exit = "clean" /\ command.name = "prove"
                          /\ child.said \in {"lacking", "strange"}
                     \/ child.exit = "clean" /\ command.name = "export_zone"
                          /\ child.said = "lacking" )
        BY <3>1, <3>2, CommissioningVerdicts
      <4>2. command.name = "prove" /\ child.said = "ok" => child.proof = "matched"
        BY DEF ChildInv
      <4>3. QED
        BY <3>1, <4>1, <4>2
    <3>3. QED
      BY <1>4, <3>1, <3>2
  <2>5. CASE Captures
    <3> DEFINE v == VerdictOn(command, child)
    <3>1. /\ command' = command /\ child' = child /\ status = Running /\ ~Alive
          /\ command.name = "capture" /\ v.err = "none"
      BY <2>5, ReturnsGoes DEF Captures, CallReturned, IsRunning
    <3>2. child.exit = "clean" /\ child.said \notin {"nothing", "refused"}
      BY <3>1, CommissioningVerdicts DEF Commissioning
    <3>3. QED
      BY <3>1, <3>2
  <2>6. QED
    BY <1>5, <2>0, <2>1, <2>2, <2>3, <2>4, <2>5 DEF BridgeSteps, BridgeNext, RuntimeNext
<1>6. CASE Start
  BY <1>3, <1>6 DEF Start, Starts, Running
<1>7. CASE Prompt
  BY <1>4, <1>7 DEF Prompt, ProcessOver, NoCommand, Commissioning
<1>8. CASE WelcomeSteps
  BY <1>3, <1>8
  DEF WelcomeSteps, WelcomeNext, CannotGreet, BeginsBanner, EndsBanner, WritesMarker,
      KilledInWelcome, Greeting,
      bridge, process, Signalled
<1>9. CASE Killed
  BY <1>3, <1>9 DEF Killed, Signalled
<1>10. CASE UNCHANGED vars
  BY <1>10 DEF vars, bridge, process
<1>11. DoctorSteps \/ FirmwareSteps \/ TokenSteps \/ EndsIdle => UNCHANGED child
  BY DEF DoctorSteps, FirmwareSteps, TokenSteps, EndsIdle, bridge
<1>12. QED
  BY <1>2, <1>5, <1>6, <1>7, <1>8, <1>9, <1>10, <1>11, StepGroups, GroupSteps, Groups

-----------------------------------------------------------------------------
(***************************************************************************)
(* What a command writes.                                                  *)
(***************************************************************************)
One(what) == what = <<what[1]>>

\* One object, as it is written.
LEMMA IsOne == ASSUME NEW object PROVE One(<<object>>)
  BY DEF One

\* What has to be said of a command's end for its output to be one object.
LEMMA WritesOne ==
  ASSUME ProcessInv, NEW err, NEW what, Returns(err, what),
         command.json => One(what) \/ (what = <<>> /\ err # "none")
  PROVE  OneObject'
<1>1. stdout = <<>> /\ command' = command
  BY DEF Returns, ProcessInv
<1>2. stdout' = <<>> \o what /\ (status' = 0 <=> err = "none")
  BY <1>1, ReturnsGoes
<1>3. CASE One(what)
  <2>1. PICK object : what = <<object>>
    BY <1>3 DEF One
  <2>2. stdout' = <<>> \o <<object>>
    BY <1>2, <2>1
  <2>3. Len(<<>> \o <<object>>) = 1
    OBVIOUS
  <2>4. Len(stdout') = 1
    BY <2>2, <2>3
  <2>5. QED
    BY <2>4 DEF OneObject
<1>4. CASE what = <<>> /\ err # "none"
  <2>1. stdout' = <<>> \o <<>>
    BY <1>2, <1>4
  <2>2. Len(<<>> \o <<>>) = 0
    OBVIOUS
  <2>3. QED
    BY <1>2, <1>4, <2>1, <2>2 DEF OneObject
<1>5. CASE ~command.json
  BY <1>1, <1>5 DEF OneObject
<1>6. QED
  BY <1>3, <1>4, <1>5

\* In JSON mode a bridge's command writes an envelope or an object of its own,
\* never both.
LEMMA VerdictsAreOne ==
  ASSUME command.json, command.name \in BridgeNames, NEW k, NEW v, v = VerdictOn(command, k)
  PROVE  \/ One(v.out)
         \/ v.out = <<>> /\ (v.err # "none" \/ command.name = "capture")
<1>1. CASE command.name \in Delegated \cup {"state"}
  <2>1. v = DelegatedVerdict(k) \/ v = StateVerdict(k)
    BY <1>1 DEF VerdictOn, Delegated, Commissioning
  <2>2. (v.out = <<>> /\ v.err = "error") \/ v.out = <<"envelope">>
    BY <2>1 DEF DelegatedVerdict, StateVerdict, Verdict
  <2>3. QED
    BY <2>2, IsOne
<1>2. CASE command.name \in Commissioning
  <2> DEFINE own == OwnVerdict(command, k.said)
  <2>1. v = CommissioningVerdict(command, k)
    BY <1>2 DEF VerdictOn, Commissioning, Delegated
  <2>2. CASE command.name = "export_zone"
    <3>1. Echoed(command) = <<>>
      BY <2>2 DEF Echoed
    <3>2. own = IF k.said = "ok" THEN Verdict("none", <<"leg">>)
                ELSE Verdict(IF k.said = "lacking" THEN "refused" ELSE "error", <<>>)
      BY <2>2 DEF OwnVerdict
    <3>3. <<>> \o <<"leg">> = <<"leg">> /\ <<>> \o <<>> = <<>>
      OBVIOUS
    <3>4. (v.out = <<>> /\ v.err # "none") \/ v.out = <<"leg">>
      BY <2>1, <3>1, <3>2, <3>3 DEF CommissioningVerdict, Verdict
    <3>5. QED
      BY <3>4, IsOne
  <2>3. CASE command.name = "capture"
    <3>1. Echoed(command) = <<>>
      BY <2>3 DEF Echoed
    <3>2. own = Verdict("none", <<>>)
      BY <2>3 DEF OwnVerdict
    <3>3. <<>> \o <<>> = <<>>
      OBVIOUS
    <3>4. QED
      BY <2>1, <2>3, <3>1, <3>2, <3>3 DEF CommissioningVerdict, Verdict
  <2>4. CASE command.name \in Commissioning \ {"export_zone", "capture"}
    <3>1. Echoed(command) = <<"envelope">>
      BY <2>4 DEF Echoed
    <3>2. own.out = <<>>
      BY <2>4 DEF OwnVerdict, Verdict, InText, Commissioning
    <3>3. <<"envelope">> \o <<>> = <<"envelope">>
      OBVIOUS
    <3>4. v.out = <<"envelope">> \/ (v.out = <<>> /\ v.err = "error")
      BY <2>1, <3>1, <3>2, <3>3 DEF CommissioningVerdict, Verdict
    <3>5. QED
      BY <3>4, IsOne
  <2>5. QED
    BY <1>2, <2>2, <2>3, <2>4
<1>3. QED
  BY <1>1, <1>2 DEF BridgeNames

\* What a step writes, whichever command it is of.
LEMMA StepOneObject ==
  ASSUME ProcessInv, OneObject, [Next]_vars
  PROVE  OneObject'
<1>1. CASE UNCHANGED process
  BY <1>1 DEF OneObject, process
<1>2. ASSUME status = Running, UNCHANGED <<command, stdout>>, status' = Signalled
      PROVE  OneObject'
  <2>1. stdout' = <<>> /\ Len(<<>>) = 0
    BY <1>2 DEF ProcessInv
  <2>2. QED
    BY <1>2, <2>1 DEF OneObject, Signalled
<1>3. CASE Start
  <2>1. stdout' = <<>> /\ Len(<<>>) = 0 /\ status' = Running
    BY <1>3 DEF Start, Starts, ProcessInv
  <2>2. QED
    BY <2>1 DEF OneObject, Running
<1>4. CASE Prompt
  BY <1>4 DEF Prompt, ProcessOver, OneObject
<1>5. CASE WelcomeSteps
  BY <1>1, <1>2, <1>5
  DEF WelcomeSteps, WelcomeNext, CannotGreet, BeginsBanner, EndsBanner, WritesMarker,
      KilledInWelcome, Greeting
<1>6. CASE Killed
  BY <1>2, <1>6 DEF Killed, IsRunning
<1>7. ASSUME Returns("error", <<>>) PROVE OneObject'
  BY <1>7, WritesOne
<1>8. CASE BridgeSteps
  <2>1. CASE Consents \/ Releases \/ Cancels \/ PrintsEnvelope \/ Exits \/ Dies \/ HoldsOutput
             \/ LetsGo \/ Spawns \/ Deadline \/ AsksForPrior
    BY <1>1, <2>1
    DEF Consents, Releases, Cancels, PrintsEnvelope, Exits, Dies, HoldsOutput, LetsGo, Spawns,
        Deadline, AsksForPrior
  <2>2. CASE CannotSpawn
    BY <1>7, <2>2 DEF CannotSpawn
  <2>3. CASE Interrupt \/ KillsCommand
    BY <1>2, <2>3 DEF Interrupt, KillsCommand, IsRunning
  <2>4. CASE BridgeReturns
    <3> DEFINE v == VerdictOn(command, child)
    <3>1. /\ Returns(v.err, v.out) /\ command.name \in BridgeNames
          /\ command.name = "capture" => v.err # "none"
      BY <2>4 DEF BridgeReturns, CallReturned, IsRunning
    <3>2. command.json => One(v.out) \/ (v.out = <<>> /\ v.err # "none")
      BY <3>1, VerdictsAreOne
    <3>3. QED
      BY <3>1, <3>2, WritesOne
  <2>5. CASE Captures
    <3>1. CASE \E err \in {"error", "refused"} : Returns(err, <<>>)
      BY <3>1, WritesOne
    <3>2. CASE \E text \in {<<>>, <<"draft">>} :
                 Returns("none", IF command.json THEN <<"report">> ELSE text)
      BY <3>2, WritesOne, IsOne
    <3>3. QED
      BY <2>5, <3>1, <3>2 DEF Captures
  <2>6. QED
    BY <1>8, <2>1, <2>2, <2>3, <2>4, <2>5 DEF BridgeSteps, BridgeNext, RuntimeNext
<1>9. CASE DoctorSteps
  <2>1. FailsOver => OneObject'
    BY <1>1, <1>7 DEF FailsOver
  <2>2. Answers => OneObject'
    BY WritesOne, IsOne DEF Answers
  <2>3. QED
    BY <1>1, <1>9, <2>1, <2>2
    DEF DoctorSteps, DoctorNext, Tick, HoldsBridgeOutput, LetsBridgeOutputGo, TimesOut,
        TransportFails, AnswersInVain
<1>10. CASE FirmwareSteps
  <2>1. CASE Asks \/ RuntimeDecides \/ RuntimeReplies
    BY <1>1, <2>1 DEF Asks, RuntimeDecides, RuntimeReplies
  <2>2. CASE CannotAsk \/ NoReply
    BY <1>7, <2>2 DEF CannotAsk, NoReply
  <2>3. CASE ReadsReply
    <3>1. ShowsResult => OneObject'
      BY <1>7, WritesOne, IsOne DEF ShowsResult
    <3>2. ShowsFailure => OneObject'
      BY <1>7, WritesOne, IsOne DEF ShowsFailure
    <3>3. QED
      BY <1>7, <2>3, <3>1, <3>2 DEF ReadsReply
  <2>4. QED
    BY <1>10, <2>1, <2>2, <2>3 DEF FirmwareSteps, FirmwareNext
<1>11. CASE TokenSteps
  <2>1. Returns("none", <<"accepted">>) \/ Returns("error", <<>>)
    BY <1>11 DEF TokenSteps, UsesToken
  <2>2. Returns("none", <<"accepted">>) => OneObject'
    BY WritesOne, IsOne
  <2>3. QED
    BY <1>7, <2>1, <2>2
<1>12. CASE EndsIdle
  BY <1>7, <1>12 DEF EndsIdle
<1>13. CASE UNCHANGED vars
  BY <1>1, <1>13 DEF vars
<1>14. QED
  BY <1>3, <1>4, <1>5, <1>6, <1>8, <1>9, <1>10, <1>11, <1>12, <1>13, StepGroups

-----------------------------------------------------------------------------
(***************************************************************************)
(* The doctor and runtime-health.  A transport is never asked for longer   *)
(* than its own deadline, nor a sound socket for longer than it takes,     *)
(* unless the bridge's output was held; so a command that gave up had no   *)
(* sound socket in reach, or no time left for it.                          *)
(***************************************************************************)
\* What is shown was accepted, whoever sent it.
WasHeard(what) ==
  \/ what = NothingShown
  \/ \E d \in Acceptable : \E via \in {"bridge", "socket"} : what = [via |-> via, heard |-> d]

DoctorType ==
  /\ attempt \in [via : {"nothing", "bridge", "socket"}, began : Nat,
                  pipe : {"free", "held", "let_go"}]
  /\ elapsed \in 0 .. Overall
  /\ attempt.pipe = "free" => elapsed <= BridgeTimeout + SocketTimeout
  /\ socket.sound \in BOOLEAN /\ socket.delay \in Nat
  /\ WasHeard(shown)

\* A transport is asked within its own deadline, or a bridge's output was held.
AskedInTime ==
  /\ attempt.via = "bridge" =>
       /\ command.name = "doctor" /\ attempt.began = 0
       /\ attempt.pipe = "free" => elapsed <= BridgeTimeout
  /\ attempt.via = "socket" =>
       /\ attempt.pipe # "held"
       /\ command.name # "doctor" => attempt.began = 0 /\ attempt.pipe = "free"
       /\ attempt.pipe = "free" => attempt.began <= BridgeTimeout
       /\ attempt.began <= elapsed /\ elapsed <= attempt.began + SocketTimeout
       /\ socket.sound => elapsed <= attempt.began + socket.delay

\* Some transport is being asked while the command runs, and nothing otherwise.
AskedWhileRunning ==
  /\ command.name \notin DoctorNames => DoctorIdle
  /\ Asking => attempt.via # "nothing"

\* What the two health commands have come to.
DoctorInv == DoctorType /\ AskedInTime /\ AskedWhileRunning /\ SoundSocketIsHeard

\* The deadlines, worked out: the doctor's own comes first only for a socket that is
\* asked late.
LEMMA Deadlines ==
  ASSUME DoctorInv, Asking
  PROVE  /\ attempt.via = "bridge" => DeadlineOf(command, attempt) = BridgeTimeout
         /\ attempt.via = "socket" =>
              DeadlineOf(command, attempt) = Earlier(Overall, attempt.began + SocketTimeout)
<1>1. /\ attempt.began \in Nat /\ AskedInTime
      /\ command.name = "doctor" \/ command.name = "runtime_health"
  BY DEF DoctorInv, DoctorType, Asking, IsRunning, DoctorNames
<1>2. CASE attempt.via = "bridge"
  BY <1>1, <1>2
  DEF AskedInTime, DeadlineOf, Earlier, CommandTimeout, Overall, BridgeTimeout
<1>3. CASE attempt.via = "socket"
  BY <1>1, <1>3
  DEF AskedInTime, DeadlineOf, Earlier, CommandTimeout, Overall, SocketTimeout
<1>4. QED
  BY <1>2, <1>3

\* The socket cannot be heard any more.
OutOfReach ==
  \/ ~socket.sound \/ socket.delay >= SocketTimeout
  \/ attempt.pipe # "free" /\ attempt.began + socket.delay >= Overall

\* A transport that fails hands over to the socket, or the command gives up; it
\* may give up when no sound socket can still be heard.
LEMMA FailsOverKeeps ==
  ASSUME ProcessInv, DoctorInv, Asking, ~Held, FailsOver,
         attempt.via = "socket" => OutOfReach
  PROVE  DoctorInv'
<1> USE DEF DoctorInv
<1>1. CASE attempt.via = "bridge"
  <2>1. /\ attempt' = [attempt EXCEPT !.via = "socket", !.began = elapsed]
        /\ UNCHANGED <<process, elapsed, socket, shown>>
    BY <1>1 DEF FailsOver
  <2>2. command.name = "doctor"
    BY <1>1 DEF AskedInTime
  <2>3. /\ elapsed \in Nat
        /\ attempt \in [via : {"nothing", "bridge", "socket"}, began : Nat,
                        pipe : {"free", "held", "let_go"}]
    BY DEF DoctorType, Overall
  <2>4. /\ attempt' \in [via : {"nothing", "bridge", "socket"}, began : Nat,
                         pipe : {"free", "held", "let_go"}]
        /\ attempt'.via = "socket" /\ attempt'.began = elapsed /\ attempt'.pipe = attempt.pipe
    BY <2>1, <2>3
  <2>5. DoctorType'
    BY <2>1, <2>4 DEF DoctorType
  <2>6. AskedInTime'
    BY <1>1, <2>1, <2>2, <2>4
    DEF AskedInTime, DoctorType, process, BridgeTimeout, SocketTimeout, Held
  <2>7. AskedWhileRunning'
    BY <2>1, <2>2, <2>4 DEF AskedWhileRunning, DoctorNames, process
  <2>8. SoundSocketIsHeard'
    BY <2>1 DEF SoundSocketIsHeard, process, Asking, IsRunning, Running
  <2>9. QED
    BY <2>5, <2>6, <2>7, <2>8
<1>2. CASE attempt.via # "bridge"
  <2>1. Returns("error", <<>>) /\ UNCHANGED doctor
    BY <1>2 DEF FailsOver
  <2>2. command' = command /\ status' = 1
    BY <2>1 DEF Returns, ExitStatus
  <2>3. attempt.via = "socket" /\ command.name \in DoctorNames
    BY <1>2 DEF AskedWhileRunning, DoctorType, Asking, IsRunning
  <2>4. DoctorType' /\ AskedInTime'
    BY <2>1, <2>2 DEF DoctorType, AskedInTime, doctor
  <2>5. AskedWhileRunning'
    BY <2>1, <2>2, <2>3 DEF AskedWhileRunning, Asking, IsRunning, Running
  <2>6. SoundSocketIsHeard'
    BY <2>1, <2>2, <2>3 DEF SoundSocketIsHeard, OutOfReach, doctor
  <2>7. QED
    BY <2>4, <2>5, <2>6
<1>3. QED
  BY <1>1, <1>2

\* The doctor's own steps.
LEMMA DoctorKeeps ==
  ASSUME ProcessInv, DoctorInv, DoctorSteps
  PROVE  DoctorInv'
<1>0. DoctorType /\ AskedInTime /\ AskedWhileRunning /\ SoundSocketIsHeard
  BY DEF DoctorInv
<1>1. CASE Tick
  <2>1. /\ Asking /\ elapsed < (IF Held THEN Overall ELSE DeadlineOf(command, attempt)) /\ ~DueNow
        /\ elapsed' = elapsed + 1
        /\ UNCHANGED <<process, attempt, socket, shown>>
    BY <1>1 DEF Tick
  <2>2. command.name \in DoctorNames /\ status = Running /\ attempt.via \in {"bridge", "socket"}
    BY <1>0, <2>1 DEF Asking, IsRunning, AskedWhileRunning, DoctorType
  <2>3. AskedWhileRunning' /\ SoundSocketIsHeard'
    BY <1>0, <2>1, <2>2
    DEF AskedWhileRunning, SoundSocketIsHeard, process, Asking, IsRunning, Running
  <2>4. CASE attempt.via = "bridge"
    <3>1. /\ elapsed < Overall
          /\ attempt.pipe = "free" => elapsed < BridgeTimeout
      BY <1>0, <2>1, <2>4, Deadlines DEF DoctorType, Held, Overall, BridgeTimeout
    <3>2. DoctorType' /\ AskedInTime'
      BY <1>0, <2>1, <2>4, <3>1
      DEF DoctorType, AskedInTime, process, Overall, BridgeTimeout, SocketTimeout
    <3>3. QED
      BY <2>3, <3>2 DEF DoctorInv
  <2>5. CASE attempt.via = "socket"
    <3>1. elapsed < Overall /\ elapsed < attempt.began + SocketTimeout
      <4>1. ~Held
        BY <1>0, <2>5 DEF AskedInTime, Held
      <4>2. elapsed < Earlier(Overall, attempt.began + SocketTimeout)
        BY <2>1, <2>5, <4>1, Deadlines
      <4>3. elapsed \in Nat /\ attempt.began \in Nat
        BY <1>0 DEF DoctorType
      <4>4. QED
        BY <4>2, <4>3 DEF Earlier, Overall, SocketTimeout
    <3>2. socket.sound => elapsed < attempt.began + socket.delay
      BY <1>0, <2>1, <2>5 DEF DueNow, FromSoundSocket, DoctorType
    <3>3. attempt.pipe = "free" => attempt.began <= BridgeTimeout
      BY <1>0, <2>5 DEF AskedInTime
    <3>4. DoctorType'
      BY <1>0, <2>1, <3>1, <3>3 DEF DoctorType, Overall, BridgeTimeout, SocketTimeout
    <3>5. AskedInTime'
      BY <1>0, <2>1, <2>5, <3>1, <3>2 DEF DoctorType, AskedInTime, process, SocketTimeout
    <3>6. QED
      BY <2>3, <3>4, <3>5 DEF DoctorInv
  <2>6. QED
    BY <2>2, <2>4, <2>5
<1>2. CASE TimesOut
  <2>1. Asking /\ ~Held /\ elapsed >= DeadlineOf(command, attempt) /\ FailsOver
    BY <1>2 DEF TimesOut
  <2>2. ASSUME attempt.via = "socket" PROVE OutOfReach
    <3>1. /\ elapsed \in Nat /\ attempt.began \in Nat /\ socket.delay \in Nat
          /\ socket.sound => elapsed <= attempt.began + socket.delay
          /\ attempt.pipe = "free" => attempt.began <= BridgeTimeout
      BY <1>0, <2>2 DEF DoctorType, AskedInTime
    <3>2. elapsed >= Earlier(Overall, attempt.began + SocketTimeout)
      BY <2>1, <2>2, Deadlines
    <3>3. CASE attempt.pipe = "free"
      BY <3>1, <3>2, <3>3 DEF OutOfReach, Earlier, Overall, BridgeTimeout, SocketTimeout
    <3>4. CASE attempt.pipe # "free"
      BY <3>1, <3>2, <3>4 DEF OutOfReach, Earlier, Overall, SocketTimeout
    <3>5. QED
      BY <3>3, <3>4
  <2>3. QED
    BY <2>1, <2>2, FailsOverKeeps
<1>3. CASE TransportFails
  BY <1>0, <1>3, FailsOverKeeps DEF TransportFails, FromSoundSocket, OutOfReach
<1>4. CASE AnswersInVain
  <2>1. Asking /\ ~Held /\ FailsOver /\ ~FromSoundSocket
    BY <1>4, ContractAssumption
    DEF AnswersInVain, InTime, SoundlyUnacceptable, Faithful, Unacceptable, Acceptable
  <2>2. QED
    BY <2>1, FailsOverKeeps DEF FromSoundSocket, OutOfReach
<1>5. CASE Answers
  <2>1. /\ Asking /\ command' = command /\ status' = 0
        /\ attempt' = NoAttempt /\ elapsed' = 0 /\ socket' = NoSocket
    BY <1>5 DEF Answers, InTime, Returns, ExitStatus
  <2>2. attempt.via \in {"bridge", "socket"} /\ command.name \in DoctorNames
    BY <2>1 DEF DoctorInv, AskedWhileRunning, DoctorType, Asking, IsRunning
  <2>3. PICK d \in Acceptable : shown' = [via |-> attempt.via, heard |-> d]
    BY <1>5 DEF Answers, SoundlyAcceptable
  <2>4. DoctorType'
    <3>1. WasHeard(shown')
      BY <2>2, <2>3 DEF WasHeard
    <3>2. /\ attempt' \in [via : {"nothing", "bridge", "socket"}, began : Nat,
                           pipe : {"free", "held", "let_go"}]
          /\ elapsed' = 0 /\ socket'.sound \in BOOLEAN /\ socket'.delay = 0
      BY <2>1 DEF NoAttempt, Attempt, NoSocket
    <3>3. QED
      BY <3>1, <3>2 DEF DoctorType, Overall, BridgeTimeout, SocketTimeout
  <2>5. AskedInTime' /\ AskedWhileRunning' /\ SoundSocketIsHeard'
    BY <2>1, <2>2
    DEF AskedInTime, AskedWhileRunning, SoundSocketIsHeard, NoAttempt, Attempt, Asking, IsRunning,
        Running
  <2>6. QED
    BY <2>4, <2>5 DEF DoctorInv
<1>6. CASE HoldsBridgeOutput \/ LetsBridgeOutputGo
  <2>1. /\ Asking /\ UNCHANGED <<process, elapsed, socket, shown>>
        /\ \E to \in {"held", "let_go"} : attempt' = [attempt EXCEPT !.pipe = to]
    BY <1>6 DEF HoldsBridgeOutput, LetsBridgeOutputGo
  <2>2. attempt.via = "bridge"
    BY <1>0, <1>6, <2>1
    DEF HoldsBridgeOutput, LetsBridgeOutputGo, Held, AskedInTime, AskedWhileRunning, DoctorType
  <2>3. /\ attempt' \in [via : {"nothing", "bridge", "socket"}, began : Nat,
                         pipe : {"free", "held", "let_go"}]
        /\ attempt'.via = attempt.via /\ attempt'.began = attempt.began /\ attempt'.pipe # "free"
    BY <1>0, <2>1 DEF DoctorType
  <2>4. DoctorType' /\ AskedInTime'
    BY <1>0, <2>1, <2>2, <2>3 DEF DoctorType, AskedInTime, process
  <2>5. AskedWhileRunning' /\ SoundSocketIsHeard'
    BY <1>0, <2>1, <2>2, <2>3
    DEF AskedWhileRunning, AskedInTime, SoundSocketIsHeard, process, Asking, IsRunning, Running,
        DoctorNames
  <2>6. QED
    BY <2>4, <2>5 DEF DoctorInv
<1>7. QED
  BY <1>1, <1>2, <1>3, <1>4, <1>5, <1>6 DEF DoctorSteps, DoctorNext

\* And everyone's.
LEMMA StepDoctorInv ==
  ASSUME ProcessInv, DoctorInv, [Next]_vars
  PROVE  DoctorInv'
<1> USE DEF DoctorInv, doctor
<1>0. DoctorType /\ AskedInTime /\ AskedWhileRunning /\ SoundSocketIsHeard
  OBVIOUS
<1>1. CASE UNCHANGED <<process, doctor>>
  BY <1>0, <1>1
  DEF DoctorType, AskedInTime, AskedWhileRunning, SoundSocketIsHeard, DoctorIdle, Asking, IsRunning,
      process
<1>2. ASSUME UNCHANGED doctor, NEW names, Goes(names), DoctorNames \cap names = {}
      PROVE  DoctorInv'
  <2>1. CASE UNCHANGED process
    BY <1>1, <1>2, <2>1
  <2>2. CASE IsRunning(names) /\ command' = command
    <3>1. command.name \notin DoctorNames /\ DoctorIdle
      BY <1>0, <1>2, <2>2 DEF IsRunning, AskedWhileRunning
    <3>2. QED
      BY <1>0, <1>2, <2>2, <3>1
      DEF DoctorType, AskedInTime, AskedWhileRunning, SoundSocketIsHeard, DoctorIdle, Asking, IsRunning
  <2>3. QED
    BY <1>2, <2>1, <2>2 DEF Goes
<1>3. ASSUME UNCHANGED <<doctor, command>>, status' = Signalled
      PROVE  DoctorInv'
  BY <1>0, <1>3
  DEF DoctorType, AskedInTime, AskedWhileRunning, SoundSocketIsHeard, DoctorIdle, Asking, IsRunning,
      Signalled, Running
<1>4. CASE Start
  <2>1. PICK c \in Commands : Starts(c) /\ DoctorStart(c)
    BY <1>4 DEF Start
  <2>2. command = NoCommand /\ command' = c /\ status' = Running
    BY <2>1 DEF Starts
  <2>3. DoctorIdle
    BY <1>0, <2>2, Groups DEF AskedWhileRunning, NoCommand, Names
  <2>4. elapsed' = 0 /\ shown' = NothingShown
    BY <2>1, <2>3 DEF DoctorStart, DoctorIdle
  <2>5. /\ c.name = "doctor" => attempt' = Attempt("bridge")
        /\ c.name = "runtime_health" => attempt' = Attempt("socket")
        /\ c.name \notin DoctorNames => attempt' = NoAttempt /\ socket' = NoSocket
        /\ socket' = NoSocket \/ socket' \in [sound : {TRUE}, delay : Delays]
    BY <2>1 DEF DoctorStart, DoctorNames
  <2>6. socket'.sound \in BOOLEAN /\ socket'.delay \in Nat
    <3>1. CASE socket' = NoSocket
      BY <3>1 DEF NoSocket
    <3>2. CASE socket' \in [sound : {TRUE}, delay : Delays]
      BY <3>2, DelaysAssumption
    <3>3. QED
      BY <2>5, <3>1, <3>2
  <2>7. /\ attempt' \in [via : {"nothing", "bridge", "socket"}, began : Nat,
                         pipe : {"free", "held", "let_go"}]
        /\ attempt'.began = 0 /\ attempt'.pipe = "free"
        /\ attempt'.via = "bridge" => c.name = "doctor"
        /\ c.name \in DoctorNames => attempt'.via # "nothing"
        /\ c.name \notin DoctorNames => attempt' = NoAttempt
    BY <2>5 DEF DoctorNames, NoAttempt, Attempt
  <2>8. DoctorType'
    BY <2>4, <2>6, <2>7 DEF DoctorType, WasHeard, Overall, BridgeTimeout, SocketTimeout
  <2>9. AskedInTime'
    BY <2>2, <2>4, <2>6, <2>7 DEF AskedInTime, BridgeTimeout, SocketTimeout
  <2>10. AskedWhileRunning'
    BY <2>2, <2>4, <2>5, <2>7 DEF AskedWhileRunning, DoctorIdle, Asking, IsRunning
  <2>11. SoundSocketIsHeard'
    BY <2>2 DEF SoundSocketIsHeard, Running
  <2>12. QED
    BY <2>8, <2>9, <2>10, <2>11
<1>5. CASE Prompt
  <2>1. /\ command' = NoCommand /\ status' = 0
        /\ attempt' = NoAttempt /\ elapsed' = 0 /\ socket' = NoSocket /\ shown' = NothingShown
    BY <1>5 DEF Prompt, ProcessOver, DoctorOver
  <2>2. QED
    BY <2>1
    DEF DoctorType, AskedInTime, AskedWhileRunning, SoundSocketIsHeard, DoctorIdle, Asking, IsRunning,
        NoAttempt, Attempt, NoSocket, NoCommand, DoctorNames, Overall, BridgeTimeout, SocketTimeout,
        Running, WasHeard
<1>6. CASE WelcomeSteps
  BY <1>1, <1>3, <1>6
  DEF WelcomeSteps, WelcomeNext, CannotGreet, BeginsBanner, EndsBanner, WritesMarker,
      KilledInWelcome, Greeting
<1>7. CASE Killed
  BY <1>3, <1>7 DEF Killed
<1>8. CASE UNCHANGED vars
  BY <1>1, <1>8 DEF vars
<1>9. BridgeSteps \/ FirmwareSteps \/ TokenSteps \/ EndsIdle => UNCHANGED doctor
  BY DEF BridgeSteps, FirmwareSteps, TokenSteps, EndsIdle
<1>10. CASE DoctorSteps
  BY <1>10, DoctorKeeps
<1>11. QED
  BY <1>2, <1>4, <1>5, <1>6, <1>7, <1>8, <1>9, <1>10, StepGroups, GroupSteps, Groups

-----------------------------------------------------------------------------
(***************************************************************************)
(* What the two health commands tell.                                      *)
(***************************************************************************)
\* Tier D is made of the capability posture and of nothing else.
LEMMA TierDIsPosture ==
  ASSUME NEW s, NEW t,
         Has(s, "capability_posture") <=> Has(t, "capability_posture"),
         Has(s, "capability_posture") => s["capability_posture"] = t["capability_posture"]
  PROVE  PhysicalTierState(s, NoRelay) = PhysicalTierState(t, NoRelay)
<1>1. \A n : Says(s, "capability_posture", n) = Says(t, "capability_posture", n)
  BY DEF Says
<1>2. PostureKnown(s) <=> PostureKnown(t)
  BY <1>1 DEF PostureKnown, Flag
<1>3. Posture(s, "relay_connected") <=> Posture(t, "relay_connected")
  BY <1>1 DEF Posture, Flag
<1>4. PolicyBlocks(s, NoRelay) = PolicyBlocks(t, NoRelay) /\ PolicyDoubts(s, NoRelay) = PolicyDoubts(t, NoRelay)
  BY DEF PolicyBlocks, PolicyDoubts
<1>5. QED
  BY <1>2, <1>3, <1>4 DEF PhysicalTierState

\* The only reason tier D has to be said not ready.
LEMMA TierDNeedsRelay ==
  ASSUME NEW s, PhysicalTierState(s, NoRelay).ready = "not_ready"
  PROVE  "relay_disconnected" \in PhysicalTierState(s, NoRelay).reasons
<1> DEFINE down == When(PostureKnown(s) /\ ~Posture(s, "relay_connected"), "relay_disconnected")
<1>1. PolicyBlocks(s, NoRelay) = {}
  BY DEF PolicyBlocks
<1>2. CASE down = {}
  <2>1. PhysicalTierState(s, NoRelay).ready = "unknown"
    BY <1>1, <1>2 DEF PhysicalTierState
  <2>2. QED
    BY <2>1
<1>3. CASE down # {}
  <2>1. "relay_disconnected" \in down
    BY <1>3 DEF When
  <2>2. PhysicalTierState(s, NoRelay) =
          [ready |-> "not_ready",
           reasons |-> (down \cup PolicyBlocks(s, NoRelay))
                         \cup (When(~PostureKnown(s), "capability_posture_unavailable")
                                 \cup PolicyDoubts(s, NoRelay))]
    BY <1>1, <1>3 DEF PhysicalTierState
  <2>3. QED
    BY <2>1, <2>2
<1>4. QED
  BY <1>2, <1>3

\* A doctor has heard something that was delivered.
LEMMA HeardIsDelivered ==
  ASSUME DoctorInv, Reported
  PROVE  Heard \in Deliveries /\ IsPayload(Heard.sent) /\ Accepted(Heard.sent)
<1>1. PICK d \in Acceptable : \E via \in {"bridge", "socket"} : shown = [via |-> via, heard |-> d]
  BY DEF DoctorInv, DoctorType, WasHeard, Reported, NothingShown
<1>2. Heard = d
  BY <1>1 DEF Heard
<1>3. QED
  BY <1>2, PayloadAssumption DEF Acceptable

\* Whatever was accepted, its tier D stands alone.
LEMMA DoctorInvGivesTierD == DoctorInv => TierDStandsAlone
<1> SUFFICES ASSUME DoctorInv, Diagnosed PROVE TierDStandsAlone
  BY DEF TierDStandsAlone
<1> DEFINE p == Heard.sent
           posture == [b \in DOMAIN p.health \cap {"capability_posture"} |-> p.health[b]]
           alone == [p EXCEPT !.health = posture]
<1>1. p = [form |-> p.form, health |-> p.health]
  BY HeardIsDelivered DEF Diagnosed, IsPayload
<1>2. alone.form = p.form /\ alone.health = posture
  BY <1>1
<1>3. Has(Parsed(p), "capability_posture") <=>
        /\ p.form = "canonical" /\ "capability_posture" \in DOMAIN p.health
        /\ p.health["capability_posture"].is # "null"
  BY DEF Has, Parsed
<1>4. Has(Parsed(p), "capability_posture") =>
        Parsed(p)["capability_posture"] = p.health["capability_posture"]
  BY DEF Has, Parsed
<1>5. Has(Parsed(alone), "capability_posture") <=>
        /\ alone.form = "canonical" /\ "capability_posture" \in DOMAIN alone.health
        /\ alone.health["capability_posture"].is # "null"
  BY DEF Has, Parsed
<1>6. Has(Parsed(alone), "capability_posture") =>
        Parsed(alone)["capability_posture"] = alone.health["capability_posture"]
  BY DEF Has, Parsed
<1>7. /\ "capability_posture" \in DOMAIN posture <=> "capability_posture" \in DOMAIN p.health
      /\ "capability_posture" \in DOMAIN posture
           => posture["capability_posture"] = p.health["capability_posture"]
  OBVIOUS
<1>8. PhysicalTierState(Parsed(p), NoRelay) = PhysicalTierState(Parsed(alone), NoRelay)
  <2> HIDE DEF p, posture, alone
  <2>1. QED
    BY <1>2, <1>3, <1>4, <1>5, <1>6, <1>7, TierDIsPosture
<1>9. /\ Report.tiers.d = PhysicalTierState(Parsed(p), NoRelay)
      /\ BuildSummary(Parsed(alone)).tiers.d = PhysicalTierState(Parsed(alone), NoRelay)
  BY DEF Report, BuildSummary, TierCapability
<1>10. QED
  BY <1>8, <1>9, TierDNeedsRelay DEF TierDStandsAlone

\* A block that is an object has the named fields taken out of it, and so have the
\* senders of a lockout that is one, whose senders are an array of objects.
LEMMA BareHasNone ==
  ASSUME NEW block, IsBlock(block), block.is = "object", NEW names
  PROVE  DOMAIN Bare(block, names).fields \cap names = {}
<1>1. Bare(block, names).fields = Without(block.fields, names)
  BY DEF Bare, IsBlock
<1>2. QED
  BY <1>1 DEF Without

LEMMA SendersAreBare ==
  ASSUME NEW block, IsBlock(block), block.is = "object", Told(block.fields, "senders") = "array",
         \A i \in DOMAIN block.items : IsBlock(block.items[i]) /\ block.items[i].is = "object",
         NEW i \in DOMAIN SendersBare(block).items
  PROVE  DOMAIN SendersBare(block).items[i].fields \cap Identities = {}
<1>1. SendersBare(block).items = [j \in DOMAIN block.items |-> Bare(block.items[j], Identities)]
  BY DEF SendersBare, IsBlock
<1>2. i \in DOMAIN block.items /\ SendersBare(block).items[i] = Bare(block.items[i], Identities)
  BY <1>1
<1>3. QED
  BY <1>2, BareHasNone

\* A canonical payload that was accepted has the lockout and the evidence redaction
\* needs: it is the parser that makes redaction complete.
LEMMA AcceptedIsRedactable ==
  ASSUME NEW p, p.form = "canonical", Accepted(p)
  PROVE  /\ Has(p.health, "remote_command_lockout") =>
              LET block == p.health["remote_command_lockout"]
              IN  /\ \A i \in DOMAIN block.items : block.items[i].is = "object"
                  /\ block.is # "null" =>
                       block.is = "object" /\ Told(block.fields, "senders") = "array"
         /\ Has(p.health, "evidence") /\ p.health["evidence"].is # "null" =>
              p.health["evidence"].is = "object"
<1>1. BlocksFit(p.health) /\ EvidenceFits(p.health, TRUE)
  BY DEF Accepted
<1>2. ASSUME Has(p.health, "remote_command_lockout")
      PROVE  LET block == p.health["remote_command_lockout"]
             IN  /\ \A i \in DOMAIN block.items : block.items[i].is = "object"
                 /\ block.is # "null" =>
                      block.is = "object" /\ Told(block.fields, "senders") = "array"
  <2> DEFINE block == p.health["remote_command_lockout"]
  <2>1. AllFit("senders", block.items)
    BY <1>1, <1>2 DEF BlocksFit
  <2>2. block.is = "null" \/ Fits("remote_command_lockout", block)
    BY <1>1, <1>2 DEF BlocksFit, Optional, Has
  <2>3. [name |-> "senders", type |-> "array"] \in Schema["remote_command_lockout"].required
    BY DEF Schema, RemoteCommandLockout, Fields, Typed
  <2>4. Values["array"] = {"array"}
    BY DEF Values
  <2>5. Fits("remote_command_lockout", block) =>
          block.is = "object" /\ Told(block.fields, "senders") = "array"
    BY <2>3, <2>4 DEF Fits, RequiredFits, Told
  <2>6. QED
    BY <2>1, <2>2, <2>5 DEF AllFit, Fits
<1>3. Has(p.health, "evidence") /\ p.health["evidence"].is # "null" =>
        p.health["evidence"].is = "object"
  BY <1>1 DEF EvidenceFits
<1>4. QED
  BY <1>2, <1>3

\* Whatever was accepted in the contract's form, its printed form identifies nobody.
LEMMA DoctorInvHidesSenders == DoctorInv => NobodyIdentified
<1> SUFFICES ASSUME DoctorInv, Reported, Heard.sent.form = "canonical"
             PROVE  ~Identifies(Redacted(Heard.sent))
  BY DEF NobodyIdentified
<1> DEFINE p == Heard.sent
           printed == Redacted(p)
<1>0. IsPayload(p) /\ Accepted(p)
  BY HeardIsDelivered
<1>1. ASSUME Present(printed, "remote_command_lockout"),
             NEW i \in DOMAIN printed.remote_command_lockout.items
      PROVE  DOMAIN printed.remote_command_lockout.items[i].fields \cap Identities = {}
  <2> DEFINE block == p.health["remote_command_lockout"]
  <2>1. "remote_command_lockout" \in DOMAIN p.health
    BY <1>1 DEF Present, Has, Redacted
  <2>2. IsBlock(block) /\ \A k \in DOMAIN block.items : IsBlock(block.items[k])
    BY <1>0, <2>1 DEF IsPayload
  <2>3. printed["remote_command_lockout"] = SendersBare(block)
    BY <2>1 DEF Redacted
  <2>4. SendersBare(block).is = block.is
    BY <2>2 DEF SendersBare, IsBlock
  <2>5. block.is # "null"
    BY <1>1, <2>3, <2>4 DEF Present
  <2>6. /\ block.is = "object" /\ Told(block.fields, "senders") = "array"
        /\ \A k \in DOMAIN block.items : block.items[k].is = "object"
    BY <1>0, <2>1, <2>5, AcceptedIsRedactable DEF Has
  <2>7. i \in DOMAIN SendersBare(block).items
    BY <1>1, <2>3
  <2> HIDE DEF block, printed
  <2>8. QED
    BY <2>2, <2>3, <2>6, <2>7, SendersAreBare
<1>2. ASSUME Present(printed, "evidence")
      PROVE  ~Has(printed.evidence.fields, "artifact_version")
  <2> DEFINE block == p.health["evidence"]
  <2>1. "evidence" \in DOMAIN p.health
    BY <1>2 DEF Present, Has, Redacted
  <2>2. IsBlock(block)
    BY <1>0, <2>1 DEF IsPayload
  <2>3. printed["evidence"] = Bare(block, {"artifact_version"})
    BY <2>1 DEF Redacted
  <2>4. Bare(block, {"artifact_version"}).is = block.is
    BY <2>2 DEF Bare, IsBlock
  <2>5. block.is = "object"
    BY <1>0, <1>2, <2>1, <2>3, <2>4, AcceptedIsRedactable DEF Present, Has
  <2> HIDE DEF block, printed
  <2>6. QED
    BY <2>2, <2>3, <2>5, BareHasNone DEF Has
<1>3. QED
  <2> HIDE DEF printed
  <2>1. ~Identifies(printed)
    BY <1>1, <1>2 DEF Identifies
  <2>2. QED
    BY <2>1 DEF printed

-----------------------------------------------------------------------------
(***************************************************************************)
(* That the doctor's report is the truth.                                  *)
(***************************************************************************)
\* The fields that a report is made of, of a block and of the items of one.
Reads ==
  [ capability_posture |->
      {"available", "sms_available", "whatsapp_available", "internet_available", "relay_connected"},
    alert_outbox |-> {"backlog_count"},
    device_policy |-> {"available", "enabled", "is_expired", "relay_b_enabled", "relay_c_enabled"},
    evidence |-> {"enabled", "available", "attestation_gap_count"},
    gateway_broker_posture |-> {"available", "gateway_enabled", "requires_acl_hardening"},
    state_store_encryption |-> {"available", "satisfied", "mode"},
    sensors |-> {},
    remote_command_lockout |-> {} ]

ItemReads ==
  [ sensors |-> {"connected", "stale", "last_seen_ms"},
    remote_command_lockout |-> {"risk_level", "locked_out", "stale"} ]

\* Two healths that agree on all of them.
Alike(g, h) ==
  /\ \A b \in DOMAIN Reads :
       /\ Present(g, b) <=> Present(h, b)
       /\ Present(h, b) => \A n \in Reads[b] : Told(g[b].fields, n) = Told(h[b].fields, n)
  /\ \A b \in DOMAIN ItemReads :
       Present(h, b) =>
         /\ DOMAIN g[b].items = DOMAIN h[b].items
         /\ \A i \in DOMAIN h[b].items : \A n \in ItemReads[b] :
              Told(g[b].items[i].fields, n) = Told(h[b].items[i].fields, n)

\* Nothing else calls for attention.
LEMMA AlikeUnwell ==
  ASSUME NEW g, NEW h, Alike(g, h)
  PROVE  Unwell(g) <=> Unwell(h)
<1>1. \A b \in DOMAIN Reads : Present(g, b) <=> Present(h, b)
  BY DEF Alike
<1>2. \A b \in DOMAIN Reads : \A n \in Reads[b] :
        /\ \A v : Is(g, b, n, v) <=> Is(h, b, n, v)
        /\ Counts(g, b, n) <=> Counts(h, b, n)
  BY DEF Alike, Is, Counts
<1>3. \A b \in DOMAIN ItemReads : \A n \in ItemReads[b] : \A values :
        Among(g, b, n, values) <=> Among(h, b, n, values)
  <2>1. DOMAIN ItemReads \subseteq DOMAIN Reads
    BY DEF Reads, ItemReads
  <2>2. QED
    BY <1>1, <2>1 DEF Alike, Among
<1>4. SensorsUnwell(g) <=> SensorsUnwell(h)
  BY <1>3 DEF SensorsUnwell, ItemReads
<1>5. SendersUnwell(g) <=> SendersUnwell(h)
  BY <1>3 DEF SendersUnwell, ItemReads
<1>6. ChannelsUnwell(g) <=> ChannelsUnwell(h)
  BY <1>2 DEF ChannelsUnwell, Known, Reads
<1>7. PolicyUnwell(g) <=> PolicyUnwell(h)
  BY <1>2 DEF PolicyUnwell, Known, Reads
<1>8. EvidenceUnwell(g) <=> EvidenceUnwell(h)
  BY <1>2 DEF EvidenceUnwell, Reads
<1>9. GatewayUnwell(g) <=> GatewayUnwell(h)
  BY <1>2 DEF GatewayUnwell, Known, Reads
<1>10. StoreUnwell(g) <=> StoreUnwell(h)
  BY <1>2 DEF StoreUnwell, Known, Reads
<1>11. QED
  BY <1>4, <1>5, <1>6, <1>7, <1>8, <1>9, <1>10 DEF Unwell

FieldsOf(block) == Schema[block].required \cup Schema[block].nullable

\* The contract has a type for each of them.
LEMMA FieldTypes ==
  /\ \A n \in {"available", "sms_available", "whatsapp_available", "internet_available",
              "relay_connected"} :
       [name |-> n, type |-> "bool"] \in Schema["capability_posture"].required
  /\ \A n \in {"backlog_count"} :
       [name |-> n, type |-> "int"] \in Schema["alert_outbox"].required
  /\ \A n \in {"available", "enabled"} :
       [name |-> n, type |-> "bool"] \in Schema["device_policy"].required
  /\ \A n \in {"is_expired", "relay_b_enabled", "relay_c_enabled"} :
       [name |-> n, type |-> "bool"] \in Schema["device_policy"].nullable
  /\ \A n \in {"available", "enabled"} :
       [name |-> n, type |-> "bool"] \in Schema["evidence"].required
  /\ \A n \in {"attestation_gap_count"} :
       [name |-> n, type |-> "int"] \in Schema["evidence"].nullable
  /\ \A n \in {"available", "gateway_enabled", "requires_acl_hardening"} :
       [name |-> n, type |-> "bool"] \in Schema["gateway_broker_posture"].required
  /\ \A n \in {"available", "satisfied"} :
       [name |-> n, type |-> "bool"] \in Schema["state_store_encryption"].required
  /\ \A n \in {"mode"} :
       [name |-> n, type |-> "string"] \in Schema["state_store_encryption"].required
  /\ \A n \in {"connected", "stale"} :
       [name |-> n, type |-> "bool"] \in Schema["sensors"].required
  /\ \A n \in {"last_seen_ms"} :
       [name |-> n, type |-> "int"] \in Schema["sensors"].nullable
  /\ \A n \in {"locked_out", "stale"} :
       [name |-> n, type |-> "bool"] \in Schema["senders"].required
  /\ \A n \in {"risk_level"} :
       [name |-> n, type |-> "string"] \in Schema["senders"].required
<1>1. \A n \in {"available", "sms_available", "whatsapp_available", "internet_available",
              "relay_connected"} :
       [name |-> n, type |-> "bool"] \in Schema["capability_posture"].required
  BY DEF Schema, CapabilityPosture, Fields, Typed
<1>2. \A n \in {"backlog_count"} :
       [name |-> n, type |-> "int"] \in Schema["alert_outbox"].required
  BY DEF Schema, AlertOutbox, Fields, Typed
<1>3. \A n \in {"available", "enabled"} :
       [name |-> n, type |-> "bool"] \in Schema["device_policy"].required
  BY DEF Schema, DevicePolicy, Fields, Typed
<1>4. \A n \in {"is_expired", "relay_b_enabled", "relay_c_enabled"} :
       [name |-> n, type |-> "bool"] \in Schema["device_policy"].nullable
  BY DEF Schema, DevicePolicy, Fields, Typed
<1>5. \A n \in {"available", "enabled"} :
       [name |-> n, type |-> "bool"] \in Schema["evidence"].required
  BY DEF Schema, EvidenceFields, Fields, Typed
<1>6. \A n \in {"attestation_gap_count"} :
       [name |-> n, type |-> "int"] \in Schema["evidence"].nullable
  BY DEF Schema, EvidenceFields, Fields, Typed
<1>7. \A n \in {"available", "gateway_enabled", "requires_acl_hardening"} :
       [name |-> n, type |-> "bool"] \in Schema["gateway_broker_posture"].required
  BY DEF Schema, GatewayBrokerPosture, Fields, Typed
<1>8. \A n \in {"available", "satisfied"} :
       [name |-> n, type |-> "bool"] \in Schema["state_store_encryption"].required
  BY DEF Schema, StateStoreEncryption, Fields, Typed
<1>9. \A n \in {"mode"} :
       [name |-> n, type |-> "string"] \in Schema["state_store_encryption"].required
  BY DEF Schema, StateStoreEncryption, Fields, Typed
<1>10. \A n \in {"connected", "stale"} :
       [name |-> n, type |-> "bool"] \in Schema["sensors"].required
  BY DEF Schema, Sensor, Fields, Typed
<1>11. \A n \in {"last_seen_ms"} :
       [name |-> n, type |-> "int"] \in Schema["sensors"].nullable
  BY DEF Schema, Sensor, Fields, Typed
<1>12. \A n \in {"locked_out", "stale"} :
       [name |-> n, type |-> "bool"] \in Schema["senders"].required
  BY DEF Schema, LockoutSender, Fields, Typed
<1>13. \A n \in {"risk_level"} :
       [name |-> n, type |-> "string"] \in Schema["senders"].required
  BY DEF Schema, LockoutSender, Fields, Typed
<1> QED
  BY <1>1, <1>2, <1>3, <1>4, <1>5, <1>6, <1>7, <1>8, <1>9, <1>10, <1>11, <1>12, <1>13

\* Each of them is a field of its block.
LEMMA ReadsTyped ==
  /\ DOMAIN Reads \subseteq DOMAIN Schema
  /\ \A b \in DOMAIN Reads : \A n \in Reads[b] : \E f \in FieldsOf(b) : f.name = n
  /\ \A n \in ItemReads["sensors"] : \E f \in FieldsOf("sensors") : f.name = n
  /\ \A n \in ItemReads["remote_command_lockout"] : \E f \in FieldsOf("senders") : f.name = n
<1>1. DOMAIN Reads \subseteq DOMAIN Schema
  BY DEF Reads, Schema
<1>2. ASSUME NEW b, NEW n, NEW t,
             \/ [name |-> n, type |-> t] \in Schema[b].required
             \/ [name |-> n, type |-> t] \in Schema[b].nullable
      PROVE  \E f \in FieldsOf(b) : f.name = n
  <2>1. [name |-> n, type |-> t] \in FieldsOf(b) /\ [name |-> n, type |-> t].name = n
    BY <1>2 DEF FieldsOf
  <2>2. QED
    BY <2>1
<1>3. \A n \in ItemReads["sensors"] : \E f \in FieldsOf("sensors") : f.name = n
  BY <1>2, FieldTypes DEF ItemReads
<1>4. \A n \in ItemReads["remote_command_lockout"] : \E f \in FieldsOf("senders") : f.name = n
  BY <1>2, FieldTypes DEF ItemReads
<1>5. ASSUME NEW b \in DOMAIN Reads, NEW n \in Reads[b]
      PROVE  \E f \in FieldsOf(b) : f.name = n
  <2>1. CASE b = "capability_posture"
    BY <1>2, <1>5, <2>1, FieldTypes DEF Reads
  <2>2. CASE b = "alert_outbox"
    BY <1>2, <1>5, <2>2, FieldTypes DEF Reads
  <2>3. CASE b = "device_policy"
    BY <1>2, <1>5, <2>3, FieldTypes DEF Reads
  <2>4. CASE b = "evidence"
    BY <1>2, <1>5, <2>4, FieldTypes DEF Reads
  <2>5. CASE b = "gateway_broker_posture"
    BY <1>2, <1>5, <2>5, FieldTypes DEF Reads
  <2>6. CASE b = "state_store_encryption"
    BY <1>2, <1>5, <2>6, FieldTypes DEF Reads
  <2>7. QED
    BY <1>5, <2>1, <2>2, <2>3, <2>4, <2>5, <2>6 DEF Reads
<1>6. QED
  BY <1>1, <1>3, <1>4, <1>5

\* A field that has arrived and fits is what was told.
LEMMA ArrivedAsTold ==
  ASSUME NEW block, NEW meant, NEW sent, FieldsArrive(block, meant, sent),
         RequiredFits(block, sent), NullableFits(block, sent),
         NEW f \in FieldsOf(block)
  PROVE  Told(sent, f.name) = Told(meant, f.name)
  BY DEF FieldsOf, FieldsArrive, RequiredFits, NullableFits, Told

\* What the parser passes on of a payload it accepts, when every risk is one of the
\* contract's words.
Sound(s) ==
  /\ \A b \in DOMAIN s : s[b].is # "null"
  /\ \A b \in (Optional \cup {"evidence"}) \cap DOMAIN s :
       RequiredFits(b, s[b].fields) /\ NullableFits(b, s[b].fields)
  /\ Has(s, "sensors") =>
       \A i \in DOMAIN s["sensors"].items :
         LET fields == s["sensors"].items[i].fields
         IN  RequiredFits("sensors", fields) /\ NullableFits("sensors", fields)
  /\ Has(s, "remote_command_lockout") =>
       \A i \in DOMAIN s["remote_command_lockout"].items :
         LET fields == s["remote_command_lockout"].items[i].fields
         IN  RequiredFits("senders", fields) /\ fields.risk_level \in RiskLevels

\* A parsed block says what its fields tell.
LEMMA SaysTold ==
  ASSUME NEW s, Sound(s), NEW b, NEW n
  PROVE  /\ Present(s, b) <=> Has(s, b)
         /\ Says(s, b, n) = IF Has(s, b) THEN Told(s[b].fields, n) ELSE "null"
         /\ \A v : v # "null" => (Is(s, b, n, v) <=> Says(s, b, n) = v)
         /\ Counts(s, b, n) <=> Says(s, b, n) \notin {"null", "zero"}
  BY DEF Sound, Has, Present, Says, Is, Counts

\* A flag a present block must have is one or the other.
LEMMA FlagsAreFlags ==
  ASSUME NEW s, Sound(s), NEW b \in Optional \cup {"evidence"}, Has(s, b),
         NEW n, [name |-> n, type |-> "bool"] \in Schema[b].required
  PROVE  Says(s, b, n) \in {"true", "false"}
<1>1. RequiredFits(b, s[b].fields)
  BY DEF Sound, Has
<1>2. Has(s[b].fields, n) /\ s[b].fields[n] \in Values["bool"]
  BY <1>1 DEF RequiredFits
<1>3. QED
  BY <1>2 DEF Says, Told, Values

\* The sections of the report and the parts of what calls for attention.
LEMMA SensorsReported ==
  ASSUME NEW s, Sound(s)
  PROVE  SensorFreshnessDelta(s) # {} <=> SensorsUnwell(s)
<1> DEFINE items == s["sensors"].items
           Amiss(i) == \/ Told(items[i].fields, "connected") = "false"
                       \/ Told(items[i].fields, "last_seen_ms") \in {"null", "future"}
                       \/ Told(items[i].fields, "stale") = "true"
<1>1. SensorsUnwell(s) <=> Has(s, "sensors") /\ \E i \in DOMAIN items : Amiss(i)
  BY SaysTold DEF SensorsUnwell, Among
<1>2. ASSUME NEW i \in DOMAIN items, Has(s, "sensors")
      PROVE  SensorReasons(items[i]) # {} <=> Amiss(i)
  <2>1. RequiredFits("sensors", items[i].fields)
    BY <1>2 DEF Sound
  <2>2. Has(items[i].fields, "connected") /\ Has(items[i].fields, "stale")
    BY <2>1, FieldTypes DEF RequiredFits
  <2>3. QED
    BY <2>2 DEF SensorReasons, When, Told
<1>3. SensorFreshnessDelta(s) # {} <=> \E sensor \in Items(s, "sensors") : SensorReasons(sensor) # {}
  BY DEF SensorFreshnessDelta
<1>4. Has(s, "sensors") => Items(s, "sensors") = {items[i] : i \in DOMAIN items}
  BY DEF Items
<1>5. ~Has(s, "sensors") => Items(s, "sensors") = {}
  BY DEF Items
<1> HIDE DEF items, Amiss
<1>6. QED
  BY <1>1, <1>2, <1>3, <1>4, <1>5

\* ... the senders of remote commands, in one of the contract's three words.
LEMMA SendersReported ==
  ASSUME NEW s, Sound(s)
  PROVE  LockoutDegraded(s) <=> SendersUnwell(s)
<1> DEFINE items == s["remote_command_lockout"].items
           Amiss(i) == \/ Told(items[i].fields, "risk_level") \in Values["string"] \ {"normal"}
                       \/ Told(items[i].fields, "locked_out") = "true"
                       \/ Told(items[i].fields, "stale") = "true"
           Counted(sender) == \/ sender.fields.risk_level \in {"elevated", "critical"}
                              \/ sender.fields.locked_out = "true"
                              \/ sender.fields.stale = "true"
<1>1. SendersUnwell(s) <=> Has(s, "remote_command_lockout") /\ \E i \in DOMAIN items : Amiss(i)
  BY SaysTold DEF SendersUnwell, Among
<1>2. ASSUME NEW i \in DOMAIN items, Has(s, "remote_command_lockout")
      PROVE  Counted(items[i]) <=> Amiss(i)
  <2>1. RequiredFits("senders", items[i].fields) /\ items[i].fields.risk_level \in RiskLevels
    BY <1>2 DEF Sound
  <2>2. /\ Has(items[i].fields, "risk_level") /\ Has(items[i].fields, "locked_out")
        /\ Has(items[i].fields, "stale")
    BY <2>1, FieldTypes DEF RequiredFits
  <2>3. QED
    BY <2>1, <2>2 DEF Told, RiskLevels, Values
<1>3. LockoutDegraded(s) <=> \E sender \in Items(s, "remote_command_lockout") : Counted(sender)
  BY DEF LockoutDegraded
<1>4. Has(s, "remote_command_lockout") =>
        Items(s, "remote_command_lockout") = {items[i] : i \in DOMAIN items}
  BY DEF Items
<1>5. ~Has(s, "remote_command_lockout") => Items(s, "remote_command_lockout") = {}
  BY DEF Items
<1> HIDE DEF items, Amiss, Counted
<1>6. QED
  BY <1>1, <1>2, <1>3, <1>4, <1>5

\* ... the evidence component.
LEMMA EvidenceReported ==
  ASSUME NEW s, Sound(s)
  PROVE  Evidence(s) # {} <=> EvidenceUnwell(s)
<1>1. Counts(s, "evidence", "attestation_gap_count")
        <=> Says(s, "evidence", "attestation_gap_count") \notin {"null", "zero"}
  BY SaysTold
<1>2. Is(s, "evidence", "enabled", "true") <=> Flag(s, "evidence", "enabled")
  BY SaysTold DEF Flag
<1>3. Is(s, "evidence", "enabled", "true") => Has(s, "evidence")
  BY DEF Is, Present
<1>4. Has(s, "evidence") =>
        (Is(s, "evidence", "available", "false") <=> ~Flag(s, "evidence", "available"))
  BY SaysTold, FlagsAreFlags, FieldTypes DEF Flag
<1>5. QED
  BY <1>1, <1>2, <1>3, <1>4 DEF Evidence, EvidenceUnwell, When

\* A block that is known, and a flag of a block that is.
LEMMA KnownFlags ==
  ASSUME NEW s, Sound(s), NEW b \in Optional
  PROVE  /\ Known(s, b) <=> Flag(s, b, "available")
         /\ Known(s, b) => Has(s, b)
         /\ \A n : Is(s, b, n, "true") <=> Flag(s, b, n)
         /\ \A n : Has(s, b) /\ [name |-> n, type |-> "bool"] \in Schema[b].required =>
              (Is(s, b, n, "false") <=> ~Flag(s, b, n))
<1>1. \A n : Is(s, b, n, "true") <=> Flag(s, b, n)
  BY SaysTold DEF Flag
<1>2. Known(s, b) => Has(s, b)
  BY DEF Known, Is, Present
<1>3. \A n : Has(s, b) /\ [name |-> n, type |-> "bool"] \in Schema[b].required =>
              (Is(s, b, n, "false") <=> ~Flag(s, b, n))
  BY SaysTold, FlagsAreFlags DEF Flag
<1>4. QED
  BY <1>1, <1>2, <1>3 DEF Known

\* ... the gateway's broker.
LEMMA GatewayReported ==
  ASSUME NEW s, Sound(s)
  PROVE  GatewayUnwell(s) <=>
           \/ ~Flag(s, "gateway_broker_posture", "available")
           \/ /\ Flag(s, "gateway_broker_posture", "gateway_enabled")
              /\ Flag(s, "gateway_broker_posture", "requires_acl_hardening")
  BY KnownFlags DEF GatewayUnwell, Optional

\* ... the encryption of the state store.
LEMMA StoreReported ==
  ASSUME NEW s, Sound(s)
  PROVE  StoreUnwell(s) <=>
           \/ ~Flag(s, "state_store_encryption", "available")
           \/ /\ Says(s, "state_store_encryption", "mode") = "filesystem_required"
              /\ ~Flag(s, "state_store_encryption", "satisfied")
<1>1. "state_store_encryption" \in Optional
  BY DEF Optional
<1>2. Is(s, "state_store_encryption", "mode", "filesystem_required")
        <=> Says(s, "state_store_encryption", "mode") = "filesystem_required"
  BY SaysTold
<1>3. CASE Has(s, "state_store_encryption")
  <2>1. Is(s, "state_store_encryption", "satisfied", "false")
          <=> ~Flag(s, "state_store_encryption", "satisfied")
    BY <1>1, <1>3, KnownFlags, FieldTypes
  <2>2. QED
    BY <1>1, <1>2, <2>1, KnownFlags DEF StoreUnwell
<1>4. CASE ~Has(s, "state_store_encryption")
  BY <1>1, <1>4, KnownFlags DEF StoreUnwell
<1>5. QED
  BY <1>3, <1>4

\* A tier is said not ready when its relay is known to be disconnected or the policy
\* blocks it.
LEMMA TierNotReady ==
  ASSUME NEW s, NEW relay
  PROVE  PhysicalTierState(s, relay).ready = "not_ready" <=>
           \/ PostureKnown(s) /\ ~Posture(s, "relay_connected")
           \/ PolicyBlocks(s, relay) # {}
<1> DEFINE down == When(PostureKnown(s) /\ ~Posture(s, "relay_connected"), "relay_disconnected")
           blocks == down \cup PolicyBlocks(s, relay)
<1>1. down # {} <=> PostureKnown(s) /\ ~Posture(s, "relay_connected")
  BY DEF When
<1>2. PhysicalTierState(s, relay).ready = IF blocks # {} THEN "not_ready" ELSE "unknown"
  BY DEF PhysicalTierState
<1> HIDE DEF down
<1>3. blocks # {} <=> down # {} \/ PolicyBlocks(s, relay) # {}
  OBVIOUS
<1> HIDE DEF blocks
<1>4. QED
  BY <1>1, <1>2, <1>3

\* ... the device policy, through the tiers it blocks.
LEMMA PolicyReported ==
  ASSUME NEW s, Sound(s)
  PROVE  PolicyUnwell(s) <=>
           PolicyBlocks(s, "relay_b_enabled") # {} \/ PolicyBlocks(s, "relay_c_enabled") # {}
<1> DEFINE inForce == PolicyInForce(s) /\ Flag(s, "device_policy", "available")
<1>1. /\ Is(s, "device_policy", "enabled", "true") <=> PolicyInForce(s)
      /\ Known(s, "device_policy") <=> Flag(s, "device_policy", "available")
      /\ Is(s, "device_policy", "is_expired", "true") <=> Flag(s, "device_policy", "is_expired")
  BY KnownFlags DEF Optional, PolicyInForce
<1>2. \A n : Is(s, "device_policy", n, "false") <=> Says(s, "device_policy", n) = "false"
  BY SaysTold
<1>3. ASSUME NEW relay \in {"relay_b_enabled", "relay_c_enabled"}
      PROVE  PolicyBlocks(s, relay) # {} <=>
               /\ inForce
               /\ Flag(s, "device_policy", "is_expired") \/ Says(s, "device_policy", relay) = "false"
  <2>1. relay # NoRelay
    BY DEF NoRelay
  <2>2. QED
    BY <2>1 DEF PolicyBlocks, When
<1>4. QED
  BY <1>1, <1>2, <1>3 DEF PolicyUnwell

\* ... the alert channels, and the relay.
LEMMA ChannelsReported ==
  ASSUME NEW s, Sound(s)
  PROVE  ChannelsUnwell(s) <=>
           \/ AlertChannel(s) # {}
           \/ PostureKnown(s) /\ ~Posture(s, "relay_connected")
<1> DEFINE names == {"sms_available", "whatsapp_available", "internet_available", "relay_connected"}
<1>1. Known(s, "capability_posture") <=> PostureKnown(s)
  BY KnownFlags DEF Optional, PostureKnown
<1>2. Counts(s, "alert_outbox", "backlog_count") <=> Backlog(s)
  BY SaysTold DEF Backlog
<1>3. CASE ~PostureKnown(s)
  BY <1>1, <1>3 DEF ChannelsUnwell, AlertChannel
<1>4. CASE PostureKnown(s)
  <2>1. Has(s, "capability_posture")
    BY <1>1, <1>4, KnownFlags DEF Optional
  <2>2. \A n \in names : Is(s, "capability_posture", n, "false") <=> ~Posture(s, n)
    BY <2>1, KnownFlags, FieldTypes DEF Optional, Posture
  <2>3. ChannelsUnwell(s) <=> (\E n \in names : ~Posture(s, n)) \/ Backlog(s)
    BY <1>1, <1>2, <1>4, <2>2 DEF ChannelsUnwell
  <2>4. AlertChannel(s) # {} <=>
          \/ Backlog(s) \/ ~Posture(s, "sms_available") \/ ~Posture(s, "whatsapp_available")
          \/ ~Posture(s, "internet_available")
    BY <1>4 DEF AlertChannel, When
  <2>5. QED
    BY <1>4, <2>3, <2>4
<1>5. QED
  BY <1>3, <1>4

\* The report is degraded exactly when the health it is made of calls for attention.
LEMMA ReportIsUnwell ==
  ASSUME NEW s, Sound(s)
  PROVE  BuildSummary(s).degraded <=> Unwell(s)
<1> DEFINE tiers == TierCapability(s)
<1>1. BuildSummary(s).degraded <=>
        \/ SensorFreshnessDelta(s) # {} \/ AlertChannel(s) # {}
        \/ Evidence(s) # {} \/ RuntimePosture(s) # {}
        \/ \E t \in DOMAIN tiers : tiers[t].ready = "not_ready"
  BY DEF BuildSummary
<1>2. (\E t \in DOMAIN tiers : tiers[t].ready = "not_ready") <=>
        \/ tiers.a.ready = "not_ready" \/ tiers.b.ready = "not_ready"
        \/ tiers.c.ready = "not_ready" \/ tiers.d.ready = "not_ready"
  BY DEF TierCapability
<1>3. /\ tiers.a = TierA(s) /\ tiers.b = PhysicalTierState(s, "relay_b_enabled")
      /\ tiers.c = PhysicalTierState(s, "relay_c_enabled")
      /\ tiers.d = PhysicalTierState(s, NoRelay)
  BY DEF TierCapability
<1>4. tiers.a.ready = "not_ready" => AlertChannel(s) # {}
  BY <1>3 DEF TierA, AlertChannel, When
<1>5. PolicyBlocks(s, NoRelay) = {}
  BY DEF PolicyBlocks
<1>6. /\ tiers.b.ready = "not_ready" \/ tiers.c.ready = "not_ready" \/ tiers.d.ready = "not_ready"
           <=> PolicyUnwell(s) \/ (PostureKnown(s) /\ ~Posture(s, "relay_connected"))
  BY <1>3, <1>5, TierNotReady, PolicyReported
<1>7. RuntimePosture(s) # {} <=>
        GatewayUnwell(s) \/ StoreUnwell(s) \/ Backlog(s) \/ Evidence(s) # {} \/ LockoutDegraded(s)
  BY GatewayReported, StoreReported DEF RuntimePosture, When
<1>8. Backlog(s) => AlertChannel(s) # {}
  BY DEF AlertChannel, When
<1> HIDE DEF tiers
<1>9. QED
  BY <1>1, <1>2, <1>4, <1>6, <1>7, <1>8, SensorsReported, SendersReported, EvidenceReported,
     ChannelsReported DEF Unwell

\* What is passed on of a canonical payload.
LEMMA ParsedBlocks ==
  ASSUME NEW p, p.form = "canonical"
  PROVE  \A b : /\ Has(Parsed(p), b) <=> Present(p.health, b)
                /\ Has(Parsed(p), b) => Parsed(p)[b] = p.health[b]
  BY DEF Parsed, Has, Present

\* An accepted payload is passed on sound, and nothing it tells is lost.
LEMMA AcceptedIsSound ==
  ASSUME NEW p, p.form = "canonical", Accepted(p),
         \A sender \in Items(p.health, "remote_command_lockout") : sender.fields.risk_level \in RiskLevels
  PROVE  Sound(Parsed(p)) /\ (Unwell(Parsed(p)) <=> Unwell(p.health))
<1> DEFINE h == p.health
           s == Parsed(p)
<1>1. EvidenceFits(h, TRUE) /\ BlocksFit(h)
  BY DEF Accepted
<1>2. \A b : /\ Has(s, b) <=> Present(h, b)
             /\ Has(s, b) => s[b] = h[b]
  BY ParsedBlocks
<1> HIDE DEF s
<1>3. ASSUME NEW b \in DOMAIN s
      PROVE  s[b].is # "null"
  <2>1. Has(s, b)
    BY <1>3 DEF Has
  <2>2. Present(h, b) /\ s[b] = h[b]
    BY <1>2, <2>1
  <2>3. QED
    BY <2>2 DEF Present
<1>4. ASSUME NEW b \in Optional, Has(s, b)
      PROVE  RequiredFits(b, s[b].fields) /\ NullableFits(b, s[b].fields)
  BY <1>1, <1>2, <1>4 DEF BlocksFit, Fits, Present, Has
<1>5. ASSUME Has(s, "evidence")
      PROVE  RequiredFits("evidence", s["evidence"].fields) /\ NullableFits("evidence", s["evidence"].fields)
  <2>1. Has(h, "evidence") /\ h["evidence"].is # "null" /\ s["evidence"] = h["evidence"]
    BY <1>2, <1>5 DEF Present
  <2>2. /\ NullableFits("evidence", h["evidence"].fields)
        /\ \A f \in EvidenceFields.required :
             Has(h["evidence"].fields, f.name) /\ h["evidence"].fields[f.name] \in Values[f.type]
    BY <1>1, <2>1 DEF EvidenceFits
  <2>3. QED
    BY <2>1, <2>2 DEF RequiredFits, Schema
<1>6. ASSUME Has(s, "sensors"), NEW i \in DOMAIN s["sensors"].items
      PROVE  /\ RequiredFits("sensors", s["sensors"].items[i].fields)
             /\ NullableFits("sensors", s["sensors"].items[i].fields)
  BY <1>1, <1>2, <1>6 DEF BlocksFit, AllFit, Fits, Present
<1>7. ASSUME Has(s, "remote_command_lockout"), NEW i \in DOMAIN s["remote_command_lockout"].items
      PROVE  /\ RequiredFits("senders", s["remote_command_lockout"].items[i].fields)
             /\ s["remote_command_lockout"].items[i].fields.risk_level \in RiskLevels
  <2>1. Has(h, "remote_command_lockout") /\ s["remote_command_lockout"] = h["remote_command_lockout"]
    BY <1>2, <1>7 DEF Present
  <2>2. h["remote_command_lockout"].items[i] \in Items(h, "remote_command_lockout")
    BY <1>7, <2>1 DEF Items
  <2>3. QED
    BY <1>1, <1>7, <2>1, <2>2 DEF BlocksFit, AllFit, Fits
<1>8. Sound(s)
  BY <1>3, <1>4, <1>5, <1>6, <1>7 DEF Sound, Has
<1>9. Alike(s, h)
  <2>1. \A b : Present(s, b) <=> Present(h, b)
    BY <1>2 DEF Present, Has
  <2>2. \A b : Present(h, b) => s[b] = h[b]
    BY <1>2
  <2>3. QED
    BY <2>1, <2>2 DEF Alike
<1>10. QED
  BY <1>8, <1>9, AlikeUnwell DEF s

\* What is read of an accepted payload is what was told.
LEMMA ArrivedAlike ==
  ASSUME NEW d \in Deliveries, d.sent.form = "canonical", Accepted(d.sent)
  PROVE  /\ Alike(d.truth.health, d.sent.health)
         /\ \A sender \in Items(d.sent.health, "remote_command_lockout") :
              sender.fields.risk_level \in RiskLevels
<1> DEFINE meant == d.truth.health
           sent == d.sent.health
<1>1. EvidenceFits(sent, TRUE) /\ BlocksFit(sent) /\ BlocksFit(meant) /\ HealthArrives(meant, sent)
  BY ContractAssumption, TransportAssumption DEF Accepted, BadForms
<1>2. /\ \A b : Has(meant, b) <=> Has(sent, b)
      /\ \A b \in DOMAIN Schema : Has(sent, b) =>
           \/ sent[b].is = meant[b].is
           \/ sent[b].is \notin {"null", IF b = "sensors" THEN "array" ELSE "object"}
      /\ \A b \in DOMAIN Schema \ {"sensors"} : Has(sent, b) =>
           FieldsArrive(b, meant[b].fields, sent[b].fields)
  BY <1>1 DEF HealthArrives, Has
<1>3. \A b \in DOMAIN Reads : b \in Optional \cup {"evidence", "sensors"} /\ b \in DOMAIN Schema
  BY ReadsTyped DEF Reads, Optional
<1>4. ASSUME NEW b \in DOMAIN Reads \ {"sensors"}, Present(sent, b)
      PROVE  /\ sent[b].is = "object"
             /\ RequiredFits(b, sent[b].fields) /\ NullableFits(b, sent[b].fields)
  <2>1. CASE b \in Optional
    BY <1>1, <1>4, <2>1 DEF BlocksFit, Fits, Present, Has
  <2>2. CASE b = "evidence"
    BY <1>1, <1>4, <2>2 DEF EvidenceFits, RequiredFits, Present, Schema
  <2>3. QED
    BY <1>3, <1>4, <2>1, <2>2
<1>5. Has(sent, "sensors") => sent["sensors"].is = "array"
  BY <1>1 DEF BlocksFit
<1>6. ASSUME NEW b \in DOMAIN Reads
      PROVE  Present(meant, b) <=> Present(sent, b)
  <2>1. CASE b = "sensors"
    BY <1>2, <1>3, <1>5, <1>6, <2>1 DEF Present
  <2>2. CASE b # "sensors" /\ Has(sent, b)
    <3>1. sent[b].is \in {"null", "object"}
      BY <1>4, <1>6, <2>2 DEF Present
    <3>2. sent[b].is = meant[b].is
      BY <1>2, <1>3, <1>6, <2>2, <3>1
    <3>3. QED
      BY <1>2, <2>2, <3>2 DEF Present
  <2>3. CASE ~Has(sent, b)
    BY <1>2, <2>3 DEF Present
  <2>4. QED
    BY <2>1, <2>2, <2>3
<1>7. ASSUME NEW b \in DOMAIN Reads, Present(sent, b), NEW n \in Reads[b]
      PROVE  Told(meant[b].fields, n) = Told(sent[b].fields, n)
  <2>1. b # "sensors"
    BY <1>7 DEF Reads
  <2>2. FieldsArrive(b, meant[b].fields, sent[b].fields)
    BY <1>2, <1>3, <1>7, <2>1 DEF Present
  <2>3. PICK f \in FieldsOf(b) : f.name = n
    BY <1>7, ReadsTyped
  <2>4. QED
    BY <1>4, <1>7, <2>1, <2>2, <2>3, ArrivedAsTold
<1>8. ASSUME Has(sent, "sensors")
      PROVE  /\ DOMAIN meant["sensors"].items = DOMAIN sent["sensors"].items
             /\ \A i \in DOMAIN sent["sensors"].items : \A n \in ItemReads["sensors"] :
                  Told(meant["sensors"].items[i].fields, n) = Told(sent["sensors"].items[i].fields, n)
  <2>1. ItemsArrive("sensors", meant["sensors"].items, sent["sensors"].items)
    BY <1>1, <1>2, <1>8 DEF HealthArrives
  <2>2. \A i \in DOMAIN sent["sensors"].items :
          /\ RequiredFits("sensors", sent["sensors"].items[i].fields)
          /\ NullableFits("sensors", sent["sensors"].items[i].fields)
    BY <1>1, <1>8 DEF BlocksFit, AllFit, Fits
  <2>3. QED
    BY <2>1, <2>2, ReadsTyped, ArrivedAsTold DEF ItemsArrive
<1>9. ASSUME Has(sent, "remote_command_lockout")
      PROVE  /\ DOMAIN meant["remote_command_lockout"].items = DOMAIN sent["remote_command_lockout"].items
             /\ \A i \in DOMAIN sent["remote_command_lockout"].items :
                  /\ RequiredFits("senders", sent["remote_command_lockout"].items[i].fields)
                  /\ \A n \in ItemReads["remote_command_lockout"] :
                       Told(meant["remote_command_lockout"].items[i].fields, n)
                         = Told(sent["remote_command_lockout"].items[i].fields, n)
  <2>1. ItemsArrive("senders", meant["remote_command_lockout"].items,
                    sent["remote_command_lockout"].items)
    BY <1>1, <1>2, <1>9 DEF HealthArrives
  <2>2. \A i \in DOMAIN sent["remote_command_lockout"].items :
          /\ RequiredFits("senders", sent["remote_command_lockout"].items[i].fields)
          /\ NullableFits("senders", sent["remote_command_lockout"].items[i].fields)
    BY <1>1, <1>9 DEF BlocksFit, AllFit, Fits
  <2>3. QED
    BY <2>1, <2>2, ReadsTyped, ArrivedAsTold DEF ItemsArrive
<1>10. Alike(meant, sent)
  <2> DEFINE SameItems(b) ==
               /\ DOMAIN meant[b].items = DOMAIN sent[b].items
               /\ \A i \in DOMAIN sent[b].items : \A n \in ItemReads[b] :
                    Told(meant[b].items[i].fields, n) = Told(sent[b].items[i].fields, n)
  <2>1. Present(sent, "sensors") => SameItems("sensors")
    BY <1>8 DEF Present
  <2>2. Present(sent, "remote_command_lockout") => SameItems("remote_command_lockout")
    BY <1>9 DEF Present
  <2>3. \A b \in DOMAIN ItemReads : b \in {"sensors", "remote_command_lockout"}
    BY DEF ItemReads
  <2> HIDE DEF SameItems
  <2>4. \A b \in DOMAIN ItemReads : Present(sent, b) => SameItems(b)
    BY <2>1, <2>2, <2>3
  <2>5. QED
    BY <1>6, <1>7, <2>4 DEF Alike, SameItems
<1>11. ASSUME NEW sender \in Items(sent, "remote_command_lockout")
       PROVE  sender.fields.risk_level \in RiskLevels
  <2> DEFINE arrived == sent["remote_command_lockout"].items
             wanted == meant["remote_command_lockout"].items
  <2>1. Has(sent, "remote_command_lockout") /\ \E i \in DOMAIN arrived : sender = arrived[i]
    BY <1>11 DEF Items
  <2>2. PICK i \in DOMAIN arrived : sender = arrived[i]
    BY <2>1
  <2>3. /\ i \in DOMAIN wanted /\ RequiredFits("senders", arrived[i].fields)
        /\ Told(wanted[i].fields, "risk_level") = Told(arrived[i].fields, "risk_level")
    BY <1>9, <2>1 DEF ItemReads
  <2>4. wanted[i] \in Items(meant, "remote_command_lockout") /\ RequiredFits("senders", wanted[i].fields)
    BY <1>1, <1>2, <2>1, <2>3 DEF Items, BlocksFit, AllFit, Fits
  <2>5. wanted[i].fields.risk_level \in RiskLevels
    BY <2>4, ContractAssumption
  <2>6. Has(wanted[i].fields, "risk_level") /\ Has(arrived[i].fields, "risk_level")
    BY <2>3, <2>4, FieldTypes DEF RequiredFits
  <2>7. QED
    BY <2>2, <2>3, <2>5, <2>6 DEF Told
<1>12. QED
  BY <1>10, <1>11

\* An old payload says nothing of the capability posture.
LEMMA LegacyIsDegraded ==
  ASSUME NEW p, p.form \in {"legacy", "nested"}
  PROVE  BuildSummary(Parsed(p)).degraded
<1>1. ~Has(Parsed(p), "capability_posture")
  BY DEF Has, Parsed
<1>2. ~PostureKnown(Parsed(p))
  BY <1>1 DEF PostureKnown, Flag, Says
<1>3. AlertChannel(Parsed(p)) # {}
  BY <1>2 DEF AlertChannel
<1>4. QED
  BY <1>3 DEF BuildSummary

\* Whatever was delivered and accepted, the report says what is true of the runtime.
LEMMA DeliveredTruth ==
  ASSUME NEW d \in Deliveries, Accepted(d.sent)
  PROVE  LET degraded == BuildSummary(Parsed(d.sent)).degraded
         IN  /\ Unwell(d.truth.health) => degraded
             /\ d.sent.form = "canonical" /\ ~Unwell(d.truth.health) => ~degraded
<1>1. d.sent.form \in {"canonical", "legacy", "nested"}
  BY DEF Accepted
<1>2. CASE d.sent.form \in {"legacy", "nested"}
  BY <1>1, <1>2, LegacyIsDegraded
<1>3. CASE d.sent.form = "canonical"
  <2>1. Unwell(d.truth.health) <=> Unwell(d.sent.health)
    BY <1>3, ArrivedAlike, AlikeUnwell
  <2>2. Sound(Parsed(d.sent)) /\ (Unwell(Parsed(d.sent)) <=> Unwell(d.sent.health))
    BY <1>3, ArrivedAlike, AcceptedIsSound
  <2>3. BuildSummary(Parsed(d.sent)).degraded <=> Unwell(d.truth.health)
    BY <2>1, <2>2, ReportIsUnwell
  <2>4. QED
    BY <2>3
<1>4. QED
  BY <1>1, <1>2, <1>3

\* And a doctor that reports has heard such a delivery.
LEMMA DoctorInvTellsTheTruth == DoctorInv => DoctorTellsTheTruth
  BY HeardIsDelivered, DeliveredTruth DEF DoctorTellsTheTruth, Diagnosed, Report

-----------------------------------------------------------------------------
(***************************************************************************)
(* The whole.                                                              *)
(***************************************************************************)
\* What holds of a shell and its commands at every moment.
OriIInv ==
  /\ ProcessInv /\ OneObject
  /\ WelcomeInv /\ FirmwareInv /\ TokenInv
  /\ BridgeInv /\ RecordInv
  /\ DoctorInv

\* The prompt a shell begins with.
LEMMA InitOriIInv ==
  ASSUME Init
  PROVE  OriIInv
<1>1. command = NoCommand /\ stdout = <<>> /\ status = 0 /\ command.name = "none" /\ ~command.json
  BY DEF Init, ProcessInit, NoCommand
<1>2. ProcessInv /\ OneObject
  BY <1>1 DEF ProcessInv, OneObject, Running
<1>3. WelcomeInv
  BY DEF Init, WelcomeInit, WelcomeInv, MarkedIfGreeted
<1>4. FirmwareInv
  BY <1>1
  DEF Init, FirmwareIdle, FirmwareInv, VerifiedMeansAccepted, Undecided, Decision, Mutations
<1>5. TokenInv
  BY DEF Init, TokenIdle, NoUse, TokenInv, TokenHonouredInItsTime
<1>6. BridgeInv
  <2>1. child = NoChild /\ calls = 0 /\ coil \in BOOLEAN /\ died \in BOOLEAN /\ held \in BOOLEAN
    BY DEF Init, BridgeInit
  <2>2. NoChild = [stage |-> "gone", said |-> "nothing", exit |-> "none", proof |-> "none"]
    BY DEF NoChild, Child
  <2>3. ChildInv
    BY <1>1, <2>1, <2>2 DEF ChildInv, ChildType, Alone, BridgeNames, Commissioning, Delegated
  <2>4. QED
    BY <2>1, <2>3 DEF BridgeInv
<1>7. RecordInv
  BY <1>1 DEF RecordInv, SuccessIsOnRecord, RefusalsTellApart, Ended, Commissioning
<1>8. DoctorInv
  BY <1>1
  DEF Init, DoctorIdle, DoctorInv, DoctorType, WasHeard, AskedInTime, AskedWhileRunning,
      SoundSocketIsHeard, NoAttempt, Attempt, NoSocket, DoctorNames, Asking, IsRunning, Running,
      Overall, BridgeTimeout, SocketTimeout
<1>9. QED
  BY <1>2, <1>3, <1>4, <1>5, <1>6, <1>7, <1>8 DEF OriIInv

\* No step of any command, of the runtime or of the shell breaks it.
LEMMA StepOriIInv ==
  ASSUME OriIInv, [Next]_vars
  PROVE  OriIInv'
  BY StepProcessInv, StepOneObject, StepWelcomeInv, StepFirmwareInv, StepTokenInv, StepBridgeInv,
     StepRecordInv, StepDoctorInv
  DEF OriIInv, BridgeInv

\* What every run of commands keeps, whatever fails, is killed or is said by the
\* runtime.
THEOREM OriInvariance == Spec => []OriIInv
  BY InitOriIInv, StepOriIInv, PTL DEF Spec

\* The shape of the state, for any deliveries, delays and tokens; a doctor's two
\* attempts fit in its own deadline with time to spare, unless the bridge's output
\* was held (cmd/doctor.go:37-65).
THEOREM OriTypeCorrect == Spec => []TypeOK
<1>1. OriIInv => TypeOK
  BY DEF OriIInv, ProcessInv, WelcomeInv, FirmwareInv, TokenInv, BridgeInv, ChildInv, ChildType,
         Alone, DoctorInv, DoctorType, TypeOK, Overall, BridgeTimeout, SocketTimeout
<1>2. QED
  BY <1>1, OriInvariance, PTL

\* In JSON mode a command that succeeds writes one object, and no command two
\* (binding.go:543-546, firmware.go:187-211).
THEOREM OutputIsOneObject == Spec => []OneObject
<1>1. OriIInv => OneObject
  BY DEF OriIInv
<1>2. QED
  BY <1>1, OriInvariance, PTL

\* A commissioning command succeeds only on a runtime that did what it was asked
\* and left cleanly, and a proof only on a match on record (binding.go:471-480,
\* 576-584).
THEOREM SuccessHasARecord == Spec => []SuccessIsOnRecord
<1>1. OriIInv => SuccessIsOnRecord
  BY DEF OriIInv, RecordInv
<1>2. QED
  BY <1>1, OriInvariance, PTL

\* The exit status 2 tells a refusal from a tool that broke, in both directions,
\* whenever the runtime or the command dies (root.go:93-103, binding.go:569-585).
THEOREM StatusTellsARefusal == Spec => []RefusalsTellApart
<1>1. OriIInv => RefusalsTellApart
  BY DEF OriIInv, RecordInv
<1>2. QED
  BY <1>1, OriInvariance, PTL

\* For any delays: a command that gave up had no socket that would have answered
\* within the socket's budget, however long the bridge took, except where what the
\* bridge left behind held its output until too little time was left
\* (cmd/doctor.go:57-65, bridge.go:40).
THEOREM SocketIsHeardInTime == Spec => []SoundSocketIsHeard
<1>1. OriIInv => SoundSocketIsHeard
  BY DEF OriIInv, DoctorInv
<1>2. QED
  BY <1>1, OriInvariance, PTL

\* For any payload and whatever a transport spoils of it, a block, a field or a
\* sender at a time or all at once: the report is degraded if the runtime calls for
\* attention, and in the canonical form only then (doctor/doctor.go:126-152,
\* health.go:217-506).
THEOREM DoctorIsTruthful == Spec => []DoctorTellsTheTruth
<1>1. OriIInv => DoctorTellsTheTruth
  BY DoctorInvTellsTheTruth DEF OriIInv
<1>2. QED
  BY <1>1, OriInvariance, PTL

\* For any payload: tier D's readiness is the relay's and nobody else's
\* (doctor/doctor.go:245-249).
THEOREM TierDHasOneCause == Spec => []TierDStandsAlone
<1>1. OriIInv => TierDStandsAlone
  BY DoctorInvGivesTierD DEF OriIInv
<1>2. QED
  BY <1>1, OriInvariance, PTL

\* For any payload that comes in the contract's form and is accepted: what is printed
\* of it names no sender and no version of the evidence component.  Redaction alone
\* does not do that: it gives up on a lockout, a list of senders or a sender of
\* another type, which the parser has refused before (health.go:271-346, 418-506).
THEOREM PayloadsAreRedacted == Spec => []NobodyIdentified
<1>1. OriIInv => NobodyIdentified
  BY DoctorInvHidesSenders DEF OriIInv
<1>2. QED
  BY <1>1, OriInvariance, PTL

\* A verified mutation that succeeds was accepted and done, and said so in a reply
\* that arrived whole (firmware.go:197-209).
THEOREM MutationsAreAccepted == Spec => []VerifiedMeansAccepted
<1>1. OriIInv => VerifiedMeansAccepted
  BY DEF OriIInv, FirmwareInv
<1>2. QED
  BY <1>1, OriInvariance, PTL

\* For any tokens, moments and skew: a token is honoured in its life and a skew
\* around it, give or take the second cutting costs, and a genuine one is refused
\* at no moment in between (token.go:53-98, 225-243).
THEOREM TokensAreHonouredInTime == Spec => []TokenHonouredInItsTime
<1>1. OriIInv => TokenHonouredInItsTime
  BY DEF OriIInv, TokenInv
<1>2. QED
  BY <1>1, OriInvariance, PTL

\* However the commands before it were killed, and whatever became of the marker's
\* writes, a command that finds the marker comes after one that drew the banner to
\* its end, be it seen or lost (welcome.go:28-51, 137-140).
THEOREM GreetedBeforeMarked == Spec => []MarkedIfGreeted
<1>1. OriIInv => MarkedIfGreeted
  BY DEF OriIInv, WelcomeInv
<1>2. QED
  BY <1>1, OriInvariance, PTL
=============================================================================
