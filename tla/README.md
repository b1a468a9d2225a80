# Verification of ori-cli

TLA+ models of `ori-cli`, the installer's and operator's control surface for
devices that run `ori-runtime`; the configurations that model-check them with
TLC; and proofs that TLAPS checks. Paths below are relative to `src/`.

Two parts of the program keep state of their own or decide something on which a
person relies: the **device key store** (`ori deploy`) and the **commissioned
safety binding** (`ori binding ...`), which says which sensor watches which
circuit and which output opens it. The rest is a client of the runtime: it starts
a **bridge** process or opens a socket, judges what comes back, prints it and
exits. There the question is whether the exit status and the report say what
happened when the other side hangs, dies, contradicts itself or answers too late.

## Inventory

| Part | State | Operations | Hard behaviour | What makes it correct |
|---|---|---|---|---|
| Device key store: `internal/deploy/keys.go`, `cmd/deploy.go` | `~/.ori`: `device.key`, `device.pub`, a backup, temporaries, a lock file | `EnsureKeypair(force)`: recover, reuse, create, replace, roll back | kills and power loss between any two file operations; failing operations and failing rollbacks; concurrent commands; damaged files | one identity; never lost, never reverting to a retired one; the report is what is stored; a rerun gets out of every interruption |
| Binding rules: `internal/binding/verify.go`, `revision.go`, `document.go`, `decode.go` | none; decided against the anchors, the inventory, and the retained zones of the binding in force | `VerifyEnvelope`, `VerifyOffline`, `CheckRevision`, `Check`, `SignedEnvelope` | sequences of revisions; key rotation between signing and delivery; zones renamed and exchanged | a proof never stands beside hardware it was not performed on; what is signed is acceptable as a document |
| Control leg: `internal/binding/proof.go` | none; a loop over an exported log | `ControlPathFor` | logs out of order, retries after timeouts, mixed verdicts | the leg is exactly what the log supports |
| Capture ceremony: `internal/capture` | the inventory and the prior binding, read once | `Capture`, `Revise`, `LoadPrior`, `LoadExported` | what was read goes stale during the dialogue | what it writes is accepted later; a revision that can never be proven is refused |
| Binding commands: `cmd/binding.go`, `cmd/binding_sign.go` | draft, leg and envelope files | capture, sign, deliver, prove, proof-export | several installers; retried proofs; a leg file used with another document; draft files cut short | revisions do not undo each other; legs go where they were proven |
| Runtime bridge: `internal/bridge` | a subprocess | `Run`, `HealthSnapshot` | exit status against the reported result; deadline against cancellation; output held by what the subprocess started | a proof is reported only when it happened; its coil is released |
| Doctor: `cmd/doctor.go`, `internal/doctor` | none | `fetchDoctorHealth`, `BuildSummary` | nested deadlines, fallback from bridge to socket | a sound socket is heard however the bridge fails, unless its output is held; the report is degraded when the runtime calls for attention, and only then; tier D depends on its relay alone |
| Health contract: `internal/rpc/health.go` | none | `ParseHealth` | two payload forms, optional blocks, wrong types | what is garbled does not look well; of a payload in the contract's form no identity is passed on |
| Firmware MQTT: `internal/rpc/firmware_mqtt.go`, `cmd/firmware.go` | the runtime's | one request and one reply per command over a socket | lost and oversized replies | a verified mutation exits with zero only if it was accepted and had succeeded |
| Token: `internal/token` | none | `UseOffline` | clock skew at the boundaries | a token is honoured within its life and the skew, and only there |
| Root command: `cmd/root.go` | none | `ExecuteWithOptions`, `bridgeBacked` | errors, refusals and reported failures have different exit statuses; two output modes | a status of 2 says "refused" and nothing else does; JSON mode writes one object; a command that does not end waits for a person, a proof's runtime or a held output |
| Welcome: `cmd/welcome.go` | a marker file | `maybeShowFirstRunWelcome` | killed in the banner or beside it; writes nobody looks at | nobody is marked as greeted before a banner was drawn to its end |
| State, skills, config: `cmd/state.go`, `skills.go`, `config.go` | none | delegation to the bridge | as for the bridge | as for the root command |
| Help, output, cloud | none | presentation; a stub | - | - |

The parts interact by function call within one short-lived process, by files
that an installer carries from one command to the next, and through the device.
There are no goroutines that matter to state; concurrency is between processes
(two `ori deploy` on one directory, several installers on one device) and
between the program and its environment (kills, power, the runtime).

`hazards` in `PROJECT.json` lists what is hard to test, with the properties that
cover it.

## Modules

    DeviceIdentity        abstract: one identity under an exclusive lease
    KeyStore              the key directory, one step per file operation
      KeyStoreProofs      theorems about the keys in the directory
        KeyStoreIdentityProofs  ... about the identity they are, and the refinement
      MCKeyStore          instances
    BindingRules          the verdict on a document, as operators
      BindingRulesProofs  lemmas: what passing each verdict says
      BindingChain        documents edited by hand, signed and delivered
        BindingChainProofs
        MCBindingChain
      Commissioning       the ori binding commands of several installers
        CommissioningProofs
        MCCommissioning
    ControlLeg            the loop of ControlPathFor
      ControlLegProofs    theorems about logs of any length
      MCControlLeg
    DraftFile             the file a command leaves for an installer
      DraftFileProofs     theorems about any number of writers and files
      MCDraftFile
    OriProcess            one command after another: output and exit status
      BridgeCall          commands that run the bridge, and the runtime behind it
      DoctorHealth        the doctor's two transports and their deadlines
        DoctorSummary     the report on one payload, as operators
          HealthContract  the payload, what is accepted of it and passed on
      FirmwareCall        one request and one reply on the firmware socket
      OfflineToken        the check of an offline token
      Welcome             the banner and its marker file
      OriCommand          all of these at one shell
        OriCommandProofs  theorems about each command, beside the others
        MCOriCommand

### KeyStore

`dir` maps the three entries (`device.key`, `device.pub`, the backup) to the key
they hold, as processes see them. `disk` is the set of directories that a power
loss may leave: every `os.Rename` and `os.Remove` adds the new directory to it,
and `syncDirectory` makes it the current one alone (`Change`, `SyncDirectory`).
Files are synced before they are renamed, so an entry is never torn. `pc` has
one label for each file operation of `EnsureKeypair`, `recover`,
`rewritePublicFromPrivate`, `writePair` and `rollbackForcedReplacement`; `mode`
says for which of them a shared step runs. `lock` is the `flock`, which the
kernel drops when its holder dies.

Disturbances are bounded by `Budget`: a failing operation (`IoError`: the step
takes its error path), a failing read (`KeyPairUnread`, `PublicUnread`), a kill,
a power loss (any directory of `disk` survives and every process dies) and a
private key that becomes unloadable. The number of `Keys` bounds the
generations.

The abstract specification `DeviceIdentity` knows one identity, a lease and
what was announced. `Recovered(dir)`, the identity that recovery would settle
on, is the refinement mapping's identity; `ImplementsIdentity` is the refinement.

Assumptions: the parent of `~/.ori` is durable (the code does not sync it after
`MkdirAll`); a directory sync makes every earlier entry change durable, and what
survives without one is a prefix of the changes since the last.

### BindingRules and BindingChain

A document is a record with a sequence of zones; a zone has a sensor, a line, a
polarity, a mapping, a capacity and two legs. One operator models each stage of
`verifyEnvelope`, and `VerifyEnvelope`, `VerifyOffline`, `CheckDocument` and
`CheckRevision` are the first refusals of their stages in the code's order. Left
out: the bytes (canonical JSON, base64, duplicate members), the inventory
generation, the actor and the reason. A sensor's unlisted fields are its `cal`.

The `on` field of a leg is a history variable: the hardware (sensor, line,
polarity, mapping) on which the proof was performed. No operator of the code's
rules reads it; properties compare it with the zone.

In `BindingChain` a draft starts as a copy of the binding in force and any
sequence of hand edits is applied: zones renamed, sensors, lines and names
exchanged, circuits rewired, polarity inverted, sensors recalibrated, legs
proven afresh or dropped. It is then signed and delivered, and a commissioning
key may rotate at any time. A document that is not eligible stays provisional
and advances nothing.

Two limits of the rule itself, which the model makes explicit. `KeepsOne`: each
edited zone keeps its name, its line or its sensor. A zone that keeps none of
them (and one that was removed by one binding and added again by a later one) has
no retained zone to be compared with, so the rule says nothing of it. And no edit
moves a leg from one zone to another by hand: an unchanged zone may show any leg.

### ControlLeg

The loop of `ControlPathFor`: `next` reads one row at a time, `usable` keeps a
row for each outcome, `latest` the time. `LegIsOfRecord` and `RefusedForCause`
are stated on the log as a set, without reference to the order in which rows
were read.

### Commissioning

Each command is one or more steps of an installer; what a command reads and what
it decides later are different steps:

| Code | Action |
|---|---|
| `runBindingCaptureRevising`, inventory call and `checkChain` | `ReadInventory` |
| `loadPrior`, `LoadPrior`, `LoadExported` | `LoadPrior` (the export may disagree with the inventory read before it) |
| `Capture` / `Revise`, `CheckRevision`, the draft written | `Capture`, `Revise` |
| `runBindingSign`, with or without `--control-path` | `Sign`, `SignWithLeg` |
| `runBindingDeliver` | `Deliver` |
| `runBindingProve`; `runBindingExport --zone` | `Prove`, `Export` |
| the device rewired and restarted | `Rewire` |

The device is not in the repository. It is modelled as the code uses it: it
decides with `VerifyEnvelope` against what it has in force, holds one
provisional binding, refuses to prove a line that the binding in force drives
(`revise.go:126-143`), and reports what it declares. `Careful` says whether
installers attach a leg only to the document it was proven for; nothing in the
code enforces it.

### DraftFile

`binding capture` and `binding sign` judge the path (`CheckPath`: `checkDraftPath`)
and write the file after a ceremony of minutes, or after the key was read (`Open`, `Write`, `Chmod`, `Close`: the calls of
`writeDraft`), each call a step of its own that may fail; a command may be killed
between any two. A path names nothing, a directory, a file or a link; a file is a
*node* that outlives its name while a command has it open. Other commands write to
the same path, and people plant files, directories and links there and remove them
(`Plant`, `Remove`). A body is a sequence of parts, each the document it belongs
to, so that mixed and cut documents are seen. `touched` and `rivals` are history
variables: who changed a node, and who had it open together with a writer.

`ReportedDraftIntact` has one exception, which is the code's: two commands that
have one file open at once, one of them with `--force`, can leave a mixture of two
documents and both report success. A forced write that fails leaves what it wrote
of the new draft and nothing of the old one, and says that it failed.

### OriProcess and OriCommand

`command`, `stdout` and `status` are one `ori` process; `ExitStatus` is the
mapping at the end of `ExecuteWithOptions`. `OriCommand` starts any command, lets
it do its work, and returns to the prompt, where everything but the welcome's
marker is forgotten and a bridge that outlived its command has gone. Each
component below is a set of actions on the shared process:

| Code | Module | What is a step |
|---|---|---|
| `Runner.Run`, `invokeBridgeEchoing`, `runBindingProve`, `...Deliver`, `...Export`, `...Candidates`, `...Capture`; `bridgeBacked`; `runStateQuery` | BridgeCall | the start of the subprocess, the runtime's consent, coil, attestation, envelope and exit, its death, its output held by what it started, the deadline, an interrupt, a kill, the command's verdict |
| `fetchDoctorHealth`, `runtime-health` | DoctorHealth | a second passing, a deadline, a failing transport, the bridge's output held and let go, an answer that is accepted, one that is not |
| `ParseHealth` and all it calls | HealthContract | (operators) |
| `BuildSummary` and its sections | DoctorSummary | (operators) |
| `CallFirmwareMQTT`, `runFirmwareMQTT` | FirmwareCall | request, decision, reply, no reply, reading it |
| `UseOffline` | OfflineToken | one use of a token |
| `maybeShowFirstRunWelcome` | Welcome | the banner begun, the banner drawn (and seen or lost), the marker, no directory for it, a kill |

The runtime is outside the repository and is modelled by what these commands say of
it. In `BridgeCall` it may print any envelope or none, die anywhere, or exit with a
failure after an envelope that says otherwise; a deadline kills it with a signal it
cannot catch and leaves a coil as it is, whereas an interrupt reaches it as a
cancellation. What a bridge starts in turn may keep the pipe of its output open
(`held`; `attempt.pipe` for the doctor's): `Runner.Run` sets no `WaitDelay`, so a
command whose deadline has passed and whose bridge is gone waits on. In `DoctorHealth`
the health socket is *sound* (it answers after a delay with its whole payload) or it
is anything; the bridge makes no promise. The clock counts seconds and the deadlines
are the code's 10, 5 and 3.

`HealthContract` gives each block its schema, with a word for what is told apart of a
value. What a transport may make of a payload is `TransportAssumption`: its old form,
one taken for it (a nested health without `ok`), no payload at all, or the payload
with any of its values, fields, items and blocks spoilt. Two things it may not do,
because no reader could tell: put one sound value in the place of another, and let
vanish (or appear) what the contract allows to be absent. `Unwell`, in the property
`DoctorTellsTheTruth`, states separately from `BuildSummary`, in terms of the
runtime's own payload, what calls for attention. `Redacted` does what the code does
and no more: it gives up on a lockout, senders or a sender of another type and looks
at the top level of the old form.

`Welcome` draws the banner in steps that may be interrupted; one that is drawn to its
end is seen or lost, because the code looks neither at what its writes return nor at
whether standard error is a terminal.

## Runs

| Run | Properties | Bounds |
|---|---|---|
| `keystore_crash` | `ImplementsIdentity`, `RerunReusesIdentity`, `CommittedPairKept`, `KeepsSucceeding` | 2 processes, 3 keys, 1 failing call, 1 kill |
| `keystore_outage` | `TypeOK`, `ReportMatchesStore`, `RetiredNeverReturns`, `IdentityNeverLost`, `SettledIdentityDurable`, `DamagedKeyKept` | 2 processes, 3 keys, 2 kills, 1 each of power loss, failing call, failing read, damage |
| `binding_chain` | `TypeOK`, `ProofsMatchHardware`, `SignedIsConsumable`, `RotationVoidsSignature` | 2 zones, 2 edits a document, 3 bindings, 1 rotation, 3 mappings |
| `control_leg` | `TypeOK`, `LegIsOfRecord`, `RefusedForCause` | every log of up to 3 rows, one row for each way to be bad |
| `commissioning` | `TypeOK`, `LegsMatchHardware`, `SignedRevisionAccepted`, `StagedCanBeProven`, `OneRevisionAtATime` | 2 installers, bindings 0 to 2, one rewiring of a line to and fro, 3 dated events |
| `draft_file` | `TypeOK`, `NothingReplacedUnforced`, `LinkTargetKept`, `ReportedDraftIntact` | 3 writers with and without `--force`, 1 path, 3 files and a link's target, documents of 2, 1 and 1 parts, 2 interventions |
| `ori_command` | `TypeOK`, `OneObject`, `SuccessIsOnRecord`, `RefusalsTellApart`, `CoilReleased` (BridgeCall); `DoctorTellsTheTruth`, `TierDStandsAlone`, `NobodyIdentified`, `SoundSocketIsHeard` (DoctorHealth); `VerifiedMeansAccepted` (FirmwareCall); `TokenHonouredInItsTime`; `MarkedIfGreeted`; `CommandsEnd` | every command in both output modes, any number of them; a runtime that is unwell in up to two ways that bear on each other; one garbled value, field, item or block; socket delays of 0, 2 and 3 s; token times in half-seconds around a life of up to 1.5 s with a skew of 2 s |
| `keystore_rerun`, `keystore_unread`, `binding_chain_names`, `commissioning_leg_elsewhere`, `capture_unchecked` | one each, violated | see Findings |

Why the bounds are enough to be interesting:

- Key store: three keys allow a creation and two replacements, so a retired key,
  a current one and a new one exist together; two kills reach recovery of an
  interrupted recovery; a power loss after them meets every unsynced directory.
- Binding chain: two edits exchange two properties or move one zone and prove
  another, and two successions let what one revision carried meet the next.
  The specification stops when a bound is reached, so deadlock is not checked.
- Control leg: a rule about rows involves at most a kept row, a later row and
  one that refuses. The loop ends, so deadlock is not checked. Longer logs are
  covered by the theorems.
- Commissioning: two installers and two successions contain a lost update, a
  stale draft, a stale inventory and a staged binding overtaken by another; one
  full move of a line (revise, deliver, two proofs, export, sign, deliver) fits.
  `Skew` is 0 there, and 1 in the run with one installer. Deadlock is not
  checked, because the clock ends.
- Draft file: two interventions remove a file and put another thing in its place
  between any two calls; a longer document before a shorter one shows the rest of
  it; the third writer meets what two others left. Every writer ends, so deadlock
  is not checked. Other counts are covered by the theorems.
- Ori command: nothing is bounded but the data, since the prompt forgets. A report
  combines at most two departures of one block, or the posture with the policy
  (tiers); the socket is sound just inside and just outside its budget, with the
  bridge failing, or its output held or let go, at every second before it. The skew
  is a constant of the code (300 s); the comparisons are the same at 2 s. Deadlock is checked.

**Fairness.** `KeyStore`'s `FairSpec`: a process that runs goes on (weak fairness of
`Proceed`: a single-threaded program does not stop between two calls), and the
operator runs the command without `--force` again and again (strong fairness of
`Start(r, FALSE)`). Kills and errors are not fair and are bounded: a directory
that is disturbed for ever never settles.

`OriCommand`'s `Fairness`: weak fairness of each component's own steps, of its
deadlines (the kernel's timers), of a sound socket's answer, and of what a living
runtime does with a coil: it releases one that is on and cancels when told to, which
`binding.go:453-460` says it does by its own bounded hold. Nothing else is asked of a
runtime: it may hang after an attestation as it may anywhere, and what it started may
hold its output for ever. Nothing makes an operator consent, a ceremony's questions be
answered, or anything die. So `CommandsEnd` does not say that every command ends. It
says that one that never does is in the end waiting, for ever, for one of the things
that `Waits` lists: a living runtime of a proof (which has no deadline), the person at
a capture, or a held output of a bridge.

Every property of a passing run has a mutant in `PROJECT.json`: a plausible bug
in the code's definition that TLC finds as a violation of it.

## Findings

1. **An unsynced pair is reported** (`keystore_rerun`; `keys.go:146`). A command
   killed after its renames and before its sync leaves a pair that the next
   command finds, reports and does not sync. A power loss then takes away the
   reported identity, although README says that rerunning reuses it.
2. **A read error undoes a committed replacement** (`keystore_unread`;
   `keys.go:479`). `recover` takes any error from `keyPairMatches` for a
   mismatch.
3. **Two zones of one name** (`binding_chain_names`; `revision.go:12`). No stage
   refuses them, and the map of retained zones keeps the last, so the first zone
   is then revised without being held to its own past.
4. **A leg proven on another line comes into force**
   (`commissioning_leg_elsewhere`; `binding_sign.go:301`). Leg files name no
   binding, zone or line. The trace: the feeder is moved to one line and proven
   there, the line is moved again, and the first leg is signed into the new draft.
5. **A first capture is not checked like a revision** (`capture_unchecked`;
   `capture.go:132`). Of the capacity only the upper bound is asked; the draft
   is refused when it is signed. For the same reason, `identityFrom` drops a firmware
   channel's identity and such a draft cannot be signed either.

## Observations

Met while modelling, and part of the models; no property is violated by them.

- `--force` does not replace a private key that cannot be loaded: recovery runs
  first and fails. The comment at `keys.go:106-107` promises an overwrite;
  `keys_test.go` wants the file kept, as `DamagedKeyKept` does.
- README.md:87-89 says that the firmware commands exit nonzero for authenticated
  refusals. Of the three verifying commands, `verify-status-response` exits with
  zero for a refused status response, and the text shows `accepted` or `refused`
  from `successful` alone (`firmware.go:197-209`).
- A firmware reply is searched for private material in its result and, of a failure,
  in the detail. A failure's code is printed without having been searched
  (`firmware.go:218`, `269-278`).
- Redaction of identities is complete for payloads in the contract's form only
  (`NobodyIdentified`), where the parser has refused whatever redaction would give up
  on. The comment at `health.go:297-301` says that the passthrough "can never leak"
  them, but the old form is not validated: a lockout, senders or an entry of another
  type is passed on as it is (`health.go:303-315`), and so is a whole nested health
  that came without `ok` (`health.go:279-281`).
- The marker is written after a banner whose writes failed, or whose standard error
  was no terminal (`welcome.go:43-51`, `75-83`, `137-140`): `MarkedIfGreeted` says
  that a banner was drawn to its end, not that anybody saw it.
- In JSON mode the envelope is on standard output before the exit status is
  judged: an object that says `ok: true` may be followed by a status of 1.
- `bridgeBacked` passes an envelope on whatever it says: `ok: false` from a bridge
  that exits cleanly gives `ori config` a status of 0. A state query whose bridge
  exits with a failure loses the error the bridge described.
- `skills reload` writes a line of text in JSON mode.
- `null` and `{}` on the health socket are taken for the legacy form, and
  `runtime-health` then succeeds. Absent sensors, outbox and lockout blocks count
  as fine, absent posture, gateway and encryption blocks as degraded. The
  posture's expiry is never compared with the clock. A device policy that is
  unavailable or incomplete does not make the report degraded.
- A sender's risk level is any string to the parser (`health.go:729`), and the doctor
  counts the words `elevated` and `critical` (`doctor.go:414-419`). A runtime that had
  a fourth word would not be reported; the contract has three.
- The bridge's output is read into a buffer without `WaitDelay`: a descendant of
  the bridge that keeps its pipe open holds the command past its deadline
  (`bridge.go:39-44`). It also keeps the doctor from leaving the socket live time, as
  `cmd/doctor.go:53-57` means it to, when the pipe is held until the command's own
  deadline is near. Both are in the models; `CommandsEnd` and `SoundSocketIsHeard`
  name them as what they except.
- JSON numbers beyond 64 bits are converted with `int64(float64)`
  (`health.go:965`, `token.go:248`), which the language leaves to the platform.

## Proofs

### KeyStoreProofs

For every set of processes and keys and every budget:

- `Invariance`: `Spec => []IInv`
- `TypeCorrect`: `Spec => []TypeOK`
- `RetiredKeysStayRetired`: `Spec => []RetiredNeverReturns`
- `IdentityIsNeverLost`: `Spec => []IdentityNeverLost`

They assume only that `NoProc` is no process, `NoKey` is no key, and that
`Budget` counts the disturbances.

Neither safety property is inductive. That a retired key does not return depends
on where the holder of the lock is: the key it writes is fresh and is neither
retired nor the one being replaced (`KeyInv`), and when it reports a replacement
the directory is synced without a backup (`DirInv`). That an identity is never
lost depends on a backup, or the private key, being there at each step that
removes the other. `IInv` adds, for the lock holder, `ModeInv` (which procedure
a shared step belongs to), `KeyInv` and `DirInv`, and `UsedInv` (every key in
sight was generated). There is one lemma for each conjunct, with one step for
each action that can disturb it.

### DraftFileProofs

For any number of writers, paths and files, documents of any length and any number
of interventions (`DraftAssumption`: the names are distinct, every document has a
part):

- `Invariance`: `Spec => []IInv`
- `TypeCorrect`: `Spec => []TypeOK`
- `NothingIsReplacedUnforced`: `Spec => []NothingReplacedUnforced`
- `LinkTargetIsKept`: `Spec => []LinkTargetKept`
- `ReportedDraftsAreIntact`: `Spec => []ReportedDraftIntact`

That nothing is replaced needs `FilesMade`: what a writer without `--force` has
open is its own. That a reported draft is whole is about other writers at every
earlier step, so the invariant follows who shares a file (`RivalsKnown`: whoever
may still write to a writer's file is one of its rivals) and what a writer without
rivals has in it as it goes along (`DraftSoFar`). The last step of the argument is
that two writers which may not replace never share a file, since each would have
created it; a writer whose every rival lacks `--force`, as it does itself, therefore
has no rivals. There is one lemma for each kind of step.

### ControlLegProofs

For any rows, any zone and any set `Logs` of finite logs (`LegAssumption`):

- `Invariance`: `Spec => []IInv`
- `TypeCorrect`: `Spec => []TypeOK`
- `LegIsTheRecord`: `Spec => []LegIsOfRecord`
- `RefusedOnlyForCause`: `Spec => []RefusedForCause`

`IInv` is a loop invariant: for each outcome the kept row is the last of those read
(`KeptIsLast`), `latest` is the newest time read (`LatestIsNewest`), and what was
read is a proof (`VerdictIsDue`). At the end all that counts was read (`AllRead`),
and the invariant becomes the statement about the log as a set.

### KeyStoreIdentityProofs

For every set of processes and keys and every budget:

- `StoreInvariance`: `Spec => []StoreIInv`
- `ReportsMatchTheStore`: `Spec => []ReportMatchesStore`
- `SettledIdentityIsDurable`: `Spec => []SettledIdentityDurable`
- `DamagedKeysAreKept`: `Spec => DamagedKeyKept`

and, with `Calm`,

- `ImplementsTheLease`: `Spec => ImplementsIdentity`
- `RerunsReuseTheIdentity`: `Spec => RerunReusesIdentity`
- `CommittedPairsAreKept`: `Spec => CommittedPairKept`

`IInv` tells which keys are in sight and not which of them form a pair.
`StoreIInv` adds what the lock holder has done so far to the pair (`PairInv`) and
the temporaries (`TmpsInv`), which keys it has loaded (`LoadInv`), and that every
directory a power loss may leave has one of two forms once an identity is settled
(`SettledInv`): the settled key is the private key and there is no backup, or it is
the backup and what stands in its place is not yet a pair.

`Calm` says that the budget has no failing read, no power loss and no damage; any
number of calls may fail and any number of commands may be killed. The refinement
is true under it only. A power loss takes back what was not synced, and a
failing read sends recovery back to a backup of a replacement that was complete;
each changes the identity while nobody holds the lease that allows it. Findings 1
and 2 are these two, and `RerunsReuseTheIdentity` and `CommittedPairsAreKept` say that
nothing else produces them. The refinement is proved step by step (`StepRefines`,
one step for each action). The identity changes where a write moves the old key
aside or commits, and where a rollback undoes that; `LeaseInv` carries to these steps
what was found when the lock was taken.

### BindingRulesProofs and BindingChainProofs

`FirstRefusalIsOne` says what the first refusal of a list of stages is, and four
lemmas turn each verdict into the stages it passed. With them the proofs about
commands speak of stages and not of the order in which they are asked.

For any first binding, names, keys, wirings and capacities and any number of edits,
rotations and successions (`ChainAssumption`; `FirstZonesAssumption`: the first binding
is what a device can have in force, with names apart and both legs proven):

- `ChainInvariance`: `Spec => []ChainInv`
- `ChainTypeCorrect`: `Spec => []TypeOK`
- `SignedStaysConsumable`: `Spec => []SignedIsConsumable`
- `RotationVoids`: `Spec => RotationVoidsSignature`
- `ProofsStayWithHardware`: `ASSUME ~SameNames PROVE Spec => []ProofsMatchHardware`

`ChainInv` follows the draft (its number, and its zones as well-formed and dated
within the clock) and says of an envelope that a consumer accepts it as it stands.
For the last theorem `OriginInv` follows each leg of the draft: it is the leg of the
same zone in force, or it was performed on the hardware that the zone has now. That
is inductive, but does not say yet that a leg carried over belongs to the hardware;
for this the revision rule is needed, which compares the zone with its retained one, and
`KeepsOne`, by which it has one to be compared with. `~SameNames` (no edit gives two
zones one name) is the exact condition: with it false, `binding_chain_names` finds
Finding 3.

### CommissioningProofs

For any installers, any facts, any hardware the device comes to declare, any number
of bindings and any end of the clock (`CommissioningAssumption`, `ClockAssumption`;
`FirstBindingsAssumption`: the device starts with no binding or with one that was
captured and proven earlier):

- `CommInvariance`: `Spec => []CommInv`
- `CommissioningTypeCorrect`: `Spec => []TypeOK`
- `StagedIsProvable`: `Spec => []StagedCanBeProven`
- `OneRevision`: `Spec => OneRevisionAtATime`
- `LegsStayWithHardware`: `ASSUME Careful PROVE Spec => []LegsMatchHardware`
- `SignedRevisionsPass`: `ASSUME Careful, Skew = 0 PROVE Spec => []SignedRevisionAccepted`
- `RevisionsFailForTheLeg`: `Spec => []RefusedOnlyForTheLeg`

Nothing an installer holds is known to be current, and the invariant does not ask it
to be. A document that supersedes the binding in force was made from it; one that
supersedes an earlier binding is never accepted again, since numbers only grow
(`DocInv`, `CeremonyInv`). So every clause about a draft, an envelope or a prior that
was read has the form "if it is of the binding in force, then ...", and when a binding
comes into force all clauses about the others become void at once. That is the
whole of the argument for two installers who revise at the same time
(`OneRevision`) and for a staged binding that another overtakes (`StagedIsProvable`).

`MatchInv` adds where legs come from, `DatedInv` what a revision was checked against
and when each leg was performed. Both need `Careful`, that a leg file is attached to
the document it was proven for: otherwise `commissioning_leg_elsewhere` finds Finding 4.
`SignedRevisionsPass` also needs that no proof is dated ahead of the device's clock
(`Skew = 0`, as in the run): the rule compares dates of legs, and a new proof must be
later than those of the binding in force, which a clock set back does not
give.

`RevisionsFailForTheLeg` asks for neither. Whichever leg is attached and however far
ahead a proof is dated, a device that declares what the ceremony read refuses a signed
revision of its binding for its trip point, or as a stale proof because of a control leg
that is not newer than the one in force on the hardware it changes
(`OlderControl`), and for nothing else. `HeldInv` carries what the ceremony checked (the circuit
legs, the inventory, the posture) through signing and attaching. With `Careful` false
and `Skew` 1 the stale proof is reachable.

### OriCommandProofs

For any payloads, delays, tokens, moments and skew, and any number of commands in
either output mode:

- `OriInvariance`: `Spec => []OriIInv`
- `OriTypeCorrect`, `OutputIsOneObject` (the process)
- `SuccessHasARecord`, `StatusTellsARefusal` (bridge)
- `SocketIsHeardInTime`, `DoctorIsTruthful`, `TierDHasOneCause`, `PayloadsAreRedacted`
  (doctor)
- `MutationsAreAccepted` (firmware)
- `TokensAreHonouredInTime` (token), `GreetedBeforeMarked` (welcome)

The components share one process, so a lemma first says which steps each command can
take and what the steps of the others leave alone (`GroupSteps`); then each component
has an invariant of its own. For the bridge, `ChildInv` relates what the subprocess
printed, how it left and what the proof came to, since a verdict is passed long after
these happened. For the doctor, `AskedInTime` bounds when each transport was asked:
the deadlines 10, 5 and 3 leave a socket its full time after a bridge that used all of
its own, unless that bridge's output was held. `PayloadsAreRedacted` rests on
validation: the parser refuses every canonical payload in which redaction would give
up on a block or a sender (`AcceptedIsRedactable`), and what is left is a record of
known fields without the identities. `OutputIsOneObject` rests on all verdicts
together: each writes its own object only where the envelope was not echoed. The
token's times are halves of a second that the code cuts to whole ones; `SecondsFacts`
is the rounding.

Assumed: payloads are records of the contract's shape (`PayloadAssumption`), delays
are seconds (`DelaysAssumption`), times are integers (`TokenAssumption`), and the parser
accepts what is sent as the contract has it, with a sender's risk in one of three words
(`ContractAssumption`), without which no socket could be called sound. TLC evaluates each
on the run's instance.

`DoctorIsTruthful` also rests on `TransportAssumption`. Its argument has two halves.
The first is about the parser: an accepted canonical payload is `Sound`, each value in
it of its type, so that by the assumption each value is the one that was told, and
what was sent is `Alike` to the truth for every block the report reads
(`AcceptedIsSound`, `ArrivedAlike`). The second is about the report: one lemma for
each section (`SensorsReported`, `SendersReported`, `ChannelsReported`,
`PolicyReported`, `EvidenceReported`, `GatewayReported`, `StoreReported`) shows that
it marks exactly what the corresponding part of `Unwell` says of the payload it was
given, and `ReportIsUnwell` puts them together. The old form, or a payload taken for
it, has no posture for the parser, so its report is always degraded
(`LegacyIsDegraded`).

Each inductive invariant (`IInv`, `StoreIInv`, `LeaseInv`, `RerunInv`, `ChainInv`,
`OriginInv`, `CommInv`, `MatchInv`, `DatedInv`, `HeldInv`, `OriIInv`) was checked by TLC on its
component's instance before it was proved.

### Only model-checked

Liveness under fairness (`KeepsSucceeding`, `CoilReleased`, `CommandsEnd`) is outside
what TLAPS proves here. The properties of the five runs that end in a violation are
false of the code under those runs' bounds; two of them are proved under `Calm`.

## Plan

1. (done) KeyStore and its proofs; BindingRules, BindingChain; ControlLeg;
   Commissioning.
2. (done) DraftFile and ControlLeg with their proofs; BridgeCall, DoctorHealth with
   HealthContract and DoctorSummary, FirmwareCall, OfflineToken and Welcome,
   composed in OriCommand.
3. (done) Proofs: every safety invariant, every action property and the refinement
   that a passing run checks.
4. A deeper Commissioning instance with a clock for each installer, for how long a
   proof dated ahead of the device's clock blocks the revisions that follow.

## Not modelled

Byte-level encoding and signatures (a signature is a record of who signed what);
`VerifyProfileEnvelope`, which only tests call; the Windows file lock; the signal
of `skills reload`; text layout, help and how the banner is drawn; what a bridge
process starts in turn, but for its holding the bridge's output; the search of a
firmware reply for private material (`firmware.go:238-262`), which is one word of a
decision; the cloud stub; the repository's scripts.
