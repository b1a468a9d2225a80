----------------------------- MODULE ControlLeg -----------------------------
(***************************************************************************)
(* ControlPathFor (internal/binding/proof.go): the control leg of one      *)
(* zone, assembled from the log of commands the runtime recorded against a *)
(* provisional binding.  The rows are read in the order of the log; one    *)
(* that contradicts the leg, or cannot be read as a record of a bounded    *)
(* command, refuses it, and a later attempt supersedes an earlier one.     *)
(*                                                                         *)
(* A row: [zone, outcome, at, attestation, issued, released, verified,     *)
(* coil, level, observed], where observed is NoObservation or              *)
(* [commanded, coil, level].  What else an observation records is copied.  *)
(***************************************************************************)
EXTENDS Integers, Sequences

CONSTANTS
  Zone,            \* the zone the leg is for
  Rows, Logs,      \* what a log may hold, and the logs
  NoObservation,   \* a row whose observation is null
  NoRow            \* an outcome without a usable row

Asserted == {"open", "close"}
Recorded == Asserted \cup {"", "unknown"}   \* what an outcome field may hold

ASSUME LegAssumption ==
  /\ Logs \subseteq Seq(Rows)
  /\ NoRow \notin Rows
  /\ \A row \in Rows : row.outcome \in Recorded /\ row.at \in Int

VARIABLES
  log,
  next,      \* index of the row to be read
  usable,    \* the row kept for each outcome
  latest,    \* time of the latest usable row, 0 before any
  verdict    \* "reading", the reason the leg was refused, or "leg"

vars == <<log, next, usable, latest, verdict>>

-----------------------------------------------------------------------------
\* Mutant: an attempt that was not concluded speaks against the leg.
SkippedOtherZones(row) == row.zone # Zone

Skipped(row) ==
  row.zone # Zone \/ row.attestation \in {"inconclusive", "timeout"}

\* Mutant: what the operator attested becomes the verdict.
FaultIsAttestation(row) ==
  IF row.attestation # "matched" THEN row.attestation
  ELSE IF row.observed = NoObservation THEN "no observation" ELSE "none"

\* The first thing the code finds wrong with a row it does not skip.
Fault(row) ==
  IF row.attestation = "mismatched" THEN "contradicted"
  ELSE IF row.attestation # "matched" THEN "unknown attestation"
  ELSE IF ~row.issued \/ ~row.released \/ row.verified THEN "not a bounded command"
  ELSE IF row.observed = NoObservation THEN "no observation"
  ELSE IF row.observed.commanded # row.outcome THEN "wrong outcome"
  ELSE IF "" \in {row.observed.level, row.coil, row.level} THEN "control path not recorded"
  ELSE IF row.observed.coil # row.coil \/ row.observed.level # row.level THEN "another act"
  ELSE "none"

\* Mutant: the last row of the log is kept, whenever it was commanded.
SupersedesInLogOrder(row, kept) == TRUE

Supersedes(row, kept) == kept = NoRow \/ row.at >= kept.at

LaterOf(a, b) == IF a > b THEN a ELSE b

ReadRow ==
  /\ verdict = "reading" /\ next <= Len(log)
  /\ LET row == log[next]
     IN  IF Skipped(row) THEN UNCHANGED <<usable, latest, verdict>>
         ELSE IF Fault(row) # "none"
         THEN verdict' = Fault(row) /\ UNCHANGED <<usable, latest>>
         ELSE /\ usable' = IF Supersedes(row, usable[row.outcome])
                           THEN [usable EXCEPT ![row.outcome] = row] ELSE usable
              /\ latest' = LaterOf(row.at, latest)
              /\ UNCHANGED verdict
  /\ next' = next + 1
  /\ UNCHANGED log

Complete(rows) == \A c \in Asserted : rows[c] # NoRow

Finish ==
  /\ verdict = "reading" /\ next > Len(log)
  /\ verdict' =
       IF ~Complete(usable) THEN "missing outcome"
       ELSE IF latest <= 0 THEN "no timestamp"
       ELSE "leg"
  /\ UNCHANGED <<log, next, usable, latest>>

\* The leg that is returned when the verdict is "leg".
Leg ==
  [ at |-> latest,
    seen |-> {usable[c].observed : c \in {d \in Recorded : usable[d] # NoRow}} ]

Init ==
  /\ log \in Logs
  /\ next = 1
  /\ usable = [c \in Recorded |-> NoRow]
  /\ latest = 0
  /\ verdict = "reading"

Next == ReadRow \/ Finish

Spec == Init /\ [][Next]_vars

-----------------------------------------------------------------------------
Refusals ==
  { "contradicted", "unknown attestation", "not a bounded command", "no observation",
    "wrong outcome", "control path not recorded", "another act", "missing outcome",
    "no timestamp" }

\* The values every variable takes.
TypeOK ==
  /\ log \in Logs
  /\ next \in 1 .. Len(log) + 1
  /\ usable \in [Recorded -> Rows \cup {NoRow}]
  /\ latest \in Nat
  /\ verdict \in Refusals \cup {"reading", "leg"}

\* The concluded attempts of the zone, and those that are last for an outcome.
Counted ==
  {i \in DOMAIN log : log[i].zone = Zone /\ log[i].attestation \notin {"inconclusive", "timeout"}}

Last(c) ==
  {i \in Counted : /\ log[i].outcome = c
                   /\ \A j \in Counted : log[j].outcome = c => log[j].at <= log[i].at}

\* A command the runtime carried out, with what the operator saw of it.
IsProof(row) ==
  /\ row.attestation = "matched" /\ row.issued /\ row.released /\ ~row.verified
  /\ row.observed # NoObservation
  /\ row.coil # "" /\ row.level # ""
  /\ row.observed.commanded = row.outcome
  /\ row.observed.coil = row.coil /\ row.observed.level = row.level

\* A leg rests on the whole record, in whatever order it was exported: no row
\* of the zone speaks against it, each outcome is shown by the attempt that
\* was commanded last, and the leg is as old as the newest attempt
\* (proof.go:194-216).
LegIsOfRecord ==
  verdict = "leg" =>
    /\ \A i \in Counted : IsProof(log[i]) /\ log[i].at <= Leg.at
    /\ \A c \in Asserted : \E i \in Last(c) : log[i].observed \in Leg.seen
    /\ \A o \in Leg.seen : \E i \in Last(o.commanded) : log[i].observed = o
    /\ \E i \in Counted : log[i].at = Leg.at

\* A record in which both outcomes were matched is not refused: an attempt that
\* timed out or was inconclusive, or another zone's, never spoils the leg a
\* later or an earlier attempt completes (proof.go:101-104).
RefusedForCause ==
  verdict \in Refusals =>
    \/ \E i \in Counted : ~IsProof(log[i])
    \/ \E c \in Asserted : \A i \in Counted : log[i].outcome # c
    \/ \A i \in Counted : log[i].at <= 0

-----------------------------------------------------------------------------
(***************************************************************************)
(* The loop invariant: what is known of the rows read so far.              *)
(***************************************************************************)
Read == {i \in Counted : i < next}

\* What is kept for an outcome is the last attempt read, and nothing is kept
\* when none was.
KeptIsLast ==
  \A c \in Recorded :
    IF usable[c] = NoRow THEN \A i \in Read : log[i].outcome # c
    ELSE \E i \in Read :
           /\ log[i] = usable[c] /\ log[i].outcome = c
           /\ \A j \in Read : log[j].outcome = c => log[j].at <= log[i].at

LatestIsNewest ==
  /\ \A i \in Read : log[i].at <= latest
  /\ latest = 0 \/ \E i \in Read : log[i].at = latest

\* The verdicts of the end of the loop, and of a row within it.
AtEnd == {"missing outcome", "no timestamp", "leg"}

VerdictIsDue ==
  /\ verdict \in AtEnd \cup {"reading"} => \A i \in Read : IsProof(log[i])
  /\ verdict \in AtEnd => next = Len(log) + 1
  /\ verdict \in Refusals \ AtEnd => \E i \in Counted : ~IsProof(log[i])
  /\ verdict = "missing outcome" => ~Complete(usable)
  /\ verdict = "no timestamp" => latest <= 0
  /\ verdict = "leg" => Complete(usable) /\ latest > 0

IInv ==
  /\ TypeOK /\ VerdictIsDue
  /\ verdict \in AtEnd \cup {"reading"} => KeptIsLast /\ LatestIsNewest
=============================================================================
