-------------------------- MODULE ControlLegProofs --------------------------
(***************************************************************************)
(* The proofs about ControlLeg, for logs of any length and rows of any     *)
(* kind: what the loop of ControlPathFor returns is what the log says as a *)
(* set of attempts.  The invariant of the loop relates what is kept to the *)
(* rows read so far; at its end those are all rows of the zone.            *)
(***************************************************************************)
EXTENDS ControlLeg, TLAPS

USE LegAssumption

\* The log is a sequence of rows, and what is counted are some of its indices.
LEMMA LogFacts ==
  ASSUME log \in Logs
  PROVE  /\ Len(log) \in Nat
         /\ \A i \in 1 .. Len(log) :
              log[i] \in Rows /\ log[i].outcome \in Recorded /\ log[i].at \in Int
         /\ Counted \subseteq 1 .. Len(log)
<1>1. log \in Seq(Rows)
  OBVIOUS
<1>2. Len(log) \in Nat /\ DOMAIN log = 1 .. Len(log) /\ \A i \in 1 .. Len(log) : log[i] \in Rows
  BY <1>1
<1>3. QED
  BY <1>2 DEF Counted

\* A row the code finds nothing wrong with is a proof, and no other is.
LEMMA FaultlessIsProof ==
  ASSUME NEW row, ~Skipped(row)
  PROVE  Fault(row) = "none" <=> IsProof(row)
<1>1. ASSUME IsProof(row) PROVE Fault(row) = "none"
  BY <1>1 DEF Fault, IsProof
<1>2. ASSUME ~IsProof(row) PROVE Fault(row) # "none"
  BY <1>2 DEF Fault, IsProof
<1>3. QED
  BY <1>1, <1>2

\* What a row is refused for is no verdict of the loop's end.
LEMMA FaultIsRefusal ==
  ASSUME NEW row, Fault(row) # "none"
  PROVE  Fault(row) \in Refusals \ AtEnd
  BY DEF Fault, Refusals, AtEnd

\* Before the first row is read, nothing is kept.
LEMMA InitIInv == Init => IInv
<1> SUFFICES ASSUME Init PROVE IInv
  OBVIOUS
<1>1. Len(log) \in Nat
  BY LogFacts DEF Init
<1>2. Read = {}
  BY LogFacts DEF Init, Read
<1>3. TypeOK
  BY <1>1 DEF Init, TypeOK
<1>4. VerdictIsDue
  BY <1>2 DEF Init, VerdictIsDue, AtEnd, Refusals
<1>5. KeptIsLast /\ LatestIsNewest
  BY <1>2 DEF Init, KeptIsLast, LatestIsNewest
<1>6. QED
  BY <1>3, <1>4, <1>5 DEF IInv

\* A row that is read is the only index the step adds, and only if it counts.
LEMMA ReadGrows ==
  ASSUME IInv, ReadRow
  PROVE  /\ next \in 1 .. Len(log)
         /\ Counted' = Counted
         /\ Read' = IF Skipped(log[next]) THEN Read ELSE Read \cup {next}
<1>1. log \in Logs /\ next \in 1 .. Len(log) + 1 /\ log' = log /\ next' = next + 1
      /\ next <= Len(log) /\ Len(log) \in Nat
  BY LogFacts DEF IInv, TypeOK, ReadRow
<1>2. next \in 1 .. Len(log) /\ Counted' = Counted
  BY <1>1 DEF Counted
<1>3. next \in Counted <=> ~Skipped(log[next])
  <2>1. DOMAIN log = 1 .. Len(log)
    BY <1>1
  <2>2. QED
    BY <1>2, <2>1 DEF Counted, Skipped
<1>4. \A i \in Counted : i \in Int
  BY <1>1, LogFacts
<1>5. \A i \in Counted : i < next + 1 <=> i < next \/ i = next
  BY <1>2, <1>4
<1>6. Read' = {i \in Counted : i < next \/ i = next}
  BY <1>1, <1>2, <1>5 DEF Read
<1>7. QED
  BY <1>2, <1>3, <1>6 DEF Read

\* One turn of the loop.
LEMMA ReadRowKeeps ==
  ASSUME IInv, ReadRow
  PROVE  IInv'
<1> DEFINE row == log[next]
<1>1. /\ verdict = "reading" /\ next <= Len(log) /\ next' = next + 1 /\ log' = log
      /\ IF Skipped(row) THEN UNCHANGED <<usable, latest, verdict>>
         ELSE IF Fault(row) # "none"
         THEN verdict' = Fault(row) /\ UNCHANGED <<usable, latest>>
         ELSE /\ usable' = IF Supersedes(row, usable[row.outcome])
                           THEN [usable EXCEPT ![row.outcome] = row] ELSE usable
              /\ latest' = LaterOf(row.at, latest)
              /\ UNCHANGED verdict
  BY DEF ReadRow
<1>2. next \in 1 .. Len(log) /\ Counted' = Counted
      /\ Read' = IF Skipped(row) THEN Read ELSE Read \cup {next}
  BY ReadGrows
<1>3. row \in Rows /\ row.outcome \in Recorded /\ row.at \in Int /\ Len(log) \in Nat
  BY <1>2, LogFacts DEF IInv, TypeOK
<1>4. \A i \in Read : log[i] \in Rows /\ log[i].at \in Int /\ i \in 1 .. Len(log) /\ i \in Counted
  BY LogFacts DEF IInv, TypeOK, Read
<1>5. TypeOK /\ VerdictIsDue /\ KeptIsLast /\ LatestIsNewest
  BY <1>1 DEF IInv, AtEnd
<1>6. next' \in 1 .. Len(log') + 1 /\ log' \in Logs
  BY <1>1, <1>2, <1>3, <1>5 DEF TypeOK
<1>7. CASE Skipped(row)
  <2>1. UNCHANGED <<log, usable, latest, verdict>> /\ Read' = Read
    BY <1>1, <1>2, <1>7
  <2>2. TypeOK'
    BY <1>5, <1>6, <2>1 DEF TypeOK
  <2>3. VerdictIsDue'
    BY <1>1, <1>5, <2>1 DEF VerdictIsDue, AtEnd, Refusals
  <2>4. KeptIsLast' /\ LatestIsNewest'
    BY <1>5, <2>1 DEF KeptIsLast, LatestIsNewest
  <2>5. QED
    BY <2>2, <2>3, <2>4 DEF IInv
<1>8. CASE ~Skipped(row) /\ Fault(row) # "none"
  <2>1. verdict' = Fault(row) /\ UNCHANGED <<log, usable, latest>> /\ Fault(row) \in Refusals \ AtEnd
    BY <1>1, <1>8, FaultIsRefusal
  <2>2. TypeOK'
    BY <1>5, <1>6, <2>1 DEF TypeOK
  <2>3. next \in Counted /\ ~IsProof(log[next])
    <3>1. DOMAIN log = 1 .. Len(log)
      BY <1>5 DEF TypeOK
    <3>2. QED
      BY <1>2, <1>8, <3>1, FaultlessIsProof DEF Counted, Skipped
  <2>4. verdict' \notin AtEnd \cup {"reading"}
    BY <2>1 DEF Refusals, AtEnd
  <2>5. VerdictIsDue'
    BY <1>1, <1>2, <2>1, <2>3, <2>4 DEF VerdictIsDue, AtEnd
  <2>6. QED
    BY <2>2, <2>4, <2>5 DEF IInv, AtEnd
<1>9. CASE ~Skipped(row) /\ Fault(row) = "none"
  <2>1. /\ usable' = IF Supersedes(row, usable[row.outcome])
                     THEN [usable EXCEPT ![row.outcome] = row] ELSE usable
        /\ latest' = LaterOf(row.at, latest)
        /\ UNCHANGED <<log, verdict>>
        /\ Read' = Read \cup {next}
    BY <1>1, <1>2, <1>9
  <2>2. TypeOK'
    BY <1>3, <1>5, <1>6, <2>1 DEF TypeOK, LaterOf
  <2>3. IsProof(row)
    BY <1>9, FaultlessIsProof
  <2>4. VerdictIsDue'
    BY <1>1, <1>5, <2>1, <2>3 DEF VerdictIsDue, AtEnd, Refusals
  <2>5. LatestIsNewest'
    <3>1. latest \in Int /\ latest >= 0
      BY <1>5 DEF TypeOK
    <3>2. QED
      BY <1>3, <1>4, <1>5, <2>1, <3>1 DEF LatestIsNewest, LaterOf
  <2>6. KeptIsLast'
    <3> SUFFICES ASSUME NEW c \in Recorded
                 PROVE  IF usable'[c] = NoRow THEN \A i \in Read' : log[i].outcome # c
                        ELSE \E i \in Read' :
                               /\ log[i] = usable'[c] /\ log[i].outcome = c
                               /\ \A j \in Read' : log[j].outcome = c => log[j].at <= log[i].at
      BY <2>1 DEF KeptIsLast
    <3>1. CASE c # row.outcome
      <4>1. usable'[c] = usable[c]
        BY <1>3, <1>5, <2>1, <3>1 DEF TypeOK
      <4>2. QED
        BY <1>5, <2>1, <3>1, <4>1 DEF KeptIsLast
    <3>2. CASE c = row.outcome /\ Supersedes(row, usable[c])
      <4>1. usable'[c] = row /\ row # NoRow
        BY <1>3, <1>5, <2>1, <3>2 DEF TypeOK
      <4>2. \A j \in Read : log[j].outcome = c => log[j].at <= row.at
        <5>1. CASE usable[c] = NoRow
          BY <1>5, <5>1 DEF KeptIsLast
        <5>2. CASE usable[c] # NoRow
          BY <1>3, <1>4, <1>5, <3>2, <5>2 DEF KeptIsLast, Supersedes
        <5>3. QED
          BY <5>1, <5>2
      <4>3. QED
        BY <1>3, <2>1, <3>2, <4>1, <4>2
    <3>3. CASE c = row.outcome /\ ~Supersedes(row, usable[c])
      <4>1. usable'[c] = usable[c] /\ usable[c] # NoRow
        BY <2>1, <3>3 DEF Supersedes
      <4>2. PICK i \in Read : /\ log[i] = usable[c] /\ log[i].outcome = c
                              /\ \A j \in Read : log[j].outcome = c => log[j].at <= log[i].at
        BY <1>5, <4>1 DEF KeptIsLast
      <4>3. row.at <= log[i].at
        BY <1>3, <1>4, <3>3, <4>2 DEF Supersedes
      <4>4. QED
        BY <2>1, <4>1, <4>2, <4>3
    <3>4. QED
      BY <3>1, <3>2, <3>3
  <2>7. QED
    BY <2>2, <2>4, <2>5, <2>6 DEF IInv
<1>10. QED
  BY <1>7, <1>8, <1>9

\* The end of the loop.
LEMMA FinishKeeps ==
  ASSUME IInv, Finish
  PROVE  IInv'
<1>1. /\ verdict = "reading" /\ next > Len(log)
      /\ verdict' = IF ~Complete(usable) THEN "missing outcome"
                    ELSE IF latest <= 0 THEN "no timestamp"
                    ELSE "leg"
      /\ UNCHANGED <<log, next, usable, latest>>
  BY DEF Finish
<1>2. TypeOK /\ VerdictIsDue /\ KeptIsLast /\ LatestIsNewest
  BY <1>1 DEF IInv, AtEnd
<1>3. Read' = Read /\ Counted' = Counted /\ Complete(usable)' = Complete(usable)
  BY <1>1 DEF Read, Counted, Complete
<1>4. /\ verdict' \in AtEnd
      /\ verdict' = "missing outcome" => ~Complete(usable)
      /\ verdict' = "no timestamp" => latest <= 0
      /\ verdict' = "leg" => Complete(usable) /\ latest > 0
  <2>1. latest \in Int
    BY <1>2 DEF TypeOK
  <2>2. latest <= 0 <=> ~(latest > 0)
    BY <2>1
  <2>3. CASE ~Complete(usable)
    BY <1>1, <2>3 DEF AtEnd
  <2>4. CASE Complete(usable) /\ latest <= 0
    BY <1>1, <2>4 DEF AtEnd
  <2>5. CASE Complete(usable) /\ ~(latest <= 0)
    BY <1>1, <2>2, <2>5 DEF AtEnd
  <2>6. QED
    BY <2>3, <2>4, <2>5
<1>5. next = Len(log) + 1
  <2>1. log \in Logs /\ next \in 1 .. Len(log) + 1
    BY <1>2 DEF TypeOK
  <2>2. Len(log) \in Nat
    BY <2>1, LogFacts
  <2>3. next > Len(log)
    BY <1>1
  <2>4. QED
    BY <2>1, <2>2, <2>3
<1>6. TypeOK'
  BY <1>1, <1>2, <1>4 DEF TypeOK, AtEnd, Refusals
<1>7. VerdictIsDue'
  BY <1>1, <1>2, <1>3, <1>4, <1>5 DEF VerdictIsDue, AtEnd, Refusals
<1>8. KeptIsLast' /\ LatestIsNewest'
  BY <1>1, <1>2, <1>3 DEF KeptIsLast, LatestIsNewest
<1>9. QED
  BY <1>6, <1>7, <1>8 DEF IInv

\* Every step keeps the loop invariant.
LEMMA StepIInv == IInv /\ [Next]_vars => IInv'
<1> SUFFICES ASSUME IInv, [Next]_vars PROVE IInv'
  OBVIOUS
<1>1. CASE UNCHANGED vars
  <2> USE <1>1 DEF vars
  <2>1. Counted' = Counted /\ Read' = Read
    BY DEF Counted, Read
  <2>2. (TypeOK => TypeOK') /\ (VerdictIsDue => VerdictIsDue')
    BY <2>1 DEF TypeOK, VerdictIsDue, Complete
  <2>3. (KeptIsLast => KeptIsLast') /\ (LatestIsNewest => LatestIsNewest')
    BY <2>1 DEF KeptIsLast, LatestIsNewest
  <2>4. QED
    BY <2>2, <2>3 DEF IInv
<1>2. QED
  BY <1>1, ReadRowKeeps, FinishKeeps DEF Next

\* The loop invariant holds of every reachable state.
THEOREM Invariance == Spec => []IInv
  BY InitIInv, StepIInv, PTL DEF Spec

\* Every reachable state has the declared types.
THEOREM TypeCorrect == Spec => []TypeOK
<1>1. IInv => TypeOK
  BY DEF IInv
<1>2. QED
  BY <1>1, Invariance, PTL

\* At the end of the loop every counted row has been read.
LEMMA AllRead ==
  ASSUME IInv, verdict \in AtEnd
  PROVE  Read = Counted
<1>1. next = Len(log) + 1
  BY DEF IInv, VerdictIsDue
<1>2. QED
  BY <1>1, LogFacts DEF IInv, TypeOK, Read

\* The leg ControlPathFor returns is the whole record's, for a log of any length
\* in any order (proof.go:194-234).
THEOREM LegIsTheRecord == Spec => []LegIsOfRecord
<1>1. IInv => LegIsOfRecord
  <2> SUFFICES ASSUME IInv, verdict = "leg"
               PROVE  /\ \A i \in Counted : IsProof(log[i]) /\ log[i].at <= Leg.at
                      /\ \A c \in Asserted : \E i \in Last(c) : log[i].observed \in Leg.seen
                      /\ \A o \in Leg.seen : \E i \in Last(o.commanded) : log[i].observed = o
                      /\ \E i \in Counted : log[i].at = Leg.at
    BY DEF LegIsOfRecord
  <2>1. Read = Counted /\ KeptIsLast /\ LatestIsNewest /\ VerdictIsDue
    BY AllRead DEF IInv, AtEnd
  <2>2. \A i \in Counted : IsProof(log[i])
    BY <2>1 DEF VerdictIsDue, AtEnd
  <2>3. Complete(usable) /\ latest > 0
    BY <2>1 DEF VerdictIsDue
  <2>4. \A c \in Recorded : usable[c] # NoRow =>
          \E i \in Last(c) : log[i] = usable[c] /\ i \in Counted
    BY <2>1 DEF KeptIsLast, Last
  <2>5. Leg.at = latest
    BY DEF Leg
  <2>6. \A c \in Recorded : usable[c] # NoRow => usable[c].observed \in Leg.seen
    BY DEF Leg
  <2>7. \A c \in Asserted : \E i \in Last(c) : log[i].observed \in Leg.seen
    BY <2>3, <2>4, <2>6 DEF Complete, Recorded
  <2>8. \A o \in Leg.seen : \E i \in Last(o.commanded) : log[i].observed = o
    <3> SUFFICES ASSUME NEW o \in Leg.seen PROVE \E i \in Last(o.commanded) : log[i].observed = o
      OBVIOUS
    <3>1. PICK c \in Recorded : usable[c] # NoRow /\ o = usable[c].observed
      BY DEF Leg
    <3>2. PICK i \in Last(c) : log[i] = usable[c] /\ i \in Counted
      BY <2>4, <3>1
    <3>3. o.commanded = c
      BY <2>2, <3>1, <3>2 DEF IsProof, Last
    <3>4. QED
      BY <3>1, <3>2, <3>3
  <2>9. latest # 0
    BY <2>3
  <2>10. QED
    BY <2>1, <2>2, <2>5, <2>7, <2>8, <2>9 DEF LatestIsNewest
<1>2. QED
  BY <1>1, Invariance, PTL

\* ControlPathFor refuses only for a row of the zone that is no proof, an outcome
\* nobody attempted to the end, or a record without a date (proof.go:101-104).
THEOREM RefusedOnlyForCause == Spec => []RefusedForCause
<1>1. IInv => RefusedForCause
  <2> SUFFICES ASSUME IInv, verdict \in Refusals
               PROVE  \/ \E i \in Counted : ~IsProof(log[i])
                      \/ \E c \in Asserted : \A i \in Counted : log[i].outcome # c
                      \/ \A i \in Counted : log[i].at <= 0
    BY DEF RefusedForCause
  <2>1. CASE verdict \notin AtEnd
    BY <2>1 DEF IInv, VerdictIsDue
  <2>2. CASE verdict = "missing outcome"
    <3>1. Read = Counted /\ KeptIsLast /\ ~Complete(usable)
      BY <2>2, AllRead DEF IInv, VerdictIsDue, AtEnd
    <3>2. QED
      BY <3>1 DEF Complete, KeptIsLast, Recorded
  <2>3. CASE verdict = "no timestamp"
    <3>1. Read = Counted /\ LatestIsNewest /\ latest <= 0 /\ latest \in Nat
      BY <2>3, AllRead DEF IInv, VerdictIsDue, AtEnd, TypeOK
    <3>2. \A i \in Counted : log[i].at \in Int
      BY LogFacts DEF IInv, TypeOK
    <3>3. QED
      BY <3>1, <3>2 DEF LatestIsNewest
  <2>4. QED
    BY <2>1, <2>2, <2>3 DEF AtEnd, Refusals
<1>2. QED
  BY <1>1, Invariance, PTL
=============================================================================
