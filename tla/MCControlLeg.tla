---------------------------- MODULE MCControlLeg ----------------------------
(***************************************************************************)
(* Instances of ControlLeg for TLC: every log of at most MaxLog rows, over *)
(* a good attempt of each outcome at several times and one row for each    *)
(* way an attempt can fail to be one.                                      *)
(***************************************************************************)
EXTENDS ControlLeg

CONSTANTS Times, MaxLog

Attempt(c, t) ==
  LET coil == IF c = "open" THEN "de_energised" ELSE "energised"
      level == IF c = "open" THEN "low" ELSE "high"
  IN  [ zone |-> Zone, outcome |-> c, at |-> t, attestation |-> "matched", issued |-> TRUE,
        released |-> TRUE, verified |-> FALSE, coil |-> coil, level |-> level,
        observed |-> [commanded |-> c, coil |-> coil, level |-> level, by |-> t] ]

Good == {Attempt(c, t) : c \in Asserted, t \in Times}

Odd ==
  LET a == Attempt("close", 2)
  IN  {[a EXCEPT !.zone = "another"], [a EXCEPT !.issued = FALSE], [a EXCEPT !.released = FALSE],
       [a EXCEPT !.verified = TRUE], [a EXCEPT !.observed = NoObservation],
       [a EXCEPT !.outcome = "open"], [a EXCEPT !.coil = ""], [a EXCEPT !.level = "low"],
       [a EXCEPT !.observed.level = ""], [a EXCEPT !.observed.coil = "de_energised"],
       Attempt("unknown", 2)}
      \cup {[a EXCEPT !.attestation = v] :
              v \in {"mismatched", "inconclusive", "timeout", "", "assumed"}}

AllRows == Good \cup Odd

AllLogs == UNION {[1 .. n -> AllRows] : n \in 0 .. MaxLog}
=============================================================================
