---------------------------- MODULE MCDraftFile ----------------------------
(***************************************************************************)
(* An instance of DraftFile for TLC: three commands write to one path      *)
(* while people meddle with it.  The documents have different lengths, so  *)
(* that the end of one can show behind another.                            *)
(***************************************************************************)
EXTENDS DraftFile, TLC

CONSTANTS Long, Short, Third

Sizes == [w \in Writers |-> IF w = Long THEN 2 ELSE 1]

Interchangeable == Permutations(Nodes)
=============================================================================
