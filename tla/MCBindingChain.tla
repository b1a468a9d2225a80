--------------------------- MODULE MCBindingChain ---------------------------
(***************************************************************************)
(* An instance of BindingChain for TLC: two zones, each with its sensor    *)
(* and its line, proven one after the other before the device was started. *)
(***************************************************************************)
EXTENDS BindingChain, TLC

\* The normally open circuit, the normally closed one, and a mapping that
\* contradicts itself.
ThreeWirings ==
  { [open |-> "de_energised", close |-> "energised", rest |-> "open"],
    [open |-> "energised", close |-> "de_energised", rest |-> "closed"],
    [open |-> "energised", close |-> "de_energised", rest |-> "open"] }

Interchangeable == Permutations(Signers)

FirstZone(id, sensor, line, t) ==
  LET m == [open |-> "de_energised", close |-> "energised", rest |-> "open"]
      bare == [ id |-> id, sensor |-> [id |-> sensor, cal |-> 0, low |-> 0, high |-> 12],
                kind |-> "local_gpio", line |-> line, activeHigh |-> TRUE, mapping |-> m,
                capacity |-> 5 ]
  IN  bare @@ [circuit |-> CircuitLeg(bare, t), control |-> ControlLegOf(bare, t + 1)]

TwoZones == << FirstZone("feeder", "s1", "pin1", 1), FirstZone("main", "s2", "pin2", 3) >>
=============================================================================
