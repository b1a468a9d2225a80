--------------------------- MODULE MCCommissioning ---------------------------
(***************************************************************************)
(* An instance of Commissioning for TLC: a device with two zones in force, *)
(* or with none, whose feeder line is rewired while installers work.       *)
(***************************************************************************)
EXTENDS Commissioning, TLC

NormallyOpen == [open |-> "de_energised", close |-> "energised", rest |-> "open"]

Sensor(id) == [id |-> id, cal |-> 0, low |-> 0, high |-> 11]

Told(sensors, lines, capacities) ==
  [ sensor : sensors, line : lines, activeHigh : {TRUE}, mapping : {NormallyOpen},
    capacity : capacities ]

\* The feeder is re-rated (for 6 the trip point is above the sensor's full scale)
\* or moved; the other zone is re-rated.
RevisedFacts ==
  Told({Sensor("s1")}, {"p1"}, {4, 6}) \cup Told({Sensor("s1")}, {"p3"}, {5})
    \cup Told({Sensor("s2")}, {"p2"}, {4})

\* The feeder moves to one line and then to another.
MovedFacts == Told({Sensor("s1")}, {"p1", "p3", "p4"}, {5})

\* A sensor that reports nothing below 6.
UnseenFacts == Told({[Sensor("s1") EXCEPT !.low = 6]}, {"p1"}, {5})

FirstZone(id, sensor, line, t) ==
  LET bare == Zone(id, [ sensor |-> Sensor(sensor), line |-> line, activeHigh |-> TRUE,
                         mapping |-> NormallyOpen, capacity |-> 5 ])
  IN  WithLegs(bare, CircuitLeg(bare, t), ControlLegOf(bare, t + 1))

Commissioned ==
  [ binding |-> [ device |-> Device, seq |-> 1, supersedes |-> 0, signer |-> Key,
                  zones |-> << FirstZone("feeder", "s1", "p1", 1),
                               FirstZone("main", "s2", "p2", 3) >> ],
    declared |-> [sensors |-> {"s1", "s2"}, lines |-> {"p1", "p2"}] ]

Bare == [binding |-> NoBinding, declared |-> [sensors |-> {"s1"}, lines |-> {"p1"}]]

Either == {Commissioned, Bare}
OnlyCommissioned == {Commissioned}
OnlyBare == {Bare}

Declares(lines) == [sensors |-> {"s1", "s2"}, lines |-> lines]
Rewired == {Declares({"p1", "p2"}), Declares({"p3", "p2"})}
RewiredTwice == Rewired \cup {Declares({"p4", "p2"})}
NeverRewired == {}

Interchangeable == Permutations(Installers)
=============================================================================
