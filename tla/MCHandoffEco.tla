---------------------------- MODULE MCHandoffEco ----------------------------
(* A two-part board: U1 with a doubled ground land, a signal and an unused  *)
(* pin, R1 with a signal and an unused pin.                                 *)
EXTENDS HandoffEco, TLC

Place(x, y, rot) == [at |-> <<x, y>>, rot |-> rot, side |-> "front"]

U1 == [id |-> "u", ref |-> "U1", value |-> "esp", symbol |-> "mcu", fields |-> "mpn",
       place |-> Place(0, 0, 0), pads |-> {"1", "2", "3"}, foot |-> "qfn"]
R1 == [id |-> "r", ref |-> "R1", value |-> "10k", symbol |-> "res", fields |-> "mpn",
       place |-> Place(8, 6, 90), pads |-> {"1", "2"}, foot |-> "0402"]
R2 == [R1 EXCEPT !.id = "s", !.ref = "R2", !.place.at = <<16, 6>>]

Gnd == [id |-> "gnd", name |-> "GND", ends |-> {<<"u", "1">>, <<"r", "1">>}]
Sig == [id |-> "sig", name |-> "SIG", ends |-> {<<"u", "2">>}]

MCBase == [parts |-> {U1, R1}, nets |-> {Gnd, Sig}, meta |-> [id |-> "manifest"],
           board |-> [id |-> "pcb", spec |-> "four",
                      outline |-> [mid |-> <<0, 0>>, half |-> <<40, 30>>],
                      holes |-> <<[id |-> "h", ref |-> "U1", at |-> <<4, 4>>, drill |-> 10]>>]]

MCDesigns ==
    { MCBase,
      [MCBase EXCEPT !.parts = {U1, [R1 EXCEPT !.place.at = <<20, 6>>]}],
      [MCBase EXCEPT !.parts = {U1, [R1 EXCEPT !.symbol = "pot", !.value = "22k"]}],
      [MCBase EXCEPT !.nets = {Gnd, [Sig EXCEPT !.ends = @ \cup {<<"r", "2">>}]}],
      [MCBase EXCEPT !.nets = {[Gnd EXCEPT !.name = "AGND"], Sig}],
      [MCBase EXCEPT !.parts = @ \cup {R2}],
      [MCBase EXCEPT !.nets = {[Gnd EXCEPT !.ends = @ \cup {<<"r", "2">>}],
                               [Sig EXCEPT !.ends = @ \cup {<<"r", "2">>}]}] }

Transform == [id |-> "at", kind |-> "coordinate_transform", net |-> "", part |-> "",
              p |-> [source |-> <<0, 0>>, kicad |-> <<100, 100>>]]
Alias == [id |-> "alias", kind |-> "net_alias", net |-> "gnd", part |-> "",
          p |-> [source |-> "VGND", kicad |-> "GND"]]
Cleanup == [id |-> "clean", kind |-> "schematic_cleanup", net |-> "", part |-> "",
            p |-> [allowed |-> {"datasheet"}]]
Pour == [id |-> "pour", kind |-> "zone", net |-> "gnd", part |-> "", p |-> [spec |-> "l2"]]

MCBaseOps == {Transform, Alias, Cleanup}
MCOps == {Pour}

MCLibrary == [f \in {"qfn", "0402"} |->
    IF f = "qfn" THEN {<<"1", 1>>, <<"1", 2>>, <<"2", 1>>, <<"3", 1>>}
    ELSE {<<"1", 1>>, <<"2", 1>>}]

MCSeeds == {{<<10, 0>>, <<90, 60>>}}
MCDrawings == {"mpn", "none"}

MCTracks == {[uuid |-> "t1", net |-> "GND"]}
MCCopper == {[uuid |-> "t1", net |-> "SIG"]}
MCMoves == {1, 5}
MCStrays == {"GND", "unconnected-(U1-Pad3)"}

MCNcName == [pin \in {"U1", "R1", "R2"} \X {"1", "2", "3"} |->
    CASE pin = <<"U1", "3">> -> "unconnected-(U1-Pad3)"
      [] pin = <<"R1", "2">> -> "unconnected-(R1-Pad2)"
      [] pin = <<"R2", "2">> -> "unconnected-(R2-Pad2)"
      [] OTHER -> "unconnected-(other)"]

MCBare == [net \in {"VGND", "GND", "/GND", "AGND", "SIG", "unconnected-(U1-Pad3)",
                    "unconnected-(R1-Pad2)", "unconnected-(R2-Pad2)", "unconnected-(other)"} |->
             IF net = "/GND" THEN "GND" ELSE net]

\* The names of this instance tell its nets apart.
ASSUME InstanceApart == AllApart
=============================================================================
