-------------------------------- MODULE MCOta --------------------------------
(***************************************************************************)
(* Small instances of Ota: one speed, a rotor that turns or not on both    *)
(* channels, and a rail that may fail.                                     *)
(***************************************************************************)
EXTENDS Ota

MCDutyFor == [s \in 0..1 |-> s]

Board == [pgood : BOOLEAN, mcf : {FALSE}, status : {"Fresh"},
          config : {"Verified", "Unverified"}, ready : {TRUE}, fg : {0, 1},
          hall : BOOLEAN, measured : {1}]

\* A rail that fails takes the verdict with it, and the rotor stands still.
LoopInputs ==
  {in \in Board : /\ in.hall = (in.fg > 0)
                  /\ in.pgood <=> in.config = "Verified"
                  /\ in.hall => in.pgood}
=============================================================================
