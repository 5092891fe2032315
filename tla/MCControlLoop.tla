---------------------------- MODULE MCControlLoop ----------------------------
(***************************************************************************)
(* Small instances of ControlLoop: one speed, a rotor that stands still,   *)
(* and a rail that may dip or fail and takes the verdict with it.          *)
(***************************************************************************)
EXTENDS ControlLoop

MCDutyFor == [s \in 0..1 |-> s]

Board == [pgood : BOOLEAN, mcf : {FALSE}, status : {"Fresh"},
          config : {"Verified", "Unverified"}, ready : {TRUE}, fg : {0},
          hall : {FALSE}, measured : {1}]

\* A rail that is down has taken the verdict; one that is up may have.
LoopInputs == {in \in Board : in.pgood \/ in.config = "Unverified"}
=============================================================================
