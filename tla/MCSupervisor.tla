---------------------------- MODULE MCSupervisor ----------------------------
(***************************************************************************)
(* Small instances of Supervisor.  The durations keep the order they have  *)
(* in config.rs, and the speeds are a band of three above zero.            *)
(***************************************************************************)
EXTENDS Supervisor

\* Two neighbouring speeds share a duty, as they do at 2048 steps.
MCDutyFor == [s \in 0..4 |-> IF s = 4 THEN 3 ELSE s]

\* The band of the liveness run, two speeds of their own duty.
LiveDutyFor == [s \in 0..3 |-> s]

\* A board with nothing wrong, whose rotor may turn or be still.
Sound == [pgood : {TRUE}, mcf : {FALSE}, status : {"Fresh"}, config : {"Verified"},
          ready : {TRUE}, fg : {0, 1}, hall : BOOLEAN, measured : {0}]

Still == {in \in Sound : in.fg = 0 /\ ~in.hall}

\* A reading of the tach that does not reach, or does follow, the ramp.
Measured == {[in EXCEPT !.fg = 1, !.hall = TRUE, !.measured = m] :
               in \in Still, m \in {0, 2, 4}}

\* The ways the board around a snapshot may misbehave, one at a time.
Sick(S) ==
  {[in EXCEPT !.pgood = FALSE] : in \in S} \cup {[in EXCEPT !.mcf = TRUE] : in \in S}
    \cup {[in EXCEPT !.status = r] : in \in S, r \in StatusRead}
    \cup {[in EXCEPT !.config = c] : in \in S, c \in {"Pending", "Failed"}}
    \cup {[in EXCEPT !.config = "Provisional", !.ready = FALSE] : in \in S}

DriveInputs == Sound \cup Sick(Still) \cup Measured

\* For the liveness runs: a rotor that turns or not, on both channels, an MCF
\* that may fault, a rail that stays good and a verdict that may not come.
LiveInputs ==
  {[in EXCEPT !.fg = IF turning THEN 1 ELSE 0, !.hall = turning, !.config = c] :
     in \in Still, turning \in BOOLEAN, c \in {"Pending", "Verified"}}
  \cup {[in EXCEPT !.mcf = TRUE] : in \in Still}
=============================================================================
