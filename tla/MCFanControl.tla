---------------------------- MODULE MCFanControl ----------------------------
(***************************************************************************)
(* Small instances of FanControl, over the same inputs as MCSupervisor.    *)
(***************************************************************************)
EXTENDS FanControl

MCDutyFor == [s \in 0..3 |-> s]

\* A sound board: nothing wrong, the rotor turning or still.
Sound == [pgood : {TRUE}, mcf : {FALSE}, status : {"Fresh"}, config : {"Verified"},
          ready : {TRUE}, fg : {0, 1}, hall : BOOLEAN, measured : {2}]

Still == {in \in Sound : in.fg = 0 /\ ~in.hall}

Sick ==
  {[in EXCEPT !.pgood = FALSE] : in \in Still} \cup {[in EXCEPT !.mcf = TRUE] : in \in Still}
    \cup {[in EXCEPT !.status = r] : in \in Still, r \in StatusRead}
    \cup {[in EXCEPT !.config = c] : in \in Still, c \in {"Unverified", "Failed"}}

BoardInputs == Sound \cup Sick
=============================================================================
