---------------------------- MODULE MCPcbWorkflow ----------------------------
(***************************************************************************)
(* A small instance of PcbWorkflow: one change of source, which needs the  *)
(* flag for a routed board, a native project that is drawn for it twice,   *)
(* with a design-rule fault and soundly, and two runs that may begin from  *)
(* one lock.                                                               *)
(***************************************************************************)
EXTENDS PcbWorkflow, TLC

MCSymmetry == Permutations(Runs)

MCExports == [s \in 0..1 |-> IF s = 0 THEN 0 ELSE 2]
MCAgrees == [n \in 0..2 |-> IF n = 0 THEN 0 ELSE 1]
MCFaults == [n \in 0..2 |-> IF n = 1 THEN {"drc"} ELSE {}]
MCGuarded == {<<0, 1>>}
=============================================================================
