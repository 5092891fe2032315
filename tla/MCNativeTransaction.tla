------------------------ MODULE MCNativeTransaction ------------------------
(* Two transactions, one schematic edit and one write from outside on a     *)
(* project of three files: board, project and schematic.  The runs and the  *)
(* bytes they write are interchangeable.                                    *)
EXTENDS NativeTransaction, TLC

Interchangeable == Permutations(Txns) \cup Permutations(Content \ {Absent})
=============================================================================
