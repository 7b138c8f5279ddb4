---------------------------- MODULE MCDataExport ----------------------------
(* Small instances of DataExport: u1 asks for two exports, u2 for one. *)
EXTENDS DataExport, TLC

CONSTANTS u1, u2, e1, e2, e3

MCOwner == [e \in Export |-> IF e = e3 THEN u2 ELSE u1]

\* Workers are interchangeable, and so are the exports of u1.
ExportSymmetry == Permutations(Worker) \cup Permutations({e1, e2})
=============================================================================
