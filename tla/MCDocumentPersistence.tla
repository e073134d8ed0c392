----------------------- MODULE MCDocumentPersistence -----------------------
(* Instances of DocumentPersistence for TLC. *)
EXTENDS DocumentPersistence, TLC

\* Requests are interchangeable, and so are the autosave goroutines.
Symmetry == Permutations(Requests) \cup Permutations(Autosavers)
=============================================================================
