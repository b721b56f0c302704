---------------------------- MODULE MCFileUpload ----------------------------
(* Instances of FileUpload for TLC. *)
EXTENDS FileUpload, TLC

Symmetry == Permutations(File) \cup Permutations(Inits)
              \cup Permutations(Uploads)
=============================================================================
