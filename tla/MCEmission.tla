----------------------------- MODULE MCEmission -----------------------------
(* The build pass and the emit pass on the archives of MCArchives.         *)
EXTENDS Emission, MCArchives
=============================================================================
