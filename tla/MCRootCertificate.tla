-------------------------- MODULE MCRootCertificate ---------------------------
(* Three pairs, so that the one of the repository, or of a first run, can  *)
(* be replaced twice; three kills, so that a restart after a kill can be   *)
(* killed as well.                                                         *)
EXTENDS RootCertificate
=============================================================================
