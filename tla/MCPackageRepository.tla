----------------------- MODULE MCPackageRepository -----------------------
(***************************************************************************)
(* A small repository for TLC: both architectures, and as many builds,      *)
(* issues and failures as the properties need to meet each other.           *)
(***************************************************************************)
EXTENDS PackageRepository

MCArchs == 1..2
MCBuilds == 1..2
=============================================================================
