----------------------------- MODULE MCSSMPPallet -----------------------------
(***************************************************************************)
(* Instances of SSMPPallet for TLC: two targets that can be registered and  *)
(* one without a function name.                                             *)
(***************************************************************************)
EXTENDS SSMPPallet

CONSTANTS t1, t2, nameless

MCTargets == {t1, t2, nameless}
MCNamedTargets == {t1, t2}

\* Either answer of the library, and the one of the version Cargo.toml asks for.
EitherAnswer == BOOLEAN
RefusesNobody == {FALSE}
=============================================================================
