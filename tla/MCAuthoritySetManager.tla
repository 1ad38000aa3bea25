------------------------ MODULE MCAuthoritySetManager ------------------------
(***************************************************************************)
(* Instances of AuthoritySetManager for TLC.                                *)
(***************************************************************************)
EXTENDS AuthoritySetManager

MCBlockNumbers == 1 .. 3
=============================================================================
