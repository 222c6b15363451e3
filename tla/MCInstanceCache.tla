-------------------------- MODULE MCInstanceCache --------------------------
(***************************************************************************)
(* Instances of InstanceCache for TLC.  The runs check liveness too, so    *)
(* they use no symmetry.                                                   *)
(***************************************************************************)
EXTENDS InstanceCache, TLC
=============================================================================
