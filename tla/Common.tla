------------------------------- MODULE Common -------------------------------
(***************************************************************************)
(* What the modules of components that are checked in one instance share.  *)
(***************************************************************************)
CONSTANTS
    NULL,               \* no value
    MaxFaults           \* bound on the calls the hardware refuses
=============================================================================
