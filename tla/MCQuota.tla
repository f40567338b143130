------------------------------ MODULE MCQuota ------------------------------
(* Small instances of Quota for TLC.                                       *)
EXTENDS Quota, TLC

CONSTANTS u1, u2, i1, i2

MCUsers == {u1, u2}
MCAddresses == {i1, i2}
=============================================================================
