----------------------------- MODULE MCCpmmPool -----------------------------
(* Instances of CpmmPool for TLC: a narrow u64 and a coarse fee scale. *)
EXTENDS CpmmPool

MCFees == {0, 1, BPS, BPS + 1}
=============================================================================
