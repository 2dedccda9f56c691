---------------------------- MODULE MCMsgSwitch -----------------------------
(* MsgSwitch with five jobs: one ends in the worker, or kills it, four are *)
(* relayed, one of these throws past on_readable.                          *)
EXTENDS MsgSwitch

RelayedJobs  == {1, 2, 4, 5}
ThrowingJobs == {2}
KillingJobs  == {3}
=============================================================================
