------------------------------- MODULE MCSeda -------------------------------
(* Seda for TLC: stage 1 is called by stage 2 directly, as                 *)
(* DefaultStorageStage is by ExecuteStage.                                 *)
EXTENDS Seda, TLC

DirectCalls == {<<2, 1>>}
=============================================================================
