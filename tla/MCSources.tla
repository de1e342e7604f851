----------------------------- MODULE MCSources ------------------------------
(***************************************************************************)
(* Sources for every kind, over four versions of which the second cannot be*)
(* parsed and the third has lost a parameter.                              *)
(***************************************************************************)
EXTENDS Sources

MCKinds == Polled \union Conditional \union {"consul", "etcd"}

MCHolds == <<{"rules", "defaults"}, {"rules", "defaults"}, {"rules"}, {"rules"}>>
=============================================================================
