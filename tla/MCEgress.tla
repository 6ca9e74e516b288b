------------------------------ MODULE MCEgress ------------------------------
(***************************************************************************)
(* Two lanes that share credit for two entries and two bytes, with one of  *)
(* each of their own.                                                      *)
(***************************************************************************)
EXTENDS Egress

CONSTANTS l1, l2

MCLanes == {l1, l2}
MCShared == [e |-> 2, r |-> 2]
MCProtected == [e |-> 1, r |-> 1]
MCSizes == {1, 3}
=============================================================================
