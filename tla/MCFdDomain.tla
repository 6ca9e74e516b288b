----------------------------- MODULE MCFdDomain -----------------------------
(***************************************************************************)
(* Five descriptor domains in one run: accepted slots that the kernel      *)
(* reuses before their close is heard of; an outbound route beside         *)
(* standalone slots; two routes, one of which moves when the other is      *)
(* reclaimed, and closes that take effect at once; a route reclaimed with  *)
(* slots whose only generation is spent; and accepted and outbound slots   *)
(* with a common queue of retirements.                                     *)
(***************************************************************************)
EXTENDS FdDomain

Accepts == [accept |-> 2, outbound |-> 0, routes |-> {}, gens |-> 2, lens |-> {}, sync |-> FALSE]

Route == [accept |-> 0, outbound |-> 2, routes |-> {1}, gens |-> 1, lens |-> {1, 2}, sync |-> FALSE]

Routes == [accept |-> 0, outbound |-> 2, routes |-> {1, 2}, gens |-> 1, lens |-> {1, 2}, sync |-> TRUE]

Compact == [accept |-> 0, outbound |-> 3, routes |-> {1}, gens |-> 0, lens |-> {2}, sync |-> TRUE]

Mixed == [accept |-> 1, outbound |-> 1, routes |-> {1}, gens |-> 1, lens |-> {1}, sync |-> FALSE]

MCConfigs == {Accepts, Route, Routes, Compact, Mixed}
=============================================================================
