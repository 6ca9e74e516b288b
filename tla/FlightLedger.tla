---------------------------- MODULE FlightLedger ----------------------------
(***************************************************************************)
(* What the flight arena of layer0/core promises to the driver, without    *)
(* slots, flags or free lists: every operation handed to the kernel has an *)
(* identity of its own (an echo), no identity is ever issued twice, and    *)
(* the identity lives until its Rust owner, its kernel completion and any  *)
(* completion loan are all gone.                                           *)
(***************************************************************************)
CONSTANT Echo     \* the identities that can be issued

VARIABLES
  issued,    \* identities issued so far
  reserved,  \* identities whose owner has not submitted yet (Reserved)
  owned,     \* identities whose owner has submitted (Lease)
  pending,   \* identities whose last completion has not been applied
  loaned     \* identities lent to a completion being applied (Complete)

vars == <<issued, reserved, owned, pending, loaned>>

Init == /\ issued = {} /\ reserved = {} /\ owned = {}
        /\ pending = {} /\ loaned = {}

\* Vacant::reserve.
Issue(e) ==
  /\ e \notin issued
  /\ issued' = issued \cup {e}
  /\ reserved' = reserved \cup {e}
  /\ pending' = pending \cup {e}
  /\ UNCHANGED <<owned, loaned>>

\* Reserved::commit: the kernel has the operation.
Commit(e) ==
  /\ e \in reserved
  /\ reserved' = reserved \ {e}
  /\ owned' = owned \cup {e}
  /\ UNCHANGED <<issued, pending, loaned>>

\* Drop of a Lease: the pending completion keeps the identity alive.
Disown(e) ==
  /\ e \in owned
  /\ owned' = owned \ {e}
  /\ UNCHANGED <<issued, reserved, pending, loaned>>

\* Drop of a Reserved: nothing was submitted, so nothing stays pending.
Withdraw(e) ==
  /\ e \in reserved
  /\ reserved' = reserved \ {e}
  /\ pending' = pending \ {e}
  /\ UNCHANGED <<issued, owned, loaned>>

\* Drain::bind finds the identity an echo names.
Lend(e) ==
  /\ e \in pending /\ e \notin loaned
  /\ loaned' = loaned \cup {e}
  /\ UNCHANGED <<issued, reserved, owned, pending>>

\* Complete::finish: the last completion has been applied.
Settle(e) ==
  /\ e \in loaned
  /\ loaned' = loaned \ {e}
  /\ pending' = pending \ {e}
  /\ UNCHANGED <<issued, reserved, owned>>

\* A Complete goes away and more completions follow.
GiveBack(e) ==
  /\ e \in loaned
  /\ loaned' = loaned \ {e}
  /\ UNCHANGED <<issued, reserved, owned, pending>>

\* Flights::finish at the end of the driver: the completion will not come.
Expire(e) ==
  /\ e \in pending /\ e \notin loaned
  /\ pending' = pending \ {e}
  /\ UNCHANGED <<issued, reserved, owned, loaned>>

Next == \E e \in Echo : \/ Issue(e) \/ Commit(e) \/ Disown(e) \/ Withdraw(e)
                        \/ Lend(e) \/ Settle(e) \/ GiveBack(e) \/ Expire(e)

Spec == Init /\ [][Next]_vars
=============================================================================
