----------------------------- MODULE FdPartition ----------------------------
(***************************************************************************)
(* How the outbound descriptor slots of a driver are shared out            *)
(* (layer0/core/src/io/fd/domain: Table, Prefix, Lease and Outbound).      *)
(*                                                                         *)
(* The mapping is an array of slots.  Its first `mapped' places belong to  *)
(* the routes, each to an interval of its own; the places up to            *)
(* `allocated' are counted for standalone descriptors and for slots whose  *)
(* generations are used up, whatever they hold; the rest is free.          *)
(* A partition is a record and every operation maps one to another.        *)
(***************************************************************************)
EXTENDS Integers, Sequences, FiniteSets

NoLease == [st |-> "none"]

NewPartition(slots, routes) ==
    [mapping |-> slots, mapped |-> 0, allocated |-> 0, routes |-> [r \in routes |-> NoLease]]

(* Table::rotate: the places start + 1 .. middle change sides with the     *)
(* places middle + 1 .. end.                                               *)
Rotate(m, start, middle, end) ==
    [i \in 1 .. Len(m) |->
       IF i \notin start + 1 .. end THEN m[i]
       ELSE IF i <= start + end - middle THEN m[i + middle - start]
       ELSE m[i + middle - end]]

(* The slots at the places from .. to that are not spent, the last one     *)
(* first.                                                                  *)
Backward(m, from, to, spent) ==
    LET At == {k \in from .. to : m[k] \notin spent}
    IN  [i \in 1 .. Cardinality(At) |->
           m[CHOOSE k \in At : Cardinality({j \in At : j >= k}) = i]]

Available(t) == Len(t.mapping) - t.allocated

(* Table::get: the slot of a local index in the interval of a route.       *)
LocalSlot(t, r, local) == t.mapping[t.routes[r].start + local + 1]

(* The slots of the interval of a route.                                   *)
Extent(t, r) ==
    IF t.routes[r].st = "none" THEN {}
    ELSE {LocalSlot(t, r, k) : k \in 0 .. t.routes[r].len - 1}

(* Outbound::try_assign: the first free slots move in front of the         *)
(* standalone places.                                                      *)
Assign(t, r, len) ==
    [mapping |-> Rotate(t.mapping, t.mapped, t.allocated, t.allocated + len),
     mapped |-> t.mapped + len, allocated |-> t.allocated + len,
     routes |-> [t.routes EXCEPT ![r] = [st |-> "live", start |-> t.mapped, len |-> len]]]

(* Outbound::release_one: the slot goes to the last allocated place, which *)
(* becomes free.                                                           *)
ReleaseOne(t, s) ==
    [t EXCEPT !.mapping[t.allocated] = s, !.allocated = @ - 1]

(* Mutant: the routes behind a reclaimed one keep their places.            *)
ReclaimUncompacted(t, r, spent) ==
    LET gone == t.routes[r]
    IN  [mapping |-> Rotate(t.mapping, gone.start, gone.start + gone.len, t.allocated),
         mapped |-> t.mapped - gone.len, allocated |-> t.allocated - gone.len,
         routes |-> [t.routes EXCEPT ![r] = NoLease]]

(* Outbound::reclaim: the interval of r moves behind the standalone        *)
(* places, its reusable slots to the end of it; slots that are spent stay  *)
(* allocated.  The intervals behind it move up.                            *)
Reclaim(t, r, spent) ==
    LET gone == t.routes[r]
        m == Rotate(t.mapping, gone.start, gone.start + gone.len, t.allocated)
        back == Backward(m, t.allocated - gone.len + 1, t.allocated, spent)
        kept == t.allocated - Len(back)
    IN  [mapping |-> [i \in DOMAIN m |->
                       IF i \in kept + 1 .. t.allocated THEN back[i - kept] ELSE m[i]],
         mapped |-> t.mapped - gone.len,
         allocated |-> kept,
         routes |-> [q \in DOMAIN t.routes |->
             LET l == t.routes[q] IN
             IF q = r THEN NoLease
             ELSE IF l.st # "none" /\ l.start > gone.start
             THEN [l EXCEPT !.start = @ - gone.len] ELSE l]]
=============================================================================
