---------------------------- MODULE EgressCredit ----------------------------
(***************************************************************************)
(* The send credit that the lanes of a link share, and the lanes that wait *)
(* for it (layer1/net/src/link/egress/load/credit).                        *)
(*                                                                         *)
(* An amount has entries (e) and resident bytes (r).  Every lane has       *)
(* protected credit of its own; what it holds above that comes from the    *)
(* shared pool.  A pool is a record: the shared credit left, what every    *)
(* lane holds, one wait record per lane, the ticket counter and the        *)
(* pending flag.  Operations map pools to pools.  The search tree of the   *)
(* waiting lanes is the set of waiting records; a node's demand is the     *)
(* field of that name.                                                     *)
(***************************************************************************)
EXTENDS Integers, FiniteSets, Functions

CONSTANTS
    Lanes,
    Shared, Protected,   \* amounts
    LastTicket           \* the largest ticket counter (2^32 - 1 in the code)

Amounts == [e : Nat, r : Nat]
Zero == [e |-> 0, r |-> 0]

ASSUME CreditAssumption ==
    /\ IsFiniteSet(Lanes) /\ Lanes # {}
    /\ Shared \in Amounts /\ Protected \in Amounts
    /\ LastTicket \in Nat \ {0}

Plus(a, b) == [e |-> a.e + b.e, r |-> a.r + b.r]
Less(a, b) == [e |-> a.e - b.e, r |-> a.r - b.r]
Covers(a, b) == b.e <= a.e /\ b.r <= a.r
Total(f) == FoldFunction(LAMBDA x, n : x + n, 0, f)

(* The accounts of the pool (external).                                    *)
Above(h) == [e |-> IF h.e > Protected.e THEN h.e - Protected.e ELSE 0,
             r |-> IF h.r > Protected.r THEN h.r - Protected.r ELSE 0]
Demand(p, l, a) == Less(Above(Plus(p.held[l], a)), Above(p.held[l]))
Charge(p, l, a) == [p EXCEPT !.held[l] = Plus(@, a), !.shared = Less(@, Demand(p, l, a))]
Refund(p, l, a) ==
    LET h == Less(p.held[l], a) IN
    [p EXCEPT !.held[l] = h, !.shared = Plus(@, Less(Above(p.held[l]), Above(h)))]

(* Account::fits: the lane can hold the amount when it holds nothing else. *)
Admissible(a) == Covers(Plus(Shared, Protected), a)

Idle == [kind |-> "idle", live |-> FALSE, amount |-> Zero, demand |-> Zero,
         bypasses |-> 0, ticket |-> 0]
Wait(a, d, b, t) == [kind |-> "waiting", live |-> TRUE, amount |-> a, demand |-> d,
                     bypasses |-> b, ticket |-> t]
Grant(a) == [kind |-> "granted", live |-> TRUE, amount |-> a, demand |-> Zero,
             bypasses |-> 0, ticket |-> 0]

NewPool == [shared |-> Shared, held |-> [l \in Lanes |-> Zero],
            rec |-> [l \in Lanes |-> Idle], ticket |-> 0, pending |-> FALSE]

Waiting(p) == {l \in Lanes : p.rec[l].kind = "waiting"}
Busy(p, l) == p.rec[l].kind # "idle"

(* pending.set(wait.has_waiting())                                         *)
Flag(p) == [p EXCEPT !.pending = Waiting(p) # {}]
-----------------------------------------------------------------------------
(* Ready::try_acquire: allowed, and the pool after it is Charge(p, l, a).  *)
(* While lanes wait, nobody else may take shared credit.                   *)
MayAcquire(p, l, a) ==
    /\ ~Busy(p, l)
    /\ IF Waiting(p) # {} THEN Demand(p, l, a) = Zero ELSE Covers(p.shared, Demand(p, l, a))

(* Queue::refresh.                                                         *)
Refresh(p, l) ==
    IF p.rec[l].kind = "waiting"
    THEN [p EXCEPT !.rec[l].demand = Demand(p, l, p.rec[l].amount)] ELSE p

(* Mutant: the cached demand of a waiting lane is not refreshed.           *)
ReleaseStale(p, l, a) == Flag(Refund(p, l, a))

(* Ready::release.                                                         *)
Release(p, l, a) == Flag(Refresh(Refund(p, l, a), l))

(* Mutant: credit comes back and nobody is flagged.                        *)
CancelSilently(p, l) ==
    IF p.rec[l].kind = "granted" THEN [Refund(p, l, p.rec[l].amount) EXCEPT !.rec[l] = Idle]
    ELSE [p EXCEPT !.rec[l] = Idle]

(* Mutant: a grant that was never taken is not refunded.                   *)
CancelUnpaid(p, l) == IF Busy(p, l) THEN Flag([p EXCEPT !.rec[l] = Idle]) ELSE p

(* Ready::cancel.                                                          *)
Cancel(p, l) ==
    CASE p.rec[l].kind = "idle" -> p
      [] p.rec[l].kind = "waiting" -> Flag([p EXCEPT !.rec[l] = Idle])
      [] p.rec[l].kind = "granted" ->
           Flag([Refund(p, l, p.rec[l].amount) EXCEPT !.rec[l] = Idle])
-----------------------------------------------------------------------------
(* Polling for credit: the new pool and "granted", "waits" or "tickets".   *)

Result(p, out) == [pool |-> p, out |-> out]

(* Vacant::poll, on a lane without a record.                               *)
Vacant(p, l, a) ==
    LET d == Demand(p, l, a)
        first == Waiting(p) = {}
        t == IF first THEN 0 ELSE p.ticket
    IN  IF d = Zero \/ (first /\ Covers(p.shared, d))
        THEN Result(Flag(Charge(p, l, a)), "granted")
        ELSE IF t = LastTicket
        THEN Result(Flag([p EXCEPT !.ticket = t]), "tickets")
        ELSE Result(Flag([p EXCEPT !.ticket = t + 1, !.rec[l] = Wait(a, d, 0, t)]), "waits")

(* Queue::resume under Ready::poll.  `same' says that the poll comes with  *)
(* the ready key of the record, which must still be live.                  *)
Poll(p, l, a, same) ==
    LET x == p.rec[l]
        match == same /\ x.amount = a
    IN  CASE x.kind = "idle" -> Vacant(p, l, a)
          [] x.kind = "waiting" /\ match -> Result(p, "waits")
          [] x.kind = "waiting" /\ ~match ->
               Result(Flag([p EXCEPT !.rec[l] =
                              Wait(a, Demand(p, l, a), x.bypasses, x.ticket)]), "waits")
          [] x.kind = "granted" /\ match -> Result(Flag([p EXCEPT !.rec[l] = Idle]), "granted")
          [] x.kind = "granted" /\ ~match ->
               Vacant([Refund(p, l, x.amount) EXCEPT !.rec[l] = Idle], l, a)
-----------------------------------------------------------------------------
(* Selection.                                                              *)

Earliest(t, S) == CHOOSE l \in S : \A k \in S : t[l] <= t[k]
First(p, S) == Earliest([l \in Lanes |-> p.rec[l].ticket], S)
Oldest(p) == First(p, Waiting(p))
Eligible(p) == {l \in Waiting(p) : Covers(p.shared, p.rec[l].demand)}

(* Core::try_bypass: the oldest waiting lane is passed over so many times. *)
MayBypass(p) == p.rec[Oldest(p)].bypasses < Cardinality(Lanes) - 1

Selectable(p) ==
    LET S == Eligible(p) IN S # {} /\ (First(p, S) = Oldest(p) \/ MayBypass(p))

(* Pool::maintain, one permit: Queue::select and Selected::activate.       *)
Maintain(p) ==
    IF ~Selectable(p) THEN [p EXCEPT !.pending = FALSE]
    ELSE LET l == First(p, Eligible(p))
             old == Oldest(p)
             x == p.rec[l]
             q == IF l = old THEN p ELSE [p EXCEPT !.rec[old].bypasses = @ + 1]
         IN  Flag(IF x.live
                  THEN [Charge(q, l, x.amount) EXCEPT !.rec[l] = Grant(x.amount)]
                  ELSE [q EXCEPT !.rec[l] = Idle])
=============================================================================
