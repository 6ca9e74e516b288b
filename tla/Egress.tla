------------------------------- MODULE Egress -------------------------------
(***************************************************************************)
(* The egress of a link (layer1/net/src/link/egress): lanes of connections *)
(* that queue payloads under shared credit, send prefixes of them, and are *)
(* cleared when their connection closes, for a wire that sends payloads as *)
(* they are and keeps them until the kernel is done with them.             *)
(***************************************************************************)
EXTENDS EgressCredit, Sequences, SequencesExt

CONSTANTS
    Sizes,     \* bytes of a payload
    Iov,       \* payloads that one send may cover
    Storage    \* entries of the metadata store

ASSUME EgressAssumption ==
    /\ Sizes \subseteq Nat \ {0}
    /\ {Iov, Storage} \subseteq Nat \ {0}
    /\ Storage >= Shared.e + Cardinality(Lanes) * Protected.e

(* Mutant: one send buffer too few.                                        *)
FlightsShort == IF Cardinality(Lanes) < Storage THEN Cardinality(Lanes) - 1 ELSE Storage

(* Config::flights: the sends of all lanes at a time.                      *)
Flights == IF Cardinality(Lanes) < Storage THEN Cardinality(Lanes) ELSE Storage

VARIABLES
    pool,    \* the credit
    queue,   \* the payloads of a lane: bytes left to send, bytes of credit
    lease,   \* the payloads that the kernel reads, <<>> when there is no send
    conn,    \* the connection of the lane: "free", "open" or "closing"
    owed     \* history: the bytes accepted for the lane and not yet sent

vars == <<pool, queue, lease, conn, owed>>

Init ==
    /\ pool = NewPool
    /\ queue = [l \in Lanes |-> <<>>]
    /\ lease = [l \in Lanes |-> <<>>]
    /\ conn = [l \in Lanes |-> "free"]
    /\ owed = [l \in Lanes |-> 0]

Bytes(q) == Total([i \in DOMAIN q |-> q[i].left])
Cost(q) == [e |-> Len(q), r |-> Total([i \in DOMAIN q |-> q[i].size])]
Stored == Total([l \in Lanes |-> Len(queue[l])])
Sending == {l \in Lanes : lease[l] # <<>>}

(* Loads of one payload, and of a prefix with its body.                    *)
Payload(n) == [left |-> n, size |-> n]
Loads ==
    LET Load(q) == [entries |-> q, bytes |-> Bytes(q), cost |-> Cost(q)] IN
    {Load(<<Payload(n)>>) : n \in Sizes} \cup {Load(<<Payload(n), Payload(m)>>) : n, m \in Sizes}
-----------------------------------------------------------------------------
(* Producers.                                                              *)

(* A connection takes the lane.                                            *)
Open(l) ==
    /\ conn[l] = "free"
    /\ conn' = [conn EXCEPT ![l] = "open"]
    /\ UNCHANGED <<pool, queue, lease, owed>>

Published(l, q) ==
    /\ queue' = [queue EXCEPT ![l] = @ \o q.entries]
    /\ owed' = [owed EXCEPT ![l] = @ + q.bytes]

(* Queue::try_load, try_insert, try_batch and Plan::try_reserve with       *)
(* try_publish: accepted at once, or rejected without an effect.  Only     *)
(* try_right refuses a closing connection; its queue is still in reach.    *)
Enqueue(l, q) ==
    /\ conn[l] # "free"
    /\ Stored + q.cost.e <= Storage
    /\ MayAcquire(pool, l, q.cost)
    /\ pool' = Charge(pool, l, q.cost)
    /\ Published(l, q)
    /\ UNCHANGED <<lease, conn>>

(* Draft::cancel, or a reservation that is dropped: the credit comes back. *)
Abandon(l, q) ==
    /\ conn[l] # "free"
    /\ MayAcquire(pool, l, q.cost)
    /\ pool' = Release(Charge(pool, l, q.cost), l, q.cost)
    /\ UNCHANGED <<queue, lease, conn, owed>>

(* Offer::poll_reserve and Plan::poll_reserve: with credit and storage the *)
(* load is published, or the reservation dropped.                          *)
PollReserve(l, q, same) ==
    /\ conn[l] # "free"
    /\ Admissible(q.cost)
    /\ same => pool.rec[l].live
    /\ LET got == Poll(pool, l, q.cost, same) IN
       \/ /\ got.out # "granted"
          /\ pool' = got.pool
          /\ UNCHANGED <<queue, owed>>
       \/ /\ got.out = "granted" /\ Stored + q.cost.e <= Storage
          /\ pool' = got.pool
          /\ Published(l, q)
       \/ /\ got.out = "granted"
          /\ pool' = Release(got.pool, l, q.cost)
          /\ UNCHANGED <<queue, owed>>
    /\ UNCHANGED <<lease, conn>>

(* Queue::cancel_wait.                                                     *)
CancelWait(l) ==
    /\ conn[l] # "free" /\ Busy(pool, l)
    /\ pool' = Cancel(pool, l)
    /\ UNCHANGED <<queue, lease, conn, owed>>

(* The ready arena frees the key of a producer while its record stays; the *)
(* next selection of the record finds it stale.                            *)
Forget(l) ==
    /\ pool.rec[l].live
    /\ pool' = [pool EXCEPT !.rec[l].live = FALSE]
    /\ UNCHANGED <<queue, lease, conn, owed>>

(* Connections::credit_step.                                               *)
CreditStep ==
    /\ pool.pending
    /\ UNCHANGED <<queue, lease, conn, owed>>
    /\ pool' = Maintain(pool)
-----------------------------------------------------------------------------
(* Sending.                                                                *)

Prefix(l) == SubSeq(queue[l], 1, IF Len(queue[l]) < Iov THEN Len(queue[l]) ELSE Iov)

(* Sender::run: the prefix is lent to the kernel.                          *)
Submit(l) ==
    /\ conn[l] = "open"
    /\ lease[l] = <<>> /\ queue[l] # <<>>
    /\ Cardinality(Sending) < Flights
    /\ lease' = [lease EXCEPT ![l] = Prefix(l)]
    /\ UNCHANGED <<pool, queue, conn, owed>>

(* The driver refuses the submission, or the owner closes the connection.  *)
Discard(l) ==
    /\ conn[l] = "open"
    /\ conn' = [conn EXCEPT ![l] = "closing"]
    /\ UNCHANGED <<pool, queue, lease, owed>>

(* Released::consume: whole payloads leave, the next one is cut.           *)
Consume(q, n) ==
    LET k == Max({i \in 0 .. Len(q) : Bytes(SubSeq(q, 1, i)) <= n})
        rest == SubSeq(q, k + 1, Len(q))
        cut == n - Bytes(SubSeq(q, 1, k))
    IN  IF cut = 0 THEN rest ELSE [rest EXCEPT ![1].left = @ - cut]

(* Settlement::run on n bytes sent.  The credit of the payloads that leave *)
(* comes back one by one, which adds up to one release.  A connection that *)
(* was discarded in the meantime drops the lease and keeps its queue.      *)
Settle(l, n) ==
    /\ lease[l] # <<>> /\ n <= Bytes(lease[l])
    /\ lease' = [lease EXCEPT ![l] = <<>>]
    /\ IF conn[l] = "closing" THEN UNCHANGED <<pool, queue, owed>>
       ELSE LET rest == Consume(queue[l], n)
                gone == SubSeq(queue[l], 1, Len(queue[l]) - Len(rest))
            IN  /\ queue' = [queue EXCEPT ![l] = rest]
                /\ owed' = [owed EXCEPT ![l] = @ - n]
                /\ pool' = IF gone = <<>> THEN pool ELSE Release(pool, l, Cost(gone))
    /\ UNCHANGED conn

(* Settlement::run on a failure, a cancellation among them.                *)
Fail(l) ==
    /\ lease[l] # <<>>
    /\ lease' = [lease EXCEPT ![l] = <<>>]
    /\ conn' = [conn EXCEPT ![l] = "closing"]
    /\ UNCHANGED <<pool, queue, owed>>
-----------------------------------------------------------------------------
(* Closing: drain::Plan::advance, one pass over the egress.                *)

(* Mutant: clear does not wait for the send.                               *)
MayClearAlways(l) == TRUE

(* advance waits for a send, and clear does not touch what one reads.      *)
MayClear(l) == lease[l] = <<>>

(* Storage::clear: the wait ends and one payload leaves, if the turn has a *)
(* permit; an empty lane lets the connection go.                           *)
Clear(l) ==
    /\ conn[l] = "closing" /\ MayClear(l)
    /\ LET p == Cancel(pool, l) IN
       \/ /\ queue[l] = <<>>
          /\ pool' = p
          /\ conn' = [conn EXCEPT ![l] = "free"]
          /\ owed' = [owed EXCEPT ![l] = 0]
          /\ UNCHANGED queue
       \/ /\ queue[l] # <<>>
          /\ queue' = [queue EXCEPT ![l] = Tail(@)]
          /\ pool' = Release(p, l, [e |-> 1, r |-> queue[l][1].size])
          /\ owed' = [owed EXCEPT ![l] = @ - queue[l][1].left]
          /\ UNCHANGED conn
       \/ /\ queue[l] # <<>> /\ Busy(pool, l)
          /\ pool' = p
          /\ UNCHANGED <<queue, conn, owed>>
    /\ UNCHANGED lease

Next ==
    \/ CreditStep
    \/ \E l \in Lanes :
         \/ Open(l) \/ CancelWait(l) \/ Forget(l) \/ Submit(l) \/ Discard(l) \/ Fail(l) \/ Clear(l)
         \/ \E q \in Loads : Enqueue(l, q) \/ Abandon(l, q)
         \/ \E q \in Loads, same \in BOOLEAN : PollReserve(l, q, same)
         \/ \E n \in 1 .. Bytes(lease[l]) : Settle(l, n)

Spec == Init /\ [][Next]_vars

(* The pool owner runs a credit step while one is pending, a ready lane    *)
(* submits and a closing lane is drained.  A send ends, because the peer   *)
(* reads or the write deadline cancels it, and a producer that is told of  *)
(* its grant takes it, cancels it, or loses its connection.                *)
(* The first and the last conjunct are weak fairness of CreditStep and of  *)
(* Clear(l), with ENABLED written out for TLC's sake.                      *)
FairSpec ==
    /\ Spec
    /\ []<>~pool.pending \/ []<><<CreditStep>>_vars
    /\ \A l \in Lanes :
         /\ WF_vars(Submit(l))
         /\ []<>(lease[l] = <<>>)
         /\ []<>(pool.rec[l].kind # "granted")
         /\ []<>(conn[l] # "closing" \/ ~MayClear(l)) \/ []<><<Clear(l)>>_vars
-----------------------------------------------------------------------------
Granted(l) == IF pool.rec[l].kind = "granted" THEN pool.rec[l].amount ELSE Zero

(* Send credit is neither lost nor minted, whatever is queued, granted,    *)
(* abandoned, partly sent or cleared: a lane holds what its queue and its  *)
(* untaken grant cost, the pool has the rest, and the demand that a        *)
(* waiting lane is selected by is the one it has now.                      *)
CreditIsExact ==
    /\ pool.shared \in Amounts
    /\ Shared = Plus(pool.shared, [e |-> Total([l \in Lanes |-> Above(pool.held[l]).e]),
                                   r |-> Total([l \in Lanes |-> Above(pool.held[l]).r])])
    /\ \A l \in Lanes :
         /\ pool.held[l] = Plus(Cost(queue[l]), Granted(l))
         /\ l \in Waiting(pool) => pool.rec[l].demand = Demand(pool, l, pool.rec[l].amount)

(* Credit that a waiting lane could be given never lies idle: the pool     *)
(* owner parks only when the pending flag is down, and then there is       *)
(* nobody whom select would choose.                                        *)
NoIdleCredit == pool.pending \/ Waiting(pool) = {} \/ ~Selectable(pool)

(* Credit is all that a producer waits for: whoever has credit finds room  *)
(* in the store, and a lane with something to send finds a send buffer, so *)
(* neither refusal, for which nobody is woken, ever happens.               *)
CreditSuffices ==
    /\ Stored + Total([l \in Lanes |-> Granted(l).e]) + pool.shared.e <= Storage
    /\ (\E l \in Lanes \ Sending : queue[l] # <<>>) => Cardinality(Sending) < Flights

(* What the kernel reads stays where it is until the kernel is done: the   *)
(* lease of a lane is a prefix of its queue, every accepted byte is sent   *)
(* once and in order, and a lane goes to its next connection without       *)
(* payloads, credit or a wait of the last one.                             *)
SendIsOwned ==
    \A l \in Lanes :
         /\ IsPrefix(lease[l], queue[l])
         /\ owed[l] = Bytes(queue[l])
         /\ conn[l] = "free" => queue[l] = <<>> /\ pool.held[l] = Zero /\ ~Busy(pool, l)

(* Every lane that waits for credit stops waiting: what the others hold    *)
(* comes back as their sends end, are cancelled or are cleared, and the    *)
(* step that brings it back leads to a selection of the waiting lane.      *)
WaiterIsServed == \A l \in Lanes : l \in Waiting(pool) ~> l \notin Waiting(pool)
=============================================================================
