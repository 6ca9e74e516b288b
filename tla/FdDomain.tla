------------------------------ MODULE FdDomain ------------------------------
(***************************************************************************)
(* The descriptor domain of a driver (layer0/core/src/io/fd): one entry    *)
(* per slot of the native file table, with a generation, a phase and the   *)
(* lifecycle of an outbound socket; the queue of retirements; and the      *)
(* partition of the outbound slots.                                        *)
(*                                                                         *)
(* The affine handles of the program are state here: `handle' is the lease *)
(* that owns a slot, `made' the kernel half of a socket creation.  The     *)
(* kernel (or the kqueue file table, when sync) fills and empties slots:   *)
(* it may give an accepted connection a slot whose close it has carried    *)
(* out and the driver has not yet heard of.                                *)
(*                                                                         *)
(* `done' is a history of the accepted closes; no step reads it.           *)
(***************************************************************************)
EXTENDS FdPartition, SequencesExt

CONSTANT Configs

(* accept and outbound: slots of each kind; gens: the last generation;     *)
(* lens: the extents a route may reserve; sync: closes take effect at once *)
(* (kqueue) instead of being submitted (io_uring).                         *)
ASSUME ConfigAssumption ==
    Configs \subseteq [accept : Nat, outbound : Nat, routes : SUBSET Nat,
                       gens : Nat, lens : SUBSET (Nat \ {0}), sync : BOOLEAN]

VARIABLES
    config,  \* never changed
    entry,   \* the resident entry of every slot
    queue,   \* the two chains of retirements: heads, active, draining
    count,   \* Inflight
    part,    \* the partition of the outbound slots
    resv,    \* routes whose Reserved is alive
    handle,  \* none, unopened, creating, reserved or active
    made,    \* slots with a CreatedSlot
    file,    \* slots the native table holds a file in
    acc,     \* accept completions not yet delivered
    create,  \* socket creations in the kernel: the route and local index, or none
    close,   \* closes submitted: none, sent, done or failed, with their token
    closed,  \* Domain.closed
    done     \* history: the accepted closes that completed

vars == <<config, entry, queue, count, part, resv, handle, made, file, acc, create,
          close, closed, done>>
kernel == <<file, acc, create, close>>
program == <<resv, handle, made>>

AcceptSlots == 0 .. config.accept - 1
OutboundSlots == config.accept .. config.accept + config.outbound - 1
Slots == AcceptSlots \cup OutboundSlots

None == -1     \* EMPTY_LINK, or no value
Zero == -2     \* an identity word of 0
Target == -3   \* an identity word that holds a dispatch target

NoClose == [st |-> "none"]

Init ==
    /\ config \in Configs
    /\ entry = [s \in Slots |->
         [gen |-> 0, spent |-> FALSE, phase |-> "Ready", lease |-> FALSE,
          life |-> "FREE", owner |-> None, flying |-> FALSE, side |-> 0,
          sub |-> 0, word |-> Zero]]
    /\ queue = [heads |-> <<None, None>>, active |-> 1, draining |-> None]
    /\ count = 0
    /\ part = NewPartition([k \in 1 .. config.outbound |-> config.accept + k - 1], config.routes)
    /\ resv = {} /\ made = {} /\ file = {} /\ acc = {} /\ done = {}
    /\ handle = [s \in Slots |-> "none"]
    /\ create = [s \in Slots |-> <<>>]
    /\ close = [s \in Slots |-> NoClose]
    /\ closed = <<>>
-----------------------------------------------------------------------------
(* The resident store.  A store is [e, q, n, p]: the entries, the queue,   *)
(* the in-flight count and the partition; operations map stores to stores. *)

Store == [e |-> entry, q |-> queue, n |-> count, p |-> part]

Commit(d) == entry' = d.e /\ queue' = d.q /\ count' = d.n /\ part' = d.p

Status(d, s, phase, lease) ==
    [d EXCEPT !.e[s].phase = phase, !.e[s].lease = lease]

Live(d, s, life) == [d EXCEPT !.e[s].life = life]

(* Entry::advance: the last generation is spent, not followed.             *)
Advance(d, s) ==
    IF d.e[s].gen = config.gens THEN [d EXCEPT !.e[s].spent = TRUE]
    ELSE [d EXCEPT !.e[s].gen = @ + 1]

(* Entry::retired: the generation of the last owner.                       *)
RetiredGen(x) == IF x.spent THEN x.gen ELSE x.gen - 1
Epoch(x) == IF x.lease THEN x.gen ELSE RetiredGen(x)

Claimed(d, s) == Status([d EXCEPT !.e[s].word = Zero], s, "Ready", TRUE)

(* Queue::push.                                                            *)
Push(d, s) ==
    [d EXCEPT !.e[s].word = d.q.heads[d.q.active], !.q.heads[d.q.active] = s]

(* Mutant: a slot is queued although it is pending already.                *)
QueueAnyway(d, s) == Push(d, s)

(* retire::queue: while an earlier close of the slot is in flight the new  *)
(* one waits for its echo.                                                 *)
Queue(d, s) == IF d.e[s].flying THEN d ELSE Push(d, s)

(* Queue::commit: the head of the side is popped; its link is the low bits *)
(* of its identity word.                                                   *)
Pop(d, s, side) ==
    LET link == IF d.e[s].word = Zero THEN 0 ELSE d.e[s].word
    IN  [d EXCEPT !.q.heads[side] = link,
                  !.q.draining = IF link = None THEN None ELSE @]

(* settle.                                                                 *)
Settled(d, s) ==
    IF d.e[s].lease THEN Status(d, s, "Quiescent", TRUE) ELSE Status(d, s, "Ready", FALSE)

(* Release::enqueue and Release::release; the phase is the one the handle  *)
(* was dropped in.                                                         *)
ReleaseEnqueue(d, s) == Queue(Status(Advance(d, s), s, "Pending", FALSE), s)
ReleaseOnly(d, s) ==
    LET phase == d.e[s].phase
    IN  Status(Advance(d, s), s, IF phase \in {"Ready", "Quiescent"} THEN "Ready" ELSE phase, FALSE)

(* View::enqueue: the lease, if there is one, stays.                       *)
Enqueue(d, s) == Queue([d EXCEPT !.e[s].phase = "Pending"], s)

Spent(d) == {s \in OutboundSlots : d.e[s].spent}

(* Outbound::reclaim, with the lifecycles of the slots.                    *)
ReclaimRoute(d, r) ==
    LET gone == Extent(d.p, r)
    IN  [d EXCEPT !.p = Reclaim(@, r, Spent(d)),
                  !.e = [s \in Slots |->
                      IF s \notin gone THEN d.e[s]
                      ELSE [d.e[s] EXCEPT !.owner = None,
                            !.life = IF d.e[s].spent THEN "STANDALONE" ELSE "FREE"]]]

Unmapped(d, r) == {s \in Extent(d.p, r) : d.e[s].life # "MAPPED"}

(* Domain::release_slot: the slot is mapped again; the last one of a       *)
(* retired route gives the whole interval back.                            *)
ReleaseSlot(d, s) ==
    LET r == d.e[s].owner
        m == Live(d, s, "MAPPED")
        l == m.p.routes[r]
    IN  IF l.st # "retired" THEN m
        ELSE IF l.remaining > 1 THEN [m EXCEPT !.p.routes[r].remaining = @ - 1]
        ELSE ReclaimRoute(m, r)
-----------------------------------------------------------------------------
(* Reservations of outbound slots.                                         *)

(* Reserved::try_new: Outbound::try_assign.                                *)
Reserve(r, len) ==
    /\ part.routes[r].st = "none"
    /\ len <= Available(part)
    /\ LET p == Assign(part, r, len)
       IN  Commit([Store EXCEPT !.p = p,
                   !.e = [s \in Slots |-> IF s \in Extent(p, r)
                            THEN [entry[s] EXCEPT !.life = "MAPPED", !.owner = r] ELSE entry[s]]])
    /\ resv' = resv \cup {r}
    /\ UNCHANGED <<handle, made, kernel, closed, done>>

(* The Reserved is dropped: Outbound::retire.                              *)
RetireRoute(r) ==
    /\ r \in resv
    /\ resv' = resv \ {r}
    /\ LET left == Cardinality(Unmapped(Store, r))
       IN  Commit(IF left = 0 THEN ReclaimRoute(Store, r)
                  ELSE [Store EXCEPT !.p.routes[r] =
                          [st |-> "retired", start |-> @.start, len |-> @.len, remaining |-> left]])
    /\ UNCHANGED <<handle, made, kernel, closed, done>>

(* Reserved::bind: Outbound::acquire claims the slot of a local index.     *)
Acquire(r, local) ==
    /\ r \in resv
    /\ local < part.routes[r].len
    /\ LET s == LocalSlot(part, r, local) IN
       /\ ~entry[s].spent /\ entry[s].life = "MAPPED"
       /\ Commit(Live(Claimed(Store, s), s, "UNOPENED_ONE"))
       /\ handle' = [handle EXCEPT ![s] = "unopened"]
    /\ UNCHANGED <<resv, made, kernel, closed, done>>

(* Outbound::try_reserve: one standalone slot.                             *)
TryReserve ==
    /\ Available(part) > 0
    /\ LET s == part.mapping[part.allocated + 1] IN
       /\ Commit([Live(Claimed(Store, s), s, "STANDALONE") EXCEPT !.p.allocated = @ + 1])
       /\ handle' = [handle EXCEPT ![s] = "reserved"]
    /\ UNCHANGED <<resv, made, kernel, closed, done>>

FreeStandalone(d, s) == [Live(d, s, "FREE") EXCEPT !.p = ReleaseOne(@, s)]

(* install::slot::Reserved is dropped, or its descriptor is installed.     *)
CancelReserved(s) ==
    /\ handle[s] = "reserved"
    /\ Commit(FreeStandalone(Status(Store, s, "Ready", FALSE), s))
    /\ handle' = [handle EXCEPT ![s] = "none"]
    /\ UNCHANGED <<resv, made, kernel, closed, done>>

Install(s) ==
    /\ handle[s] = "reserved"
    /\ handle' = [handle EXCEPT ![s] = "active"]
    /\ file' = file \cup {s}
    /\ UNCHANGED <<entry, queue, count, part, resv, made, acc, create, close, closed, done>>
-----------------------------------------------------------------------------
(* Creation of an outbound socket.                                         *)

LocalOf(s) ==
    LET r == entry[s].owner
    IN  CHOOSE k \in 0 .. part.routes[r].len - 1 : LocalSlot(part, r, k) = s

(* SocketSlot::begin; the kernel's answer names the route and the index.   *)
Begin(s) ==
    /\ handle[s] = "unopened"
    /\ Commit(Live(Store, s, "CREATING_ONE"))
    /\ handle' = [handle EXCEPT ![s] = "creating"]
    /\ create' = [create EXCEPT ![s] = <<entry[s].owner, LocalOf(s)>>]
    /\ UNCHANGED <<resv, made, file, acc, close, closed, done>>

(* The creation completed: Outbound::created or Outbound::failed on the    *)
(* slot that the route now has at that index.  While the run is being torn *)
(* down (drop_socket) the created half is discarded at once; that is the   *)
(* same as Discard in the next step.                                       *)
CompleteCreate(s, ok) ==
    /\ create[s] # <<>>
    /\ create' = [create EXCEPT ![s] = <<>>]
    /\ LET t == LocalSlot(part, create[s][1], create[s][2])
           wanted == entry[t].life = "CREATING_ONE"
       IN  /\ Commit(CASE ok /\ wanted -> Live(Store, t, "OPEN_TWO")
                       [] ok /\ ~wanted -> Enqueue(Live(Store, t, "CLOSING_ZERO"), t)
                       [] ~ok /\ wanted -> Live(Store, t, "FAILED_ONE")
                       [] OTHER -> ReleaseSlot(Store, t))
           /\ made' = IF ok /\ wanted THEN made \cup {t} ELSE made
    /\ file' = IF ok THEN file \cup {s} ELSE file
    /\ UNCHANGED <<resv, handle, acc, close, closed, done>>

(* Join::activate.                                                         *)
Activate(s) ==
    /\ handle[s] = "creating" /\ s \in made
    /\ Commit(Live(Store, s, "OPEN_ONE"))
    /\ handle' = [handle EXCEPT ![s] = "active"]
    /\ made' = made \ {s}
    /\ UNCHANGED <<resv, kernel, closed, done>>

(* The CreatedSlot is dropped: View::discard.                              *)
Discard(s) ==
    /\ s \in made
    /\ made' = made \ {s}
    /\ Commit(CASE entry[s].life = "OPEN_TWO" -> Enqueue(Live(Store, s, "CLOSING_ONE"), s)
                [] entry[s].life = "CLOSING_ONE" -> Live(Store, s, "CLOSING_ZERO")
                [] OTHER -> ReleaseSlot(Store, s))
    /\ UNCHANGED <<resv, handle, kernel, closed, done>>

(* The lease of a slot is dropped before or during the creation:           *)
(* View::unopened and View::creating.                                      *)
DropCreating(s) ==
    /\ handle[s] \in {"unopened", "creating"}
    /\ handle' = [handle EXCEPT ![s] = "none"]
    /\ LET life == entry[s].life
           released == ReleaseOnly(Store, s)
       IN  Commit(CASE life = "CREATING_ONE" -> Live(released, s, "CREATING_ZERO")
                    [] life = "OPEN_TWO" -> ReleaseEnqueue(Live(Store, s, "CLOSING_ONE"), s)
                    [] life = "CLOSING_ONE" -> Live(released, s, "CLOSING_ZERO")
                    [] OTHER -> ReleaseSlot(released, s))
    /\ UNCHANGED <<resv, made, kernel, closed, done>>
-----------------------------------------------------------------------------
(* Descriptors.                                                            *)

(* The Descriptor is dropped: View::retire.                                *)
Drop(s) ==
    /\ handle[s] = "active"
    /\ handle' = [handle EXCEPT ![s] = "none"]
    /\ Commit(ReleaseEnqueue(IF entry[s].owner # None THEN Live(Store, s, "CLOSING_ZERO")
                             ELSE Store, s))
    /\ UNCHANGED <<resv, made, kernel, closed, done>>

(* Store::resolve.                                                         *)
Resolves(s, gen) ==
    entry[s].gen = gen /\ entry[s].phase = "Ready" /\ entry[s].lease

(* ready::Handle::set_target: a handle is a copy of an identity and may    *)
(* outlive its descriptor.                                                 *)
SetTarget(s, gen) ==
    /\ Resolves(s, gen)
    /\ Commit([Store EXCEPT !.e[s].word = Target])
    /\ UNCHANGED <<program, kernel, closed, done>>

(* The kernel accepts a connection into any empty accept slot.             *)
KernelAccept(s) ==
    /\ s \in AcceptSlots \ file
    /\ file' = file \cup {s}
    /\ acc' = acc \cup {s}
    /\ UNCHANGED <<entry, queue, count, part, program, create, close, closed, done>>

CanClaim(x) == ~x.lease /\ ~x.spent /\ x.phase \in {"Ready", "InFlight"}

(* View::abandon: a slot whose generations are spent stays occupied.       *)
Abandoned(d, s) ==
    IF d.e[s].spent THEN Status(d, s, "Quiescent", FALSE) ELSE ReleaseEnqueue(d, s)

(* The accept completion: Accepted::bind claims the slot, or gives it up;  *)
(* while the run is being torn down it is always given up (drop_accept).   *)
Accepted(s, wanted) ==
    /\ s \in acc
    /\ acc' = acc \ {s}
    /\ IF wanted /\ CanClaim(entry[s])
       THEN /\ Commit(Claimed(Store, s))
            /\ handle' = [handle EXCEPT ![s] = "active"]
       ELSE Commit(Abandoned(Store, s)) /\ UNCHANGED handle
    /\ UNCHANGED <<resv, made, file, create, close, closed, done>>
-----------------------------------------------------------------------------
(* Retirement.                                                             *)

(* View::pending: Queue::front starts to drain the active chain, and later *)
(* retirements go to the other one.                                        *)
Side(q) == IF q.draining = None THEN q.active ELSE q.draining
HeadOf(q) == q.heads[Side(q)]
HasPending == HeadOf(queue) # None /\ entry[HeadOf(queue)].phase = "Pending"
Fronted(d) ==
    IF d.q.draining = None
    THEN [d EXCEPT !.q.draining = d.q.active, !.q.active = 3 - @] ELSE d

(* View::has_pending: a look at the queue is no more than that to its      *)
(* caller, but it too starts to drain the chain it finds.                  *)
Peek ==
    /\ HeadOf(queue) # None
    /\ Commit(Fronted(Store))
    /\ UNCHANGED <<program, kernel, closed, done>>

Standalone(s) == s \in OutboundSlots /\ entry[s].owner = None

(* Resolver::retire_one on io_uring: the close is submitted.               *)
Submit ==
    /\ ~config.sync /\ HasPending
    /\ LET s == HeadOf(queue)
           side == Side(queue)
           gen == Epoch(entry[s])
           d == Pop(Fronted(Store), s, side)
       IN  /\ Commit([d EXCEPT !.n = @ + 1, !.e[s].sub = gen, !.e[s].flying = TRUE,
                               !.e[s].side = side, !.e[s].phase = "InFlight"])
           /\ close' = [close EXCEPT ![s] = [st |-> "sent", gen |-> gen, side |-> side,
                                             standalone |-> Standalone(s)]]
    /\ UNCHANGED <<program, file, acc, create, closed, done>>

(* Closures::complete.                                                     *)
CloseDone(d, s) ==
    IF d.e[s].owner = None THEN d
    ELSE IF d.e[s].life = "CLOSING_ZERO" THEN ReleaseSlot(d, s)
    ELSE Live(d, s, "CLOSED_ONE")

Reuse(d, s) == IF d.e[s].spent THEN d ELSE FreeStandalone(d, s)

(* ... on kqueue: the file table closes it and View::commit settles it.    *)
CloseNow ==
    /\ config.sync /\ HasPending
    /\ LET s == HeadOf(queue)
           d == Settled(Pop(Fronted(Store), s, Side(queue)), s)
       IN  /\ Commit(IF Standalone(s) THEN Reuse(d, s) ELSE CloseDone(d, s))
           /\ file' = file \ {s}
    /\ UNCHANGED <<program, acc, create, close, closed, done>>

(* The kernel carries the close out, or it fails.                          *)
KernelClose(s, ok) ==
    /\ close[s].st = "sent"
    /\ ok => s \in file
    /\ close' = [close EXCEPT ![s].st = IF ok THEN "done" ELSE "failed"]
    /\ file' = IF ok THEN file \ {s} ELSE file
    /\ UNCHANGED <<entry, queue, count, part, program, acc, create, closed, done>>

(* View::bind: the echo names the retirement in flight, of the same class. *)
Binds(s) ==
    /\ entry[s].flying
    /\ entry[s].side = close[s].side /\ entry[s].sub = close[s].gen
    /\ Standalone(s) = close[s].standalone

(* consume and promote, with what happens in between.                      *)
Consume(d, s) == [d EXCEPT !.e[s].flying = FALSE, !.n = @ - 1]
Promote(d, s) == IF d.e[s].phase = "Pending" THEN Queue(d, s) ELSE d

(* Mutant: the generation of a handle is not compared.                     *)
IsCurrentAnyway(x, gen) == TRUE

IsCurrent(x, gen) == x.phase = "InFlight" /\ Epoch(x) = gen

(* Echo::complete.                                                         *)
EchoComplete(s) ==
    /\ close[s].st = "done" /\ Binds(s)
    /\ close' = [close EXCEPT ![s] = NoClose]
    /\ LET d == Consume(Store, s)
           current == IsCurrent(d.e[s], close[s].gen)
           finished == Promote(IF current THEN Settled(d, s) ELSE d, s)
           accepted == s \in AcceptSlots
       IN  /\ Commit(IF close[s].standalone THEN Reuse(Settled(d, s), s)
                     ELSE IF accepted THEN finished ELSE CloseDone(finished, s))
           /\ closed' = IF accepted THEN <<s, close[s].gen, close[s].side>> ELSE closed
           /\ done' = IF accepted THEN done \cup {<<s, close[s].gen>>} ELSE done
    /\ UNCHANGED <<program, file, acc, create>>

(* Echo::retry: the close is queued again, unless the slot has moved on.   *)
EchoRetry(s) ==
    /\ close[s].st = "failed" /\ Binds(s)
    /\ close' = [close EXCEPT ![s] = NoClose]
    /\ LET d == Consume(Store, s)
           current == IsCurrent(d.e[s], close[s].gen)
       IN  Commit(Promote(IF current THEN [d EXCEPT !.e[s].phase = "Pending"] ELSE d, s))
    /\ UNCHANGED <<program, file, acc, create, closed, done>>

Next ==
    /\ \/ Peek \/ Submit \/ CloseNow \/ TryReserve
       \/ \E r \in config.routes :
            \/ RetireRoute(r)
            \/ \E n \in config.lens : Reserve(r, n)
            \/ \E k \in 0 .. config.outbound - 1 : Acquire(r, k)
       \/ \E s \in Slots :
            \/ CancelReserved(s) \/ Install(s) \/ Begin(s) \/ Activate(s)
            \/ Discard(s) \/ DropCreating(s) \/ Drop(s) \/ KernelAccept(s)
            \/ EchoComplete(s) \/ EchoRetry(s)
            \/ \E b \in BOOLEAN : CompleteCreate(s, b) \/ Accepted(s, b) \/ KernelClose(s, b)
            \/ \E g \in 0 .. config.gens : SetTarget(s, g)
    /\ UNCHANGED config

Spec == Init /\ [][Next]_vars
-----------------------------------------------------------------------------
Lives == {"FREE", "STANDALONE", "MAPPED", "UNOPENED_ONE", "CREATING_ONE", "CREATING_ZERO",
          "OPEN_ONE", "OPEN_TWO", "FAILED_ONE", "CLOSING_ZERO", "CLOSING_ONE", "CLOSED_ONE"}

(* The types of the variables; part of PartitionIsExact.                   *)
TypeOK ==
    /\ config \in Configs
    /\ entry \in [Slots -> [gen : 0 .. config.gens, spent : BOOLEAN,
                            phase : {"Ready", "Pending", "InFlight", "Quiescent"},
                            lease : BOOLEAN, life : Lives, owner : config.routes \cup {None},
                            flying : BOOLEAN, side : 0 .. 2, sub : 0 .. config.gens,
                            word : Slots \cup {None, Zero, Target}]]
    /\ queue.heads \in [1 .. 2 -> Slots \cup {None}]
    /\ queue.active \in 1 .. 2 /\ queue.draining \in {1, 2, None}
    /\ count \in 0 .. Cardinality(Slots)
    /\ part.mapped \in 0 .. part.allocated /\ part.allocated \in 0 .. config.outbound
    /\ resv \subseteq config.routes
    /\ handle \in [Slots -> {"none", "unopened", "creating", "reserved", "active"}]
    /\ made \subseteq OutboundSlots /\ file \subseteq Slots /\ acc \subseteq AcceptSlots

(* A list of slots from a head through the identity words to its end.      *)
IsChain(c, side) ==
    /\ queue.heads[side] = IF c = <<>> THEN None ELSE c[1]
    /\ \A i \in DOMAIN c : entry[c[i]].word = IF i < Len(c) THEN c[i + 1] ELSE None

(* Every retirement is queued once or in flight once.  The two chains hold *)
(* exactly the pending slots that are not waiting for an earlier echo, the *)
(* links survive whatever else is written to the identity words, and the   *)
(* driver sees the chains as long as they are not empty; the echo of every *)
(* close in flight finds its retirement, and an accepted close is never    *)
(* reported under an identity that completed before (Completed).           *)
RetirementsAreExact ==
    /\ \E a, b \in BoundedSeq(Slots, Cardinality(Slots)) :
         /\ IsChain(a, 1) /\ IsChain(b, 2)
         /\ IsInjective(a \o b)
         /\ ToSet(a \o b) = {s \in Slots : entry[s].phase = "Pending" /\ ~entry[s].flying}
         /\ HasPending <=> a \o b # <<>>
    /\ count = Cardinality({s \in Slots : entry[s].flying})
    /\ \A s \in Slots : IF close[s].st = "none" THEN ~entry[s].flying ELSE Binds(s)
    /\ \A s \in AcceptSlots : close[s].st # "none" => <<s, close[s].gen>> \notin done

(* No descriptor is closed under its owner and none is leaked: a slot that *)
(* a live descriptor names holds a file and no close of it is queued or    *)
(* under way, and a slot that holds a file has an owner, an undelivered    *)
(* completion, a close that will empty it, or is quarantined.              *)
FilesAreOwned ==
    \A s \in Slots :
        /\ handle[s] = "active" \/ s \in acc =>
             /\ s \in file
             /\ close[s].st \in {"none", "done"}
             /\ handle[s] = "active" => entry[s].lease /\ entry[s].phase = "Ready"
        /\ s \in file =>
             \/ handle[s] = "active" \/ s \in made \/ s \in acc
             \/ entry[s].phase = "Pending"
             \/ close[s].st \in {"sent", "failed"}
             \/ s \in AcceptSlots /\ entry[s].spent /\ entry[s].phase = "Quiescent"

(* The partition is exact: the routes tile the mapped prefix without       *)
(* overlap and own exactly the slots of their intervals, the free suffix   *)
(* holds exactly the free slots, each reusable, the rest are standalone;   *)
(* a retired route waits for exactly its unmapped slots, and a creation in *)
(* the kernel still finds its slot by route and index.                     *)
PartitionIsExact ==
    LET Leased == {r \in config.routes : part.routes[r].st # "none"}
        Free == SubSeq(part.mapping, part.allocated + 1, Len(part.mapping))
        Of(life) == {s \in OutboundSlots : entry[s].life = life}
        Places(r) == part.routes[r].start + 1 .. part.routes[r].start + part.routes[r].len
    IN
    /\ TypeOK
    /\ UNION {Places(r) : r \in Leased} = 1 .. part.mapped
    /\ \A r, q \in Leased : r # q => Places(r) \cap Places(q) = {}
    /\ \A r \in config.routes : Extent(part, r) = {s \in OutboundSlots : entry[s].owner = r}
    /\ ToSet(Free) = Of("FREE") /\ IsInjective(Free)
    /\ \A s \in Of("FREE") : /\ entry[s].phase = "Ready" /\ ~entry[s].lease /\ ~entry[s].spent
                             /\ s \notin file /\ ~entry[s].flying
    /\ part.allocated - part.mapped = Cardinality(Of("STANDALONE"))
    /\ \A r \in Leased : part.routes[r].st = "retired" =>
         part.routes[r].remaining = Cardinality(Unmapped(Store, r))
    /\ \A s \in Slots : create[s] # <<>> => LocalSlot(part, create[s][1], create[s][2]) = s
=============================================================================
