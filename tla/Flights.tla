------------------------------- MODULE Flights ------------------------------
(***************************************************************************)
(* The flight arena of layer0/core (driver/retained/flight/storage):       *)
(* reusable slots for operations that the kernel completes with an echo of *)
(* the slot's index and generation.                                        *)
(*                                                                         *)
(* An entry's state is three flag bits and a generation; who may touch it  *)
(* is a matter of affine Rust handles (Vacant, Reserved, Lease, Complete). *)
(* The model keeps both, and says with ghost generations which occupancy a *)
(* handle was obtained for.  The kernel is unconstrained: any echo may     *)
(* arrive at any time, late or twice.                                      *)
(*                                                                         *)
(* The intrusive free list of a group is its set of members: nothing       *)
(* depends on the order in which vacancies are handed out.                 *)
(***************************************************************************)
EXTENDS Integers, FiniteSets, Sequences

CONSTANTS
  IndexLimit,     \* index_limit::<INDEX_BITS>(): directory entries at most
  GenerationMax,  \* generation_max::<GENERATION_BITS>()
  MaxGroups,      \* bound: groups published
  Capacities,     \* bound: capacities that a batch may ask for
  MaxBatch        \* bound: groups in one batch (GROUPS)

ASSUME LimitAssumption == /\ IndexLimit \in Nat
                          /\ GenerationMax \in Nat \ {0}
ASSUME BoundAssumption == /\ MaxGroups \in Nat
                          /\ Capacities \subseteq Nat
                          /\ MaxBatch \in Nat

Index == 0..(IndexLimit - 1)
Generation == 1..GenerationMax
Group == 1..MaxGroups
Echo == Index \X Generation

\* The flag bits of an entry's word.
ATTACHED == "A"
PENDING == "P"
BOUND == "B"
FLAGS == {ATTACHED, PENDING, BOUND}
RETIRED == {ATTACHED, BOUND}

VARIABLES
  \* memory of the arena
  size,       \* directory.len()
  groups,     \* groups on the list
  group,      \* the group of a directory entry; 0 above size
  flags,      \* the low bits of the entry's word
  generation, \* the entry's generation
  free,       \* the group's vacant-entry chain
  leased,     \* LEASED of Header.admission
  empty,      \* EMPTY of Header.admission
  admission,  \* the count in Header.admission
  \* the handles the program holds
  held,       \* "none", or the kind of handle that owns the entry
  owner,      \* ghost: the generation that handle was obtained for, or 0
  loan,       \* ghost: the generation a Complete was bound to, or 0
  issued,     \* ghost: every echo a Reserved has exposed
  \* operations of more than one step
  batch,      \* the preparation in progress (try_batch, Prepared)
  sweep       \* Flights::finish: the entries still to visit, as a bound

arenaVars == <<size, groups, group, flags, generation, free, leased, empty,
               admission>>
handleVars == <<held, owner, loan, issued>>
vars == <<arenaVars, handleVars, batch, sweep>>

\* One group of a batch: reused (Preparation::Reuse) or to be published
\* (Preparation::New).
Plan == [reuse : Group \cup {0}, seed : Nat, extent : Nat, capacity : Nat]

Stage == {"idle", "selecting", "prepared", "publishing"}

TypeOK ==
  /\ size \in 0..IndexLimit
  /\ groups \in 0..MaxGroups
  /\ group \in [Index -> 0..MaxGroups]
  /\ flags \in [Index -> SUBSET FLAGS]
  /\ generation \in [Index -> Generation]
  /\ free \in [Group -> SUBSET Index]
  /\ leased \in [Group -> BOOLEAN]
  /\ empty \in [Group -> BOOLEAN]
  /\ admission \in [Group -> Int]
  /\ held \in [Index -> {"none", "vacant", "reserved", "lease"}]
  /\ owner \in [Index -> 0..GenerationMax]
  /\ loan \in [Index -> 0..GenerationMax]
  /\ issued \subseteq Echo
  /\ batch \in [stage : Stage, todo : Seq(Nat), plan : Seq(Plan),
                rest : Nat, end : Nat, fits : BOOLEAN, failed : BOOLEAN]
  /\ sweep \in 0..IndexLimit

Idle == [stage |-> "idle", todo |-> <<>>, plan |-> <<>>, rest |-> 0,
         end |-> 0, fits |-> FALSE, failed |-> FALSE]

Init ==
  /\ size = 0 /\ groups = 0
  /\ group = [i \in Index |-> 0]
  /\ flags = [i \in Index |-> {}]
  /\ generation = [i \in Index |-> 1]
  /\ free = [g \in Group |-> {}]
  /\ leased = [g \in Group |-> FALSE]
  /\ empty = [g \in Group |-> FALSE]
  /\ admission = [g \in Group |-> 0]
  /\ held = [i \in Index |-> "none"]
  /\ owner = [i \in Index |-> 0]
  /\ loan = [i \in Index |-> 0]
  /\ issued = {}
  /\ batch = Idle
  /\ sweep = 0

\* try_batch, Prepared::groups and Flights::finish run to their end; only a
\* batch that is prepared and not yet published lets the program go on.
Calm == batch.stage \in {"idle", "prepared"} /\ sweep = 0

Planned == {batch.plan[k].reuse : k \in 1..Len(batch.plan)} \ {0}

-----------------------------------------------------------------------------
(* One entry.                                                              *)

\* Vacant::release: the entry goes back on its group's chain.
Push(i) == free' = [free EXCEPT ![group[i]] = @ \cup {i}]

\* Mutant: the generation limit is not checked.
RenewableForever(n) == TRUE

\* Its successor is still within generation_max.
Renewable(n) == n + 1 <= GenerationMax

\* Mutant: a recycled entry keeps its generation.
SameGeneration(n) == n

\* The generation after n.
NextGeneration(n) == n + 1

\* A retired identity leaves the group's count.
Unadmit(i) == admission' = [admission EXCEPT ![group[i]] = @ - 1]

\* Live::recycle: a new generation and back on the chain, or retirement of
\* the slot once its generations are used up.
Recycle(i) ==
  \/ /\ Renewable(generation[i])
     /\ generation' = [generation EXCEPT ![i] = NextGeneration(@)]
     /\ flags' = [flags EXCEPT ![i] = {}]
     /\ Push(i)
     /\ UNCHANGED admission
  \/ /\ ~Renewable(generation[i])
     /\ flags' = [flags EXCEPT ![i] = RETIRED]
     /\ Unadmit(i)
     /\ UNCHANGED <<generation, free>>

\* The entry stays as it is but for its flags.
SetFlags(i, f) ==
  /\ flags' = [flags EXCEPT ![i] = f]
  /\ UNCHANGED <<generation, free, admission>>

entryFrame == UNCHANGED <<size, groups, group, leased, empty, batch>>

-----------------------------------------------------------------------------
(* Handles.                                                                *)

\* Slots::try_vacancy.  With an empty chain it fails and changes nothing:
\* Full while admission is not zero, IdentityExhausted otherwise.
TryVacancy(i) ==
  /\ Calm
  /\ group[i] # 0 /\ leased[group[i]] /\ group[i] \notin Planned
  /\ i \in free[group[i]]
  /\ free' = [free EXCEPT ![group[i]] = @ \ {i}]
  /\ held' = [held EXCEPT ![i] = "vacant"]
  /\ entryFrame
  /\ UNCHANGED <<flags, generation, admission, owner, loan, issued, sweep>>

DropVacant(i) ==
  /\ Calm
  /\ held[i] = "vacant"
  /\ Push(i)
  /\ held' = [held EXCEPT ![i] = "none"]
  /\ entryFrame
  /\ UNCHANGED <<flags, generation, admission, owner, loan, issued, sweep>>

\* Vacant::reserve: the entry is occupied, and its echo may be exposed.
Reserve(i) ==
  /\ Calm
  /\ held[i] = "vacant"
  /\ SetFlags(i, {ATTACHED, PENDING})
  /\ held' = [held EXCEPT ![i] = "reserved"]
  /\ owner' = [owner EXCEPT ![i] = generation[i]]
  /\ issued' = issued \cup {<<i, generation[i]>>}
  /\ entryFrame
  /\ UNCHANGED <<loan, sweep>>

\* Reserved::commit, after the submission to the kernel.
Commit(i) ==
  /\ Calm
  /\ held[i] = "reserved"
  /\ held' = [held EXCEPT ![i] = "lease"]
  /\ entryFrame
  /\ UNCHANGED <<flags, generation, free, admission, owner, loan, issued,
                 sweep>>

Disown(i) ==
  /\ held' = [held EXCEPT ![i] = "none"]
  /\ owner' = [owner EXCEPT ![i] = 0]
  /\ entryFrame
  /\ UNCHANGED <<loan, issued, sweep>>

\* Mutant: release does not wait for a completion on loan.
ReleaseIgnoringLoan(i) == Recycle(i)

\* Live::release.
Release(i) ==
  \/ /\ BOUND \in flags[i]
     /\ SetFlags(i, flags[i] \ {ATTACHED, PENDING})
  \/ /\ BOUND \notin flags[i]
     /\ Recycle(i)

\* Drop of a Reserved: nothing reached the kernel.
DropReserved(i) ==
  /\ Calm
  /\ held[i] = "reserved"
  /\ Release(i)
  /\ Disown(i)

\* Mutant: a dropped lease recycles an entry the kernel still owns.
DetachEarly(i) ==
  \/ /\ BOUND \notin flags[i]
     /\ Recycle(i)
  \/ /\ BOUND \in flags[i]
     /\ SetFlags(i, flags[i] \ {ATTACHED})

\* Live::detach: the last holder recycles the entry.
Detach(i) ==
  \/ /\ flags[i] = {ATTACHED}
     /\ Recycle(i)
  \/ /\ flags[i] # {ATTACHED}
     /\ SetFlags(i, flags[i] \ {ATTACHED})

\* Drop of a Lease: the slot outlives it until the completion arrives.
DropLease(i) ==
  /\ Calm
  /\ held[i] = "lease"
  /\ Detach(i)
  /\ Disown(i)

-----------------------------------------------------------------------------
(* Completions.                                                            *)

\* State::bind: an echo finds its entry while the occupancy it names still
\* waits for the kernel and no other completion of it is being applied.
Bindable(i, n) ==
  /\ i < size
  /\ PENDING \in flags[i] /\ BOUND \notin flags[i]
  /\ generation[i] = n

\* Drain::bind on an echo from the kernel.
Bind(i, n) ==
  /\ Calm
  /\ Bindable(i, n)
  /\ SetFlags(i, flags[i] \cup {BOUND})
  /\ loan' = [loan EXCEPT ![i] = n]
  /\ entryFrame
  /\ UNCHANGED <<held, owner, issued, sweep>>

\* Bound::finish.
FinishBound(i) ==
  \/ /\ ATTACHED \notin flags[i]
     /\ Recycle(i)
  \/ /\ ATTACHED \in flags[i]
     /\ SetFlags(i, flags[i] \ {PENDING, BOUND})

\* Complete::finish, complete and settle(Last).
Finish(i) ==
  /\ Calm
  /\ loan[i] # 0
  /\ FinishBound(i)
  /\ loan' = [loan EXCEPT ![i] = 0]
  /\ entryFrame
  /\ UNCHANGED <<held, owner, issued, sweep>>

\* Bound::retain.
RetainBound(i) ==
  \/ /\ PENDING \notin flags[i]
     /\ Recycle(i)
  \/ /\ PENDING \in flags[i]
     /\ SetFlags(i, flags[i] \ {BOUND})

\* settle(More), or a Complete that is dropped.
Retain(i) ==
  /\ Calm
  /\ loan[i] # 0
  /\ RetainBound(i)
  /\ loan' = [loan EXCEPT ![i] = 0]
  /\ entryFrame
  /\ UNCHANGED <<held, owner, issued, sweep>>

\* Flights::finish visits every entry in order (State::finish).
Sweep ==
  /\ Calm /\ batch.stage = "idle" /\ size # 0
  /\ sweep' = size
  /\ entryFrame
  /\ UNCHANGED <<flags, generation, free, admission, handleVars>>

SweepNext(i) ==
  /\ sweep # 0 /\ i = size - sweep
  /\ \/ /\ Bindable(i, generation[i])
        /\ FinishBound(i)
     \/ /\ ~Bindable(i, generation[i])
        /\ SetFlags(i, flags[i])
  /\ sweep' = sweep - 1
  /\ entryFrame
  /\ UNCHANGED handleVars

-----------------------------------------------------------------------------
(* Preparation of groups.                                                  *)

batchFrame == UNCHANGED <<flags, generation, handleVars, sweep>>

\* The capacities of a batch, summed.
Total(caps) ==
  LET sum[k \in 0..Len(caps)] == IF k = 0 THEN 0 ELSE sum[k - 1] + caps[k]
  IN  sum[Len(caps)]

\* try_batch starts.  MaxGroups bounds the model, not the code.
Batch(caps) ==
  /\ Calm /\ batch.stage = "idle"
  /\ groups + Len(caps) <= MaxGroups
  /\ batch' = [stage |-> "selecting", todo |-> caps, plan |-> <<>>,
               rest |-> Total(caps), end |-> size,
               fits |-> size + Total(caps) <= IndexLimit, failed |-> FALSE]
  /\ batchFrame
  /\ UNCHANGED <<size, groups, group, free, leased, empty, admission>>

\* The entries of a group that are neither occupied nor retired.
Vacancies(g) == {i \in Index : group[i] = g /\ flags[i] = {}}

\* Mutant: a group is reused while entries of it are out.
ReusableWhenUnleased(g, c) ==
  g <= groups /\ ~leased[g] /\ Cardinality(Vacancies(g)) >= c

\* Header::select: nobody leases the group and nothing of it is in flight.
Reusable(g, c) ==
  /\ g <= groups /\ ~leased[g]
  /\ \A i \in Index : group[i] = g => flags[i] \in {{}, RETIRED}
  /\ Cardinality(Vacancies(g)) >= c

\* The groups with the fewest vacancies that are enough.
BestFit(c) ==
  {g \in Group : /\ Reusable(g, c)
                 /\ \A h \in Group : Reusable(h, c) =>
                      Cardinality(Vacancies(g)) <= Cardinality(Vacancies(h))}

\* Header::activate: a lease on the c highest vacant entries of a group.
Activate(g, c, vacancies) ==
  \E top \in SUBSET vacancies :
    /\ Cardinality(top) = c
    /\ \A i \in top, j \in vacancies \ top : j < i
    /\ free' = [free EXCEPT ![g] = top]
    /\ leased' = [leased EXCEPT ![g] = TRUE]
    /\ empty' = [empty EXCEPT ![g] = (c = 0)]
    /\ admission' = [admission EXCEPT ![g] = c]

NextOf(p) == [batch EXCEPT !.todo = Tail(@), !.plan = Append(@, p),
                           !.rest = @ - Head(batch.todo)]

SelectReuse(g) ==
  /\ batch.stage = "selecting" /\ batch.todo # <<>>
  /\ g \in BestFit(Head(batch.todo))
  /\ Activate(g, Head(batch.todo), Vacancies(g))
  /\ batch' = NextOf([reuse |-> g, seed |-> 0, extent |-> 0,
                      capacity |-> Head(batch.todo)])
  /\ batchFrame
  /\ UNCHANGED <<size, groups, group>>

IsPowerOfTwo(n) == \E k \in 0..n : n = 2^k

\* Mutant: the extent leaves no room for the rest of the batch.
ExtentIgnoringRest(c, room, rest) ==
  LET up == {n \in c..room : IsPowerOfTwo(n)} IN
    IF c # 0 /\ up # {} THEN {n \in up : \A m \in up : n <= m} ELSE {c}

\* Flights::seed rounds a capacity up to a power of two, within the room
\* that the rest of the batch leaves.
Extent(c, room, rest) ==
  LET up == {n \in c..(room - rest) : IsPowerOfTwo(n)} IN
    IF c # 0 /\ up # {} THEN {n \in up : \A m \in up : n <= m} ELSE {c}

\* Mutant: the end counts the capacity asked for, not the extent.
EndWithoutRounding(end, extent, c) == end + c

\* The directory index after a new group.
EndAfter(end, extent, c) == end + extent

SelectNew ==
  /\ batch.stage = "selecting" /\ batch.todo # <<>>
  /\ LET c == Head(batch.todo) IN
       /\ BestFit(c) = {}
       /\ batch.end + c <= IndexLimit
       /\ \E extent \in Extent(c, IndexLimit - batch.end, batch.rest - c) :
            batch' = [NextOf([reuse |-> 0, seed |-> batch.end,
                              extent |-> extent, capacity |-> c])
                        EXCEPT !.end = EndAfter(@, extent, c)]
  /\ batchFrame
  /\ UNCHANGED <<size, groups, group, free, leased, empty, admission>>

\* Drop of the Slots that a batch has selected so far.
ReleasePlanned == leased' = [g \in Group |-> leased[g] /\ g \notin Planned]

\* seed finds no room: try_batch returns Overflow.
SelectOverflows ==
  /\ batch.stage = "selecting" /\ batch.todo # <<>>
  /\ BestFit(Head(batch.todo)) = {}
  /\ batch.end + Head(batch.todo) > IndexLimit
  /\ batch' = [Idle EXCEPT !.failed = TRUE, !.fits = batch.fits]
  /\ ReleasePlanned
  /\ batchFrame
  /\ UNCHANGED <<size, groups, group, free, empty, admission>>

\* An allocation fails, or the Prepared is dropped.
Abandon ==
  /\ batch.stage \in {"selecting", "prepared"}
  /\ batch' = Idle
  /\ ReleasePlanned
  /\ batchFrame
  /\ UNCHANGED <<size, groups, group, free, empty, admission>>

\* try_batch returns the Prepared; Prepared::groups takes it.
Prepare ==
  /\ batch.stage = "selecting" /\ batch.todo = <<>>
  /\ batch' = [batch EXCEPT !.stage = "prepared"]
  /\ batchFrame
  /\ UNCHANGED <<size, groups, group, free, leased, empty, admission>>

Groups ==
  /\ batch.stage = "prepared"
  /\ batch' = [batch EXCEPT !.stage = "publishing"]
  /\ batchFrame
  /\ UNCHANGED <<size, groups, group, free, leased, empty, admission>>

Published == [batch EXCEPT !.plan = Tail(@)]

\* Flights::publish: the block joins the list and the directory.
PublishNew ==
  /\ batch.stage = "publishing" /\ batch.plan # <<>>
  /\ LET p == Head(batch.plan)
         block == {i \in Index : size <= i /\ i < size + p.extent} IN
       /\ p.reuse = 0
       /\ groups' = groups + 1
       /\ size' = size + p.extent
       /\ group' = [i \in Index |-> IF i \in block THEN groups + 1 ELSE group[i]]
       /\ Activate(groups + 1, p.capacity, block)
  /\ batch' = Published
  /\ batchFrame

PublishReuse ==
  /\ batch.stage = "publishing" /\ batch.plan # <<>>
  /\ Head(batch.plan).reuse # 0
  /\ batch' = Published
  /\ batchFrame
  /\ UNCHANGED <<size, groups, group, free, leased, empty, admission>>

PublishDone ==
  /\ batch.stage = "publishing" /\ batch.plan = <<>>
  /\ batch' = Idle
  /\ batchFrame
  /\ UNCHANGED <<size, groups, group, free, leased, empty, admission>>

\* Drop of a Slots.  A Vacant borrows it, so none is held.
DropSlots(g) ==
  /\ Calm
  /\ leased[g] /\ g \notin Planned
  /\ \A i \in Index : group[i] = g => held[i] # "vacant"
  /\ leased' = [leased EXCEPT ![g] = FALSE]
  /\ batchFrame
  /\ UNCHANGED <<size, groups, group, free, empty, admission, batch>>

EntryNext(i) ==
  \/ TryVacancy(i) \/ DropVacant(i) \/ Reserve(i) \/ Commit(i)
  \/ DropReserved(i) \/ DropLease(i) \/ Finish(i) \/ Retain(i)
  \/ SweepNext(i)
  \/ \E n \in Generation : Bind(i, n)

BatchCaps == UNION {[1..n -> Capacities] : n \in 1..MaxBatch}

Next ==
  \/ \E i \in Index : EntryNext(i)
  \/ Sweep
  \/ \E caps \in BatchCaps : Batch(caps)
  \/ SelectNew \/ SelectOverflows \/ Abandon \/ Prepare \/ Groups
  \/ PublishNew \/ PublishReuse \/ PublishDone
  \/ \E g \in Group : SelectReuse(g) \/ DropSlots(g)

Spec == Init /\ [][Next]_vars

-----------------------------------------------------------------------------
(* Properties.                                                             *)

\* A Reserved, a Lease or a Complete never outlives the occupancy it was
\* made for: whatever the order in which owner, kernel and completion let go
\* (Live::release, Live::detach, Bound::finish, Bound::retain), the entry is
\* recycled only by the last of them.
HandlesNeverDangle ==
  \A i \in Index :
    /\ owner[i] # 0 => /\ owner[i] = generation[i]
                       /\ ATTACHED \in flags[i] /\ flags[i] # RETIRED
    /\ loan[i] # 0 => /\ loan[i] = generation[i]
                      /\ BOUND \in flags[i] /\ flags[i] # RETIRED

\* Live::recycle: an echo that the kernel may still hold from an earlier
\* occupancy is never issued again; a slot that runs out of generations is
\* retired instead of wrapping around.
VacancyIsFresh ==
  \A i \in Index : held[i] = "vacant" => <<i, generation[i]>> \notin issued

\* The chain of a group holds exactly entries that nobody owns, nobody
\* completes and the kernel does not know.
FreeIsVacant ==
  \A g \in Group : \A i \in free[g] :
    group[i] = g /\ flags[i] = {} /\ held[i] = "none" /\ loan[i] = 0

\* The entries of a group that are handed out or still in flight.
Busy(g) == {i \in Index : /\ group[i] = g
                          /\ held[i] # "none" \/ flags[i] \notin {{}, RETIRED}}

\* Header.admission: of a group that was ever leased, the count is the
\* chain and the busy entries together, through retirements, dropped leases
\* and reuse.  So try_vacancy says IdentityExhausted exactly when every
\* issued identity is retired, and Full when one will come back.
AdmissionIsExact ==
  \A g \in 1..groups :
    admission[g] = Cardinality(free[g]) + Cardinality(Busy(g))

\* Flights::seed: rounding never uses up the room of a batch's later groups,
\* so a batch that fits as it was asked for is not refused.
OverflowIsReal == batch.failed => ~batch.fits

\* Header::try_block numbers the entries of a block before it is published:
\* that number is the directory index at which Flights::publish puts them.
SeedsAreDense ==
  batch.stage = "publishing" /\ batch.plan # <<>> /\ Head(batch.plan).reuse = 0
    => Head(batch.plan).seed = size

\* The arena, seen through its handles, is the ledger of identities.
Ledger == INSTANCE FlightLedger WITH
  issued   <- issued,
  reserved <- {e \in Echo : owner[e[1]] = e[2] /\ held[e[1]] = "reserved"},
  owned    <- {e \in Echo : owner[e[1]] = e[2] /\ held[e[1]] = "lease"},
  pending  <- {e \in Echo : PENDING \in flags[e[1]] /\ generation[e[1]] = e[2]},
  loaned   <- {e \in Echo : loan[e[1]] = e[2]}

\* Every step of the arena is a step of the ledger or none: in particular
\* dropping a Lease never loses a pending completion, and a slot changes its
\* identity only when the old one has no holder left.
ImplementsLedger == Ledger!Spec
=============================================================================
