---------------------------- MODULE FlightsProofs ---------------------------
(***************************************************************************)
(* The flight arena for every index width, generation width and batch:     *)
(* handles never dangle, echoes are never issued twice, the free chains    *)
(* hold vacant entries only, the arena implements FlightLedger, and the    *)
(* admission counts and the arithmetic of a batch are exact.               *)
(***************************************************************************)
EXTENDS Flights, FiniteSetTheorems, NaturalsInduction, WellFoundedInduction, TLAPS

\* The types the argument needs.
ArenaType ==
  /\ size \in Nat /\ groups \in Nat
  /\ group \in [Index -> 0..MaxGroups]
  /\ flags \in [Index -> SUBSET FLAGS]
  /\ generation \in [Index -> Generation]
  /\ free \in [Group -> SUBSET Index]
  /\ leased \in [Group -> BOOLEAN]
  /\ held \in [Index -> {"none", "vacant", "reserved", "lease"}]
  /\ owner \in [Index -> 0..GenerationMax]
  /\ loan \in [Index -> 0..GenerationMax]
  /\ issued \subseteq Echo

\* A batch never publishes more groups than it was admitted with.
BatchInv ==
  /\ batch.stage \in Stage
  /\ batch.todo \in Seq(Nat)
  /\ batch.plan \in Seq(Plan)
  /\ batch.end \in Nat
  /\ groups + Len(batch.plan) + Len(batch.todo) <= MaxGroups
  /\ \A g \in Planned : leased[g]
  /\ batch = [stage |-> batch.stage, todo |-> batch.todo, plan |-> batch.plan,
              rest |-> batch.rest, end |-> batch.end, fits |-> batch.fits,
              failed |-> batch.failed]

\* The flags of an entry and the handles on it agree.
HandleInv(i) ==
  /\ held[i] \in {"none", "vacant"} <=> owner[i] = 0
  /\ owner[i] # 0 <=> ATTACHED \in flags[i] /\ flags[i] # RETIRED
  /\ owner[i] # 0 => owner[i] = generation[i]
  /\ loan[i] # 0 <=> BOUND \in flags[i] /\ flags[i] # RETIRED
  /\ loan[i] # 0 => loan[i] = generation[i]

\* A slot that is not occupied has a generation nobody has seen; an occupied
\* or retired one has used its generation up.
FreshInv(i) ==
  /\ \A n \in Generation : n > generation[i] => <<i, n>> \notin issued
  /\ flags[i] = {} => <<i, generation[i]>> \notin issued
  /\ held[i] = "vacant" => flags[i] = {}

\* Where a vacant entry can be: on its group's chain, in a Vacant of a
\* leased group, or nowhere.
PlaceInv(i) ==
  /\ \A g \in Group : i \in free[g] =>
       group[i] = g /\ flags[i] = {} /\ held[i] = "none"
  /\ held[i] = "vacant" => /\ group[i] # 0
                           /\ leased[group[i]] /\ group[i] \notin Planned
  /\ group[i] = 0 => flags[i] = {} /\ held[i] = "none"
  /\ i >= size => group[i] = 0
  /\ group[i] <= groups

IInv ==
  /\ ArenaType
  /\ BatchInv
  /\ \A i \in Index : HandleInv(i) /\ FreshInv(i) /\ PlaceInv(i)

-----------------------------------------------------------------------------
(* Steps that change one entry.                                            *)

\* Only entry i and its place on a chain change.
Local(i) ==
  /\ UNCHANGED <<size, groups, group, leased, batch>>
  /\ \A j \in Index \ {i} :
       /\ flags'[j] = flags[j] /\ generation'[j] = generation[j]
       /\ held'[j] = held[j] /\ owner'[j] = owner[j] /\ loan'[j] = loan[j]
       /\ \A n \in Generation : <<j, n>> \in issued' <=> <<j, n>> \in issued
       /\ \A g \in Group : j \in free'[g] <=> j \in free[g]

\* An entry-local step keeps the invariant if it keeps it at that entry.
LEMMA LocalKeeps ==
  ASSUME IInv, NEW i \in Index, Local(i), ArenaType',
         HandleInv(i)', FreshInv(i)', PlaceInv(i)'
  PROVE  IInv'
<1>1. BatchInv'
  BY DEF IInv, BatchInv, Local, Planned
<1>2. ASSUME NEW j \in Index, j # i
      PROVE  HandleInv(j)' /\ FreshInv(j)' /\ PlaceInv(j)'
  <2>1. j \in Index \ {i}
    BY <1>2
  <2>2. HandleInv(j)'
    BY <2>1 DEF IInv, Local, HandleInv
  <2>3. FreshInv(j)'
    BY <2>1 DEF IInv, Local, FreshInv, ArenaType
  <2>4. PlaceInv(j)'
    BY <2>1 DEF IInv, Local, PlaceInv, Planned
  <2> QED BY <2>2, <2>3, <2>4
<1> QED BY <1>1, <1>2 DEF IInv

\* Recycling an entry that nobody holds any more leaves it fresh and on its
\* group's chain, or retired.
LEMMA RecycleKeeps ==
  ASSUME IInv, NEW i \in Index, flags[i] # {}, held[i] # "vacant", Recycle(i),
         held' = [held EXCEPT ![i] = "none"],
         owner' = [owner EXCEPT ![i] = 0],
         loan' = [loan EXCEPT ![i] = 0],
         UNCHANGED <<size, groups, group, leased, batch, issued>>
  PROVE  IInv'
<1> USE LimitAssumption, BoundAssumption
<1>0. group[i] # 0 /\ group[i] \in Group
  BY DEF IInv, ArenaType, PlaceInv, Group
<1>1. CASE Renewable(generation[i])
  <2>1. /\ generation' = [generation EXCEPT ![i] = @ + 1]
        /\ flags' = [flags EXCEPT ![i] = {}]
        /\ free' = [free EXCEPT ![group[i]] = @ \cup {i}]
    BY <1>1 DEF Recycle, Push, NextGeneration
  <2>2. generation[i] + 1 \in Generation
    BY <1>1 DEF Renewable, IInv, ArenaType, Generation
  <2>3. ArenaType'
    BY <1>0, <2>1, <2>2 DEF IInv, ArenaType, FLAGS
  <2>4. Local(i)
    BY <1>0, <2>1 DEF Local, IInv, ArenaType
  <2>5. HandleInv(i)'
    BY <2>1 DEF HandleInv, IInv, ArenaType
  <2>6. FreshInv(i)'
    <3>1. /\ generation[i] \in Generation /\ generation'[i] = generation[i] + 1
          /\ flags'[i] = {} /\ held'[i] = "none" /\ issued' = issued
      BY <2>1 DEF IInv, ArenaType
    <3>2. \A n \in Generation : n > generation[i] => <<i, n>> \notin issued
      BY DEF IInv, FreshInv
    <3>3. \A n \in Generation : n > generation'[i] => <<i, n>> \notin issued'
      BY <3>1, <3>2 DEF Generation
    <3>4. <<i, generation'[i]>> \notin issued'
      BY <2>2, <3>1, <3>2 DEF Generation
    <3> QED BY <3>1, <3>3, <3>4 DEF FreshInv
  <2>7. PlaceInv(i)'
    BY <1>0, <2>1 DEF PlaceInv, IInv, ArenaType
  <2> QED BY <2>3, <2>4, <2>5, <2>6, <2>7, LocalKeeps
<1>2. CASE ~Renewable(generation[i])
  <2>1. flags' = [flags EXCEPT ![i] = RETIRED] /\ UNCHANGED <<generation, free>>
    BY <1>2 DEF Recycle
  <2>3. ArenaType'
    BY <2>1 DEF IInv, ArenaType, FLAGS, RETIRED
  <2>4. Local(i)
    BY <2>1 DEF Local, IInv, ArenaType
  <2>5. HandleInv(i)'
    BY <2>1 DEF HandleInv, IInv, ArenaType
  <2>6. FreshInv(i)'
    BY <2>1 DEF FreshInv, IInv, ArenaType, RETIRED
  <2>7. PlaceInv(i)'
    BY <1>0, <2>1 DEF PlaceInv, IInv, ArenaType
  <2> QED BY <2>3, <2>4, <2>5, <2>6, <2>7, LocalKeeps
<1> QED BY <1>1, <1>2

\* Setting the flags of an occupied entry.
LEMMA SetFlagsKeeps ==
  ASSUME IInv, NEW i \in Index, NEW f \in SUBSET FLAGS, SetFlags(i, f),
         group[i] # 0, f # {},
         held' \in [Index -> {"none", "vacant", "reserved", "lease"}],
         owner' \in [Index -> 0..GenerationMax],
         loan' \in [Index -> 0..GenerationMax],
         issued' \subseteq Echo,
         \A j \in Index \ {i} :
           /\ held'[j] = held[j] /\ owner'[j] = owner[j] /\ loan'[j] = loan[j]
           /\ \A n \in Generation : <<j, n>> \in issued' <=> <<j, n>> \in issued,
         \A n \in Generation : n > generation[i] => <<i, n>> \notin issued',
         \A g \in Group : i \notin free[g],
         held'[i] # "vacant",
         HandleInv(i)',
         UNCHANGED <<size, groups, group, leased, batch>>
  PROVE  IInv'
<1>1. flags' = [flags EXCEPT ![i] = f] /\ UNCHANGED <<generation, free>>
  BY DEF SetFlags
<1>2. ArenaType'
  BY <1>1 DEF IInv, ArenaType
<1>3. Local(i)
  BY <1>1 DEF Local, IInv, ArenaType
<1>4. flags'[i] = f
  BY <1>1 DEF IInv, ArenaType
<1>5. FreshInv(i)'
  BY <1>1, <1>4 DEF FreshInv
<1>6. PlaceInv(i)'
  BY <1>1, <1>4 DEF PlaceInv, IInv
<1> QED BY <1>2, <1>3, <1>5, <1>6, LocalKeeps

\* An occupied entry is on no chain and belongs to a group.
LEMMA OccupiedPlace ==
  ASSUME IInv, NEW i \in Index, flags[i] # {}
  PROVE  /\ group[i] # 0 /\ held[i] # "vacant"
         /\ \A g \in Group : i \notin free[g]
  BY DEF IInv, PlaceInv, FreshInv

\* The vacancies: try_vacancy and its return.
LEMMA VacancyKeeps ==
  ASSUME IInv, NEW i \in Index, TryVacancy(i) \/ DropVacant(i)
  PROVE  IInv'
<1>0. group[i] \in Group
  BY BoundAssumption DEF TryVacancy, DropVacant, IInv, ArenaType, PlaceInv, Group
<1>1. /\ UNCHANGED <<size, groups, group, leased, batch, flags, generation,
                    owner, loan, issued>>
      /\ group[i] # 0
  BY DEF TryVacancy, DropVacant, entryFrame, IInv, PlaceInv
<1>2. CASE TryVacancy(i)
  <2>1. /\ free' = [free EXCEPT ![group[i]] = @ \ {i}]
        /\ held' = [held EXCEPT ![i] = "vacant"]
        /\ i \in free[group[i]] /\ leased[group[i]] /\ group[i] \notin Planned
    BY <1>2 DEF TryVacancy
  <2>2. held[i] = "none" /\ flags[i] = {}
    BY <1>0, <2>1 DEF IInv, PlaceInv
  <2>3. ArenaType'
    BY <1>0, <1>1, <2>1 DEF IInv, ArenaType
  <2>4. Local(i)
    BY <1>0, <1>1, <2>1 DEF Local, IInv, ArenaType
  <2>5. HandleInv(i)'
    BY <1>1, <2>1, <2>2 DEF HandleInv, IInv, ArenaType
  <2>6. FreshInv(i)'
    BY <1>1, <2>1, <2>2 DEF FreshInv, IInv, ArenaType
  <2>7. PlaceInv(i)'
    BY <1>0, <1>1, <2>1, <2>2 DEF PlaceInv, IInv, ArenaType, Planned
  <2> QED BY <2>3, <2>4, <2>5, <2>6, <2>7, LocalKeeps
<1>3. CASE DropVacant(i)
  <2>1. /\ free' = [free EXCEPT ![group[i]] = @ \cup {i}]
        /\ held' = [held EXCEPT ![i] = "none"]
        /\ held[i] = "vacant"
    BY <1>3 DEF DropVacant, Push
  <2>2. flags[i] = {}
    BY <2>1 DEF IInv, FreshInv
  <2>3. ArenaType'
    BY <1>0, <1>1, <2>1 DEF IInv, ArenaType
  <2>4. Local(i)
    BY <1>0, <1>1, <2>1 DEF Local, IInv, ArenaType
  <2>5. HandleInv(i)'
    BY <1>1, <2>1, <2>2 DEF HandleInv, IInv, ArenaType
  <2>6. FreshInv(i)'
    BY <1>1, <2>1, <2>2 DEF FreshInv, IInv, ArenaType
  <2>7. PlaceInv(i)'
    BY <1>0, <1>1, <2>1, <2>2 DEF PlaceInv, IInv, ArenaType, Planned
  <2> QED BY <2>3, <2>4, <2>5, <2>6, <2>7, LocalKeeps
<1> QED BY <1>2, <1>3

\* Reserve occupies a vacancy under a generation never issued before.
LEMMA ReserveKeeps ==
  ASSUME IInv, NEW i \in Index, Reserve(i)
  PROVE  IInv'
<1>0. held[i] = "vacant" /\ flags[i] = {} /\ group[i] # 0
  BY DEF Reserve, IInv, FreshInv, PlaceInv
<1>1. /\ held[i] = "vacant" /\ flags[i] = {} /\ group[i] # 0
      /\ generation[i] \in Generation /\ generation[i] # 0
      /\ loan[i] = 0
  <2>1. generation[i] \in Generation /\ generation[i] # 0
    BY LimitAssumption DEF IInv, ArenaType, Generation
  <2>2. loan[i] = 0
    BY <1>0 DEF IInv, HandleInv
  <2> QED BY <1>0, <2>1, <2>2
<1>2. /\ held' = [held EXCEPT ![i] = "reserved"]
      /\ owner' = [owner EXCEPT ![i] = generation[i]]
      /\ issued' = issued \cup {<<i, generation[i]>>}
      /\ SetFlags(i, {ATTACHED, PENDING})
      /\ UNCHANGED <<size, groups, group, leased, batch, loan>>
  BY DEF Reserve, entryFrame
<1>3. {ATTACHED, PENDING} \in SUBSET FLAGS /\ {ATTACHED, PENDING} # {}
  BY DEF FLAGS
<1>4. /\ held' \in [Index -> {"none", "vacant", "reserved", "lease"}]
      /\ owner' \in [Index -> 0..GenerationMax]
      /\ loan' \in [Index -> 0..GenerationMax]
  BY <1>1, <1>2, LimitAssumption DEF IInv, ArenaType, Generation
<1>5. issued' \subseteq Echo
  BY <1>1, <1>2 DEF IInv, ArenaType, Echo
<1>6. \A j \in Index \ {i} :
        /\ held'[j] = held[j] /\ owner'[j] = owner[j] /\ loan'[j] = loan[j]
        /\ \A n \in Generation : <<j, n>> \in issued' <=> <<j, n>> \in issued
  BY <1>2 DEF IInv, ArenaType
<1>7. \A n \in Generation : n > generation[i] => <<i, n>> \notin issued'
  <2>1. ASSUME NEW n \in Generation, n > generation[i]
        PROVE  <<i, n>> \notin issued /\ n # generation[i]
    <3>1. n # generation[i]
      BY <1>1, <2>1 DEF Generation
    <3>2. <<i, n>> \notin issued
      BY <2>1 DEF IInv, FreshInv
    <3> QED BY <3>1, <3>2
  <2> QED BY <1>2, <2>1
<1>8. (\A g \in Group : i \notin free[g]) /\ held'[i] # "vacant"
  BY <1>1, <1>2 DEF IInv, PlaceInv, ArenaType
<1>9. HandleInv(i)'
  <2>1. /\ flags'[i] = {ATTACHED, PENDING} /\ generation'[i] = generation[i]
        /\ owner'[i] = generation[i] /\ loan'[i] = 0 /\ held'[i] = "reserved"
    BY <1>1, <1>2 DEF SetFlags, IInv, ArenaType
  <2>2. /\ {ATTACHED, PENDING} # RETIRED
        /\ ATTACHED \in {ATTACHED, PENDING} /\ BOUND \notin {ATTACHED, PENDING}
    BY DEF ATTACHED, PENDING, BOUND, RETIRED
  <2> QED BY <1>1, <2>1, <2>2 DEF HandleInv
<1> QED BY <1>1, <1>2, <1>3, <1>4, <1>5, <1>6, <1>7, <1>8, <1>9, SetFlagsKeeps

\* Commit only changes the kind of the owner.
LEMMA CommitKeeps ==
  ASSUME IInv, NEW i \in Index, Commit(i)
  PROVE  IInv'
<1>1. /\ held[i] = "reserved"
      /\ held' = [held EXCEPT ![i] = "lease"]
      /\ UNCHANGED <<size, groups, group, leased, batch, flags, generation,
                     free, owner, loan, issued>>
  BY DEF Commit, entryFrame
<1>2. ArenaType' /\ Local(i)
  BY <1>1 DEF IInv, ArenaType, Local
<1>3. HandleInv(i)'
  BY <1>1 DEF HandleInv, IInv, ArenaType
<1>4. FreshInv(i)'
  BY <1>1 DEF FreshInv, IInv, ArenaType
<1>5. PlaceInv(i)'
  BY <1>1 DEF PlaceInv, IInv, ArenaType, Planned
<1> QED BY <1>2, <1>3, <1>4, <1>5, LocalKeeps

\* The owner lets go, by dropping a Reserved or a Lease.
LEMMA DisownKeeps ==
  ASSUME IInv, NEW i \in Index, DropReserved(i) \/ DropLease(i)
  PROVE  IInv'
<1>1. /\ held[i] \in {"reserved", "lease"}
      /\ held' = [held EXCEPT ![i] = "none"]
      /\ owner' = [owner EXCEPT ![i] = 0]
      /\ UNCHANGED <<size, groups, group, leased, batch, loan, issued>>
  BY DEF DropReserved, DropLease, Disown, entryFrame
<1>2. owner[i] # 0 /\ ATTACHED \in flags[i] /\ flags[i] # RETIRED /\ flags[i] # {}
  BY <1>1 DEF IInv, HandleInv
<1>3. flags[i] \subseteq FLAGS
  BY DEF IInv, ArenaType
<1>4. ASSUME Recycle(i), loan[i] = 0
      PROVE  IInv'
  <2>1. loan' = [loan EXCEPT ![i] = 0]
    BY <1>1, <1>4 DEF IInv, ArenaType
  <2> QED BY <1>1, <1>2, <1>4, <2>1, RecycleKeeps
<1>5. ASSUME NEW f \in SUBSET FLAGS, SetFlags(i, f), f # {}, ATTACHED \notin f,
             BOUND \in f <=> BOUND \in flags[i]
      PROVE  IInv'
  <2>1. /\ held' \in [Index -> {"none", "vacant", "reserved", "lease"}]
        /\ owner' \in [Index -> 0..GenerationMax]
        /\ loan' \in [Index -> 0..GenerationMax]
        /\ issued' \subseteq Echo
    BY <1>1, LimitAssumption DEF IInv, ArenaType
  <2>2. \A j \in Index \ {i} :
          /\ held'[j] = held[j] /\ owner'[j] = owner[j] /\ loan'[j] = loan[j]
          /\ \A n \in Generation : <<j, n>> \in issued' <=> <<j, n>> \in issued
    BY <1>1 DEF IInv, ArenaType
  <2>3. \A n \in Generation : n > generation[i] => <<i, n>> \notin issued'
    BY <1>1 DEF IInv, FreshInv
  <2>4. held'[i] = "none" /\ owner'[i] = 0 /\ flags'[i] = f
        /\ generation' = generation /\ loan' = loan
    BY <1>1, <1>5 DEF IInv, ArenaType, SetFlags
  <2>5. f # RETIRED
    BY <1>5 DEF RETIRED
  <2>6. HandleInv(i)'
    BY <1>2, <1>5, <2>4, <2>5 DEF HandleInv, IInv
  <2> QED BY <1>1, <1>2, <1>5, <2>1, <2>2, <2>3, <2>4, <2>6, OccupiedPlace,
             SetFlagsKeeps
<1>6. CASE DropReserved(i)
  <2>1. CASE BOUND \in flags[i] /\ SetFlags(i, flags[i] \ {ATTACHED, PENDING})
    <3>1. /\ flags[i] \ {ATTACHED, PENDING} \in SUBSET FLAGS
          /\ BOUND \in flags[i] \ {ATTACHED, PENDING}
      BY <1>3, <2>1 DEF BOUND, ATTACHED, PENDING
    <3> QED BY <1>5, <2>1, <3>1
  <2>2. CASE BOUND \notin flags[i] /\ Recycle(i)
    BY <1>4, <2>2 DEF IInv, HandleInv
  <2> QED BY <1>6, <2>1, <2>2 DEF DropReserved, Release
<1>7. CASE DropLease(i)
  <2>1. CASE flags[i] = {ATTACHED} /\ Recycle(i)
    <3>1. BOUND \notin flags[i]
      BY <2>1 DEF BOUND, ATTACHED
    <3> QED BY <1>4, <2>1, <3>1 DEF IInv, HandleInv
  <2>2. CASE flags[i] # {ATTACHED} /\ SetFlags(i, flags[i] \ {ATTACHED})
    <3>1. /\ flags[i] \ {ATTACHED} \in SUBSET FLAGS
          /\ flags[i] \ {ATTACHED} # {}
          /\ BOUND \in flags[i] \ {ATTACHED} <=> BOUND \in flags[i]
      BY <1>2, <1>3, <2>2 DEF BOUND, ATTACHED
    <3> QED BY <1>5, <2>2, <3>1
  <2> QED BY <1>7, <2>1, <2>2 DEF DropLease, Detach
<1> QED BY <1>6, <1>7

\* Completions: an echo binds, and the loan ends.
LEMMA BindKeeps ==
  ASSUME IInv, NEW i \in Index, NEW n \in Generation, Bind(i, n)
  PROVE  IInv'
<1>1. /\ PENDING \in flags[i] /\ BOUND \notin flags[i] /\ generation[i] = n
      /\ SetFlags(i, flags[i] \cup {BOUND})
      /\ loan' = [loan EXCEPT ![i] = n]
      /\ UNCHANGED <<size, groups, group, leased, batch, held, owner, issued>>
  BY DEF Bind, Bindable, entryFrame
<1> DEFINE f == flags[i] \cup {BOUND}
<1>2. /\ f \in SUBSET FLAGS /\ f # {} /\ flags[i] # {}
  BY <1>1 DEF IInv, ArenaType, FLAGS
<1>3. /\ f # RETIRED /\ flags[i] # RETIRED /\ BOUND \in f
      /\ ATTACHED \in f <=> ATTACHED \in flags[i]
  BY <1>1 DEF RETIRED, ATTACHED, BOUND, PENDING
<1>4. /\ held' \in [Index -> {"none", "vacant", "reserved", "lease"}]
      /\ owner' \in [Index -> 0..GenerationMax]
      /\ loan' \in [Index -> 0..GenerationMax]
      /\ issued' \subseteq Echo
  BY <1>1, LimitAssumption DEF IInv, ArenaType, Generation
<1>5. \A j \in Index \ {i} :
        /\ held'[j] = held[j] /\ owner'[j] = owner[j] /\ loan'[j] = loan[j]
        /\ \A m \in Generation : <<j, m>> \in issued' <=> <<j, m>> \in issued
  BY <1>1 DEF IInv, ArenaType
<1>6. \A m \in Generation : m > generation[i] => <<i, m>> \notin issued'
  BY <1>1 DEF IInv, FreshInv
<1>7. HandleInv(i)'
  <2>1. /\ flags'[i] = f /\ generation'[i] = n /\ loan'[i] = n /\ n # 0
        /\ owner'[i] = owner[i] /\ held'[i] = held[i]
    BY <1>1, LimitAssumption DEF SetFlags, IInv, ArenaType, Generation
  <2> QED BY <1>1, <1>3, <2>1 DEF HandleInv, IInv
<1>8. held'[i] # "vacant"
  BY <1>1, <1>2, OccupiedPlace
<1> QED BY <1>1, <1>2, <1>4, <1>5, <1>6, <1>7, <1>8, OccupiedPlace,
           SetFlagsKeeps

\* What remains of an entry when the loan on it, if any, ends.
LEMMA LoanEndKeeps ==
  ASSUME IInv, NEW i \in Index,
         flags[i] # {}, flags[i] # RETIRED,
         loan' = [loan EXCEPT ![i] = 0],
         UNCHANGED <<size, groups, group, leased, batch, held, owner, issued>>,
         \/ ATTACHED \notin flags[i] /\ Recycle(i)
         \/ \E f \in SUBSET FLAGS :
              /\ SetFlags(i, f) /\ f # {} /\ BOUND \notin f
              /\ ATTACHED \in f <=> ATTACHED \in flags[i]
  PROVE  IInv'
<1>1. CASE ATTACHED \notin flags[i] /\ Recycle(i)
  <2>1. held[i] = "none" /\ owner[i] = 0
    BY <1>1, OccupiedPlace DEF IInv, HandleInv, ArenaType
  <2>2. /\ held' = [held EXCEPT ![i] = "none"]
        /\ owner' = [owner EXCEPT ![i] = 0]
    BY <2>1 DEF IInv, ArenaType
  <2> QED BY <1>1, <2>1, <2>2, RecycleKeeps
<1>2. ASSUME NEW f \in SUBSET FLAGS, SetFlags(i, f), f # {}, BOUND \notin f,
             ATTACHED \in f <=> ATTACHED \in flags[i]
      PROVE  IInv'
  <2>1. /\ held' \in [Index -> {"none", "vacant", "reserved", "lease"}]
        /\ owner' \in [Index -> 0..GenerationMax]
        /\ loan' \in [Index -> 0..GenerationMax]
        /\ issued' \subseteq Echo
    BY LimitAssumption DEF IInv, ArenaType
  <2>2. \A j \in Index \ {i} :
          /\ held'[j] = held[j] /\ owner'[j] = owner[j] /\ loan'[j] = loan[j]
          /\ \A m \in Generation : <<j, m>> \in issued' <=> <<j, m>> \in issued
    BY DEF IInv, ArenaType
  <2>3. \A m \in Generation : m > generation[i] => <<i, m>> \notin issued'
    BY DEF IInv, FreshInv
  <2>4. /\ flags'[i] = f /\ generation'[i] = generation[i] /\ loan'[i] = 0
        /\ owner'[i] = owner[i] /\ held'[i] = held[i]
    BY <1>2 DEF SetFlags, IInv, ArenaType
  <2>5. f # RETIRED
    BY <1>2 DEF RETIRED
  <2>6. HandleInv(i)'
    BY <1>2, <2>4, <2>5 DEF HandleInv, IInv
  <2>7. held'[i] # "vacant"
    BY <2>4, OccupiedPlace
  <2> QED BY <1>2, <2>1, <2>2, <2>3, <2>6, <2>7, OccupiedPlace, SetFlagsKeeps
<1> QED BY <1>1, <1>2

\* Bound::finish, from Complete::finish or from the sweep.
LEMMA FinishBoundKeeps ==
  ASSUME IInv, NEW i \in Index,
         flags[i] # {}, flags[i] # RETIRED, FinishBound(i),
         loan' = [loan EXCEPT ![i] = 0],
         UNCHANGED <<size, groups, group, leased, batch, held, owner, issued>>
  PROVE  IInv'
<1>1. CASE ATTACHED \notin flags[i] /\ Recycle(i)
  BY <1>1, LoanEndKeeps
<1>2. CASE ATTACHED \in flags[i] /\ SetFlags(i, flags[i] \ {PENDING, BOUND})
  <2> DEFINE f == flags[i] \ {PENDING, BOUND}
  <2>1. /\ f \in SUBSET FLAGS /\ f # {} /\ BOUND \notin f
        /\ ATTACHED \in f <=> ATTACHED \in flags[i]
    BY <1>2 DEF IInv, ArenaType, ATTACHED, PENDING, BOUND
  <2> QED BY <1>2, <2>1, LoanEndKeeps
<1> QED BY <1>1, <1>2 DEF FinishBound

\* A Complete ends, by the last completion or by an earlier one.
LEMMA CompleteKeeps ==
  ASSUME IInv, NEW i \in Index, Finish(i) \/ Retain(i)
  PROVE  IInv'
<1>1. /\ loan[i] # 0 /\ loan' = [loan EXCEPT ![i] = 0]
      /\ UNCHANGED <<size, groups, group, leased, batch, held, owner, issued>>
  BY DEF Finish, Retain, entryFrame
<1>2. BOUND \in flags[i] /\ flags[i] # RETIRED /\ flags[i] # {}
  BY <1>1 DEF IInv, HandleInv
<1>3. CASE Finish(i)
  BY <1>1, <1>2, <1>3, FinishBoundKeeps DEF Finish
<1>4. CASE Retain(i) /\ PENDING \notin flags[i] /\ Recycle(i)
  <2>1. ATTACHED \notin flags[i]
    BY <1>2, <1>4 DEF IInv, ArenaType, FLAGS, RETIRED, ATTACHED, PENDING, BOUND
  <2> QED BY <1>1, <1>2, <1>4, <2>1, LoanEndKeeps
<1>5. CASE Retain(i) /\ PENDING \in flags[i] /\ SetFlags(i, flags[i] \ {BOUND})
  <2> DEFINE f == flags[i] \ {BOUND}
  <2>1. /\ f \in SUBSET FLAGS /\ f # {} /\ BOUND \notin f
        /\ ATTACHED \in f <=> ATTACHED \in flags[i]
    BY <1>5 DEF IInv, ArenaType, ATTACHED, PENDING, BOUND
  <2> QED BY <1>1, <1>2, <1>5, <2>1, LoanEndKeeps
<1> QED BY <1>3, <1>4, <1>5 DEF Retain, RetainBound

\* One entry of Flights::finish.
LEMMA SweepNextKeeps ==
  ASSUME IInv, NEW i \in Index, SweepNext(i)
  PROVE  IInv'
<1>1. UNCHANGED <<size, groups, group, leased, batch, held, owner, loan, issued>>
  BY DEF SweepNext, entryFrame, handleVars
<1>2. CASE Bindable(i, generation[i]) /\ FinishBound(i)
  <2>1. PENDING \in flags[i] /\ BOUND \notin flags[i]
    BY <1>2 DEF Bindable
  <2>2. flags[i] # {} /\ flags[i] # RETIRED /\ loan[i] = 0
    BY <2>1 DEF RETIRED, IInv, HandleInv
  <2>3. loan' = [loan EXCEPT ![i] = 0]
    BY <1>1, <2>2 DEF IInv, ArenaType
  <2> QED BY <1>1, <1>2, <2>2, <2>3, FinishBoundKeeps
<1>3. CASE SetFlags(i, flags[i])
  <2>1. UNCHANGED <<flags, generation, free>>
    BY <1>3 DEF SetFlags, IInv, ArenaType
  <2> QED BY <1>1, <2>1
          DEF IInv, ArenaType, BatchInv, HandleInv, FreshInv, PlaceInv, Planned
<1> QED BY <1>2, <1>3 DEF SweepNext

-----------------------------------------------------------------------------
(* Steps that change groups.                                               *)

\* The entries stay as they are: the handle and freshness parts carry over.
LEMMA EntriesKept ==
  ASSUME IInv, batchFrame
  PROVE  \A i \in Index : HandleInv(i)' /\ FreshInv(i)'
  BY DEF IInv, HandleInv, FreshInv, batchFrame, handleVars

\* Steps that only move the batch on.
LEMMA BatchMoves ==
  ASSUME IInv, batchFrame, BatchInv', Planned' \subseteq Planned,
         UNCHANGED <<size, groups, group, free, leased>>
  PROVE  IInv'
<1>1. ArenaType'
  BY DEF IInv, ArenaType, batchFrame, handleVars
<1>2. \A i \in Index : PlaceInv(i)'
  BY DEF IInv, PlaceInv, batchFrame, handleVars
<1> QED BY <1>1, <1>2, EntriesKept DEF IInv

\* A batch is dropped with the groups that it had leased.
LEMMA ReleaseKeeps ==
  ASSUME IInv, SelectOverflows \/ Abandon
  PROVE  IInv'
<1>1. /\ batchFrame /\ ReleasePlanned
      /\ UNCHANGED <<size, groups, group, free>>
  BY DEF SelectOverflows, Abandon
<1>2. /\ batch'.stage = "idle" /\ batch'.todo = <<>> /\ batch'.plan = <<>>
      /\ batch'.end = 0
      /\ batch' = [stage |-> batch'.stage, todo |-> batch'.todo,
                   plan |-> batch'.plan, rest |-> batch'.rest,
                   end |-> batch'.end, fits |-> batch'.fits,
                   failed |-> batch'.failed]
  <2>1. CASE SelectOverflows
    <3>1. batch' = [stage |-> "idle", todo |-> <<>>, plan |-> <<>>, rest |-> 0,
                    end |-> 0, fits |-> batch.fits, failed |-> TRUE]
      BY <2>1 DEF SelectOverflows, Idle
    <3> QED BY <3>1
  <2>2. CASE Abandon
    BY <2>2 DEF Abandon, Idle
  <2> QED BY <2>1, <2>2
<1>3. Planned' = {}
  BY <1>2 DEF Planned
<1>4. BatchInv'
  <2>1. groups' \in Nat /\ groups' <= MaxGroups
    BY <1>1, BoundAssumption DEF IInv, ArenaType, BatchInv
  <2>2. /\ batch'.stage \in Stage /\ batch'.todo \in Seq(Nat)
        /\ batch'.plan \in Seq(Plan) /\ batch'.end \in Nat
        /\ Len(batch'.plan) = 0 /\ Len(batch'.todo) = 0
    BY <1>2 DEF Stage
  <2> QED BY <1>2, <1>3, <2>1, <2>2 DEF BatchInv
<1>5. ArenaType'
  BY <1>1 DEF IInv, ArenaType, batchFrame, handleVars, ReleasePlanned
<1>6. ASSUME NEW i \in Index PROVE PlaceInv(i)'
  <2>1. held[i] = "vacant" => group[i] \in Group /\ leased'[group[i]]
    BY <1>1, BoundAssumption
       DEF IInv, PlaceInv, ArenaType, ReleasePlanned, Group
  <2> QED BY <1>1, <1>3, <2>1 DEF IInv, PlaceInv, batchFrame, handleVars
<1> QED BY <1>1, <1>4, <1>5, <1>6, EntriesKept DEF IInv

\* A Slots is dropped: no Vacant borrows it.
LEMMA DropSlotsKeeps ==
  ASSUME IInv, NEW g \in Group, DropSlots(g)
  PROVE  IInv'
<1>1. /\ batchFrame /\ leased' = [leased EXCEPT ![g] = FALSE]
      /\ g \notin Planned
      /\ \A i \in Index : group[i] = g => held[i] # "vacant"
      /\ UNCHANGED <<size, groups, group, free, batch>>
  BY DEF DropSlots
<1>2. ArenaType'
  BY <1>1 DEF IInv, ArenaType, batchFrame, handleVars
<1>3. BatchInv'
  BY <1>1 DEF IInv, BatchInv, Planned, ArenaType
<1>4. ASSUME NEW i \in Index PROVE PlaceInv(i)'
  <2>1. held[i] = "vacant" => group[i] \in Group /\ leased'[group[i]]
    BY <1>1, BoundAssumption DEF IInv, PlaceInv, ArenaType, Group
  <2> QED BY <1>1, <2>1 DEF IInv, PlaceInv, batchFrame, handleVars, Planned
<1> QED BY <1>1, <1>2, <1>3, <1>4, EntriesKept DEF IInv

\* A batch starts, and changes stage.
LEMMA StageKeeps ==
  ASSUME IInv, \/ \E caps \in BatchCaps : Batch(caps)
               \/ Prepare \/ Groups \/ PublishDone
  PROVE  IInv'
<1>1. batchFrame /\ UNCHANGED <<size, groups, group, free, leased>>
  BY DEF Batch, Prepare, Groups, PublishDone
<1>2. ASSUME NEW caps \in BatchCaps, Batch(caps)
      PROVE  IInv'
  <2>1. caps \in Seq(Nat)
    <3>1. PICK n \in 1..MaxBatch : caps \in [1..n -> Capacities]
      BY DEF BatchCaps
    <3>2. n \in Nat
      BY <3>1, BoundAssumption
    <3>3. caps \in [1..n -> Nat]
      BY <3>1, BoundAssumption
    <3> QED BY <3>2, <3>3
  <2>2. /\ batch' = [stage |-> "selecting", todo |-> caps, plan |-> <<>>,
                     rest |-> Total(caps), end |-> size,
                     fits |-> size + Total(caps) <= IndexLimit,
                     failed |-> FALSE]
        /\ groups + Len(caps) <= MaxGroups
    BY <1>2 DEF Batch
  <2>3. Planned' = {}
    BY <2>2 DEF Planned
  <2>4. /\ batch'.stage \in Stage /\ batch'.todo = caps /\ batch'.plan = <<>>
        /\ batch'.end = size /\ Len(batch'.plan) = 0
    BY <2>2 DEF Stage
  <2>5. groups' + Len(batch'.plan) + Len(batch'.todo) <= MaxGroups
    BY <1>1, <2>1, <2>2, <2>4 DEF IInv, ArenaType
  <2>6. /\ batch'.end \in Nat /\ batch'.plan \in Seq(Plan)
        /\ batch'.todo \in Seq(Nat)
    BY <2>1, <2>4 DEF IInv, ArenaType
  <2>7. BatchInv'
    BY <2>2, <2>3, <2>4, <2>5, <2>6 DEF BatchInv
  <2> QED BY <1>1, <2>3, <2>7, BatchMoves
<1>3. CASE Prepare \/ Groups
  <2>1. PICK stage \in Stage : batch' = [batch EXCEPT !.stage = stage]
    BY <1>3 DEF Prepare, Groups, Stage
  <2>2. BatchInv
    BY DEF IInv
  <2>3. batch' = [stage |-> stage, todo |-> batch.todo, plan |-> batch.plan,
                  rest |-> batch.rest, end |-> batch.end, fits |-> batch.fits,
                  failed |-> batch.failed]
    BY <2>1, <2>2 DEF BatchInv
  <2>4. Planned' = Planned
    BY <2>3 DEF Planned
  <2>5. BatchInv'
    BY <1>1, <2>2, <2>3, <2>4 DEF BatchInv
  <2> QED BY <1>1, <2>4, <2>5, BatchMoves
<1>4. CASE PublishDone
  <2>1. batch' = [stage |-> "idle", todo |-> <<>>, plan |-> <<>>, rest |-> 0,
                  end |-> 0, fits |-> FALSE, failed |-> FALSE]
    BY <1>4 DEF PublishDone, Idle
  <2>2. Planned' = {}
    BY <2>1 DEF Planned
  <2>3. groups' <= MaxGroups /\ groups' \in Nat
    BY <1>1, BoundAssumption DEF IInv, ArenaType, BatchInv
  <2>4. /\ batch'.stage \in Stage /\ batch'.todo \in Seq(Nat)
        /\ batch'.plan \in Seq(Plan) /\ batch'.end \in Nat
        /\ Len(batch'.plan) = 0 /\ Len(batch'.todo) = 0
    BY <2>1 DEF Stage
  <2>5. BatchInv'
    BY <2>1, <2>2, <2>3, <2>4 DEF BatchInv
  <2> QED BY <1>1, <2>2, <2>5, BatchMoves
<1> QED BY <1>2, <1>3, <1>4

\* One group moves from what is asked for to the plan.
LEMMA PlanGrows ==
  ASSUME BatchInv, groups \in Nat, UNCHANGED groups,
         batch.todo # <<>>, NEW p \in Plan, NEW end \in Nat,
         batch' = [NextOf(p) EXCEPT !.end = end],
         \A g \in Group : leased[g] => leased'[g],
         p.reuse # 0 => leased'[p.reuse]
  PROVE  /\ BatchInv'
         /\ Planned' = Planned \cup ({p.reuse} \ {0})
<1>1. batch' = [stage |-> batch.stage, todo |-> Tail(batch.todo),
                plan |-> Append(batch.plan, p),
                rest |-> batch.rest - Head(batch.todo), end |-> end,
                fits |-> batch.fits, failed |-> batch.failed]
  BY DEF NextOf, BatchInv
<1>2. /\ batch.plan \in Seq(Plan) /\ batch.todo \in Seq(Nat)
      /\ batch.stage \in Stage
      /\ groups + Len(batch.plan) + Len(batch.todo) <= MaxGroups
      /\ \A g \in Planned : leased[g]
  BY DEF BatchInv
<1>3. /\ batch'.plan = Append(batch.plan, p)
      /\ batch'.todo = Tail(batch.todo)
      /\ batch'.end = end /\ batch'.stage = batch.stage
  BY <1>1
<1>4. /\ batch'.plan \in Seq(Plan)
      /\ Len(batch'.plan) = Len(batch.plan) + 1 /\ Len(batch.plan) \in Nat
  <2>1. Len(batch.plan) \in Nat
    BY <1>2
  <2>2. Append(batch.plan, p) \in Seq(Plan)
    BY <1>2
  <2>3. Len(Append(batch.plan, p)) = Len(batch.plan) + 1
    BY <1>2
  <2> QED BY <1>3, <2>1, <2>2, <2>3
<1>5. /\ batch'.todo \in Seq(Nat) /\ Len(batch.todo) \in Nat
      /\ Len(batch'.todo) = Len(batch.todo) - 1
  <2>1. Len(batch.todo) \in Nat
    BY <1>2
  <2>2. Tail(batch.todo) \in Seq(Nat)
    BY <1>2
  <2>3. Len(Tail(batch.todo)) = Len(batch.todo) - 1
    BY <1>2
  <2> QED BY <1>3, <2>1, <2>2, <2>3
<1>6. Planned' = Planned \cup ({p.reuse} \ {0})
  <2>1. \A k \in 1..Len(batch.plan) : batch'.plan[k] = batch.plan[k]
    BY <1>2, <1>3
  <2>2. batch'.plan[Len(batch.plan) + 1] = p
    BY <1>2, <1>3
  <2>3. 1..Len(batch'.plan) = 1..Len(batch.plan) \cup {Len(batch.plan) + 1}
    BY <1>4
  <2> QED BY <2>1, <2>2, <2>3 DEF Planned
<1>7. \A g \in Planned' : leased'[g]
  <2>1. \A k \in 1..Len(batch.plan) : batch.plan[k] \in Plan
    BY <1>2
  <2>2. \A g \in Planned : g \in Group
    BY <2>1 DEF Planned, Plan
  <2> QED BY <1>2, <1>6, <2>2
<1>8. groups' + Len(batch'.plan) + Len(batch'.todo) <= MaxGroups
  <2>1. groups' = groups
    OBVIOUS
  <2>2. \A a, b, c, m \in Int : a + b + c <= m => a + (b + 1) + (c - 1) <= m
    OBVIOUS
  <2>3. /\ groups \in Int /\ Len(batch.plan) \in Int /\ Len(batch.todo) \in Int
        /\ MaxGroups \in Int
    BY <1>4, <1>5, BoundAssumption
  <2> QED BY <1>2, <1>4, <1>5, <2>1, <2>2, <2>3
<1>9. batch' = [stage |-> batch'.stage, todo |-> batch'.todo,
                plan |-> batch'.plan, rest |-> batch'.rest,
                end |-> batch'.end, fits |-> batch'.fits,
                failed |-> batch'.failed]
  BY <1>1
<1> QED BY <1>2, <1>3, <1>4, <1>5, <1>6, <1>7, <1>8, <1>9 DEF BatchInv

\* Activate leases a group to vacant entries of it that are in no other
\* hands.
LEMMA ActivateKeeps ==
  ASSUME IInv, batchFrame, NEW g \in Group, NEW c, NEW V \in SUBSET Index,
         Activate(g, c, V),
         ArenaType', BatchInv',
         \A i \in Index : group'[i] = IF i \in V THEN g ELSE group[i],
         \A i \in V : flags[i] = {} /\ held[i] = "none",
         \A i \in Index : group[i] = g => held[i] # "vacant",
         \A i \in V : group[i] \in {0, g},
         \A h \in Planned' : h \in Planned \/ h = g,
         groups <= groups', g <= groups',
         \A i \in Index : i >= size' => i >= size /\ i \notin V
  PROVE  IInv'
<1>1. PICK top \in SUBSET V :
        /\ free' = [free EXCEPT ![g] = top]
        /\ leased' = [leased EXCEPT ![g] = TRUE]
  BY DEF Activate
<1>2. /\ flags' = flags /\ held' = held
  BY DEF batchFrame, handleVars
<1>3. ASSUME NEW i \in Index PROVE PlaceInv(i)'
  <2>1. PlaceInv(i)
    BY DEF IInv
  <2>2. group[i] \in 0..MaxGroups /\ group'[i] \in 0..MaxGroups
        /\ groups \in Nat /\ groups' \in Nat /\ MaxGroups \in Nat
    BY BoundAssumption DEF IInv, ArenaType
  <2>3. ASSUME NEW h \in Group, i \in free'[h]
        PROVE  group'[i] = h /\ flags'[i] = {} /\ held'[i] = "none"
    <3>1. CASE h = g
      <4>1. i \in V
        BY <1>1, <2>3, <3>1 DEF IInv, ArenaType
      <4> QED BY <1>2, <3>1, <4>1
    <3>2. CASE h # g
      <4>1. i \in free[h]
        BY <1>1, <2>3, <3>2 DEF IInv, ArenaType
      <4>2. group[i] = h /\ flags[i] = {} /\ held[i] = "none" /\ group[i] # 0
        BY <2>1, <4>1 DEF PlaceInv, Group
      <4>3. i \notin V
        BY <3>2, <4>2
      <4> QED BY <1>2, <4>2, <4>3
    <3> QED BY <3>1, <3>2
  <2>4. held'[i] = "vacant" => /\ group'[i] # 0
                               /\ leased'[group'[i]] /\ group'[i] \notin Planned'
    <3>1. SUFFICES ASSUME held[i] = "vacant"
                   PROVE  /\ group'[i] # 0
                          /\ leased'[group'[i]] /\ group'[i] \notin Planned'
      BY <1>2
    <3>2. /\ group[i] # 0 /\ leased[group[i]] /\ group[i] \notin Planned
          /\ i \notin V /\ group[i] # g
      BY <2>1, <3>1 DEF PlaceInv
    <3>3. group'[i] = group[i] /\ group[i] \in Group
      BY <2>2, <3>2 DEF Group
    <3> QED BY <1>1, <3>2, <3>3 DEF IInv, ArenaType
  <2>5. group'[i] = 0 => flags'[i] = {} /\ held'[i] = "none"
    BY <1>2, <2>1 DEF PlaceInv, Group
  <2>6. i >= size' => group'[i] = 0
    BY <2>1 DEF PlaceInv
  <2>7. group'[i] <= groups'
    BY <2>1, <2>2 DEF PlaceInv, Group
  <2> QED BY <2>3, <2>4, <2>5, <2>6, <2>7 DEF PlaceInv
<1> QED BY <1>3, EntriesKept DEF IInv

\* A batch finds a group to reuse.
LEMMA SelectReuseKeeps ==
  ASSUME IInv, NEW g \in Group, SelectReuse(g)
  PROVE  IInv'
<1> DEFINE c == Head(batch.todo)
           p == [reuse |-> g, seed |-> 0, extent |-> 0, capacity |-> c]
<1>1. /\ batch.todo # <<>> /\ Activate(g, c, Vacancies(g)) /\ batchFrame
      /\ batch' = NextOf(p)
      /\ UNCHANGED <<size, groups, group>>
  BY DEF SelectReuse
<1>2. g <= groups /\ ~leased[g]
  BY DEF SelectReuse, BestFit, Reusable
<1>3. BatchInv /\ groups \in Nat /\ batch.todo \in Seq(Nat) /\ batch.end \in Nat
  BY DEF IInv, ArenaType, BatchInv
<1>4. PICK top \in SUBSET Vacancies(g) :
        /\ free' = [free EXCEPT ![g] = top]
        /\ leased' = [leased EXCEPT ![g] = TRUE]
  BY <1>1 DEF Activate
<1>5. c \in Nat
  BY <1>1, <1>3
<1>6. p \in Plan /\ p.reuse = g /\ g # 0
  BY <1>5 DEF Plan, Group
<1>7. batch' = [NextOf(p) EXCEPT !.end = batch.end]
  BY <1>1, <1>3 DEF NextOf, BatchInv
<1>8. leased'[g] /\ \A h \in Group : leased[h] => leased'[h]
  BY <1>4 DEF IInv, ArenaType
<1>9. BatchInv' /\ Planned' = Planned \cup ({g} \ {0})
  BY <1>1, <1>3, <1>6, <1>7, <1>8, PlanGrows
<1>10. ArenaType'
  BY <1>1, <1>4 DEF IInv, ArenaType, batchFrame, handleVars, Vacancies
<1>11. \A i \in Index : group[i] = g => held[i] # "vacant"
  BY <1>2 DEF IInv, PlaceInv
<1>12. ASSUME NEW i \in Vacancies(g)
       PROVE  i \in Index /\ group[i] = g /\ flags[i] = {} /\ held[i] = "none"
  <2>1. i \in Index /\ group[i] = g /\ flags[i] = {}
    BY <1>12 DEF Vacancies
  <2>2. owner[i] = 0
    BY <2>1 DEF IInv, HandleInv
  <2>3. held[i] \in {"none", "vacant"}
    BY <2>1, <2>2 DEF IInv, HandleInv
  <2> QED BY <1>11, <2>1, <2>3
<1>13. /\ Vacancies(g) \in SUBSET Index
       /\ \A i \in Index : group'[i] = IF i \in Vacancies(g) THEN g ELSE group[i]
       /\ \A i \in Vacancies(g) : flags[i] = {} /\ held[i] = "none"
       /\ \A i \in Vacancies(g) : group[i] \in {0, g}
  BY <1>1, <1>12
<1>14. \A i \in Index : i >= size' => i >= size /\ i \notin Vacancies(g)
  BY <1>1, <1>6, <1>12 DEF IInv, PlaceInv
<1>15. \A h \in Planned' : h \in Planned \/ h = g
  BY <1>9
<1>16. groups <= groups' /\ g <= groups'
  BY <1>1, <1>2, <1>3
<1> QED BY <1>1, <1>9, <1>10, <1>11, <1>13, <1>14, <1>15, <1>16, ActivateKeeps

\* A batch plans a new group.
LEMMA SelectNewKeeps ==
  ASSUME IInv, SelectNew
  PROVE  IInv'
<1> DEFINE c == Head(batch.todo)
<1>1. /\ batch.todo # <<>> /\ batchFrame
      /\ UNCHANGED <<size, groups, group, free, leased>>
  BY DEF SelectNew
<1>2. BatchInv /\ groups \in Nat /\ batch.todo \in Seq(Nat) /\ batch.end \in Nat
  BY DEF IInv, ArenaType, BatchInv
<1>3. c \in Nat
  BY <1>1, <1>2
<1>4. PICK extent \in Extent(c, IndexLimit - batch.end, batch.rest - c) :
        batch' = [NextOf([reuse |-> 0, seed |-> batch.end,
                          extent |-> extent, capacity |-> c])
                    EXCEPT !.end = batch.end + extent]
  <2>1. PICK extent \in Extent(c, IndexLimit - batch.end, batch.rest - c) :
          batch' = [NextOf([reuse |-> 0, seed |-> batch.end,
                            extent |-> extent, capacity |-> c])
                      EXCEPT !.end = EndAfter(@, extent, c)]
    BY DEF SelectNew
  <2> DEFINE q == NextOf([reuse |-> 0, seed |-> batch.end,
                          extent |-> extent, capacity |-> c])
  <2>2. q.end = batch.end
    BY <1>2 DEF NextOf, BatchInv
  <2>3. [q EXCEPT !.end = EndAfter(@, extent, c)]
          = [q EXCEPT !.end = batch.end + extent]
    BY <2>2 DEF EndAfter
  <2> QED BY <2>1, <2>3
<1>5. extent \in Nat
  BY <1>3 DEF Extent
<1> DEFINE p == [reuse |-> 0, seed |-> batch.end, extent |-> extent,
                 capacity |-> c]
<1>6. p \in Plan /\ p.reuse = 0 /\ batch.end + extent \in Nat
  BY <1>2, <1>3, <1>5 DEF Plan
<1>7. BatchInv' /\ Planned' = Planned \cup ({p.reuse} \ {0})
  BY <1>1, <1>2, <1>4, <1>6, PlanGrows
<1> QED BY <1>1, <1>6, <1>7, BatchMoves

\* The first group of the plan is published.
LEMMA PlanShrinks ==
  ASSUME BatchInv, groups \in Nat, groups' \in {groups, groups + 1},
         batch.plan # <<>>, batch' = Published,
         \A g \in Group : leased[g] => leased'[g]
  PROVE  /\ BatchInv' /\ Planned' \subseteq Planned
         /\ groups + 1 <= MaxGroups
<1>1. batch' = [stage |-> batch.stage, todo |-> batch.todo,
                plan |-> Tail(batch.plan), rest |-> batch.rest,
                end |-> batch.end, fits |-> batch.fits,
                failed |-> batch.failed]
  BY DEF Published, BatchInv
<1>2. /\ batch.plan \in Seq(Plan) /\ batch.todo \in Seq(Nat)
      /\ batch.stage \in Stage /\ batch.end \in Nat
      /\ groups + Len(batch.plan) + Len(batch.todo) <= MaxGroups
      /\ \A g \in Planned : leased[g]
  BY DEF BatchInv
<1>3. /\ batch'.plan = Tail(batch.plan) /\ batch'.todo = batch.todo
      /\ batch'.end = batch.end /\ batch'.stage = batch.stage
  BY <1>1
<1>4. /\ Tail(batch.plan) \in Seq(Plan) /\ Len(batch.plan) \in Nat
      /\ Len(batch.plan) > 0
      /\ Len(Tail(batch.plan)) = Len(batch.plan) - 1
  BY <1>2
<1>5. Len(batch.todo) \in Nat
  BY <1>2
<1>6. Planned' \subseteq Planned
  <2>1. ASSUME NEW k \in 1..Len(Tail(batch.plan))
        PROVE  /\ Tail(batch.plan)[k] = batch.plan[k + 1]
               /\ k + 1 \in 1..Len(batch.plan)
    BY <1>2, <1>4
  <2> QED BY <1>3, <2>1 DEF Planned
<1>7. \A g \in Planned : g \in Group
  <2>1. \A k \in 1..Len(batch.plan) : batch.plan[k] \in Plan
    BY <1>2
  <2> QED BY <2>1 DEF Planned, Plan
<1>8. groups' + Len(batch'.plan) + Len(batch'.todo) <= MaxGroups
      /\ groups + 1 <= MaxGroups
  <2> DEFINE p == Len(batch.plan)
             t == Len(batch.todo)
  <2>1. /\ groups \in Nat /\ p \in Nat /\ p > 0 /\ t \in Nat
        /\ MaxGroups \in Nat /\ groups + p + t <= MaxGroups
    BY <1>2, <1>4, <1>5, BoundAssumption
  <2>2. Len(batch'.plan) = p - 1 /\ Len(batch'.todo) = t
    BY <1>3, <1>4
  <2> HIDE DEF p, t
  <2>3. /\ groups + 1 <= MaxGroups
        /\ groups + (p - 1) + t <= MaxGroups
        /\ (groups + 1) + (p - 1) + t <= MaxGroups
    BY <2>1
  <2>4. groups' = groups \/ groups' = groups + 1
    OBVIOUS
  <2> QED BY <2>2, <2>3, <2>4
<1>9. batch' = [stage |-> batch'.stage, todo |-> batch'.todo,
                plan |-> batch'.plan, rest |-> batch'.rest,
                end |-> batch'.end, fits |-> batch'.fits,
                failed |-> batch'.failed]
  BY <1>1
<1> QED BY <1>2, <1>3, <1>4, <1>6, <1>7, <1>8, <1>9 DEF BatchInv

\* Publication of a new or of a reused group.
LEMMA PublishKeeps ==
  ASSUME IInv, PublishNew \/ PublishReuse
  PROVE  IInv'
<1>1. /\ batch.plan # <<>> /\ batch' = Published /\ batchFrame
      /\ BatchInv /\ groups \in Nat /\ size \in Nat
      /\ batch.plan \in Seq(Plan)
  BY DEF PublishNew, PublishReuse, IInv, ArenaType, BatchInv
<1>2. CASE PublishReuse
  <2>1. UNCHANGED <<size, groups, group, free, leased>>
    BY <1>2 DEF PublishReuse
  <2>2. BatchInv' /\ Planned' \subseteq Planned
    BY <1>1, <2>1, PlanShrinks
  <2> QED BY <1>1, <2>1, <2>2, BatchMoves
<1>3. CASE PublishNew
  <2> DEFINE p == Head(batch.plan)
             block == {i \in Index : size <= i /\ i < size + p.extent}
             g == groups + 1
  <2>1. /\ groups' = g /\ size' = size + p.extent
        /\ group' = [i \in Index |-> IF i \in block THEN g ELSE group[i]]
        /\ Activate(g, p.capacity, block)
    BY <1>3 DEF PublishNew
  <2>2. p \in Plan
    BY <1>1
  <2>3. p.extent \in Nat
    BY <2>2 DEF Plan
  <2>4. PICK top \in SUBSET block :
          /\ free' = [free EXCEPT ![g] = top]
          /\ leased' = [leased EXCEPT ![g] = TRUE]
    BY <2>1 DEF Activate
  <2>5. \A h \in Group : leased[h] => leased'[h]
    BY <2>4 DEF IInv, ArenaType
  <2>6. BatchInv' /\ Planned' \subseteq Planned /\ g <= MaxGroups
    BY <1>1, <2>1, <2>5, PlanShrinks
  <2>7. g \in Group /\ g \in 0..MaxGroups
    BY <1>1, <2>6, BoundAssumption DEF Group
  <2>8. ArenaType'
    BY <1>1, <2>1, <2>3, <2>4, <2>7 DEF IInv, ArenaType, batchFrame, handleVars
  <2>9. \A i \in block : group[i] = 0 /\ flags[i] = {} /\ held[i] = "none"
    BY DEF IInv, PlaceInv
  <2>10. \A i \in Index : group[i] # g
    BY <1>1 DEF IInv, PlaceInv, ArenaType
  <2>11. \A i \in Index : i >= size' => i >= size /\ i \notin block
    BY <1>1, <2>1, <2>3, LimitAssumption DEF Index
  <2>12. \A i \in Index : group'[i] = IF i \in block THEN g ELSE group[i]
    BY <2>1
  <2>13. block \in SUBSET Index /\ groups <= groups' /\ g <= groups'
    BY <1>1, <2>1
  <2>14. \A i \in block : group[i] \in {0, g}
    BY <2>9
  <2>15. \A h \in Planned' : h \in Planned \/ h = g
    BY <2>6
  <2> HIDE DEF g, block, p
  <2> QED BY <1>1, <2>1, <2>6, <2>7, <2>8, <2>9, <2>10, <2>11, <2>12, <2>13,
             <2>14, <2>15, ActivateKeeps
<1> QED BY <1>2, <1>3

-----------------------------------------------------------------------------
(* The invariant.                                                          *)

\* The empty arena.
LEMMA InitEstablishes == Init => IInv
<1> SUFFICES ASSUME Init PROVE IInv
  OBVIOUS
<1> USE LimitAssumption, BoundAssumption
<1>1. ArenaType
  BY DEF Init, ArenaType, Generation, Group, FLAGS
<1>2. /\ batch.stage = "idle" /\ batch.todo = <<>> /\ batch.plan = <<>>
      /\ batch.end = 0
      /\ batch = [stage |-> batch.stage, todo |-> batch.todo,
                  plan |-> batch.plan, rest |-> batch.rest,
                  end |-> batch.end, fits |-> batch.fits,
                  failed |-> batch.failed]
  BY DEF Init, Idle
<1>3. Planned = {}
  BY <1>2 DEF Planned
<1>4. BatchInv
  <2>1. /\ batch.stage \in Stage /\ batch.todo \in Seq(Nat)
        /\ batch.plan \in Seq(Plan) /\ batch.end \in Nat
        /\ Len(batch.plan) = 0 /\ Len(batch.todo) = 0 /\ groups = 0
    BY <1>2 DEF Stage, Init
  <2> QED BY <1>2, <1>3, <2>1 DEF BatchInv
<1>5. ASSUME NEW i \in Index
      PROVE  HandleInv(i) /\ FreshInv(i) /\ PlaceInv(i)
  <2>1. HandleInv(i)
    BY DEF Init, HandleInv
  <2>2. FreshInv(i)
    BY DEF Init, FreshInv
  <2>3. PlaceInv(i)
    BY DEF Init, PlaceInv, Group
  <2> QED BY <2>1, <2>2, <2>3
<1> QED BY <1>1, <1>4, <1>5 DEF IInv

\* Every step keeps the invariant.
LEMMA StepPreserves == IInv /\ [Next]_vars => IInv'
<1> SUFFICES ASSUME IInv, [Next]_vars PROVE IInv'
  OBVIOUS
<1>1. ASSUME NEW i \in Index, EntryNext(i) PROVE IInv'
  BY <1>1, VacancyKeeps, ReserveKeeps, CommitKeeps, DisownKeeps, CompleteKeeps,
     SweepNextKeeps, BindKeeps DEF EntryNext
<1>2. CASE Sweep
  <2>1. /\ UNCHANGED <<size, groups, group, leased, batch, flags, generation,
                       free, held, owner, loan, issued>>
    BY <1>2 DEF Sweep, entryFrame, handleVars
  <2> QED BY <2>1
          DEF IInv, ArenaType, BatchInv, HandleInv, FreshInv, PlaceInv, Planned
<1>3. CASE SelectOverflows \/ Abandon
  BY <1>3, ReleaseKeeps
<1>4. ASSUME NEW g \in Group, SelectReuse(g) \/ DropSlots(g) PROVE IInv'
  BY <1>4, SelectReuseKeeps, DropSlotsKeeps
<1>5. CASE (\E caps \in BatchCaps : Batch(caps)) \/ Prepare \/ Groups \/ PublishDone
  BY <1>5, StageKeeps
<1>6. CASE SelectNew
  BY <1>6, SelectNewKeeps
<1>7. CASE PublishNew \/ PublishReuse
  BY <1>7, PublishKeeps
<1>8. CASE UNCHANGED vars
  BY <1>8 DEF vars, arenaVars, handleVars, IInv, ArenaType, BatchInv, HandleInv,
              FreshInv, PlaceInv, Planned
<1> QED BY <1>1, <1>2, <1>3, <1>4, <1>5, <1>6, <1>7, <1>8 DEF Next

\* IInv is an invariant of the arena.
LEMMA Inductive == Spec => []IInv
  BY InitEstablishes, StepPreserves, PTL DEF Spec

\* For every index and generation width: no Reserved, Lease or Complete
\* outlives the occupancy it stands for.
THEOREM HandlesAreSafe == Spec => []HandlesNeverDangle
<1>1. IInv => HandlesNeverDangle
  BY DEF IInv, HandleInv, HandlesNeverDangle
<1> QED BY <1>1, Inductive, PTL

\* For every width, no echo is ever issued twice.
THEOREM EchoesAreFresh == Spec => []VacancyIsFresh
<1>1. IInv => VacancyIsFresh
  BY DEF IInv, FreshInv, VacancyIsFresh
<1> QED BY <1>1, Inductive, PTL

\* The free chains hold only entries without owner, loan or kernel operation.
THEOREM ChainsAreVacant == Spec => []FreeIsVacant
<1>1. IInv => FreeIsVacant
  BY DEF IInv, PlaceInv, HandleInv, FreeIsVacant, ArenaType
<1> QED BY <1>1, Inductive, PTL

-----------------------------------------------------------------------------
(* The refinement.                                                         *)

\* The ledger as the refinement mapping defines it.
reservedL == {e \in Echo : owner[e[1]] = e[2] /\ held[e[1]] = "reserved"}
ownedL == {e \in Echo : owner[e[1]] = e[2] /\ held[e[1]] = "lease"}
pendingL == {e \in Echo : PENDING \in flags[e[1]] /\ generation[e[1]] = e[2]}
loanedL == {e \in Echo : loan[e[1]] = e[2]}

\* What an entry-local step means for the echoes of the other entries.
LEMMA LedgerElsewhere ==
  ASSUME NEW i \in Index, Local(i), NEW e \in Echo, e[1] # i
  PROVE  /\ e \in reservedL' <=> e \in reservedL
         /\ e \in ownedL' <=> e \in ownedL
         /\ e \in pendingL' <=> e \in pendingL
         /\ e \in loanedL' <=> e \in loanedL
<1>1. e[1] \in Index \ {i}
  BY DEF Echo
<1> QED BY <1>1 DEF Local, reservedL, ownedL, pendingL, loanedL

\* The ledger before and after a step that is local to entry i.
LedgerDelta(i) ==
  LET e == <<i, generation[i]>> IN
    /\ e \in Echo
    /\ \A x \in Echo : x # e =>
         /\ x \in reservedL' <=> x \in reservedL
         /\ x \in ownedL' <=> x \in ownedL
         /\ x \in pendingL' <=> x \in pendingL
         /\ x \in loanedL' <=> x \in loanedL
    /\ e \in reservedL <=> owner[i] # 0 /\ held[i] = "reserved"
    /\ e \in ownedL <=> owner[i] # 0 /\ held[i] = "lease"
    /\ e \in pendingL <=> PENDING \in flags[i]
    /\ e \in loanedL <=> loan[i] # 0
    /\ e \in reservedL' <=> owner'[i] # 0 /\ held'[i] = "reserved"
    /\ e \in ownedL' <=> owner'[i] # 0 /\ held'[i] = "lease"
    /\ e \in pendingL' <=> PENDING \in flags'[i]
    /\ e \in loanedL' <=> loan'[i] # 0

\* Two ledgers that agree elsewhere and at the one live echo of an entry.
LEMMA LedgerAt ==
  ASSUME IInv, NEW i \in Index, Local(i),
         owner'[i] \in {0, generation[i]},
         loan'[i] \in {0, generation[i]},
         PENDING \in flags'[i] => generation'[i] = generation[i]
  PROVE  LedgerDelta(i)
<1> DEFINE e == <<i, generation[i]>>
<1>1. generation[i] \in Generation /\ generation[i] # 0
  BY LimitAssumption DEF IInv, ArenaType, Generation
<1>2. e \in Echo /\ e[1] = i /\ e[2] = generation[i]
  BY <1>1 DEF Echo
<1>3. owner[i] \in {0, generation[i]} /\ loan[i] \in {0, generation[i]}
  BY DEF IInv, HandleInv
<1>4. ASSUME NEW x \in Echo, x # e
      PROVE  /\ x \in reservedL' <=> x \in reservedL
             /\ x \in ownedL' <=> x \in ownedL
             /\ x \in pendingL' <=> x \in pendingL
             /\ x \in loanedL' <=> x \in loanedL
  <2>1. CASE x[1] # i
    BY <2>1, LedgerElsewhere
  <2>2. CASE x[1] = i
    <3>1. x[2] # generation[i] /\ x[2] \in Generation /\ x[2] # 0
      BY <1>4, <2>2, LimitAssumption DEF Echo, Generation
    <3> QED BY <1>3, <2>2, <3>1 DEF reservedL, ownedL, pendingL, loanedL
  <2> QED BY <2>1, <2>2
<1>5. /\ e \in reservedL <=> owner[i] # 0 /\ held[i] = "reserved"
      /\ e \in ownedL <=> owner[i] # 0 /\ held[i] = "lease"
      /\ e \in pendingL <=> PENDING \in flags[i]
      /\ e \in loanedL <=> loan[i] # 0
  BY <1>1, <1>2, <1>3 DEF reservedL, ownedL, pendingL, loanedL
<1>6. /\ e \in reservedL' <=> owner'[i] # 0 /\ held'[i] = "reserved"
      /\ e \in ownedL' <=> owner'[i] # 0 /\ held'[i] = "lease"
      /\ e \in loanedL' <=> loan'[i] # 0
  BY <1>1, <1>2 DEF reservedL, ownedL, loanedL
<1>7. e \in pendingL' <=> PENDING \in flags'[i]
  BY <1>2 DEF pendingL
<1> QED BY <1>2, <1>4, <1>5, <1>6, <1>7 DEF LedgerDelta

\* Recycle and SetFlags touch entry i alone, and never leave a recycled
\* entry pending.
LEMMA EntryShape ==
  ASSUME IInv, NEW i \in Index, Recycle(i) \/ \E f \in SUBSET FLAGS : SetFlags(i, f)
  PROVE  /\ \A j \in Index \ {i} :
              /\ flags'[j] = flags[j] /\ generation'[j] = generation[j]
              /\ \A g \in Group : j \in free'[g] <=> j \in free[g]
         /\ PENDING \in flags'[i] => generation'[i] = generation[i]
         /\ Recycle(i) => PENDING \notin flags'[i]
         /\ \A f : SetFlags(i, f) => flags'[i] = f
<1>1. CASE Recycle(i)
  <2>1. /\ \A j \in Index \ {i} :
             /\ flags'[j] = flags[j] /\ generation'[j] = generation[j]
             /\ \A g \in Group : j \in free'[g] <=> j \in free[g]
    BY <1>1 DEF Recycle, Push, IInv, ArenaType
  <2>2. flags'[i] \in {{}, RETIRED}
    BY <1>1 DEF Recycle, IInv, ArenaType
  <2>3. PENDING \notin flags'[i]
    BY <2>2 DEF RETIRED, PENDING, ATTACHED, BOUND
  <2>4. \A f : SetFlags(i, f) => flags'[i] = f
    BY DEF SetFlags, IInv, ArenaType
  <2> QED BY <2>1, <2>3, <2>4
<1>2. ASSUME NEW f \in SUBSET FLAGS, SetFlags(i, f), ~Recycle(i)
      PROVE  /\ \A j \in Index \ {i} :
                  /\ flags'[j] = flags[j] /\ generation'[j] = generation[j]
                  /\ \A g \in Group : j \in free'[g] <=> j \in free[g]
             /\ PENDING \in flags'[i] => generation'[i] = generation[i]
             /\ \A h : SetFlags(i, h) => flags'[i] = h
  BY <1>2 DEF SetFlags, IInv, ArenaType
<1> QED BY <1>1, <1>2

\* The ledger's sets hold echoes only.
LEMMA LedgerSubsets ==
  /\ reservedL \subseteq Echo /\ ownedL \subseteq Echo
  /\ pendingL \subseteq Echo /\ loanedL \subseteq Echo
  /\ reservedL' \subseteq Echo /\ ownedL' \subseteq Echo
  /\ pendingL' \subseteq Echo /\ loanedL' \subseteq Echo
  BY DEF reservedL, ownedL, pendingL, loanedL

\* A vacancy taken or returned is not in the ledger.
LEMMA VacancyRefines ==
  ASSUME IInv, NEW i \in Index, TryVacancy(i) \/ DropVacant(i)
  PROVE  UNCHANGED Ledger!vars
<1>1. /\ UNCHANGED <<flags, generation, owner, loan, issued>>
      /\ \A j \in Index : j # i => held'[j] = held[j]
  BY DEF TryVacancy, DropVacant, entryFrame, IInv, ArenaType
<1>2. owner[i] = 0
  <2>1. held[i] \in {"none", "vacant"}
    <3>1. CASE TryVacancy(i)
      <4>1. group[i] \in Group /\ i \in free[group[i]]
        BY <3>1, BoundAssumption DEF TryVacancy, IInv, ArenaType, Group
      <4> QED BY <4>1 DEF IInv, PlaceInv
    <3>2. CASE DropVacant(i)
      BY <3>2 DEF DropVacant
    <3> QED BY <3>1, <3>2
  <2> QED BY <2>1 DEF IInv, HandleInv
<1>3. ASSUME NEW e \in Echo
      PROVE  /\ owner[e[1]] = e[2] => e[1] # i
             /\ e[1] \in Index
  BY <1>2, LimitAssumption DEF Echo, Generation
<1> QED BY <1>1, <1>3 DEF Ledger!vars

\* Reserve issues an echo.
LEMMA ReserveRefines ==
  ASSUME IInv, NEW i \in Index, Reserve(i)
  PROVE  Ledger!Issue(<<i, generation[i]>>)
<1> DEFINE e == <<i, generation[i]>>
<1>1. /\ held[i] = "vacant" /\ SetFlags(i, {ATTACHED, PENDING})
      /\ held' = [held EXCEPT ![i] = "reserved"]
      /\ owner' = [owner EXCEPT ![i] = generation[i]]
      /\ issued' = issued \cup {e}
      /\ UNCHANGED <<size, groups, group, leased, batch, loan>>
  BY DEF Reserve, entryFrame
<1>2. /\ flags[i] = {} /\ e \notin issued /\ loan[i] = 0 /\ owner[i] = 0
      /\ generation[i] # 0
  <2>1. flags[i] = {} /\ e \notin issued
    BY <1>1 DEF IInv, FreshInv
  <2>2. loan[i] = 0 /\ owner[i] = 0
    BY <2>1 DEF IInv, HandleInv
  <2>3. generation[i] # 0
    BY LimitAssumption DEF IInv, ArenaType, Generation
  <2> QED BY <2>1, <2>2, <2>3
<1>3. {ATTACHED, PENDING} \in SUBSET FLAGS
  BY DEF FLAGS
<1>4. /\ \A j \in Index \ {i} :
           /\ flags'[j] = flags[j] /\ generation'[j] = generation[j]
           /\ \A g \in Group : j \in free'[g] <=> j \in free[g]
      /\ PENDING \in flags'[i] => generation'[i] = generation[i]
      /\ flags'[i] = {ATTACHED, PENDING}
  BY <1>1, <1>3, EntryShape
<1>5. Local(i)
  BY <1>1, <1>4 DEF Local, IInv, ArenaType
<1>6. /\ owner'[i] = generation[i] /\ loan'[i] = 0 /\ held'[i] = "reserved"
  BY <1>1, <1>2 DEF IInv, ArenaType
<1>7. /\ e \in Echo
      /\ \A x \in Echo : x # e =>
           /\ x \in reservedL' <=> x \in reservedL
           /\ x \in ownedL' <=> x \in ownedL
           /\ x \in pendingL' <=> x \in pendingL
           /\ x \in loanedL' <=> x \in loanedL
      /\ e \in reservedL' /\ e \in pendingL'
      /\ e \notin ownedL /\ e \notin ownedL'
      /\ e \notin loanedL /\ e \notin loanedL'
  BY <1>2, <1>4, <1>5, <1>6, LedgerAt DEF PENDING, LedgerDelta
<1>8. /\ reservedL' = reservedL \cup {e} /\ pendingL' = pendingL \cup {e}
      /\ ownedL' = ownedL /\ loanedL' = loanedL
  BY <1>7, LedgerSubsets
<1> QED BY <1>1, <1>2, <1>8 DEF Ledger!Issue, reservedL, ownedL, pendingL, loanedL

\* The ledger after a step that recycles or flags one entry.
LEMMA LedgerStep ==
  ASSUME IInv, NEW i \in Index,
         Recycle(i) \/ \E f \in SUBSET FLAGS : SetFlags(i, f),
         \A j \in Index \ {i} :
           held'[j] = held[j] /\ owner'[j] = owner[j] /\ loan'[j] = loan[j],
         owner'[i] \in {0, generation[i]}, loan'[i] \in {0, generation[i]},
         UNCHANGED <<size, groups, group, leased, batch, issued>>
  PROVE  LedgerDelta(i)
<1>1. Local(i)
  BY EntryShape DEF Local
<1> QED BY <1>1, EntryShape, LedgerAt

\* Commit.
LEMMA CommitRefines ==
  ASSUME IInv, NEW i \in Index, Commit(i)
  PROVE  Ledger!Commit(<<i, generation[i]>>)
<1> DEFINE e == <<i, generation[i]>>
<1>1. /\ held[i] = "reserved" /\ held' = [held EXCEPT ![i] = "lease"]
      /\ UNCHANGED <<size, groups, group, leased, batch, flags, generation,
                     free, owner, loan, issued>>
  BY DEF Commit, entryFrame
<1>2. owner[i] = generation[i] /\ owner[i] # 0 /\ loan[i] \in {0, generation[i]}
  BY <1>1 DEF IInv, HandleInv
<1>3. Local(i) /\ held'[i] = "lease"
  BY <1>1 DEF Local, IInv, ArenaType
<1>4. LedgerDelta(i)
  BY <1>1, <1>2, <1>3, LedgerAt
<1>5. /\ e \in reservedL /\ reservedL' = reservedL \ {e}
      /\ ownedL' = ownedL \cup {e} /\ pendingL' = pendingL /\ loanedL' = loanedL
  <2>1. /\ e \in reservedL /\ e \notin reservedL' /\ e \in ownedL'
        /\ e \in pendingL' <=> e \in pendingL
        /\ e \in loanedL' <=> e \in loanedL
    BY <1>1, <1>2, <1>3, <1>4 DEF LedgerDelta
  <2>2. \A x \in Echo : x # e =>
             /\ x \in reservedL' <=> x \in reservedL
             /\ x \in ownedL' <=> x \in ownedL
             /\ x \in pendingL' <=> x \in pendingL
             /\ x \in loanedL' <=> x \in loanedL
    BY <1>4 DEF LedgerDelta
  <2> QED BY <2>1, <2>2, LedgerSubsets
<1> QED BY <1>1, <1>5 DEF Ledger!Commit, reservedL, ownedL, pendingL, loanedL

\* Drop of a Reserved or of a Lease.
LEMMA DisownRefines ==
  ASSUME IInv, NEW i \in Index
  PROVE  /\ DropReserved(i) => Ledger!Withdraw(<<i, generation[i]>>)
         /\ DropLease(i) => Ledger!Disown(<<i, generation[i]>>)
<1> DEFINE e == <<i, generation[i]>>
<1>0. flags[i] \subseteq FLAGS
  BY DEF IInv, ArenaType
<1>1. ASSUME DropReserved(i) \/ DropLease(i)
      PROVE  /\ held'[i] = "none" /\ owner'[i] = 0 /\ loan'[i] = loan[i]
             /\ owner[i] # 0 /\ loan[i] \in {0, generation[i]}
             /\ \A j \in Index \ {i} :
                  held'[j] = held[j] /\ owner'[j] = owner[j] /\ loan'[j] = loan[j]
             /\ UNCHANGED <<size, groups, group, leased, batch, issued>>
             /\ held[i] \in {"reserved", "lease"}
  <2>1. held[i] \in {"reserved", "lease"} /\ Disown(i)
    BY <1>1 DEF DropReserved, DropLease
  <2>2. owner[i] # 0 /\ loan[i] \in {0, generation[i]}
    BY <2>1 DEF IInv, HandleInv
  <2> QED BY <2>1, <2>2 DEF Disown, entryFrame, IInv, ArenaType
<1>2. CASE DropReserved(i)
  <2>1. \/ Recycle(i)
        \/ SetFlags(i, flags[i] \ {ATTACHED, PENDING})
    BY <1>2 DEF DropReserved, Release
  <2>2. flags[i] \ {ATTACHED, PENDING} \in SUBSET FLAGS
    BY <1>0
  <2>3. PENDING \notin flags'[i]
    BY <2>1, <2>2, EntryShape
  <2>4. LedgerDelta(i)
    BY <1>1, <1>2, <2>1, <2>2, LedgerStep
  <2>5. held[i] = "reserved"
    BY <1>2 DEF DropReserved
  <2>6. /\ e \in reservedL /\ reservedL' = reservedL \ {e}
        /\ pendingL' = pendingL \ {e} /\ ownedL' = ownedL /\ loanedL' = loanedL
    BY <1>1, <1>2, <2>3, <2>4, <2>5, LedgerSubsets DEF LedgerDelta
  <2> QED BY <1>1, <1>2, <2>6
          DEF Ledger!Withdraw, reservedL, ownedL, pendingL, loanedL, DropLease,
              DropReserved
<1>3. CASE DropLease(i)
  <2>1. \/ flags[i] = {ATTACHED} /\ Recycle(i)
        \/ SetFlags(i, flags[i] \ {ATTACHED})
    BY <1>3 DEF DropLease, Detach
  <2>2. flags[i] \ {ATTACHED} \in SUBSET FLAGS
    BY <1>0
  <2>3. PENDING \in flags'[i] <=> PENDING \in flags[i]
    BY <2>1, <2>2, EntryShape DEF PENDING, ATTACHED
  <2>4. LedgerDelta(i)
    BY <1>1, <1>3, <2>1, <2>2, LedgerStep
  <2>5. held[i] = "lease"
    BY <1>3 DEF DropLease
  <2>6. /\ e \in ownedL /\ ownedL' = ownedL \ {e}
        /\ pendingL' = pendingL /\ reservedL' = reservedL /\ loanedL' = loanedL
    <3>1. /\ e \in ownedL /\ e \notin ownedL'
          /\ e \notin reservedL /\ e \notin reservedL'
          /\ e \in pendingL' <=> e \in pendingL
          /\ e \in loanedL' <=> e \in loanedL
      BY <1>1, <1>3, <2>3, <2>4, <2>5 DEF LedgerDelta
    <3>2. \A x \in Echo : x # e =>
               /\ x \in reservedL' <=> x \in reservedL
               /\ x \in ownedL' <=> x \in ownedL
               /\ x \in pendingL' <=> x \in pendingL
               /\ x \in loanedL' <=> x \in loanedL
      BY <2>4 DEF LedgerDelta
    <3> QED BY <3>1, <3>2, LedgerSubsets
  <2> QED BY <1>1, <1>3, <2>5, <2>6
          DEF Ledger!Disown, reservedL, ownedL, pendingL, loanedL, DropLease,
              DropReserved
<1> QED BY <1>2, <1>3

\* An echo binds.
LEMMA BindRefines ==
  ASSUME IInv, NEW i \in Index, NEW n \in Generation, Bind(i, n)
  PROVE  Ledger!Lend(<<i, generation[i]>>)
<1> DEFINE e == <<i, generation[i]>>
           f == flags[i] \cup {BOUND}
<1>1. /\ PENDING \in flags[i] /\ BOUND \notin flags[i] /\ generation[i] = n
      /\ SetFlags(i, f)
      /\ loan' = [loan EXCEPT ![i] = n]
      /\ UNCHANGED <<size, groups, group, leased, batch, held, owner, issued>>
  BY DEF Bind, Bindable, entryFrame
<1>2. f \in SUBSET FLAGS
  BY DEF IInv, ArenaType, FLAGS
<1>3. /\ loan[i] = 0 /\ owner'[i] \in {0, generation[i]}
  BY <1>1 DEF IInv, HandleInv
<1>4. /\ loan'[i] = generation[i] /\ loan'[i] # 0
      /\ \A j \in Index \ {i} :
           held'[j] = held[j] /\ owner'[j] = owner[j] /\ loan'[j] = loan[j]
  BY <1>1, LimitAssumption DEF IInv, ArenaType, Generation
<1>5. LedgerDelta(i)
  BY <1>1, <1>2, <1>3, <1>4, LedgerStep
<1>6. PENDING \in flags'[i]
  BY <1>1, <1>2, EntryShape
<1>7. /\ e \in pendingL /\ e \in pendingL' /\ e \notin loanedL /\ e \in loanedL'
      /\ e \in reservedL' <=> e \in reservedL
      /\ e \in ownedL' <=> e \in ownedL
  BY <1>1, <1>3, <1>4, <1>5, <1>6 DEF LedgerDelta
<1>8. \A x \in Echo : x # e =>
        /\ x \in reservedL' <=> x \in reservedL
        /\ x \in ownedL' <=> x \in ownedL
        /\ x \in pendingL' <=> x \in pendingL
        /\ x \in loanedL' <=> x \in loanedL
  BY <1>5 DEF LedgerDelta
<1>9. /\ loanedL' = loanedL \cup {e} /\ pendingL' = pendingL
      /\ reservedL' = reservedL /\ ownedL' = ownedL
  <2>1. loanedL' = loanedL \cup {e}
    BY <1>7, <1>8, LedgerSubsets
  <2>2. pendingL' = pendingL
    <3>1. \A x \in Echo : x \in pendingL' <=> x \in pendingL
      BY <1>7, <1>8
    <3> QED BY <3>1, LedgerSubsets
  <2>3. reservedL' = reservedL /\ ownedL' = ownedL
    BY <1>7, <1>8, LedgerSubsets
  <2> QED BY <2>1, <2>2, <2>3
<1> QED BY <1>1, <1>7, <1>9 DEF Ledger!Lend, reservedL, ownedL, pendingL, loanedL

\* A Complete ends, or the sweep ends the occupancy in its place.
LEMMA LoanEndRefines ==
  ASSUME IInv, NEW i \in Index,
         Recycle(i) \/ \E f \in SUBSET FLAGS : SetFlags(i, f),
         loan' = [loan EXCEPT ![i] = 0],
         UNCHANGED <<size, groups, group, leased, batch, held, owner, issued>>
  PROVE  LET e == <<i, generation[i]>> IN
         /\ loanedL' = loanedL \ {e} /\ reservedL' = reservedL
         /\ ownedL' = ownedL
         /\ PENDING \notin flags'[i] => pendingL' = pendingL \ {e}
         /\ (PENDING \in flags'[i] <=> PENDING \in flags[i]) => pendingL' = pendingL
         /\ e \in loanedL <=> loan[i] # 0
         /\ e \in pendingL <=> PENDING \in flags[i]
<1> DEFINE e == <<i, generation[i]>>
<1>1. owner'[i] \in {0, generation[i]}
  BY DEF IInv, HandleInv
<1>2. /\ loan'[i] = 0
      /\ \A j \in Index \ {i} :
           held'[j] = held[j] /\ owner'[j] = owner[j] /\ loan'[j] = loan[j]
  BY DEF IInv, ArenaType
<1>3. LedgerDelta(i)
  BY <1>1, <1>2, LedgerStep
<1>4. /\ e \notin loanedL'
      /\ e \in reservedL' <=> e \in reservedL
      /\ e \in ownedL' <=> e \in ownedL
      /\ e \in pendingL' <=> PENDING \in flags'[i]
      /\ e \in pendingL <=> PENDING \in flags[i]
      /\ e \in loanedL <=> loan[i] # 0
  BY <1>2, <1>3 DEF LedgerDelta
<1>5. \A x \in Echo : x # e =>
        /\ x \in reservedL' <=> x \in reservedL
        /\ x \in ownedL' <=> x \in ownedL
        /\ x \in pendingL' <=> x \in pendingL
        /\ x \in loanedL' <=> x \in loanedL
  BY <1>3 DEF LedgerDelta
<1>6. /\ loanedL' = loanedL \ {e} /\ reservedL' = reservedL
      /\ ownedL' = ownedL
  BY <1>4, <1>5, LedgerSubsets
<1>7. PENDING \notin flags'[i] => pendingL' = pendingL \ {e}
  BY <1>4, <1>5, LedgerSubsets
<1>8. (PENDING \in flags'[i] <=> PENDING \in flags[i]) => pendingL' = pendingL
  <2>1. SUFFICES ASSUME PENDING \in flags'[i] <=> PENDING \in flags[i] PROVE pendingL' = pendingL
    OBVIOUS
  <2>2. \A x \in Echo : x \in pendingL' <=> x \in pendingL
    BY <1>4, <1>5, <2>1
  <2> QED BY <2>2, LedgerSubsets
<1> QED BY <1>4, <1>6, <1>7, <1>8

\* Bound::finish leaves nothing pending.
LEMMA FinishBoundShape ==
  ASSUME IInv, NEW i \in Index, FinishBound(i)
  PROVE  /\ PENDING \notin flags'[i]
         /\ Recycle(i) \/ \E f \in SUBSET FLAGS : SetFlags(i, f)
<1>1. flags[i] \ {PENDING, BOUND} \in SUBSET FLAGS
  BY DEF IInv, ArenaType
<1>2. Recycle(i) \/ SetFlags(i, flags[i] \ {PENDING, BOUND})
  BY DEF FinishBound
<1> QED BY <1>1, <1>2, EntryShape

\* Finish and Retain.
LEMMA CompleteRefines ==
  ASSUME IInv, NEW i \in Index
  PROVE  /\ Finish(i) => Ledger!Settle(<<i, generation[i]>>)
         /\ Retain(i) => Ledger!GiveBack(<<i, generation[i]>>)
<1> DEFINE e == <<i, generation[i]>>
<1>1. ASSUME Finish(i) PROVE Ledger!Settle(e)
  <2>1. /\ loan[i] # 0 /\ FinishBound(i) /\ loan' = [loan EXCEPT ![i] = 0]
        /\ UNCHANGED <<size, groups, group, leased, batch, held, owner, issued>>
    BY <1>1 DEF Finish, entryFrame
  <2>2. /\ loanedL' = loanedL \ {e} /\ reservedL' = reservedL
        /\ ownedL' = ownedL /\ pendingL' = pendingL \ {e} /\ e \in loanedL
    BY <2>1, FinishBoundShape, LoanEndRefines
  <2> QED BY <2>1, <2>2
          DEF Ledger!Settle, reservedL, ownedL, pendingL, loanedL
<1>2. ASSUME Retain(i) PROVE Ledger!GiveBack(e)
  <2>1. /\ loan[i] # 0 /\ RetainBound(i) /\ loan' = [loan EXCEPT ![i] = 0]
        /\ UNCHANGED <<size, groups, group, leased, batch, held, owner, issued>>
    BY <1>2 DEF Retain, entryFrame
  <2>2. flags[i] \ {BOUND} \in SUBSET FLAGS
    BY DEF IInv, ArenaType
  <2>3. \/ PENDING \notin flags[i] /\ Recycle(i)
        \/ SetFlags(i, flags[i] \ {BOUND})
    BY <2>1 DEF RetainBound
  <2>4. PENDING \in flags'[i] <=> PENDING \in flags[i]
    BY <2>2, <2>3, EntryShape DEF PENDING, BOUND
  <2>5. /\ loanedL' = loanedL \ {e} /\ reservedL' = reservedL
        /\ ownedL' = ownedL /\ pendingL' = pendingL /\ e \in loanedL
    BY <2>1, <2>2, <2>3, <2>4, LoanEndRefines
  <2> QED BY <2>1, <2>5
          DEF Ledger!GiveBack, reservedL, ownedL, pendingL, loanedL
<1> QED BY <1>1, <1>2

\* The sweep settles a pending completion without a loan, or passes by.
LEMMA SweepRefines ==
  ASSUME IInv, NEW i \in Index, SweepNext(i)
  PROVE  Ledger!Expire(<<i, generation[i]>>) \/ UNCHANGED Ledger!vars
<1> DEFINE e == <<i, generation[i]>>
<1>1. UNCHANGED <<size, groups, group, leased, batch, held, owner, loan, issued>>
  BY DEF SweepNext, entryFrame, handleVars
<1>2. ASSUME Bindable(i, generation[i]), FinishBound(i)
      PROVE  Ledger!Expire(e)
  <2>1. PENDING \in flags[i] /\ loan[i] = 0
    BY <1>2 DEF Bindable, IInv, HandleInv
  <2>2. loan' = [loan EXCEPT ![i] = 0]
    BY <1>1, <2>1 DEF IInv, ArenaType
  <2>3. /\ loanedL' = loanedL \ {e} /\ reservedL' = reservedL
        /\ ownedL' = ownedL /\ pendingL' = pendingL \ {e}
        /\ e \in pendingL /\ e \notin loanedL
    BY <1>1, <1>2, <2>1, <2>2, FinishBoundShape, LoanEndRefines
  <2>4. loanedL' = loanedL
    BY <2>3
  <2> QED BY <1>1, <2>3, <2>4
          DEF Ledger!Expire, reservedL, ownedL, pendingL, loanedL
<1>3. ASSUME SetFlags(i, flags[i])
      PROVE  UNCHANGED Ledger!vars
  <2>1. flags' = flags /\ generation' = generation
    BY <1>3 DEF SetFlags, IInv, ArenaType
  <2> QED BY <1>1, <2>1 DEF Ledger!vars
<1> QED BY <1>2, <1>3 DEF SweepNext

\* Batches, groups and the start of a sweep touch no identity.
LEMMA GroupsRefine ==
  ASSUME Next, ~ \E i \in Index : EntryNext(i)
  PROVE  UNCHANGED Ledger!vars
<1>1. UNCHANGED <<flags, generation, handleVars>>
  BY DEF Next, Sweep, Batch, SelectNew, SelectOverflows, Abandon, Prepare,
         Groups, PublishNew, PublishReuse, PublishDone, SelectReuse, DropSlots,
         batchFrame
<1> QED BY <1>1 DEF handleVars, Ledger!vars

\* One step of an entry is one step of the ledger, or none.
LEMMA EntryRefines ==
  ASSUME IInv, NEW i \in Index, EntryNext(i)
  PROVE  Ledger!Next \/ UNCHANGED Ledger!vars
<1> DEFINE e == <<i, generation[i]>>
<1>1. e \in Echo
  BY DEF Echo, IInv, ArenaType
<1>2. \/ Ledger!Issue(e) \/ Ledger!Commit(e) \/ Ledger!Disown(e)
      \/ Ledger!Withdraw(e) \/ Ledger!Lend(e) \/ Ledger!Settle(e)
      \/ Ledger!GiveBack(e) \/ Ledger!Expire(e) \/ UNCHANGED Ledger!vars
  BY VacancyRefines, ReserveRefines, CommitRefines, DisownRefines, BindRefines,
     CompleteRefines, SweepRefines DEF EntryNext
<1>3. PICK x \in Echo : x = e
  BY <1>1
<1>4. ASSUME Ledger!Issue(e) PROVE Ledger!Issue(x)
  BY <1>3, <1>4 DEF Ledger!Issue
<1>5. ASSUME Ledger!Commit(e) PROVE Ledger!Commit(x)
  BY <1>3, <1>5 DEF Ledger!Commit
<1>6. ASSUME Ledger!Disown(e) PROVE Ledger!Disown(x)
  BY <1>3, <1>6 DEF Ledger!Disown
<1>7. ASSUME Ledger!Withdraw(e) PROVE Ledger!Withdraw(x)
  BY <1>3, <1>7 DEF Ledger!Withdraw
<1>8. ASSUME Ledger!Lend(e) PROVE Ledger!Lend(x)
  BY <1>3, <1>8 DEF Ledger!Lend
<1>9. ASSUME Ledger!Settle(e) PROVE Ledger!Settle(x)
  BY <1>3, <1>9 DEF Ledger!Settle
<1>10. ASSUME Ledger!GiveBack(e) PROVE Ledger!GiveBack(x)
  BY <1>3, <1>10 DEF Ledger!GiveBack
<1>11. ASSUME Ledger!Expire(e) PROVE Ledger!Expire(x)
  BY <1>3, <1>11 DEF Ledger!Expire
<1> HIDE DEF e
<1> QED BY <1>2, <1>4, <1>5, <1>6, <1>7, <1>8, <1>9, <1>10, <1>11
        DEF Ledger!Next

\* The arena implements the ledger of identities, whatever its limits: no
\* step of Live::detach, Live::release, Bound::finish, Bound::retain or
\* Flights::finish loses a pending completion, ends an identity that still
\* has a holder, or issues one twice.
THEOREM ArenaImplementsLedger == Spec => ImplementsLedger
<1>1. Init => Ledger!Init
  <2> SUFFICES ASSUME Init PROVE Ledger!Init
    OBVIOUS
  <2>1. ASSUME NEW e \in Echo
        PROVE  /\ owner[e[1]] # e[2] /\ PENDING \notin flags[e[1]]
               /\ loan[e[1]] # e[2]
    BY LimitAssumption DEF Init, Echo, Generation
  <2> QED BY <2>1 DEF Init, Ledger!Init
<1>2. IInv /\ [Next]_vars => [Ledger!Next]_(Ledger!vars)
  <2> SUFFICES ASSUME IInv, [Next]_vars
               PROVE  Ledger!Next \/ UNCHANGED Ledger!vars
    OBVIOUS
  <2>1. CASE Next
    BY <2>1, EntryRefines, GroupsRefine
  <2>2. CASE UNCHANGED vars
    BY <2>2 DEF vars, arenaVars, handleVars, Ledger!vars
  <2> QED BY <2>1, <2>2
<1> QED BY <1>1, <1>2, Inductive, PTL DEF Spec, ImplementsLedger, Ledger!Spec

-----------------------------------------------------------------------------
(* The admission count.                                                    *)

\* The entries that the count of a group stands for.
Admitted(g) ==
  {i \in Index : /\ group[i] = g
                 /\ i \in free[g] \/ held[i] # "none" \/ flags[i] \notin {{}, RETIRED}}

CountInv ==
  /\ admission \in [Group -> Int] /\ empty \in [Group -> BOOLEAN]
  /\ \A g \in 1..groups : admission[g] = Cardinality(Admitted(g))

\* Every set of entries is finite.
LEMMA EntriesFinite ==
  ASSUME NEW S \in SUBSET Index
  PROVE  IsFiniteSet(S) /\ Cardinality(S) \in Nat
<1>1. IsFiniteSet(Index)
  BY LimitAssumption, FS_Interval DEF Index
<1>2. IsFiniteSet(S)
  BY <1>1, FS_Subset
<1> QED BY <1>2, FS_CardinalityType

\* A chain and the busy entries of its group are disjoint, so the count is
\* the sum of the two.
LEMMA CountIsExact ==
  ASSUME IInv, CountInv
  PROVE  AdmissionIsExact
<1> SUFFICES ASSUME NEW g \in 1..groups
             PROVE  admission[g] = Cardinality(free[g]) + Cardinality(Busy(g))
  BY DEF AdmissionIsExact
<1>1. g \in Group
  <2>1. groups \in Nat /\ groups <= MaxGroups
    BY BoundAssumption DEF IInv, ArenaType, BatchInv
  <2> QED BY <2>1, BoundAssumption DEF Group
<1>2. free[g] \in SUBSET Index /\ Busy(g) \in SUBSET Index
  BY <1>1 DEF IInv, ArenaType, Busy
<1>3. \A i \in free[g] : group[i] = g /\ flags[i] = {} /\ held[i] = "none"
  BY <1>1, <1>2 DEF IInv, PlaceInv
<1>4. free[g] \cap Busy(g) = {}
  BY <1>3 DEF Busy
<1>5. Admitted(g) = free[g] \cup Busy(g)
  BY <1>2, <1>3 DEF Admitted, Busy
<1>6. /\ IsFiniteSet(free[g]) /\ Cardinality(free[g]) \in Nat
      /\ IsFiniteSet(Busy(g)) /\ Cardinality(Busy(g)) \in Nat
  BY <1>2, EntriesFinite
<1>7. Cardinality(free[g] \cup Busy(g))
        = Cardinality(free[g]) + Cardinality(Busy(g)) - Cardinality({})
  BY <1>4, <1>6, FS_Union
<1>8. Cardinality({}) = 0
  BY FS_EmptySet
<1>9. \A a, b \in Nat : a + b - 0 = a + b
  OBVIOUS
<1>10. admission[g] = Cardinality(Admitted(g))
  BY DEF CountInv
<1> QED BY <1>5, <1>6, <1>7, <1>8, <1>9, <1>10

\* A step of entry i only.
CountLocal(i) ==
  /\ UNCHANGED <<groups, group, empty>>
  /\ \A j \in Index \ {i} :
       /\ flags'[j] = flags[j] /\ held'[j] = held[j]
       /\ \A g \in Group : j \in free'[g] <=> j \in free[g]

\* Which groups are counted.
LEMMA CountedGroups ==
  ASSUME IInv
  PROVE  /\ groups \in Nat
         /\ \A g \in 1..groups : g \in Group
         /\ \A i \in Index : group[i] # 0 => group[i] \in 1..groups
<1>1. groups \in Nat /\ groups <= MaxGroups /\ MaxGroups \in Nat
  BY BoundAssumption DEF IInv, ArenaType, BatchInv
<1>2. \A i \in Index : group[i] \in 0..MaxGroups /\ group[i] <= groups
  BY DEF IInv, ArenaType, PlaceInv
<1> QED BY <1>1, <1>2 DEF Group

\* The entry stays admitted, and so does every other one.
LEMMA CountStays ==
  ASSUME IInv, CountInv, NEW i \in Index, CountLocal(i), UNCHANGED admission,
         i \in Admitted(group[i]), i \in Admitted(group[i])'
  PROVE  CountInv'
<1>1. ASSUME NEW g \in 1..groups PROVE Admitted(g)' = Admitted(g)
  <2>1. g \in Group
    BY CountedGroups
  <2>2. \A j \in Index \ {i} : j \in Admitted(g)' <=> j \in Admitted(g)
    BY <2>1 DEF Admitted, CountLocal
  <2>3. i \in Admitted(g)' <=> i \in Admitted(g)
    BY DEF Admitted, CountLocal
  <2>4. Admitted(g) \subseteq Index /\ Admitted(g)' \subseteq Index
    BY DEF Admitted
  <2> QED BY <2>2, <2>3, <2>4
<1> QED BY <1>1 DEF CountInv, CountLocal

\* The identity of the entry is retired.
LEMMA CountFalls ==
  ASSUME IInv, CountInv, NEW i \in Index, CountLocal(i), Unadmit(i), group[i] # 0,
         i \in Admitted(group[i]), i \notin Admitted(group[i])'
  PROVE  CountInv'
<1> DEFINE h == group[i]
<1>0. h \in 1..groups /\ h \in Group
  BY CountedGroups
<1>1. admission' = [admission EXCEPT ![h] = @ - 1] /\ admission \in [Group -> Int]
  BY DEF Unadmit, CountInv
<1>2. ASSUME NEW g \in 1..groups
      PROVE  admission'[g] = Cardinality(Admitted(g)')
  <2>1. g \in Group
    BY CountedGroups
  <2>2. \A j \in Index \ {i} : j \in Admitted(g)' <=> j \in Admitted(g)
    BY <2>1 DEF Admitted, CountLocal
  <2>4. Admitted(g) \subseteq Index /\ Admitted(g)' \subseteq Index
    BY DEF Admitted
  <2>5. admission[g] = Cardinality(Admitted(g))
    BY DEF CountInv
  <2>6. CASE g = h
    <3>1. Admitted(g)' = Admitted(g) \ {i}
      <4>1. i \notin Admitted(g)'
        BY <2>6 DEF CountLocal
      <4> QED BY <2>2, <2>4, <4>1
    <3>2. i \in Admitted(g) /\ IsFiniteSet(Admitted(g))
      BY <2>4, <2>6, EntriesFinite
    <3>3. Cardinality(Admitted(g) \ {i}) = Cardinality(Admitted(g)) - 1
      BY <3>2, FS_RemoveElement
    <3> QED BY <1>0, <1>1, <2>5, <2>6, <3>1, <3>3
  <2>7. CASE g # h
    <3>1. i \notin Admitted(g) /\ i \notin Admitted(g)'
      BY <2>7 DEF Admitted, CountLocal
    <3>2. Admitted(g)' = Admitted(g)
      BY <2>2, <2>4, <3>1
    <3> QED BY <1>0, <1>1, <2>1, <2>5, <2>7, <3>2
  <2> QED BY <2>6, <2>7
<1>3. admission' \in [Group -> Int]
  BY <1>0, <1>1
<1> QED BY <1>2, <1>3 DEF CountInv, CountLocal

\* An entry that is handed out or in flight is admitted.
LEMMA OutIsAdmitted ==
  ASSUME IInv, NEW i \in Index, held[i] # "none" \/ flags[i] \notin {{}, RETIRED}
  PROVE  i \in Admitted(group[i])
  BY DEF Admitted

\* Live::recycle puts the entry on the chain or retires its identity.
LEMMA CountRecycles ==
  ASSUME IInv, CountInv, NEW i \in Index, Recycle(i), held'[i] = "none",
         held[i] # "none" \/ flags[i] \notin {{}, RETIRED},
         held[i] # "vacant",
         \A j \in Index \ {i} : held'[j] = held[j],
         UNCHANGED <<groups, group, empty>>
  PROVE  CountInv'
<1>0. group[i] # 0 /\ group[i] \in Group
  <2>1. group[i] # 0
    BY DEF IInv, PlaceInv
  <2> QED BY <2>1, BoundAssumption DEF IInv, ArenaType, Group
<1>1. i \in Admitted(group[i])
  BY OutIsAdmitted
<1>2. CASE Renewable(generation[i])
  <2>1. /\ flags' = [flags EXCEPT ![i] = {}]
        /\ free' = [free EXCEPT ![group[i]] = @ \cup {i}]
        /\ UNCHANGED admission
    BY <1>2 DEF Recycle, Push
  <2>2. CountLocal(i)
    BY <1>0, <2>1 DEF CountLocal, IInv, ArenaType
  <2>3. i \in Admitted(group[i])'
    BY <1>0, <2>1 DEF Admitted, IInv, ArenaType
  <2> QED BY <1>1, <2>1, <2>2, <2>3, CountStays
<1>3. CASE ~Renewable(generation[i])
  <2>1. flags' = [flags EXCEPT ![i] = RETIRED] /\ UNCHANGED free /\ Unadmit(i)
    BY <1>3 DEF Recycle
  <2>2. CountLocal(i)
    BY <2>1 DEF CountLocal, IInv, ArenaType
  <2>3. i \notin free[group[i]]
    BY <1>0 DEF IInv, PlaceInv
  <2>4. i \notin Admitted(group[i])'
    BY <2>1, <2>3 DEF Admitted, IInv, ArenaType
  <2> QED BY <1>0, <1>1, <2>1, <2>2, <2>4, CountFalls
<1> QED BY <1>2, <1>3

\* The entry changes its flags and stays handed out or in flight.
LEMMA CountSetsFlags ==
  ASSUME IInv, CountInv, NEW i \in Index, NEW f, SetFlags(i, f),
         held[i] # "none" \/ flags[i] \notin {{}, RETIRED},
         held'[i] # "none" \/ f \notin {{}, RETIRED},
         \A j \in Index \ {i} : held'[j] = held[j],
         UNCHANGED <<groups, group, empty>>
  PROVE  CountInv'
<1>1. flags' = [flags EXCEPT ![i] = f] /\ UNCHANGED <<free, admission>>
  BY DEF SetFlags
<1>2. CountLocal(i)
  BY <1>1 DEF CountLocal, IInv, ArenaType
<1>3. i \in Admitted(group[i])
  BY OutIsAdmitted
<1>4. i \in Admitted(group[i])'
  BY <1>1 DEF Admitted, IInv, ArenaType
<1> QED BY <1>1, <1>2, <1>3, <1>4, CountStays

\* The steps of a vacancy, a reservation and a lease.
LEMMA CountVacancy ==
  ASSUME IInv, CountInv, NEW i \in Index,
         TryVacancy(i) \/ DropVacant(i) \/ Reserve(i) \/ Commit(i)
  PROVE  CountInv'
<1>1. CASE TryVacancy(i)
  <2>1. /\ group[i] # 0 /\ i \in free[group[i]]
        /\ free' = [free EXCEPT ![group[i]] = @ \ {i}]
        /\ held' = [held EXCEPT ![i] = "vacant"]
        /\ UNCHANGED <<flags, admission, groups, group, empty>>
    BY <1>1 DEF TryVacancy, entryFrame
  <2>2. group[i] \in Group
    BY <2>1, CountedGroups
  <2>3. CountLocal(i)
    BY <2>1, <2>2 DEF CountLocal, IInv, ArenaType
  <2>4. i \in Admitted(group[i]) /\ i \in Admitted(group[i])'
    BY <2>1 DEF Admitted, IInv, ArenaType
  <2> QED BY <2>1, <2>3, <2>4, CountStays
<1>2. CASE DropVacant(i)
  <2>1. /\ held[i] = "vacant"
        /\ free' = [free EXCEPT ![group[i]] = @ \cup {i}]
        /\ held' = [held EXCEPT ![i] = "none"]
        /\ UNCHANGED <<flags, admission, groups, group, empty>>
    BY <1>2 DEF DropVacant, Push, entryFrame
  <2>2. group[i] \in Group
    BY <2>1, CountedGroups DEF IInv, PlaceInv
  <2>3. CountLocal(i)
    BY <2>1, <2>2 DEF CountLocal, IInv, ArenaType
  <2>4. i \in Admitted(group[i]) /\ i \in Admitted(group[i])'
    BY <2>1, <2>2 DEF Admitted, IInv, ArenaType
  <2> QED BY <2>1, <2>3, <2>4, CountStays
<1>3. CASE Reserve(i)
  <2>1. /\ held[i] = "vacant" /\ SetFlags(i, {ATTACHED, PENDING})
        /\ held' = [held EXCEPT ![i] = "reserved"]
        /\ UNCHANGED <<groups, group, empty>>
    BY <1>3 DEF Reserve, entryFrame
  <2>2. held'[i] = "reserved" /\ \A j \in Index \ {i} : held'[j] = held[j]
    BY <2>1 DEF IInv, ArenaType
  <2> QED BY <2>1, <2>2, CountSetsFlags
<1>4. CASE Commit(i)
  <2>1. /\ held[i] = "reserved"
        /\ held' = [held EXCEPT ![i] = "lease"]
        /\ UNCHANGED <<flags, free, admission, groups, group, empty>>
    BY <1>4 DEF Commit, entryFrame
  <2>2. CountLocal(i)
    BY <2>1 DEF CountLocal, IInv, ArenaType
  <2>3. i \in Admitted(group[i]) /\ i \in Admitted(group[i])'
    BY <2>1 DEF Admitted, IInv, ArenaType
  <2> QED BY <2>1, <2>2, <2>3, CountStays
<1> QED BY <1>1, <1>2, <1>3, <1>4

\* The owner lets go.
LEMMA CountDisown ==
  ASSUME IInv, CountInv, NEW i \in Index, DropReserved(i) \/ DropLease(i)
  PROVE  CountInv'
<1>1. /\ held[i] \in {"reserved", "lease"}
      /\ held' = [held EXCEPT ![i] = "none"]
      /\ UNCHANGED <<groups, group, empty>>
  BY DEF DropReserved, DropLease, Disown, entryFrame
<1>2. held'[i] = "none" /\ \A j \in Index \ {i} : held'[j] = held[j]
  BY <1>1 DEF IInv, ArenaType
<1>3. ATTACHED \in flags[i] /\ flags[i] # RETIRED /\ flags[i] \subseteq FLAGS
  <2>1. owner[i] # 0
    BY <1>1 DEF IInv, HandleInv
  <2> QED BY <2>1 DEF IInv, HandleInv, ArenaType
<1>4. CASE Recycle(i)
  BY <1>1, <1>2, <1>4, CountRecycles
<1>5. CASE BOUND \in flags[i] /\ SetFlags(i, flags[i] \ {ATTACHED, PENDING})
  <2>1. flags[i] \ {ATTACHED, PENDING} \notin {{}, RETIRED}
    BY <1>5 DEF RETIRED, ATTACHED, PENDING, BOUND
  <2> QED BY <1>1, <1>2, <1>5, <2>1, CountSetsFlags
<1>6. CASE flags[i] # {ATTACHED} /\ SetFlags(i, flags[i] \ {ATTACHED})
  <2>1. flags[i] \ {ATTACHED} \notin {{}, RETIRED}
    BY <1>3, <1>6 DEF RETIRED
  <2> QED BY <1>1, <1>2, <1>6, <2>1, CountSetsFlags
<1> QED BY <1>4, <1>5, <1>6 DEF DropReserved, DropLease, Release, Detach

\* Bound::finish on an entry in flight that no Vacant holds.
LEMMA CountFinishes ==
  ASSUME IInv, CountInv, NEW i \in Index, FinishBound(i),
         flags[i] \notin {{}, RETIRED}, UNCHANGED <<held, groups, group, empty>>
  PROVE  CountInv'
<1>1. held[i] # "vacant"
  BY DEF IInv, FreshInv
<1>2. CASE ATTACHED \notin flags[i] /\ Recycle(i)
  <2>1. owner[i] = 0
    BY <1>2 DEF IInv, HandleInv
  <2>2. held[i] = "none"
    BY <1>1, <2>1 DEF IInv, HandleInv
  <2> QED BY <1>1, <1>2, <2>2, CountRecycles
<1>3. CASE ATTACHED \in flags[i] /\ SetFlags(i, flags[i] \ {PENDING, BOUND})
  <2>1. owner[i] # 0
    BY <1>3 DEF IInv, HandleInv
  <2>2. held[i] # "none"
    BY <2>1 DEF IInv, HandleInv
  <2> QED BY <1>3, <2>2, CountSetsFlags
<1> QED BY <1>2, <1>3 DEF FinishBound

\* Completions.
LEMMA CountCompletion ==
  ASSUME IInv, CountInv, NEW i \in Index,
         Finish(i) \/ Retain(i) \/ SweepNext(i) \/ \E n \in Generation : Bind(i, n)
  PROVE  CountInv'
<1>0. UNCHANGED <<held, groups, group, empty>>
  BY DEF Finish, Retain, SweepNext, Bind, entryFrame, handleVars
<1>1. CASE Finish(i)
  <2>1. loan[i] # 0 /\ FinishBound(i)
    BY <1>1 DEF Finish
  <2>2. flags[i] \notin {{}, RETIRED}
    BY <2>1 DEF IInv, HandleInv
  <2> QED BY <1>0, <2>1, <2>2, CountFinishes
<1>2. CASE Retain(i)
  <2>1. loan[i] # 0 /\ RetainBound(i)
    BY <1>2 DEF Retain
  <2>2. BOUND \in flags[i] /\ flags[i] # RETIRED /\ flags[i] \subseteq FLAGS
    BY <2>1 DEF IInv, HandleInv, ArenaType
  <2>3. held[i] # "vacant"
    BY <2>2 DEF IInv, FreshInv
  <2>4. CASE PENDING \notin flags[i] /\ Recycle(i)
    <3>1. ATTACHED \notin flags[i]
      BY <2>2, <2>4 DEF RETIRED, FLAGS
    <3>2. owner[i] = 0
      BY <3>1 DEF IInv, HandleInv
    <3>3. held[i] = "none"
      BY <2>3, <3>2 DEF IInv, HandleInv
    <3> QED BY <1>0, <2>2, <2>3, <2>4, <3>3, CountRecycles
  <2>5. CASE PENDING \in flags[i] /\ SetFlags(i, flags[i] \ {BOUND})
    <3>1. flags[i] \ {BOUND} \notin {{}, RETIRED} /\ flags[i] \notin {{}, RETIRED}
      BY <2>5 DEF RETIRED, ATTACHED, PENDING, BOUND
    <3> QED BY <1>0, <2>5, <3>1, CountSetsFlags
  <2> QED BY <2>1, <2>4, <2>5 DEF RetainBound
<1>3. CASE SweepNext(i)
  <2>1. CASE Bindable(i, generation[i]) /\ FinishBound(i)
    <3>1. flags[i] \notin {{}, RETIRED}
      BY <2>1 DEF Bindable, RETIRED, PENDING, ATTACHED, BOUND
    <3> QED BY <1>0, <2>1, <3>1, CountFinishes
  <2>2. CASE SetFlags(i, flags[i])
    <3>1. flags' = flags /\ UNCHANGED <<free, admission>>
      BY <2>2 DEF SetFlags, IInv, ArenaType
    <3> QED BY <1>0, <3>1 DEF CountInv, Admitted
  <2> QED BY <1>3, <2>1, <2>2 DEF SweepNext
<1>4. ASSUME NEW n \in Generation, Bind(i, n) PROVE CountInv'
  <2>1. PENDING \in flags[i] /\ SetFlags(i, flags[i] \cup {BOUND})
    BY <1>4 DEF Bind, Bindable
  <2>2. flags[i] \cup {BOUND} \notin {{}, RETIRED} /\ flags[i] \notin {{}, RETIRED}
    BY <2>1 DEF RETIRED, ATTACHED, PENDING, BOUND
  <2> QED BY <1>0, <2>1, <2>2, CountSetsFlags
<1> QED BY <1>1, <1>2, <1>3, <1>4

\* Header::activate sets the count to the length of the new chain.
LEMMA CountActivates ==
  ASSUME IInv, CountInv, batchFrame, NEW g \in Group, NEW c \in Nat,
         NEW V \in SUBSET Index, Activate(g, c, V),
         \A i \in Index : group'[i] = IF i \in V THEN g ELSE group[i],
         \A i \in V : group[i] \in {0, g},
         \A i \in Index : group'[i] = g => held[i] = "none" /\ flags[i] \in {{}, RETIRED},
         groups' \in {groups, groups + 1}, groups' # groups => g = groups'
  PROVE  CountInv'
<1>1. PICK top \in SUBSET V :
        /\ Cardinality(top) = c
        /\ free' = [free EXCEPT ![g] = top]
        /\ empty' = [empty EXCEPT ![g] = (c = 0)]
        /\ admission' = [admission EXCEPT ![g] = c]
  BY DEF Activate
<1>2. flags' = flags /\ held' = held
  BY DEF batchFrame, handleVars
<1>3. free'[g] = top /\ admission'[g] = c
  BY <1>1 DEF IInv, ArenaType, CountInv
<1>4. Admitted(g)' = top
  BY <1>2, <1>3 DEF Admitted
<1>5. ASSUME NEW h \in 1..groups', h # g
      PROVE  admission'[h] = Cardinality(Admitted(h)')
  <2>1. h \in 1..groups
    BY <1>5, CountedGroups
  <2>2. h \in Group /\ h # 0
    BY <2>1, CountedGroups
  <2>3. free'[h] = free[h] /\ admission'[h] = admission[h]
    BY <1>1, <1>5, <2>2 DEF IInv, ArenaType, CountInv
  <2>4. \A i \in Index : group'[i] = h <=> group[i] = h
    BY <1>5, <2>2
  <2>5. Admitted(h)' = Admitted(h)
    BY <1>2, <2>3, <2>4 DEF Admitted
  <2> QED BY <2>1, <2>3, <2>5 DEF CountInv
<1>6. admission' \in [Group -> Int] /\ empty' \in [Group -> BOOLEAN]
  BY <1>1 DEF CountInv
<1> QED BY <1>1, <1>3, <1>4, <1>5, <1>6 DEF CountInv

\* Preparation and publication.
LEMMA CountGroups ==
  ASSUME IInv, CountInv, \/ \E g \in Group : SelectReuse(g)
                         \/ PublishNew
  PROVE  CountInv'
<1>1. ASSUME NEW g \in Group, SelectReuse(g) PROVE CountInv'
  <2> DEFINE c == Head(batch.todo)
  <2>1. /\ batch.todo # <<>> /\ Activate(g, c, Vacancies(g)) /\ batchFrame
        /\ UNCHANGED <<size, groups, group>>
    BY <1>1 DEF SelectReuse
  <2>2. ~leased[g] /\ \A i \in Index : group[i] = g => flags[i] \in {{}, RETIRED}
    BY <1>1 DEF SelectReuse, BestFit, Reusable
  <2>3. c \in Nat
    BY <2>1 DEF IInv, BatchInv
  <2>4. ASSUME NEW i \in Index, group[i] = g PROVE held[i] = "none"
    <3>1. owner[i] = 0
      <4>1. ~(ATTACHED \in flags[i] /\ flags[i] # RETIRED)
        BY <2>2, <2>4
      <4> QED BY <4>1 DEF IInv, HandleInv
    <3>2. held[i] \in {"none", "vacant"}
      BY <3>1 DEF IInv, HandleInv
    <3>3. held[i] # "vacant"
      BY <2>2, <2>4 DEF IInv, PlaceInv
    <3> QED BY <3>2, <3>3
  <2>5. /\ Vacancies(g) \in SUBSET Index
        /\ \A i \in Vacancies(g) : group[i] = g
    BY DEF Vacancies
  <2>6. \A i \in Index : group'[i] = g => held[i] = "none" /\ flags[i] \in {{}, RETIRED}
    BY <2>1, <2>2, <2>4
  <2>7. \A i \in Index : group'[i] = IF i \in Vacancies(g) THEN g ELSE group[i]
    BY <2>1, <2>5
  <2>8. \A i \in Vacancies(g) : group[i] \in {0, g}
    BY <2>5
  <2> HIDE DEF c
  <2> QED BY <2>1, <2>3, <2>5, <2>6, <2>7, <2>8, CountActivates
<1>2. CASE PublishNew
  <2> DEFINE p == Head(batch.plan)
             block == {i \in Index : size <= i /\ i < size + p.extent}
             g == groups + 1
  <2>1. /\ groups' = g /\ batch.plan # <<>> /\ batchFrame /\ batch' = Published
        /\ group' = [i \in Index |-> IF i \in block THEN g ELSE group[i]]
        /\ Activate(g, p.capacity, block)
    BY <1>2 DEF PublishNew
  <2>2. p \in Plan
    BY <2>1 DEF IInv, BatchInv
  <2>3. p.capacity \in Nat
    BY <2>2 DEF Plan
  <2>4. \A i \in block : group[i] = 0 /\ flags[i] = {} /\ held[i] = "none"
    BY DEF IInv, PlaceInv
  <2>5. groups \in Nat /\ \A i \in Index : group[i] # g
    BY DEF IInv, PlaceInv, ArenaType
  <2>6. g \in Group
    <3>1. groups + Len(batch.plan) + Len(batch.todo) <= MaxGroups
      BY DEF IInv, BatchInv
    <3>2. Len(batch.plan) \in Nat \ {0} /\ Len(batch.todo) \in Nat
      BY <2>1 DEF IInv, BatchInv
    <3>3. \A a, b, d, m \in Nat : a + b + d <= m /\ b # 0 => a + 1 \in 1..m
      OBVIOUS
    <3> QED BY <2>5, <3>1, <3>2, <3>3, BoundAssumption DEF Group
  <2>7. \A i \in Index : group'[i] = g => held[i] = "none" /\ flags[i] \in {{}, RETIRED}
    BY <2>1, <2>4, <2>5
  <2>8. /\ block \in SUBSET Index
        /\ \A i \in Index : group'[i] = IF i \in block THEN g ELSE group[i]
        /\ \A i \in block : group[i] \in {0, g}
        /\ groups' \in {groups, groups + 1} /\ (groups' # groups => g = groups')
    BY <2>1, <2>4
  <2> HIDE DEF g, block, p
  <2> QED BY <2>1, <2>3, <2>6, <2>7, <2>8, CountActivates
<1> QED BY <1>1, <1>2

\* The empty arena counts nothing, and every step keeps the count.
LEMMA CountInductive == Spec => [](IInv /\ CountInv)
<1>1. Init => CountInv
  BY BoundAssumption DEF Init, CountInv
<1>2. IInv /\ CountInv /\ [Next]_vars => CountInv'
  <2> SUFFICES ASSUME IInv, CountInv, [Next]_vars PROVE CountInv'
    OBVIOUS
  <2>1. ASSUME NEW i \in Index, EntryNext(i) PROVE CountInv'
    BY <2>1, CountVacancy, CountDisown, CountCompletion DEF EntryNext
  <2>2. CASE (\E g \in Group : SelectReuse(g)) \/ PublishNew
    BY <2>2, CountGroups
  <2>3. CASE \/ Sweep \/ SelectNew \/ SelectOverflows \/ Abandon \/ Prepare \/ Groups
             \/ PublishReuse \/ PublishDone \/ (\E caps \in BatchCaps : Batch(caps))
             \/ (\E g \in Group : DropSlots(g)) \/ UNCHANGED vars
    <3>1. UNCHANGED <<groups, group, empty, admission, free, held, flags>>
      BY <2>3 DEF Sweep, SelectNew, SelectOverflows, Abandon, Prepare, Groups,
         PublishReuse, PublishDone, Batch, DropSlots, vars, arenaVars, handleVars,
         entryFrame, batchFrame
    <3> QED BY <3>1 DEF CountInv, Admitted
  <2> QED BY <2>1, <2>2, <2>3 DEF Next
<1> QED BY <1>1, <1>2, Inductive, PTL DEF Spec

\* For every width and every batch, the count that try_vacancy decides on
\* between Full and IdentityExhausted is exact.
THEOREM AdmissionCounts == Spec => []AdmissionIsExact
  BY CountIsExact, CountInductive, PTL

-----------------------------------------------------------------------------
(* The room of a batch.                                                    *)

\* The least element of a set of naturals.
LEMMA NatLeast ==
  ASSUME NEW T \in SUBSET Nat, T # {}
  PROVE  \E x \in T : \A y \in T : x <= y
<1> DEFINE R == {ss \in Nat \X Nat : ss[1] < ss[2]}
<1>1. IsWellFoundedOn(R, Nat)
  BY NatLessThanWellFounded DEF OpToRel
<1> HIDE DEF R
<1>2. PICK x \in T : \A y \in T : ~(<<y, x>> \in R)
  BY <1>1, WFMin
<1>3. ASSUME NEW y \in T PROVE x <= y
  <2>1. <<y, x>> \notin R
    BY <1>2
  <2>2. y \in Nat /\ x \in Nat
    OBVIOUS
  <2> QED BY <2>1, <2>2 DEF R
<1> QED BY <1>3

\* Induction over the naturals, for a set.
LEMMA NatReach ==
  ASSUME NEW S, 0 \in S, \A n \in Nat : n \in S => n + 1 \in S
  PROVE  \A n \in Nat : n \in S
<1> DEFINE T == {n \in Nat : n \notin S}
<1>1. SUFFICES ASSUME T # {} PROVE FALSE
  OBVIOUS
<1>2. PICK x \in T : \A y \in T : x <= y
  BY <1>1, NatLeast
<1>3. x # 0 /\ x - 1 \in Nat
  OBVIOUS
<1>4. x - 1 \in S
  BY <1>2, <1>3
<1> QED BY <1>3, <1>4

\* f is the running sum of s.
SumOf(f, s) ==
  /\ f \in [0..Len(s) -> Nat] /\ f[0] = 0
  /\ \A k \in 1..Len(s) : f[k] = f[k - 1] + s[k]
  /\ \A j, k \in 0..Len(s) : j <= k => f[j] <= f[k]

\* f is the running sum of the first n elements of s.
RunningSum(f, s, n) ==
  /\ f \in [0..n -> Nat] /\ f[0] = 0
  /\ \A k \in 1..n : f[k] = f[k - 1] + s[k]

\* The recursive function that Total defines exists.
LEMMA SumExists ==
  ASSUME NEW s \in Seq(Nat)
  PROVE  \E f : f = [k \in 0..Len(s) |-> IF k = 0 THEN 0 ELSE f[k - 1] + s[k]]
<1>0. Len(s) \in Nat /\ \A k \in 1..Len(s) : s[k] \in Nat
  OBVIOUS
<1> DEFINE S == {n \in Nat : n <= Len(s) => \E f : RunningSum(f, s, n)}
<1>1. 0 \in S
  <2>1. RunningSum([k \in 0..0 |-> 0], s, 0)
    BY DEF RunningSum
  <2> QED BY <2>1
<1>2. ASSUME NEW n \in Nat, n \in S PROVE n + 1 \in S
  <2>1. SUFFICES ASSUME n + 1 <= Len(s) PROVE \E f : RunningSum(f, s, n + 1)
    OBVIOUS
  <2>2. PICK f : RunningSum(f, s, n)
    BY <1>0, <1>2, <2>1
  <2> DEFINE g == [k \in 0..(n + 1) |-> IF k <= n THEN f[k] ELSE f[n] + s[n + 1]]
  <2>3. s[n + 1] \in Nat /\ f[n] \in Nat
    BY <1>0, <2>1, <2>2 DEF RunningSum
  <2>4. g \in [0..(n + 1) -> Nat]
    BY <2>2, <2>3 DEF RunningSum
  <2>5. g[0] = 0
    BY <2>2 DEF RunningSum
  <2>6. ASSUME NEW k \in 1..(n + 1) PROVE g[k] = g[k - 1] + s[k]
    <3>1. CASE k <= n
      BY <2>2, <3>1 DEF RunningSum
    <3>2. CASE k = n + 1
      BY <3>2
    <3> QED BY <3>1, <3>2
  <2>7. RunningSum(g, s, n + 1)
    BY <2>4, <2>5, <2>6 DEF RunningSum
  <2> QED BY <2>7
<1> HIDE DEF S
<1>3. Len(s) \in S
  BY <1>0, <1>1, <1>2, NatReach
<1>4. PICK f : RunningSum(f, s, Len(s))
  BY <1>0, <1>3 DEF S
<1>5. f = [k \in 0..Len(s) |-> f[k]]
  BY <1>4 DEF RunningSum
<1>6. \A k \in 0..Len(s) : f[k] = IF k = 0 THEN 0 ELSE f[k - 1] + s[k]
  BY <1>0, <1>4 DEF RunningSum
<1>7. f = [k \in 0..Len(s) |-> IF k = 0 THEN 0 ELSE f[k - 1] + s[k]]
  BY <1>5, <1>6
<1> QED BY <1>7

\* Total adds the capacities up.
LEMMA TotalIsSum ==
  ASSUME NEW s \in Seq(Nat)
  PROVE  \E f : SumOf(f, s) /\ f[Len(s)] = Total(s)
<1>0. Len(s) \in Nat /\ \A k \in 1..Len(s) : s[k] \in Nat
  OBVIOUS
<1> DEFINE f == CHOOSE f : f = [k \in 0..Len(s) |-> IF k = 0 THEN 0 ELSE f[k - 1] + s[k]]
<1>1. f = [k \in 0..Len(s) |-> IF k = 0 THEN 0 ELSE f[k - 1] + s[k]]
  BY SumExists
<1>2. Total(s) = f[Len(s)]
  BY DEF Total
<1> HIDE DEF f
<1>3. f[0] = 0 /\ \A k \in 1..Len(s) : f[k] = f[k - 1] + s[k]
  BY <1>0, <1>1
<1> DEFINE S == {n \in Nat : n <= Len(s) => \A j \in 0..n : f[j] \in Nat /\ f[j] <= f[n]}
<1>4. 0 \in S
  BY <1>3
<1>5. ASSUME NEW n \in Nat, n \in S PROVE n + 1 \in S
  <2>1. SUFFICES ASSUME n + 1 <= Len(s)
                 PROVE  \A j \in 0..(n + 1) : f[j] \in Nat /\ f[j] <= f[n + 1]
    OBVIOUS
  <2>2. f[n] \in Nat /\ \A j \in 0..n : f[j] \in Nat /\ f[j] <= f[n]
    BY <1>0, <1>5, <2>1
  <2>3. n + 1 \in 1..Len(s) /\ (n + 1) - 1 = n
    BY <1>0, <2>1
  <2>4. f[n + 1] = f[n] + s[n + 1] /\ s[n + 1] \in Nat
    BY <1>0, <1>3, <2>3
  <2>5. f[n + 1] \in Nat /\ f[n] <= f[n + 1]
    BY <2>2, <2>4
  <2>6. ASSUME NEW j \in 0..(n + 1) PROVE f[j] \in Nat /\ f[j] <= f[n + 1]
    <3>1. CASE j = n + 1
      BY <2>5, <3>1
    <3>2. CASE j # n + 1
      <4>1. j \in 0..n
        BY <3>2
      <4> QED BY <2>2, <2>5, <4>1
    <3> QED BY <3>1, <3>2
  <2> QED BY <2>6
<1>6. \A n \in Nat : n \in S
  <2> HIDE DEF S
  <2> QED BY <1>4, <1>5, NatReach
<1>7. \A n \in 0..Len(s) : f[n] \in Nat /\ \A j \in 0..n : f[j] <= f[n]
  BY <1>0, <1>6
<1>8. f \in [0..Len(s) -> Nat]
  <2>1. f = [k \in 0..Len(s) |-> f[k]]
    BY <1>1
  <2> QED BY <1>7, <2>1
<1>9. \A j, k \in 0..Len(s) : j <= k => f[j] <= f[k]
  BY <1>0, <1>7
<1>10. SumOf(f, s)
  BY <1>3, <1>8, <1>9 DEF SumOf
<1> QED BY <1>2, <1>10

\* The first capacity leaves the sum.
LEMMA SumShrinks ==
  ASSUME NEW s \in Seq(Nat), s # <<>>, NEW f, SumOf(f, s)
  PROVE  /\ Head(s) \in Nat /\ Head(s) <= f[Len(s)]
         /\ \E g : SumOf(g, Tail(s)) /\ g[Len(Tail(s))] = f[Len(s)] - Head(s)
<1> DEFINE n == Len(s)
           h == Head(s)
           t == Tail(s)
<1>1. /\ n \in Nat /\ n > 0 /\ h \in Nat /\ h = s[1] /\ t \in Seq(Nat) /\ Len(t) = n - 1
      /\ \A k \in 1..(n - 1) : t[k] = s[k + 1]
  OBVIOUS
<1>2. /\ f \in [0..n -> Nat] /\ f[0] = 0
      /\ \A k \in 1..n : f[k] = f[k - 1] + s[k]
      /\ \A j, k \in 0..n : j <= k => f[j] <= f[k]
  BY DEF SumOf
<1> HIDE DEF n, h, t
<1>3. f[1] = h
  BY <1>1, <1>2
<1>4. \A k \in 1..n : f[k] \in Nat /\ h <= f[k]
  BY <1>1, <1>2, <1>3
<1> DEFINE g == [k \in 0..(n - 1) |-> f[k + 1] - h]
<1>5. g \in [0..(n - 1) -> Nat] /\ g[0] = 0
  <2>1. \A k \in 0..(n - 1) : k + 1 \in 1..n
    BY <1>1
  <2>2. \A k \in 0..(n - 1) : f[k + 1] - h \in Nat
    BY <1>1, <1>4, <2>1
  <2>3. 0 \in 0..(n - 1) /\ f[0 + 1] - h = 0
    BY <1>1, <1>3
  <2> QED BY <2>2, <2>3
<1>6. ASSUME NEW k \in 1..(n - 1) PROVE g[k] = g[k - 1] + t[k]
  <2>1. k + 1 \in 1..n /\ k \in 1..n /\ k - 1 \in 0..(n - 1) /\ (k - 1) + 1 = k
        /\ (k + 1) - 1 = k /\ k \in 0..(n - 1)
    BY <1>1
  <2>2. g[k] = f[k + 1] - h /\ g[k - 1] = f[k] - h
    BY <2>1
  <2>3. f[k + 1] = f[k] + t[k]
    BY <1>1, <1>2, <2>1
  <2>4. f[k] \in Nat /\ f[k + 1] \in Nat /\ t[k] \in Nat /\ h \in Nat
    BY <1>1, <1>4, <2>1
  <2>5. \A a, b, d, e \in Nat : a = b + d => a - e = (b - e) + d
    OBVIOUS
  <2>6. f[k + 1] - h = (f[k] - h) + t[k]
    BY <2>3, <2>4, <2>5
  <2> QED BY <2>2, <2>6
<1>7. ASSUME NEW j \in 0..(n - 1), NEW k \in 0..(n - 1), j <= k PROVE g[j] <= g[k]
  <2>1. f[j + 1] <= f[k + 1] /\ f[j + 1] \in Nat /\ f[k + 1] \in Nat
    BY <1>1, <1>2, <1>4, <1>7
  <2> QED BY <1>1, <2>1
<1>8. SumOf(g, t)
  BY <1>1, <1>5, <1>6, <1>7 DEF SumOf
<1>9. g[Len(t)] = f[n] - h
  BY <1>1
<1>10. h \in Nat /\ h <= f[n]
  BY <1>1, <1>4
<1> HIDE DEF g
<1> QED BY <1>8, <1>9, <1>10 DEF n, h, t

\* The directory index at which each group of a plan begins: at[k] for the
\* k-th, from the first to the end.
Seats(at, plan, from, to) ==
  /\ at \in [1..(Len(plan) + 1) -> Nat]
  /\ at[1] = from /\ at[Len(plan) + 1] = to
  /\ \A k \in 1..Len(plan) :
       /\ at[k + 1] = at[k] + plan[k].extent
       /\ IF plan[k].reuse = 0 THEN plan[k].seed = at[k] ELSE plan[k].extent = 0
  /\ \A k \in 1..(Len(plan) + 1) : at[k] <= to

\* A group is planned at the end.
LEMMA SeatsGrow ==
  ASSUME NEW plan \in Seq(Plan), NEW from, NEW to \in Nat, NEW at, Seats(at, plan, from, to),
         NEW p \in Plan, IF p.reuse = 0 THEN p.seed = to ELSE p.extent = 0
  PROVE  \E b : Seats(b, Append(plan, p), from, to + p.extent)
<1> DEFINE n == Len(plan)
           q == Append(plan, p)
           e == p.extent
<1>1. /\ n \in Nat /\ Len(q) = n + 1 /\ q[n + 1] = p /\ e \in Nat
      /\ \A k \in 1..n : q[k] = plan[k]
  BY DEF Plan
<1>2. /\ at \in [1..(n + 1) -> Nat] /\ at[1] = from /\ at[n + 1] = to
      /\ \A k \in 1..n :
           /\ at[k + 1] = at[k] + plan[k].extent
           /\ IF plan[k].reuse = 0 THEN plan[k].seed = at[k] ELSE plan[k].extent = 0
      /\ \A k \in 1..(n + 1) : at[k] <= to
  BY DEF Seats
<1>3. q[n + 1].extent = e
  BY <1>1
<1> HIDE DEF n, q, e
<1> DEFINE b == [k \in 1..(n + 2) |-> IF k <= n + 1 THEN at[k] ELSE to + e]
<1>4. b \in [1..(n + 2) -> Nat] /\ b[1] = from /\ b[n + 2] = to + e
  BY <1>1, <1>2
<1>5. ASSUME NEW k \in 1..(n + 1)
      PROVE  /\ b[k + 1] = b[k] + q[k].extent
             /\ IF q[k].reuse = 0 THEN q[k].seed = b[k] ELSE q[k].extent = 0
  <2>1. b[k] = at[k]
    BY <1>1
  <2>2. CASE k = n + 1
    <3>1. b[k + 1] = to + e /\ b[k] = to
      BY <1>1, <1>2, <2>2
    <3>2. q[k] = p
      BY <1>1, <2>2
    <3> QED BY <1>3, <2>2, <3>1, <3>2
  <2>3. CASE k # n + 1
    <3>1. k \in 1..n /\ k + 1 <= n + 1
      BY <1>1, <2>3
    <3>2. b[k + 1] = at[k + 1] /\ q[k] = plan[k]
      BY <1>1, <3>1
    <3> QED BY <1>2, <2>1, <3>1, <3>2
  <2> QED BY <2>2, <2>3
<1>6. \A k \in 1..(n + 2) : b[k] <= to + e
  BY <1>1, <1>2
<1>7. Len(q) + 1 = n + 2
  BY <1>1
<1> HIDE DEF b
<1>8. Seats(b, q, from, to + e)
  BY <1>1, <1>4, <1>5, <1>6, <1>7 DEF Seats
<1> QED BY <1>8 DEF q, e

\* The first group of a plan is published.
LEMMA SeatsShrink ==
  ASSUME NEW plan \in Seq(Plan), plan # <<>>, NEW from, NEW to \in Nat, NEW at,
         Seats(at, plan, from, to)
  PROVE  /\ Head(plan).reuse = 0 => Head(plan).seed = from
         /\ Head(plan).reuse # 0 => Head(plan).extent = 0
         /\ from + Head(plan).extent <= to
         /\ \E b : Seats(b, Tail(plan), from + Head(plan).extent, to)
<1> DEFINE n == Len(plan)
           t == Tail(plan)
<1>1. /\ n \in Nat /\ n > 0 /\ Len(t) = n - 1 /\ Head(plan) = plan[1]
      /\ \A k \in 1..(n - 1) : t[k] = plan[k + 1]
  OBVIOUS
<1>2. /\ at \in [1..(n + 1) -> Nat] /\ at[1] = from /\ at[n + 1] = to
      /\ \A k \in 1..n :
           /\ at[k + 1] = at[k] + plan[k].extent
           /\ IF plan[k].reuse = 0 THEN plan[k].seed = at[k] ELSE plan[k].extent = 0
      /\ \A k \in 1..(n + 1) : at[k] <= to
  BY DEF Seats
<1> HIDE DEF n, t
<1> DEFINE b == [k \in 1..n |-> at[k + 1]]
<1>3. /\ 1 \in 1..n /\ 1 + 1 = 2 /\ 2 \in 1..(n + 1)
  BY <1>1
<1>4. /\ at[2] = from + Head(plan).extent /\ at[2] <= to
      /\ IF Head(plan).reuse = 0 THEN Head(plan).seed = from ELSE Head(plan).extent = 0
  BY <1>1, <1>2, <1>3
<1>5. b \in [1..n -> Nat] /\ b[1] = at[2] /\ b[n] = to
  BY <1>1, <1>2, <1>3
<1>6. ASSUME NEW k \in 1..(n - 1)
      PROVE  /\ b[k + 1] = b[k] + t[k].extent
             /\ IF t[k].reuse = 0 THEN t[k].seed = b[k] ELSE t[k].extent = 0
  <2>1. k + 1 \in 1..n /\ k \in 1..n
    BY <1>1
  <2>2. b[k] = at[k + 1] /\ b[k + 1] = at[(k + 1) + 1] /\ t[k] = plan[k + 1]
    BY <1>1, <2>1
  <2> QED BY <1>2, <2>1, <2>2
<1>7. \A k \in 1..n : b[k] <= to
  BY <1>1, <1>2
<1>8. Len(t) + 1 = n
  BY <1>1
<1> HIDE DEF b
<1>9. Seats(b, t, at[2], to)
  BY <1>1, <1>5, <1>6, <1>7, <1>8 DEF Seats
<1> QED BY <1>4, <1>9 DEF t

RoomInv ==
  /\ size <= IndexLimit /\ sweep \in 0..IndexLimit
  /\ batch.rest \in Nat /\ batch.fits \in BOOLEAN /\ batch.failed \in BOOLEAN
  /\ batch.failed => ~batch.fits
  /\ \E f : SumOf(f, batch.todo) /\ f[Len(batch.todo)] = batch.rest
  /\ batch.stage # "idle" =>
       /\ ~batch.failed /\ batch.end <= IndexLimit
       /\ \E at : Seats(at, batch.plan, size, batch.end)
  /\ batch.stage = "selecting" /\ batch.fits => batch.end + batch.rest <= IndexLimit

\* The capacities of a batch.
LEMMA CapsAreNats ==
  ASSUME NEW caps \in BatchCaps
  PROVE  caps \in Seq(Nat)
<1>1. PICK n \in 1..MaxBatch : caps \in [1..n -> Capacities]
  BY DEF BatchCaps
<1>2. n \in Nat
  BY <1>1, BoundAssumption
<1>3. caps \in [1..n -> Nat]
  BY <1>1, BoundAssumption
<1> QED BY <1>2, <1>3

\* No batch: nothing is planned.
LEMMA NoRoomAsked ==
  /\ \E f : SumOf(f, <<>>) /\ f[Len(<<>>)] = 0
  /\ \A n \in Nat : \E at : Seats(at, <<>>, n, n)
<1>1. SumOf([k \in 0..0 |-> 0], <<>>)
  BY DEF SumOf
<1>2. ASSUME NEW n \in Nat PROVE Seats([k \in 1..1 |-> n], <<>>, n, n)
  BY DEF Seats
<1>3. Len(<<>>) = 0 /\ [k \in 0..0 |-> 0][0] = 0
  OBVIOUS
<1> QED BY <1>1, <1>2, <1>3

\* Rounding leaves the room that the rest of the batch needs.
LEMMA ExtentFits ==
  ASSUME NEW c \in Nat, NEW end \in Nat, NEW rest \in Nat, c <= rest,
         end + c <= IndexLimit,
         NEW extent \in Extent(c, IndexLimit - end, rest - c)
  PROVE  /\ extent \in Nat /\ end + extent <= IndexLimit
         /\ end + rest <= IndexLimit => end + extent + (rest - c) <= IndexLimit
<1>1. CASE extent = c
  BY <1>1, LimitAssumption
<1>2. CASE extent \in c..((IndexLimit - end) - (rest - c))
  BY <1>2, LimitAssumption
<1>3. extent = c \/ extent \in c..((IndexLimit - end) - (rest - c))
  BY DEF Extent
<1> QED BY <1>1, <1>2, <1>3

\* A batch starts.
LEMMA RoomBegins ==
  ASSUME IInv, RoomInv, NEW caps \in BatchCaps, Batch(caps)
  PROVE  RoomInv'
<1>1. /\ batch' = [stage |-> "selecting", todo |-> caps, plan |-> <<>>,
                   rest |-> Total(caps), end |-> size,
                   fits |-> size + Total(caps) <= IndexLimit, failed |-> FALSE]
      /\ UNCHANGED <<size, sweep>>
  BY DEF Batch, batchFrame
<1>2. caps \in Seq(Nat) /\ Len(caps) \in Nat
  BY CapsAreNats
<1>3. PICK f : SumOf(f, caps) /\ f[Len(caps)] = Total(caps)
  BY <1>2, TotalIsSum
<1>4. Total(caps) \in Nat /\ size \in Nat
  BY <1>2, <1>3 DEF SumOf, IInv, ArenaType
<1>5. \E at : Seats(at, <<>>, size, size)
  BY <1>4, NoRoomAsked
<1> QED BY <1>1, <1>3, <1>4, <1>5 DEF RoomInv

\* A batch ends, one way or the other.
LEMMA RoomEnds ==
  ASSUME IInv, RoomInv, SelectOverflows \/ Abandon \/ PublishDone
  PROVE  RoomInv'
<1>1. UNCHANGED <<size, sweep>>
  BY DEF SelectOverflows, Abandon, PublishDone, batchFrame
<1>2. CASE Abandon \/ PublishDone
  <2>1. batch' = [stage |-> "idle", todo |-> <<>>, plan |-> <<>>, rest |-> 0,
                  end |-> 0, fits |-> FALSE, failed |-> FALSE]
    BY <1>2 DEF Abandon, PublishDone, Idle
  <2> QED BY <1>1, <2>1, NoRoomAsked DEF RoomInv
<1>3. CASE SelectOverflows
  <2>1. batch' = [stage |-> "idle", todo |-> <<>>, plan |-> <<>>, rest |-> 0,
                  end |-> 0, fits |-> batch.fits, failed |-> TRUE]
    BY <1>3 DEF SelectOverflows, Idle
  <2>2. /\ batch.stage = "selecting" /\ batch.todo # <<>>
        /\ batch.end + Head(batch.todo) > IndexLimit
    BY <1>3 DEF SelectOverflows
  <2>3. batch.todo \in Seq(Nat) /\ batch.end \in Nat
    BY DEF IInv, BatchInv
  <2>4. PICK f : SumOf(f, batch.todo) /\ f[Len(batch.todo)] = batch.rest
    BY DEF RoomInv
  <2>5. Head(batch.todo) \in Nat /\ Head(batch.todo) <= batch.rest
    BY <2>2, <2>3, <2>4, SumShrinks
  <2>6. ~batch.fits
    <3>1. batch.fits => batch.end + batch.rest <= IndexLimit
      BY <2>2 DEF RoomInv
    <3>2. \A e, h, r \in Nat : e + h > IndexLimit /\ h <= r => ~(e + r <= IndexLimit)
      BY LimitAssumption
    <3>3. batch.rest \in Nat
      BY DEF RoomInv
    <3> QED BY <2>2, <2>3, <2>5, <3>1, <3>2, <3>3
  <2> QED BY <1>1, <2>1, <2>6, NoRoomAsked DEF RoomInv
<1> QED BY <1>2, <1>3

\* A group joins the plan.
LEMMA RoomSelects ==
  ASSUME IInv, RoomInv, SelectNew \/ \E g \in Group : SelectReuse(g)
  PROVE  RoomInv'
<1> DEFINE c == Head(batch.todo)
<1>1. /\ batch.stage = "selecting" /\ batch.todo # <<>> /\ UNCHANGED <<size, sweep>>
  BY DEF SelectNew, SelectReuse, batchFrame
<1>2. /\ BatchInv /\ batch.todo \in Seq(Nat) /\ batch.plan \in Seq(Plan) /\ batch.end \in Nat
      /\ size \in Nat
  BY DEF IInv, BatchInv, ArenaType
<1>3. PICK f : SumOf(f, batch.todo) /\ f[Len(batch.todo)] = batch.rest
  BY DEF RoomInv
<1>4. /\ c \in Nat /\ c <= batch.rest
      /\ \E g : SumOf(g, Tail(batch.todo)) /\ g[Len(Tail(batch.todo))] = batch.rest - c
  BY <1>1, <1>2, <1>3, SumShrinks
<1>5. PICK at : Seats(at, batch.plan, size, batch.end)
  BY <1>1 DEF RoomInv
<1>6. ASSUME NEW p \in Plan,
             IF p.reuse = 0 THEN p.seed = batch.end ELSE p.extent = 0,
             batch' = [NextOf(p) EXCEPT !.end = batch.end + p.extent],
             batch.end + p.extent <= IndexLimit,
             batch.end + batch.rest <= IndexLimit
               => batch.end + p.extent + (batch.rest - c) <= IndexLimit
      PROVE  RoomInv'
  <2>1. batch' = [stage |-> batch.stage, todo |-> Tail(batch.todo),
                  plan |-> Append(batch.plan, p), rest |-> batch.rest - c,
                  end |-> batch.end + p.extent, fits |-> batch.fits,
                  failed |-> batch.failed]
    BY <1>2, <1>6 DEF NextOf, BatchInv
  <2>2. \E b : Seats(b, Append(batch.plan, p), size, batch.end + p.extent)
    BY <1>2, <1>5, <1>6, SeatsGrow
  <2>3. batch.rest - c \in Nat
    BY <1>4 DEF RoomInv
  <2>4. /\ batch'.stage = "selecting" /\ batch'.todo = Tail(batch.todo)
        /\ batch'.plan = Append(batch.plan, p) /\ batch'.rest = batch.rest - c
        /\ batch'.end = batch.end + p.extent /\ batch'.fits = batch.fits
        /\ batch'.failed = batch.failed
    BY <1>1, <2>1
  <2> HIDE DEF c
  <2>5. \E f1 : SumOf(f1, batch'.todo) /\ f1[Len(batch'.todo)] = batch'.rest
    BY <1>4, <2>4
  <2>6. \E at1 : Seats(at1, batch'.plan, size', batch'.end)
    BY <1>1, <2>2, <2>4
  <2>7. batch'.fits => batch'.end + batch'.rest <= IndexLimit
    <3>1. batch.fits => batch.end + batch.rest <= IndexLimit
      BY <1>1 DEF RoomInv
    <3> QED BY <1>6, <2>4, <3>1
  <2>8. /\ size' <= IndexLimit /\ sweep' \in 0..IndexLimit /\ batch'.rest \in Nat
        /\ batch'.fits \in BOOLEAN /\ batch'.failed \in BOOLEAN
        /\ ~batch'.failed /\ batch'.end <= IndexLimit
    BY <1>1, <1>6, <2>3, <2>4 DEF RoomInv
  <2> QED BY <2>4, <2>5, <2>6, <2>7, <2>8 DEF RoomInv
<1>7. ASSUME NEW g \in Group, SelectReuse(g) PROVE RoomInv'
  <2> DEFINE p == [reuse |-> g, seed |-> 0, extent |-> 0, capacity |-> c]
  <2>1. batch' = NextOf(p)
    BY <1>7 DEF SelectReuse
  <2>2. p \in Plan /\ p.reuse # 0 /\ p.extent = 0
    BY <1>4 DEF Plan, Group
  <2>3. batch.end + p.extent = batch.end
    BY <1>2, <2>2
  <2>4. batch' = [NextOf(p) EXCEPT !.end = batch.end + p.extent]
    BY <1>2, <2>1, <2>3 DEF NextOf, BatchInv
  <2>5. batch.end <= IndexLimit /\ batch.rest \in Nat
    BY <1>1 DEF RoomInv
  <2>6. batch.end + batch.rest <= IndexLimit
               => batch.end + p.extent + (batch.rest - c) <= IndexLimit
    <3> HIDE DEF c, p
    <3> QED BY <1>2, <1>4, <2>2, <2>5, LimitAssumption
  <2> HIDE DEF p
  <2> QED BY <1>6, <2>2, <2>3, <2>4, <2>5, <2>6
<1>8. CASE SelectNew
  <2>1. PICK extent \in Extent(c, IndexLimit - batch.end, batch.rest - c) :
          batch' = [NextOf([reuse |-> 0, seed |-> batch.end,
                            extent |-> extent, capacity |-> c])
                      EXCEPT !.end = EndAfter(@, extent, c)]
    BY <1>8 DEF SelectNew
  <2> DEFINE p == [reuse |-> 0, seed |-> batch.end, extent |-> extent, capacity |-> c]
  <2>2. batch.end + c <= IndexLimit
    BY <1>8 DEF SelectNew
  <2>3. batch.rest \in Nat
    BY DEF RoomInv
  <2>4. /\ extent \in Nat /\ batch.end + extent <= IndexLimit
        /\ batch.end + batch.rest <= IndexLimit
             => batch.end + extent + (batch.rest - c) <= IndexLimit
    <3> HIDE DEF c
    <3> QED BY <1>2, <1>4, <2>1, <2>2, <2>3, ExtentFits
  <2>5. p \in Plan /\ p.reuse = 0 /\ p.seed = batch.end /\ p.extent = extent
    BY <1>2, <1>4, <2>4 DEF Plan
  <2>6. NextOf(p).end = batch.end
    BY <1>2 DEF NextOf, BatchInv
  <2>7. batch' = [NextOf(p) EXCEPT !.end = batch.end + p.extent]
    BY <2>1, <2>6 DEF EndAfter
  <2> HIDE DEF p
  <2> QED BY <1>6, <2>4, <2>5, <2>7
<1> QED BY <1>7, <1>8

\* The stage of a batch changes, or a group of it is published.
LEMMA RoomPublishes ==
  ASSUME IInv, RoomInv, Prepare \/ Groups \/ PublishNew \/ PublishReuse
  PROVE  RoomInv'
<1>0. BatchInv /\ batch.plan \in Seq(Plan) /\ batch.end \in Nat /\ size \in Nat
  BY DEF IInv, BatchInv, ArenaType
<1>1. CASE Prepare \/ Groups
  <2>1. PICK stage \in {"prepared", "publishing"} : batch' = [batch EXCEPT !.stage = stage]
    BY <1>1 DEF Prepare, Groups
  <2>2. batch' = [stage |-> stage, todo |-> batch.todo, plan |-> batch.plan,
                  rest |-> batch.rest, end |-> batch.end, fits |-> batch.fits,
                  failed |-> batch.failed]
    BY <1>0, <2>1 DEF BatchInv
  <2>3. UNCHANGED <<size, sweep>> /\ batch.stage # "idle"
    BY <1>1 DEF Prepare, Groups, batchFrame
  <2> QED BY <2>2, <2>3 DEF RoomInv
<1>2. CASE PublishNew \/ PublishReuse
  <2> DEFINE p == Head(batch.plan)
  <2>1. /\ batch.stage = "publishing" /\ batch.plan # <<>> /\ batch' = Published
        /\ sweep' = sweep /\ size' = IF p.reuse = 0 THEN size + p.extent ELSE size
    BY <1>2 DEF PublishNew, PublishReuse, batchFrame
  <2>2. batch' = [stage |-> batch.stage, todo |-> batch.todo,
                  plan |-> Tail(batch.plan), rest |-> batch.rest,
                  end |-> batch.end, fits |-> batch.fits,
                  failed |-> batch.failed]
    BY <1>0, <2>1 DEF Published, BatchInv
  <2>3. PICK at : Seats(at, batch.plan, size, batch.end)
    BY <2>1 DEF RoomInv
  <2>4. /\ p.reuse # 0 => p.extent = 0
        /\ size + p.extent <= batch.end
        /\ \E b : Seats(b, Tail(batch.plan), size + p.extent, batch.end)
    BY <1>0, <2>1, <2>3, SeatsShrink
  <2>5. size' = size + p.extent
    <3> HIDE DEF p
    <3> QED BY <1>0, <2>1, <2>4
  <2>6. batch.end <= IndexLimit /\ p \in Plan
    BY <1>0, <2>1 DEF RoomInv
  <2>7. p.extent \in Nat
    BY <2>6 DEF Plan
  <2>8. size' <= IndexLimit
    <3> HIDE DEF p
    <3> QED BY <1>0, <2>4, <2>5, <2>6, <2>7, LimitAssumption
  <2> HIDE DEF p
  <2> QED BY <2>1, <2>2, <2>4, <2>5, <2>8 DEF RoomInv
<1> QED BY <1>1, <1>2

\* Every step keeps the room of a batch.
LEMMA RoomInductive == Spec => [](IInv /\ RoomInv)
<1>1. Init => RoomInv
  BY NoRoomAsked, LimitAssumption DEF Init, Idle, RoomInv
<1>2. IInv /\ RoomInv /\ [Next]_vars => RoomInv'
  <2> SUFFICES ASSUME IInv, RoomInv, [Next]_vars PROVE RoomInv'
    OBVIOUS
  <2>1. CASE UNCHANGED <<size, batch>> /\ sweep' \in 0..IndexLimit
    BY <2>1 DEF RoomInv
  <2>2. ASSUME NEW i \in Index, EntryNext(i) PROVE RoomInv'
    <3>1. UNCHANGED <<size, batch>>
      BY <2>2 DEF EntryNext, TryVacancy, DropVacant, Reserve, Commit, DropReserved,
         DropLease, Disown, Finish, Retain, SweepNext, Bind, entryFrame
    <3>2. sweep' = sweep \/ (sweep # 0 /\ sweep' = sweep - 1)
      BY <2>2 DEF EntryNext, TryVacancy, DropVacant, Reserve, Commit, DropReserved,
         DropLease, Disown, Finish, Retain, SweepNext, Bind
    <3>3. sweep' \in 0..IndexLimit
      BY <3>2, LimitAssumption DEF RoomInv
    <3> QED BY <2>1, <3>1, <3>3
  <2>3. CASE Sweep
    <3>1. UNCHANGED <<size, batch>> /\ sweep' = size
      BY <2>3 DEF Sweep, entryFrame
    <3>2. size \in 0..IndexLimit
      BY LimitAssumption DEF RoomInv, IInv, ArenaType
    <3> QED BY <2>1, <3>1, <3>2
  <2>4. CASE UNCHANGED vars \/ \E g \in Group : DropSlots(g)
    <3>1. UNCHANGED <<size, batch, sweep>>
      BY <2>4 DEF vars, arenaVars, DropSlots, batchFrame
    <3> QED BY <3>1, <2>1 DEF RoomInv
  <2>5. ASSUME NEW caps \in BatchCaps, Batch(caps) PROVE RoomInv'
    BY <2>5, RoomBegins
  <2>6. CASE SelectOverflows \/ Abandon \/ PublishDone
    BY <2>6, RoomEnds
  <2>7. CASE SelectNew \/ \E g \in Group : SelectReuse(g)
    BY <2>7, RoomSelects
  <2>8. CASE Prepare \/ Groups \/ PublishNew \/ PublishReuse
    BY <2>8, RoomPublishes
  <2> QED BY <2>2, <2>3, <2>4, <2>5, <2>6, <2>7, <2>8 DEF Next
<1> QED BY <1>1, <1>2, Inductive, PTL DEF Spec

\* For every directory size and every batch: rounding up to powers of two
\* never makes a batch fail that fits as it was asked for.
THEOREM OverflowsAreReal == Spec => []OverflowIsReal
<1>1. RoomInv => OverflowIsReal
  BY DEF RoomInv, OverflowIsReal
<1> QED BY <1>1, RoomInductive, PTL

\* For every batch: a block is numbered with the directory index that it is
\* published at.
THEOREM SeedsArePlaces == Spec => []SeedsAreDense
<1>1. IInv /\ RoomInv => SeedsAreDense
  <2> SUFFICES ASSUME IInv, RoomInv, batch.stage = "publishing", batch.plan # <<>>,
                      Head(batch.plan).reuse = 0
               PROVE  Head(batch.plan).seed = size
    BY DEF SeedsAreDense
  <2>1. PICK at : Seats(at, batch.plan, size, batch.end)
    BY DEF RoomInv
  <2>2. batch.plan \in Seq(Plan) /\ batch.end \in Nat
    BY DEF IInv, BatchInv
  <2> QED BY <2>1, <2>2, SeatsShrink
<1> QED BY <1>1, RoomInductive, PTL

\* For every width and every batch, the arena stays within its types: the
\* directory within its limit, the counts and the plans in their ranges.
THEOREM ArenaIsTyped == Spec => []TypeOK
<1>1. IInv /\ CountInv /\ RoomInv => TypeOK
  <2> SUFFICES ASSUME IInv, CountInv, RoomInv PROVE TypeOK
    OBVIOUS
  <2>1. size \in 0..IndexLimit /\ groups \in 0..MaxGroups
    <3>1. size \in Nat /\ size <= IndexLimit /\ groups \in Nat /\ groups <= MaxGroups
      BY BoundAssumption DEF IInv, ArenaType, RoomInv, BatchInv
    <3> QED BY <3>1, LimitAssumption, BoundAssumption
  <2>2. batch \in [stage : Stage, todo : Seq(Nat), plan : Seq(Plan),
                   rest : Nat, end : Nat, fits : BOOLEAN, failed : BOOLEAN]
    BY DEF IInv, BatchInv, RoomInv
  <2> QED BY <2>1, <2>2 DEF TypeOK, IInv, ArenaType, CountInv, RoomInv
<1> QED BY <1>1, CountInductive, RoomInductive, PTL
=============================================================================
