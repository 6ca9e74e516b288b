--------------------------- MODULE FdDomainProofs ---------------------------
(***************************************************************************)
(* Theorems about FdDomain for every number of accept and outbound slots,  *)
(* routes, generations and extents, with closes that are submitted and     *)
(* with closes that take effect at once.                                   *)
(***************************************************************************)
EXTENDS FdDomain, FiniteSetTheorems, SequenceTheorems, TLAPS

OutboundOf(c) == c.accept .. c.accept + c.outbound - 1
SlotsOf(c) == 0 .. c.accept + c.outbound - 1

Entries(c) ==
    [gen : 0 .. c.gens, spent : BOOLEAN,
     phase : {"Ready", "Pending", "InFlight", "Quiescent"},
     lease : BOOLEAN, life : Lives, owner : c.routes \cup {None},
     flying : BOOLEAN, side : 0 .. 2, sub : 0 .. c.gens,
     word : SlotsOf(c) \cup {None, Zero, Target}]

(* Entry::advance.                                                         *)
GenAfter(c, x) == IF x.gen = c.gens THEN x.gen ELSE x.gen + 1
SpentAfter(c, x) == x.spent \/ x.gen = c.gens

(* What stands around an entry: its handle, whether it has a CreatedSlot,  *)
(* a file, an undelivered accept, and what the kernel does for it.         *)
Around == [h : {"none", "unopened", "creating", "reserved", "active"},
           made : BOOLEAN, file : BOOLEAN, acc : BOOLEAN]

(* Generations, and the retirement that is queued or in flight.            *)
RetireOK(c, s, x, v, cl) ==
    /\ x.lease <=> v.h # "none"
    /\ x.lease => ~x.spent
    /\ x.spent => x.gen = c.gens
    /\ x.phase \in {"Pending", "InFlight"} /\ ~x.lease => x.spent \/ x.gen >= 1
    /\ x.flying => /\ cl.st \in {"sent", "done", "failed"}
                   /\ cl = [st |-> cl.st, gen |-> x.sub, side |-> x.side,
                            standalone |-> s >= c.accept /\ x.owner = None]
    /\ ~x.flying => cl = NoClose
    /\ c.sync => ~x.flying
    /\ x.phase = "InFlight" => x.flying /\ x.sub = Epoch(x)
    /\ x.phase = "Pending" => v.file
    /\ cl.st \in {"sent", "failed"} => x.phase = "InFlight" /\ v.file /\ ~v.acc
    /\ cl.st = "done" /\ x.phase = "InFlight" => (v.file <=> v.acc)
    /\ v.acc => v.file /\ ~x.lease /\ x.phase \in {"Ready", "InFlight"}

(* An accept slot.  dn are the generations whose close has completed.      *)
AcceptOK(c, x, v, cr, dn) ==
    /\ x.life = "FREE" /\ x.owner = None /\ ~v.made /\ cr = <<>>
    /\ v.h \in {"none", "active"}
    /\ x.lease => x.phase = "Ready" /\ v.file
    /\ x.phase = "Ready" /\ ~x.lease => ~x.flying /\ (v.file => v.acc)
    /\ x.phase = "Quiescent" => x.spent /\ v.file
    /\ x.flying => x.sub \notin dn
    /\ x.phase # "Quiescent" /\ ~(x.phase = "Ready" /\ x.spent) =>
         \A g \in dn : g < x.gen \/ (x.spent /\ g <= x.gen)
    /\ x.phase = "Pending" \/ (x.phase = "Ready" /\ x.lease) =>
         /\ \A g \in dn : g < Epoch(x)
         /\ x.flying => x.sub < Epoch(x)
    /\ x.phase = "InFlight" => \A g \in dn : g < Epoch(x)

(* An outbound slot, by its lifecycle.                                     *)
OutboundOK(x, v, cr) ==
    /\ ~v.acc
    /\ x.flying <=> x.phase = "InFlight"
    /\ x.owner = None <=> x.life \in {"FREE", "STANDALONE"}
    /\ cr # <<>> <=> x.life \in {"CREATING_ONE", "CREATING_ZERO"}
    /\ v.made => x.life \in {"OPEN_TWO", "CLOSING_ONE", "CLOSED_ONE"}
    /\ x.phase = "Quiescent" => x.life = "CLOSED_ONE"
    /\ x.phase \in {"Pending", "InFlight"} => x.life \in {"STANDALONE", "CLOSING_ONE", "CLOSING_ZERO"}
    /\ v.file => \/ x.phase \in {"Pending", "InFlight"}
                 \/ x.life = "OPEN_TWO" \/ v.h = "active"
    /\ x.life \in {"FREE", "MAPPED", "CREATING_ZERO", "CLOSING_ZERO"} => v.h = "none"
    /\ x.life = "FREE" => ~x.spent
    /\ x.life = "CREATING_ZERO" => x.spent \/ x.gen >= 1
    /\ x.life = "UNOPENED_ONE" <=> v.h = "unopened"
    /\ v.h = "reserved" => x.life = "STANDALONE" /\ x.phase = "Ready"
    /\ v.h = "active" => x.life \in {"STANDALONE", "OPEN_ONE"} /\ x.phase = "Ready" /\ v.file
    /\ x.life = "STANDALONE" /\ x.phase = "Ready" /\ ~x.spent => v.h \in {"reserved", "active"}
    /\ v.h = "creating" => x.life \in {"CREATING_ONE", "OPEN_TWO", "FAILED_ONE", "CLOSING_ONE", "CLOSED_ONE"}
    /\ x.life \in {"CREATING_ONE", "OPEN_TWO", "FAILED_ONE"} => v.h = "creating"
    /\ x.life = "OPEN_ONE" => v.h = "active"
    /\ x.life = "OPEN_TWO" => v.made /\ v.file
    /\ x.life \in {"CLOSING_ONE", "CLOSING_ZERO"} => x.phase \in {"Pending", "InFlight"}
    /\ x.life \in {"CLOSING_ONE", "CLOSED_ONE"} => IF v.made THEN v.h = "none" ELSE v.h = "creating"
    /\ x.life = "CLOSED_ONE" => x.phase = IF v.made THEN "Ready" ELSE "Quiescent"

SlotOK(c, s, x, v, cr, cl, dn) ==
    /\ x \in Entries(c) /\ v \in Around
    /\ RetireOK(c, s, x, v, cl)
    /\ IF s < c.accept THEN AcceptOK(c, x, v, cr, dn) ELSE OutboundOK(x, v, cr)

(* The chains of retirements.                                              *)
InChains(ch, s) == \E k \in 1 .. 2 : \E i \in 1 .. Len(ch[k]) : ch[k][i] = s

Linked(q, e, ch, k) ==
    /\ q.heads[k] = IF Len(ch[k]) = 0 THEN None ELSE ch[k][1]
    /\ \A i \in 1 .. Len(ch[k]) : e[ch[k][i]].word = IF i < Len(ch[k]) THEN ch[k][i + 1] ELSE None

Waits(x) == x.phase = "Pending" /\ ~x.flying

Queues(c) ==
    [heads : [1 .. 2 -> SlotsOf(c) \cup {None}], active : 1 .. 2, draining : {1, 2, None}]

ChainsOK(c, q, e, ch) ==
    /\ q \in Queues(c)
    /\ ch \in [1 .. 2 -> Seq(SlotsOf(c))]
    /\ \A k \in 1 .. 2 : Linked(q, e, ch, k)
    /\ \A k, l \in 1 .. 2 : \A i \in 1 .. Len(ch[k]), j \in 1 .. Len(ch[l]) :
         ch[k][i] = ch[l][j] => k = l /\ i = j
    /\ \A s \in SlotsOf(c) : Waits(e[s]) <=> InChains(ch, s)
    /\ IF q.draining = None THEN Len(ch[3 - q.active]) = 0
       ELSE q.draining = 3 - q.active /\ Len(ch[q.draining]) > 0

(* The partition.                                                          *)
Leases == [st : {"none"}] \cup [st : {"live"}, start : Nat, len : Nat \ {0}]
            \cup [st : {"retired"}, start : Nat, len : Nat \ {0}, remaining : Nat \ {0}]

At(l, i) == l.st # "none" /\ i \in l.start + 1 .. l.start + l.len

Parts(c) ==
    [mapping : [1 .. c.outbound -> OutboundOf(c)], mapped : Int, allocated : Int,
     routes : [c.routes -> Leases]]

PartShape(c, p) ==
    p \in Parts(c) /\ p.mapped \in 0 .. p.allocated /\ p.allocated \in 0 .. c.outbound

Tiled(c, p) ==
    /\ \A i \in 1 .. p.mapped : \E r \in c.routes : At(p.routes[r], i)
    /\ \A r \in c.routes, i \in Int : At(p.routes[r], i) => i \in 1 .. p.mapped
    /\ \A r, q \in c.routes, i \in Int : At(p.routes[r], i) /\ At(p.routes[q], i) => r = q

Owned(c, p, e) ==
    /\ \A i \in 1 .. p.mapped, r \in c.routes : At(p.routes[r], i) => e[p.mapping[i]].owner = r
    /\ \A i, j \in 1 .. p.mapped : p.mapping[i] = p.mapping[j] => i = j
    /\ \A s \in OutboundOf(c) : e[s].owner # None => \E i \in 1 .. p.mapped : p.mapping[i] = s

Freed(c, p, e) ==
    /\ \A i \in p.allocated + 1 .. c.outbound : e[p.mapping[i]].life = "FREE"
    /\ \A i, j \in p.allocated + 1 .. c.outbound : p.mapping[i] = p.mapping[j] => i = j
    /\ \A s \in OutboundOf(c) : e[s].life = "FREE" => \E i \in p.allocated + 1 .. c.outbound : p.mapping[i] = s

UnmappedOf(c, e, r) == {s \in OutboundOf(c) : e[s].owner = r /\ e[s].life # "MAPPED"}

Retiring(c, p, e, rs) ==
    /\ rs = {r \in c.routes : p.routes[r].st = "live"}
    /\ \A r \in c.routes : p.routes[r].st = "retired" =>
         p.routes[r].remaining = Cardinality(UnmappedOf(c, e, r))

PartOK(c, p, e, rs) ==
    PartShape(c, p) /\ Tiled(c, p) /\ Owned(c, p, e) /\ Freed(c, p, e) /\ Retiring(c, p, e, rs)

(* A creation finds its slot.                                              *)
CreatesOK(c, p, e, cr) ==
    \A s \in SlotsOf(c) : cr[s] # <<>> =>
      /\ cr[s] = <<e[s].owner, cr[s][2]>> /\ e[s].owner \in c.routes
      /\ cr[s][2] \in Nat /\ At(p.routes[e[s].owner], p.routes[e[s].owner].start + cr[s][2] + 1)
      /\ p.mapping[p.routes[e[s].owner].start + cr[s][2] + 1] = s

Surround(s) == [h |-> handle[s], made |-> s \in made, file |-> s \in file, acc |-> s \in acc]

DoneOf(s) == {g \in 0 .. config.gens : <<s, g>> \in done}

AroundType ==
    /\ handle \in [SlotsOf(config) -> {"none", "unopened", "creating", "reserved", "active"}]
    /\ made \subseteq OutboundOf(config) /\ file \subseteq SlotsOf(config) /\ acc \subseteq AcceptSlots
    /\ create \in [SlotsOf(config) -> {<<>>} \cup (Int \X Nat)]
    /\ DOMAIN close = SlotsOf(config)
    /\ done \subseteq SlotsOf(config) \X (0 .. config.gens)

TypeInv ==
    config \in Configs /\ entry \in [SlotsOf(config) -> Entries(config)] /\ AroundType

SlotsInv ==
    \A s \in SlotsOf(config) :
      SlotOK(config, s, entry[s], Surround(s), create[s], close[s], DoneOf(s))

QueueInv == \E ch \in [1 .. 2 -> Seq(SlotsOf(config))] : ChainsOK(config, queue, entry, ch)

Flying(c, e) == {s \in SlotsOf(c) : e[s].flying}

IInv ==
    /\ TypeInv /\ SlotsInv /\ QueueInv
    /\ count = Cardinality(Flying(config, entry))
    /\ PartOK(config, part, entry, resv)
    /\ CreatesOK(config, part, entry, create)
-----------------------------------------------------------------------------
(* Configurations.                                                         *)

LEMMA ConfigType ==
  ASSUME NEW c \in Configs
  PROVE  /\ c.accept \in Nat /\ c.outbound \in Nat /\ c.gens \in Nat
         /\ c.routes \subseteq Nat /\ None \notin c.routes
         /\ c.lens \subseteq Nat \ {0} /\ c.sync \in BOOLEAN
<1>1. c \in [accept : Nat, outbound : Nat, routes : SUBSET Nat,
             gens : Nat, lens : SUBSET (Nat \ {0}), sync : BOOLEAN]
  BY ConfigAssumption
<1> QED BY <1>1 DEF None

LEMMA SlotKinds ==
  ASSUME NEW c \in Configs
  PROVE  /\ OutboundOf(c) \subseteq SlotsOf(c) /\ SlotsOf(c) \subseteq Nat
         /\ \A s \in SlotsOf(c) : s \in OutboundOf(c) <=> s >= c.accept
         /\ \A s \in SlotsOf(c) : s \in 0 .. c.accept - 1 <=> s < c.accept
BY ConfigType DEF OutboundOf, SlotsOf

LEMMA SlotsAre ==
  ASSUME config \in Configs
  PROVE  /\ Slots = SlotsOf(config) /\ OutboundSlots = OutboundOf(config)
         /\ AcceptSlots = 0 .. config.accept - 1
BY ConfigType DEF Slots, OutboundSlots, AcceptSlots, OutboundOf, SlotsOf

LEMMA NoLinks ==
  ASSUME NEW c \in Configs
  PROVE  None \notin SlotsOf(c) /\ Zero \notin SlotsOf(c) /\ Target \notin SlotsOf(c)
BY SlotKinds DEF None, Zero, Target
-----------------------------------------------------------------------------
(* Generations.                                                            *)

LEMMA AfterType ==
  ASSUME NEW c \in Configs, NEW x \in Entries(c)
  PROVE  GenAfter(c, x) \in 0 .. c.gens /\ SpentAfter(c, x) \in BOOLEAN
BY ConfigType DEF GenAfter, SpentAfter, Entries

LEMMA EpochType ==
  ASSUME NEW c \in Configs, NEW s, NEW x \in Entries(c), NEW v, NEW cl, RetireOK(c, s, x, v, cl),
         x.phase \in {"Pending", "InFlight"}
  PROVE  Epoch(x) \in 0 .. c.gens
BY ConfigType DEF Epoch, RetiredGen, RetireOK, Entries

-----------------------------------------------------------------------------
(* One slot.  What each operation does to an outbound slot.                *)

(* Outbound::try_reserve.                                                  *)
LEMMA SlotReserved ==
  ASSUME NEW c \in Configs, NEW s \in OutboundOf(c), NEW x, NEW v, NEW cr, NEW cl, NEW dn,
         SlotOK(c, s, x, v, cr, cl, dn), x.life = "FREE",
         NEW x2, x2 = [x EXCEPT !.word = Zero, !.phase = "Ready", !.lease = TRUE, !.life = "STANDALONE"],
         NEW v2, v2 = [v EXCEPT !.h = "reserved"]
  PROVE  SlotOK(c, s, x2, v2, cr, cl, dn)
<1> USE SlotKinds, ConfigType
<1>1. x2 \in Entries(c) /\ v2 \in Around
  BY  DEF SlotOK, Entries, Around, Lives
<1>2. ~(s < c.accept) /\ s >= c.accept BY DEF OutboundOf
<1>3. RetireOK(c, s, x2, v2, cl)
  BY <1>1, <1>2 DEF SlotOK, RetireOK, OutboundOK, Entries, Around, Epoch, RetiredGen, NoClose
<1>4. OutboundOK(x2, v2, cr)
  BY <1>1, <1>2 DEF SlotOK, RetireOK, OutboundOK, Entries, Around, Epoch, RetiredGen
<1> QED BY <1>1, <1>2, <1>3, <1>4 DEF SlotOK

(* Release::return_item of a standalone reservation.                       *)
LEMMA SlotCancelled ==
  ASSUME NEW c \in Configs, NEW s \in OutboundOf(c), NEW x, NEW v, NEW cr, NEW cl, NEW dn,
         SlotOK(c, s, x, v, cr, cl, dn), v.h = "reserved",
         NEW x2, x2 = [x EXCEPT !.phase = "Ready", !.lease = FALSE, !.life = "FREE"],
         NEW v2, v2 = [v EXCEPT !.h = "none"]
  PROVE  SlotOK(c, s, x2, v2, cr, cl, dn)
<1> USE SlotKinds, ConfigType
<1>1. x2 \in Entries(c) /\ v2 \in Around
  BY  DEF SlotOK, Entries, Around, Lives
<1>2. ~(s < c.accept) /\ s >= c.accept BY DEF OutboundOf
<1>3. RetireOK(c, s, x2, v2, cl)
  BY <1>1, <1>2 DEF SlotOK, RetireOK, OutboundOK, Entries, Around, Epoch, RetiredGen, NoClose
<1>4. OutboundOK(x2, v2, cr)
  BY <1>1, <1>2 DEF SlotOK, RetireOK, OutboundOK, Entries, Around, Epoch, RetiredGen
<1> QED BY <1>1, <1>2, <1>3, <1>4 DEF SlotOK

(* A descriptor is installed.                                              *)
LEMMA SlotInstalled ==
  ASSUME NEW c \in Configs, NEW s \in OutboundOf(c), NEW x, NEW v, NEW cr, NEW cl, NEW dn,
         SlotOK(c, s, x, v, cr, cl, dn), v.h = "reserved",
         NEW v2, v2 = [v EXCEPT !.h = "active", !.file = TRUE]
  PROVE  SlotOK(c, s, x, v2, cr, cl, dn)
<1> USE SlotKinds, ConfigType
<1>1. x \in Entries(c) /\ v2 \in Around
  BY  DEF SlotOK, Entries, Around, Lives
<1>2. ~(s < c.accept) /\ s >= c.accept BY DEF OutboundOf
<1>3. RetireOK(c, s, x, v2, cl)
  BY <1>1, <1>2 DEF SlotOK, RetireOK, OutboundOK, Entries, Around, Epoch, RetiredGen, NoClose
<1>4. OutboundOK(x, v2, cr)
  BY <1>1, <1>2 DEF SlotOK, RetireOK, OutboundOK, Entries, Around, Epoch, RetiredGen
<1> QED BY <1>1, <1>2, <1>3, <1>4 DEF SlotOK

(* SocketSlot::begin.                                                      *)
LEMMA SlotBegun ==
  ASSUME NEW c \in Configs, NEW s \in OutboundOf(c), NEW x, NEW v, NEW cr, NEW cl, NEW dn,
         SlotOK(c, s, x, v, cr, cl, dn), v.h = "unopened",
         NEW cr2, cr2 # <<>>,
         NEW x2, x2 = [x EXCEPT !.life = "CREATING_ONE"],
         NEW v2, v2 = [v EXCEPT !.h = "creating"]
  PROVE  SlotOK(c, s, x2, v2, cr2, cl, dn)
<1> USE SlotKinds, ConfigType
<1>1. x2 \in Entries(c) /\ v2 \in Around
  BY  DEF SlotOK, Entries, Around, Lives
<1>2. ~(s < c.accept) /\ s >= c.accept BY DEF OutboundOf
<1>3. RetireOK(c, s, x2, v2, cl)
  BY <1>1, <1>2 DEF SlotOK, RetireOK, OutboundOK, Entries, Around, Epoch, RetiredGen, NoClose
<1>4. OutboundOK(x2, v2, cr2)
  BY <1>1, <1>2 DEF SlotOK, RetireOK, OutboundOK, Entries, Around, Epoch, RetiredGen
<1> QED BY <1>1, <1>2, <1>3, <1>4 DEF SlotOK

(* Outbound::created, the lease still there.                               *)
LEMMA SlotCreated ==
  ASSUME NEW c \in Configs, NEW s \in OutboundOf(c), NEW x, NEW v, NEW cr, NEW cl, NEW dn,
         SlotOK(c, s, x, v, cr, cl, dn), x.life = "CREATING_ONE",
         NEW x2, x2 = [x EXCEPT !.life = "OPEN_TWO"],
         NEW v2, v2 = [v EXCEPT !.made = TRUE, !.file = TRUE]
  PROVE  SlotOK(c, s, x2, v2, <<>>, cl, dn)
<1> USE SlotKinds, ConfigType
<1>1. x2 \in Entries(c) /\ v2 \in Around
  BY  DEF SlotOK, Entries, Around, Lives
<1>2. ~(s < c.accept) /\ s >= c.accept BY DEF OutboundOf
<1>3. RetireOK(c, s, x2, v2, cl)
  BY <1>1, <1>2 DEF SlotOK, RetireOK, OutboundOK, Entries, Around, Epoch, RetiredGen, NoClose
<1>4. OutboundOK(x2, v2, <<>>)
  BY <1>1, <1>2 DEF SlotOK, RetireOK, OutboundOK, Entries, Around, Epoch, RetiredGen
<1> QED BY <1>1, <1>2, <1>3, <1>4 DEF SlotOK

(* Outbound::failed, the lease still there.                                *)
LEMMA SlotFailed ==
  ASSUME NEW c \in Configs, NEW s \in OutboundOf(c), NEW x, NEW v, NEW cr, NEW cl, NEW dn,
         SlotOK(c, s, x, v, cr, cl, dn), x.life = "CREATING_ONE",
         NEW x2, x2 = [x EXCEPT !.life = "FAILED_ONE"]
  PROVE  SlotOK(c, s, x2, v, <<>>, cl, dn)
<1> USE SlotKinds, ConfigType
<1>1. x2 \in Entries(c) /\ v \in Around
  BY  DEF SlotOK, Entries, Around, Lives
<1>2. ~(s < c.accept) /\ s >= c.accept BY DEF OutboundOf
<1>3. RetireOK(c, s, x2, v, cl)
  BY <1>1, <1>2 DEF SlotOK, RetireOK, OutboundOK, Entries, Around, Epoch, RetiredGen, NoClose
<1>4. OutboundOK(x2, v, <<>>)
  BY <1>1, <1>2 DEF SlotOK, RetireOK, OutboundOK, Entries, Around, Epoch, RetiredGen
<1> QED BY <1>1, <1>2, <1>3, <1>4 DEF SlotOK

(* Outbound::created, the lease gone.                                      *)
LEMMA SlotUnwanted ==
  ASSUME NEW c \in Configs, NEW s \in OutboundOf(c), NEW x, NEW v, NEW cr, NEW cl, NEW dn,
         SlotOK(c, s, x, v, cr, cl, dn), x.life = "CREATING_ZERO",
         NEW w \in SlotsOf(c) \cup {None, Zero, Target},
         NEW x2, x2 = [x EXCEPT !.life = "CLOSING_ZERO", !.phase = "Pending", !.word = w],
         NEW v2, v2 = [v EXCEPT !.file = TRUE]
  PROVE  SlotOK(c, s, x2, v2, <<>>, cl, dn)
<1> USE SlotKinds, ConfigType
<1>1. x2 \in Entries(c) /\ v2 \in Around
  BY  DEF SlotOK, Entries, Around, Lives
<1>2. ~(s < c.accept) /\ s >= c.accept BY DEF OutboundOf
<1>3. RetireOK(c, s, x2, v2, cl)
  BY <1>1, <1>2 DEF SlotOK, RetireOK, OutboundOK, Entries, Around, Epoch, RetiredGen, NoClose
<1>4. OutboundOK(x2, v2, <<>>)
  BY <1>1, <1>2 DEF SlotOK, RetireOK, OutboundOK, Entries, Around, Epoch, RetiredGen
<1> QED BY <1>1, <1>2, <1>3, <1>4 DEF SlotOK

(* Outbound::failed, the lease gone.                                       *)
LEMMA SlotRefused ==
  ASSUME NEW c \in Configs, NEW s \in OutboundOf(c), NEW x, NEW v, NEW cr, NEW cl, NEW dn,
         SlotOK(c, s, x, v, cr, cl, dn), x.life = "CREATING_ZERO",
         NEW x2, x2 = [x EXCEPT !.life = "MAPPED"]
  PROVE  SlotOK(c, s, x2, v, <<>>, cl, dn)
<1> USE SlotKinds, ConfigType
<1>1. x2 \in Entries(c) /\ v \in Around
  BY  DEF SlotOK, Entries, Around, Lives
<1>2. ~(s < c.accept) /\ s >= c.accept BY DEF OutboundOf
<1>3. RetireOK(c, s, x2, v, cl)
  BY <1>1, <1>2 DEF SlotOK, RetireOK, OutboundOK, Entries, Around, Epoch, RetiredGen, NoClose
<1>4. OutboundOK(x2, v, <<>>)
  BY <1>1, <1>2 DEF SlotOK, RetireOK, OutboundOK, Entries, Around, Epoch, RetiredGen
<1> QED BY <1>1, <1>2, <1>3, <1>4 DEF SlotOK

(* Join::activate.                                                         *)
LEMMA SlotActivated ==
  ASSUME NEW c \in Configs, NEW s \in OutboundOf(c), NEW x, NEW v, NEW cr, NEW cl, NEW dn,
         SlotOK(c, s, x, v, cr, cl, dn), v.h = "creating", v.made,
         NEW x2, x2 = [x EXCEPT !.life = "OPEN_ONE"],
         NEW v2, v2 = [v EXCEPT !.h = "active", !.made = FALSE]
  PROVE  SlotOK(c, s, x2, v2, cr, cl, dn)
<1> USE SlotKinds, ConfigType
<1>1. x2 \in Entries(c) /\ v2 \in Around
  BY  DEF SlotOK, Entries, Around, Lives
<1>2. ~(s < c.accept) /\ s >= c.accept BY DEF OutboundOf
<1>3. RetireOK(c, s, x2, v2, cl)
  BY <1>1, <1>2 DEF SlotOK, RetireOK, OutboundOK, Entries, Around, Epoch, RetiredGen, NoClose
<1>4. OutboundOK(x2, v2, cr)
  BY <1>1, <1>2 DEF SlotOK, RetireOK, OutboundOK, Entries, Around, Epoch, RetiredGen
<1> QED BY <1>1, <1>2, <1>3, <1>4 DEF SlotOK

(* View::discard while the lease is there.                                 *)
LEMMA SlotDiscarded ==
  ASSUME NEW c \in Configs, NEW s \in OutboundOf(c), NEW x, NEW v, NEW cr, NEW cl, NEW dn,
         SlotOK(c, s, x, v, cr, cl, dn), v.made, x.life = "OPEN_TWO",
         NEW w \in SlotsOf(c) \cup {None, Zero, Target},
         NEW x2, x2 = [x EXCEPT !.life = "CLOSING_ONE", !.phase = "Pending", !.word = w],
         NEW v2, v2 = [v EXCEPT !.made = FALSE]
  PROVE  SlotOK(c, s, x2, v2, cr, cl, dn)
<1> USE SlotKinds, ConfigType
<1>1. x2 \in Entries(c) /\ v2 \in Around
  BY  DEF SlotOK, Entries, Around, Lives
<1>2. ~(s < c.accept) /\ s >= c.accept BY DEF OutboundOf
<1>3. RetireOK(c, s, x2, v2, cl)
  BY <1>1, <1>2 DEF SlotOK, RetireOK, OutboundOK, Entries, Around, Epoch, RetiredGen, NoClose
<1>4. OutboundOK(x2, v2, cr)
  BY <1>1, <1>2 DEF SlotOK, RetireOK, OutboundOK, Entries, Around, Epoch, RetiredGen
<1> QED BY <1>1, <1>2, <1>3, <1>4 DEF SlotOK

(* View::discard after the lease was dropped.                              *)
LEMMA SlotClosing ==
  ASSUME NEW c \in Configs, NEW s \in OutboundOf(c), NEW x, NEW v, NEW cr, NEW cl, NEW dn,
         SlotOK(c, s, x, v, cr, cl, dn), v.made, x.life = "CLOSING_ONE",
         NEW x2, x2 = [x EXCEPT !.life = "CLOSING_ZERO"],
         NEW v2, v2 = [v EXCEPT !.made = FALSE]
  PROVE  SlotOK(c, s, x2, v2, cr, cl, dn)
<1> USE SlotKinds, ConfigType
<1>1. x2 \in Entries(c) /\ v2 \in Around
  BY  DEF SlotOK, Entries, Around, Lives
<1>2. ~(s < c.accept) /\ s >= c.accept BY DEF OutboundOf
<1>3. RetireOK(c, s, x2, v2, cl)
  BY <1>1, <1>2 DEF SlotOK, RetireOK, OutboundOK, Entries, Around, Epoch, RetiredGen, NoClose
<1>4. OutboundOK(x2, v2, cr)
  BY <1>1, <1>2 DEF SlotOK, RetireOK, OutboundOK, Entries, Around, Epoch, RetiredGen
<1> QED BY <1>1, <1>2, <1>3, <1>4 DEF SlotOK

(* View::discard after the close completed.                                *)
LEMMA SlotUsed ==
  ASSUME NEW c \in Configs, NEW s \in OutboundOf(c), NEW x, NEW v, NEW cr, NEW cl, NEW dn,
         SlotOK(c, s, x, v, cr, cl, dn), v.made, x.life \notin {"OPEN_TWO", "CLOSING_ONE"},
         NEW x2, x2 = [x EXCEPT !.life = "MAPPED"],
         NEW v2, v2 = [v EXCEPT !.made = FALSE]
  PROVE  SlotOK(c, s, x2, v2, cr, cl, dn)
<1> USE SlotKinds, ConfigType
<1>1. x2 \in Entries(c) /\ v2 \in Around
  BY  DEF SlotOK, Entries, Around, Lives
<1>2. ~(s < c.accept) /\ s >= c.accept BY DEF OutboundOf
<1>3. RetireOK(c, s, x2, v2, cl)
  BY <1>1, <1>2 DEF SlotOK, RetireOK, OutboundOK, Entries, Around, Epoch, RetiredGen, NoClose
<1>4. OutboundOK(x2, v2, cr)
  BY <1>1, <1>2 DEF SlotOK, RetireOK, OutboundOK, Entries, Around, Epoch, RetiredGen
<1> QED BY <1>1, <1>2, <1>3, <1>4 DEF SlotOK

(* View::creating while the kernel creates.                                *)
LEMMA SlotForsaken ==
  ASSUME NEW c \in Configs, NEW s \in OutboundOf(c), NEW x, NEW v, NEW cr, NEW cl, NEW dn,
         SlotOK(c, s, x, v, cr, cl, dn), v.h \in {"unopened", "creating"}, x.life = "CREATING_ONE",
         NEW x2, x2 = [x EXCEPT !.gen = GenAfter(c, x), !.spent = SpentAfter(c, x), !.lease = FALSE, !.life = "CREATING_ZERO"],
         NEW v2, v2 = [v EXCEPT !.h = "none"]
  PROVE  SlotOK(c, s, x2, v2, cr, cl, dn)
<1> USE SlotKinds, ConfigType
<1>1. x2 \in Entries(c) /\ v2 \in Around
  BY AfterType DEF SlotOK, Entries, Around, Lives
<1>2. ~(s < c.accept) /\ s >= c.accept BY DEF OutboundOf
<1>3. RetireOK(c, s, x2, v2, cl)
  BY <1>1, <1>2 DEF SlotOK, RetireOK, OutboundOK, Entries, Around, Epoch, RetiredGen, NoClose, GenAfter, SpentAfter
<1>4. OutboundOK(x2, v2, cr)
  BY <1>1, <1>2 DEF SlotOK, RetireOK, OutboundOK, Entries, Around, Epoch, RetiredGen, GenAfter, SpentAfter
<1> QED BY <1>1, <1>2, <1>3, <1>4 DEF SlotOK

(* View::creating after the creation.                                      *)
LEMMA SlotDropped ==
  ASSUME NEW c \in Configs, NEW s \in OutboundOf(c), NEW x, NEW v, NEW cr, NEW cl, NEW dn,
         SlotOK(c, s, x, v, cr, cl, dn), v.h \in {"unopened", "creating"}, x.life = "OPEN_TWO",
         NEW w \in SlotsOf(c) \cup {None, Zero, Target},
         NEW x2, x2 = [x EXCEPT !.gen = GenAfter(c, x), !.spent = SpentAfter(c, x), !.lease = FALSE, !.life = "CLOSING_ONE", !.phase = "Pending", !.word = w],
         NEW v2, v2 = [v EXCEPT !.h = "none"]
  PROVE  SlotOK(c, s, x2, v2, cr, cl, dn)
<1> USE SlotKinds, ConfigType
<1>1. x2 \in Entries(c) /\ v2 \in Around
  BY AfterType DEF SlotOK, Entries, Around, Lives
<1>2. ~(s < c.accept) /\ s >= c.accept BY DEF OutboundOf
<1>3. RetireOK(c, s, x2, v2, cl)
  BY <1>1, <1>2 DEF SlotOK, RetireOK, OutboundOK, Entries, Around, Epoch, RetiredGen, NoClose, GenAfter, SpentAfter
<1>4. OutboundOK(x2, v2, cr)
  BY <1>1, <1>2 DEF SlotOK, RetireOK, OutboundOK, Entries, Around, Epoch, RetiredGen, GenAfter, SpentAfter
<1> QED BY <1>1, <1>2, <1>3, <1>4 DEF SlotOK

(* View::creating after the created half was discarded.                    *)
LEMMA SlotLeft ==
  ASSUME NEW c \in Configs, NEW s \in OutboundOf(c), NEW x, NEW v, NEW cr, NEW cl, NEW dn,
         SlotOK(c, s, x, v, cr, cl, dn), v.h \in {"unopened", "creating"}, x.life = "CLOSING_ONE",
         NEW x2, x2 = [x EXCEPT !.gen = GenAfter(c, x), !.spent = SpentAfter(c, x), !.lease = FALSE, !.life = "CLOSING_ZERO"],
         NEW v2, v2 = [v EXCEPT !.h = "none"]
  PROVE  SlotOK(c, s, x2, v2, cr, cl, dn)
<1> USE SlotKinds, ConfigType
<1>1. x2 \in Entries(c) /\ v2 \in Around
  BY AfterType DEF SlotOK, Entries, Around, Lives
<1>2. ~(s < c.accept) /\ s >= c.accept BY DEF OutboundOf
<1>3. RetireOK(c, s, x2, v2, cl)
  BY <1>1, <1>2 DEF SlotOK, RetireOK, OutboundOK, Entries, Around, Epoch, RetiredGen, NoClose, GenAfter, SpentAfter
<1>4. OutboundOK(x2, v2, cr)
  BY <1>1, <1>2 DEF SlotOK, RetireOK, OutboundOK, Entries, Around, Epoch, RetiredGen, GenAfter, SpentAfter
<1> QED BY <1>1, <1>2, <1>3, <1>4 DEF SlotOK

(* View::unopened, and View::creating when nothing is open.                *)
LEMMA SlotReturned ==
  ASSUME NEW c \in Configs, NEW s \in OutboundOf(c), NEW x, NEW v, NEW cr, NEW cl, NEW dn,
         SlotOK(c, s, x, v, cr, cl, dn), v.h \in {"unopened", "creating"}, x.life \notin {"CREATING_ONE", "OPEN_TWO", "CLOSING_ONE"},
         NEW x2, x2 = [x EXCEPT !.gen = GenAfter(c, x), !.spent = SpentAfter(c, x), !.lease = FALSE, !.phase = "Ready", !.life = "MAPPED"],
         NEW v2, v2 = [v EXCEPT !.h = "none"]
  PROVE  SlotOK(c, s, x2, v2, cr, cl, dn)
<1> USE SlotKinds, ConfigType
<1>1. x2 \in Entries(c) /\ v2 \in Around
  BY AfterType DEF SlotOK, Entries, Around, Lives
<1>2. ~(s < c.accept) /\ s >= c.accept BY DEF OutboundOf
<1>3. RetireOK(c, s, x2, v2, cl)
  BY <1>1, <1>2 DEF SlotOK, RetireOK, OutboundOK, Entries, Around, Epoch, RetiredGen, NoClose, GenAfter, SpentAfter
<1>4. OutboundOK(x2, v2, cr)
  BY <1>1, <1>2 DEF SlotOK, RetireOK, OutboundOK, Entries, Around, Epoch, RetiredGen, GenAfter, SpentAfter
<1> QED BY <1>1, <1>2, <1>3, <1>4 DEF SlotOK

(* View::retire of an outbound descriptor.                                 *)
LEMMA SlotRetired ==
  ASSUME NEW c \in Configs, NEW s \in OutboundOf(c), NEW x, NEW v, NEW cr, NEW cl, NEW dn,
         SlotOK(c, s, x, v, cr, cl, dn), v.h = "active",
         NEW w \in SlotsOf(c) \cup {None, Zero, Target},
         NEW l \in Lives, l = IF x.owner # None THEN "CLOSING_ZERO" ELSE x.life,
         NEW x2, x2 = [x EXCEPT !.gen = GenAfter(c, x), !.spent = SpentAfter(c, x), !.lease = FALSE, !.phase = "Pending", !.life = l, !.word = w],
         NEW v2, v2 = [v EXCEPT !.h = "none"]
  PROVE  SlotOK(c, s, x2, v2, cr, cl, dn)
<1> USE SlotKinds, ConfigType
<1>1. x2 \in Entries(c) /\ v2 \in Around
  <2>1. x \in Entries(c) /\ v \in Around BY DEF SlotOK
  <2>2. PICK g, sp : g = GenAfter(c, x) /\ sp = SpentAfter(c, x) OBVIOUS
  <2>3. g \in 0 .. c.gens /\ sp \in BOOLEAN BY <2>1, <2>2, AfterType
  <2>4. x2 = [x EXCEPT !.gen = g, !.spent = sp, !.lease = FALSE, !.phase = "Pending", !.life = l, !.word = w] BY <2>2
  <2>5. x2 \in Entries(c) BY <2>1, <2>3, <2>4, ZenonT(60) DEF Entries
  <2>6. v2 \in Around BY <2>1 DEF Around
  <2> QED BY <2>5, <2>6
<1>2. ~(s < c.accept) /\ s >= c.accept BY DEF OutboundOf
<1>3. RetireOK(c, s, x2, v2, cl)
  BY <1>1, <1>2 DEF SlotOK, RetireOK, OutboundOK, Entries, Around, Epoch, RetiredGen, NoClose, GenAfter, SpentAfter
<1>4. OutboundOK(x2, v2, cr)
  BY <1>1, <1>2 DEF SlotOK, RetireOK, OutboundOK, Entries, Around, Epoch, RetiredGen, GenAfter, SpentAfter
<1> QED BY <1>1, <1>2, <1>3, <1>4 DEF SlotOK

(* Outbound::acquire.                                                      *)
LEMMA SlotAcquired ==
  ASSUME NEW c \in Configs, NEW s \in OutboundOf(c), NEW x, NEW v, NEW cr, NEW cl, NEW dn,
         SlotOK(c, s, x, v, cr, cl, dn), x.life = "MAPPED", ~x.spent,
         NEW x2, x2 = [x EXCEPT !.word = Zero, !.phase = "Ready", !.lease = TRUE, !.life = "UNOPENED_ONE"],
         NEW v2, v2 = [v EXCEPT !.h = "unopened"]
  PROVE  SlotOK(c, s, x2, v2, cr, cl, dn)
<1> USE SlotKinds, ConfigType
<1>1. x2 \in Entries(c) /\ v2 \in Around
  BY  DEF SlotOK, Entries, Around, Lives
<1>2. ~(s < c.accept) /\ s >= c.accept BY DEF OutboundOf
<1>3. RetireOK(c, s, x2, v2, cl)
  BY <1>1, <1>2 DEF SlotOK, RetireOK, OutboundOK, Entries, Around, Epoch, RetiredGen, NoClose
<1>4. OutboundOK(x2, v2, cr)
  BY <1>1, <1>2 DEF SlotOK, RetireOK, OutboundOK, Entries, Around, Epoch, RetiredGen
<1> QED BY <1>1, <1>2, <1>3, <1>4 DEF SlotOK

(* Outbound::reclaim.                                                      *)
LEMMA SlotFreed ==
  ASSUME NEW c \in Configs, NEW s \in OutboundOf(c), NEW x, NEW v, NEW cr, NEW cl, NEW dn,
         SlotOK(c, s, x, v, cr, cl, dn), x.life = "MAPPED",
         NEW x2, x2 = [x EXCEPT !.owner = None, !.life = (IF x.spent THEN "STANDALONE" ELSE "FREE")]
  PROVE  SlotOK(c, s, x2, v, cr, cl, dn)
<1> USE SlotKinds, ConfigType
<1>1. x2 \in Entries(c) /\ v \in Around
  BY  DEF SlotOK, Entries, Around, Lives
<1>2. ~(s < c.accept) /\ s >= c.accept BY DEF OutboundOf
<1>3. RetireOK(c, s, x2, v, cl)
  BY <1>1, <1>2 DEF SlotOK, RetireOK, OutboundOK, Entries, Around, Epoch, RetiredGen, NoClose
<1>4. OutboundOK(x2, v, cr)
  BY <1>1, <1>2 DEF SlotOK, RetireOK, OutboundOK, Entries, Around, Epoch, RetiredGen
<1> QED BY <1>1, <1>2, <1>3, <1>4 DEF SlotOK

(* Outbound::try_assign.                                                   *)
LEMMA SlotMapped ==
  ASSUME NEW c \in Configs, NEW s \in OutboundOf(c), NEW x, NEW v, NEW cr, NEW cl, NEW dn,
         SlotOK(c, s, x, v, cr, cl, dn), x.life = "FREE",
         NEW r \in c.routes,
         NEW x2, x2 = [x EXCEPT !.life = "MAPPED", !.owner = r]
  PROVE  SlotOK(c, s, x2, v, cr, cl, dn)
<1> USE SlotKinds, ConfigType
<1>1. x2 \in Entries(c) /\ v \in Around
  BY  DEF SlotOK, Entries, Around, Lives
<1>2. ~(s < c.accept) /\ s >= c.accept BY DEF OutboundOf
<1>3. RetireOK(c, s, x2, v, cl)
  BY <1>1, <1>2 DEF SlotOK, RetireOK, OutboundOK, Entries, Around, Epoch, RetiredGen, NoClose
<1>4. OutboundOK(x2, v, cr)
  BY <1>1, <1>2 DEF SlotOK, RetireOK, OutboundOK, Entries, Around, Epoch, RetiredGen
<1> QED BY <1>1, <1>2, <1>3, <1>4 DEF SlotOK

(* Resolver::retire_one submits the close.                                 *)
LEMMA SlotSubmitted ==
  ASSUME NEW c \in Configs, NEW s \in OutboundOf(c), NEW x, NEW v, NEW cr, NEW cl, NEW dn,
         SlotOK(c, s, x, v, cr, cl, dn), Waits(x), ~c.sync,
         NEW k \in 0 .. 2, NEW g \in 0 .. c.gens, g = Epoch(x), NEW cl2,
         cl2 = [st |-> "sent", gen |-> g, side |-> k, standalone |-> x.owner = None],
         NEW x2, x2 = [x EXCEPT !.sub = g, !.flying = TRUE, !.side = k, !.phase = "InFlight"]
  PROVE  SlotOK(c, s, x2, v, cr, cl2, dn)
<1> USE SlotKinds, ConfigType
<1>1. x2 \in Entries(c) /\ v \in Around
  BY  DEF SlotOK, Entries, Around, Lives
<1>2. ~(s < c.accept) /\ s >= c.accept BY DEF OutboundOf
<1>3. RetireOK(c, s, x2, v, cl2)
  BY <1>1, <1>2 DEF SlotOK, RetireOK, OutboundOK, Entries, Around, Epoch, RetiredGen, NoClose, Waits
<1>4. OutboundOK(x2, v, cr)
  BY <1>1, <1>2 DEF SlotOK, RetireOK, OutboundOK, Entries, Around, Epoch, RetiredGen, Waits
<1> QED BY <1>1, <1>2, <1>3, <1>4 DEF SlotOK

(* Echo::retry: the close failed.                                          *)
LEMMA SlotResubmits ==
  ASSUME NEW c \in Configs, NEW s \in OutboundOf(c), NEW x, NEW v, NEW cr, NEW cl, NEW dn,
         SlotOK(c, s, x, v, cr, cl, dn), x.flying, cl.st = "failed",
         NEW w \in SlotsOf(c) \cup {None, Zero, Target},
         NEW x2, x2 = [x EXCEPT !.flying = FALSE, !.phase = "Pending", !.word = w]
  PROVE  SlotOK(c, s, x2, v, cr, NoClose, dn)
<1> USE SlotKinds, ConfigType
<1>1. x2 \in Entries(c) /\ v \in Around
  BY  DEF SlotOK, Entries, Around, Lives
<1>2. ~(s < c.accept) /\ s >= c.accept BY DEF OutboundOf
<1>3. RetireOK(c, s, x2, v, NoClose)
  BY <1>1, <1>2 DEF SlotOK, RetireOK, OutboundOK, Entries, Around, Epoch, RetiredGen, NoClose
<1>4. OutboundOK(x2, v, cr)
  BY <1>1, <1>2 DEF SlotOK, RetireOK, OutboundOK, Entries, Around, Epoch, RetiredGen
<1> QED BY <1>1, <1>2, <1>3, <1>4 DEF SlotOK

(* The kernel carries the close out.                                       *)
LEMMA SlotKernelClosed ==
  ASSUME NEW c \in Configs, NEW s \in OutboundOf(c), NEW x, NEW v, NEW cr, NEW cl, NEW dn,
         SlotOK(c, s, x, v, cr, cl, dn), x.flying, cl.st = "sent",
         NEW cl2, cl2 = [cl EXCEPT !.st = "done"],
         NEW v2, v2 = [v EXCEPT !.file = FALSE]
  PROVE  SlotOK(c, s, x, v2, cr, cl2, dn)
<1> USE SlotKinds, ConfigType
<1>1. x \in Entries(c) /\ v2 \in Around
  BY  DEF SlotOK, Entries, Around, Lives
<1>2. ~(s < c.accept) /\ s >= c.accept BY DEF OutboundOf
<1>3. RetireOK(c, s, x, v2, cl2)
  BY <1>1, <1>2 DEF SlotOK, RetireOK, OutboundOK, Entries, Around, Epoch, RetiredGen, NoClose
<1>4. OutboundOK(x, v2, cr)
  BY <1>1, <1>2 DEF SlotOK, RetireOK, OutboundOK, Entries, Around, Epoch, RetiredGen
<1> QED BY <1>1, <1>2, <1>3, <1>4 DEF SlotOK

(* The close fails.                                                        *)
LEMMA SlotKernelFailed ==
  ASSUME NEW c \in Configs, NEW s \in OutboundOf(c), NEW x, NEW v, NEW cr, NEW cl, NEW dn,
         SlotOK(c, s, x, v, cr, cl, dn), x.flying, cl.st = "sent",
         NEW cl2, cl2 = [cl EXCEPT !.st = "failed"]
  PROVE  SlotOK(c, s, x, v, cr, cl2, dn)
<1> USE SlotKinds, ConfigType
<1>1. x \in Entries(c) /\ v \in Around
  BY  DEF SlotOK, Entries, Around, Lives
<1>2. ~(s < c.accept) /\ s >= c.accept BY DEF OutboundOf
<1>3. RetireOK(c, s, x, v, cl2)
  BY <1>1, <1>2 DEF SlotOK, RetireOK, OutboundOK, Entries, Around, Epoch, RetiredGen, NoClose
<1>4. OutboundOK(x, v, cr)
  BY <1>1, <1>2 DEF SlotOK, RetireOK, OutboundOK, Entries, Around, Epoch, RetiredGen
<1> QED BY <1>1, <1>2, <1>3, <1>4 DEF SlotOK

(* ready::Handle::set_target.                                              *)
LEMMA SlotTargeted ==
  ASSUME NEW c \in Configs, NEW s \in OutboundOf(c), NEW x, NEW v, NEW cr, NEW cl, NEW dn,
         SlotOK(c, s, x, v, cr, cl, dn), x.lease,
         NEW x2, x2 = [x EXCEPT !.word = Target]
  PROVE  SlotOK(c, s, x2, v, cr, cl, dn)
<1> USE SlotKinds, ConfigType
<1>1. x2 \in Entries(c) /\ v \in Around
  BY  DEF SlotOK, Entries, Around, Lives
<1>2. ~(s < c.accept) /\ s >= c.accept BY DEF OutboundOf
<1>3. RetireOK(c, s, x2, v, cl)
  BY <1>1, <1>2 DEF SlotOK, RetireOK, OutboundOK, Entries, Around, Epoch, RetiredGen, NoClose
<1>4. OutboundOK(x2, v, cr)
  BY <1>1, <1>2 DEF SlotOK, RetireOK, OutboundOK, Entries, Around, Epoch, RetiredGen
<1> QED BY <1>1, <1>2, <1>3, <1>4 DEF SlotOK

(* The close of the slot is through.                                       *)
Ends(x, cl) == x.phase \in {"Pending", "InFlight"} /\ (x.flying => cl.st = "done")

(* The close of a standalone slot completed.                               *)
LEMMA SlotStandaloneFreed ==
  ASSUME NEW c \in Configs, NEW s \in OutboundOf(c), NEW x, NEW v, NEW cr, NEW cl, NEW dn,
         SlotOK(c, s, x, v, cr, cl, dn), Ends(x, cl), x.owner = None, ~x.spent,
         NEW x2, x2 = [x EXCEPT !.flying = FALSE, !.phase = "Ready", !.lease = FALSE, !.life = "FREE"],
         NEW v2, v2 = [v EXCEPT !.file = FALSE]
  PROVE  SlotOK(c, s, x2, v2, cr, NoClose, dn)
<1> USE SlotKinds, ConfigType
<1> x.phase \in {"Pending", "InFlight"} /\ (x.flying => cl.st = "done") BY DEF Ends
<1>1. x2 \in Entries(c) /\ v2 \in Around
  BY  DEF SlotOK, Entries, Around, Lives
<1>2. ~(s < c.accept) /\ s >= c.accept BY DEF OutboundOf
<1>3. RetireOK(c, s, x2, v2, NoClose)
  BY <1>1, <1>2 DEF SlotOK, RetireOK, OutboundOK, Entries, Around, Epoch, RetiredGen, NoClose
<1>4. OutboundOK(x2, v2, cr)
  BY <1>1, <1>2 DEF SlotOK, RetireOK, OutboundOK, Entries, Around, Epoch, RetiredGen
<1> QED BY <1>1, <1>2, <1>3, <1>4 DEF SlotOK

(* ... and its generations are used up.                                    *)
LEMMA SlotStandaloneSpent ==
  ASSUME NEW c \in Configs, NEW s \in OutboundOf(c), NEW x, NEW v, NEW cr, NEW cl, NEW dn,
         SlotOK(c, s, x, v, cr, cl, dn), Ends(x, cl), x.owner = None, x.spent,
         NEW x2, x2 = [x EXCEPT !.flying = FALSE, !.phase = "Ready", !.lease = FALSE],
         NEW v2, v2 = [v EXCEPT !.file = FALSE]
  PROVE  SlotOK(c, s, x2, v2, cr, NoClose, dn)
<1> USE SlotKinds, ConfigType
<1> x.phase \in {"Pending", "InFlight"} /\ (x.flying => cl.st = "done") BY DEF Ends
<1>1. x2 \in Entries(c) /\ v2 \in Around
  BY  DEF SlotOK, Entries, Around, Lives
<1>2. ~(s < c.accept) /\ s >= c.accept BY DEF OutboundOf
<1>3. RetireOK(c, s, x2, v2, NoClose)
  BY <1>1, <1>2 DEF SlotOK, RetireOK, OutboundOK, Entries, Around, Epoch, RetiredGen, NoClose
<1>4. OutboundOK(x2, v2, cr)
  BY <1>1, <1>2 DEF SlotOK, RetireOK, OutboundOK, Entries, Around, Epoch, RetiredGen
<1> QED BY <1>1, <1>2, <1>3, <1>4 DEF SlotOK

(* Closures::complete: nobody holds the slot.                              *)
LEMMA SlotClosedLast ==
  ASSUME NEW c \in Configs, NEW s \in OutboundOf(c), NEW x, NEW v, NEW cr, NEW cl, NEW dn,
         SlotOK(c, s, x, v, cr, cl, dn), Ends(x, cl), x.life = "CLOSING_ZERO",
         NEW x2, x2 = [x EXCEPT !.flying = FALSE, !.phase = "Ready", !.lease = FALSE, !.life = "MAPPED"],
         NEW v2, v2 = [v EXCEPT !.file = FALSE]
  PROVE  SlotOK(c, s, x2, v2, cr, NoClose, dn)
<1> USE SlotKinds, ConfigType
<1> x.phase \in {"Pending", "InFlight"} /\ (x.flying => cl.st = "done") BY DEF Ends
<1>1. x2 \in Entries(c) /\ v2 \in Around
  BY  DEF SlotOK, Entries, Around, Lives
<1>2. ~(s < c.accept) /\ s >= c.accept BY DEF OutboundOf
<1>3. RetireOK(c, s, x2, v2, NoClose)
  BY <1>1, <1>2 DEF SlotOK, RetireOK, OutboundOK, Entries, Around, Epoch, RetiredGen, NoClose
<1>4. OutboundOK(x2, v2, cr)
  BY <1>1, <1>2 DEF SlotOK, RetireOK, OutboundOK, Entries, Around, Epoch, RetiredGen
<1> QED BY <1>1, <1>2, <1>3, <1>4 DEF SlotOK

(* Closures::complete: somebody still holds the slot.                      *)
LEMMA SlotClosedFirst ==
  ASSUME NEW c \in Configs, NEW s \in OutboundOf(c), NEW x, NEW v, NEW cr, NEW cl, NEW dn,
         SlotOK(c, s, x, v, cr, cl, dn), Ends(x, cl), x.owner # None, x.life # "CLOSING_ZERO",
         NEW ph, ph = (IF x.lease THEN "Quiescent" ELSE "Ready"),
         NEW x2, x2 = [x EXCEPT !.flying = FALSE, !.phase = ph, !.life = "CLOSED_ONE"],
         NEW v2, v2 = [v EXCEPT !.file = FALSE]
  PROVE  SlotOK(c, s, x2, v2, cr, NoClose, dn)
<1> USE SlotKinds, ConfigType
<1> x.phase \in {"Pending", "InFlight"} /\ (x.flying => cl.st = "done") BY DEF Ends
<1>0. (IF x.lease THEN "Quiescent" ELSE "Ready") \in {"Ready", "Pending", "InFlight", "Quiescent"} OBVIOUS
<1>1. x2 \in Entries(c) /\ v2 \in Around
  <2>1. x \in Entries(c) /\ v \in Around BY DEF SlotOK
  <2> QED BY <1>0, <2>1, ZenonT(60) DEF Entries, Around, Lives
<1>2. ~(s < c.accept) /\ s >= c.accept BY DEF OutboundOf
<1>3. RetireOK(c, s, x2, v2, NoClose)
  BY <1>1, <1>2 DEF SlotOK, RetireOK, OutboundOK, Entries, Around, Epoch, RetiredGen, NoClose
<1>4. OutboundOK(x2, v2, cr)
  BY <1>1, <1>2 DEF SlotOK, RetireOK, OutboundOK, Entries, Around, Epoch, RetiredGen
<1> QED BY <1>1, <1>2, <1>3, <1>4 DEF SlotOK

-----------------------------------------------------------------------------
(* ... and to an accept slot.                                              *)

(* The kernel accepts into an empty slot.                                  *)
LEMMA AcceptArrives ==
  ASSUME NEW c \in Configs, NEW s \in 0 .. c.accept - 1, NEW x, NEW v, NEW cr, NEW cl, NEW dn \in SUBSET (0 .. c.gens),
         SlotOK(c, s, x, v, cr, cl, dn), ~v.file,
         NEW v2, v2 = [v EXCEPT !.file = TRUE, !.acc = TRUE]
  PROVE  SlotOK(c, s, x, v2, cr, cl, dn)
<1> USE SlotKinds, ConfigType
<1>1. x \in Entries(c) /\ v2 \in Around
  BY  DEF SlotOK, Entries, Around, Lives
<1>2. s < c.accept /\ ~(s >= c.accept) BY DEF OutboundOf
<1>3. RetireOK(c, s, x, v2, cl)
  BY <1>1, <1>2 DEF SlotOK, RetireOK, AcceptOK, Entries, Around, Epoch, RetiredGen, NoClose
<1>4. AcceptOK(c, x, v2, cr, dn)
  BY <1>1, <1>2 DEF SlotOK, RetireOK, AcceptOK, Entries, Around, Epoch, RetiredGen
<1> QED BY <1>1, <1>2, <1>3, <1>4 DEF SlotOK

(* Accepted::bind.                                                         *)
LEMMA AcceptClaimed ==
  ASSUME NEW c \in Configs, NEW s \in 0 .. c.accept - 1, NEW x, NEW v, NEW cr, NEW cl, NEW dn \in SUBSET (0 .. c.gens),
         SlotOK(c, s, x, v, cr, cl, dn), v.acc, CanClaim(x),
         NEW x2, x2 = [x EXCEPT !.word = Zero, !.phase = "Ready", !.lease = TRUE],
         NEW v2, v2 = [v EXCEPT !.h = "active", !.acc = FALSE]
  PROVE  SlotOK(c, s, x2, v2, cr, cl, dn)
<1> USE SlotKinds, ConfigType
<1>1. x2 \in Entries(c) /\ v2 \in Around
  BY  DEF SlotOK, Entries, Around, Lives
<1>2. s < c.accept /\ ~(s >= c.accept) BY DEF OutboundOf
<1>3. RetireOK(c, s, x2, v2, cl)
  BY <1>1, <1>2 DEF SlotOK, RetireOK, AcceptOK, Entries, Around, Epoch, RetiredGen, NoClose, CanClaim
<1>4. AcceptOK(c, x2, v2, cr, dn)
  BY <1>1, <1>2 DEF SlotOK, RetireOK, AcceptOK, Entries, Around, Epoch, RetiredGen, CanClaim
<1> QED BY <1>1, <1>2, <1>3, <1>4 DEF SlotOK

(* View::abandon of a slot that is spent.                                  *)
LEMMA AcceptQuarantined ==
  ASSUME NEW c \in Configs, NEW s \in 0 .. c.accept - 1, NEW x, NEW v, NEW cr, NEW cl, NEW dn \in SUBSET (0 .. c.gens),
         SlotOK(c, s, x, v, cr, cl, dn), v.acc, x.spent,
         NEW x2, x2 = [x EXCEPT !.phase = "Quiescent", !.lease = FALSE],
         NEW v2, v2 = [v EXCEPT !.acc = FALSE]
  PROVE  SlotOK(c, s, x2, v2, cr, cl, dn)
<1> USE SlotKinds, ConfigType
<1>1. x2 \in Entries(c) /\ v2 \in Around
  BY  DEF SlotOK, Entries, Around, Lives
<1>2. s < c.accept /\ ~(s >= c.accept) BY DEF OutboundOf
<1>3. RetireOK(c, s, x2, v2, cl)
  BY <1>1, <1>2 DEF SlotOK, RetireOK, AcceptOK, Entries, Around, Epoch, RetiredGen, NoClose
<1>4. AcceptOK(c, x2, v2, cr, dn)
  BY <1>1, <1>2 DEF SlotOK, RetireOK, AcceptOK, Entries, Around, Epoch, RetiredGen
<1> QED BY <1>1, <1>2, <1>3, <1>4 DEF SlotOK

(* View::abandon.                                                          *)
LEMMA AcceptAbandoned ==
  ASSUME NEW c \in Configs, NEW s \in 0 .. c.accept - 1, NEW x, NEW v, NEW cr, NEW cl, NEW dn \in SUBSET (0 .. c.gens),
         SlotOK(c, s, x, v, cr, cl, dn), v.acc, ~x.spent,
         NEW w \in SlotsOf(c) \cup {None, Zero, Target},
         NEW x2, x2 = [x EXCEPT !.gen = GenAfter(c, x), !.spent = SpentAfter(c, x), !.lease = FALSE, !.phase = "Pending", !.word = w],
         NEW v2, v2 = [v EXCEPT !.acc = FALSE]
  PROVE  SlotOK(c, s, x2, v2, cr, cl, dn)
<1> USE SlotKinds, ConfigType
<1>1. x2 \in Entries(c) /\ v2 \in Around
  BY AfterType DEF SlotOK, Entries, Around, Lives
<1>2. s < c.accept /\ ~(s >= c.accept) BY DEF OutboundOf
<1>3. RetireOK(c, s, x2, v2, cl)
  BY <1>1, <1>2 DEF SlotOK, RetireOK, AcceptOK, Entries, Around, Epoch, RetiredGen, NoClose, GenAfter, SpentAfter
<1>4. AcceptOK(c, x2, v2, cr, dn)
  BY <1>1, <1>2 DEF SlotOK, RetireOK, AcceptOK, Entries, Around, Epoch, RetiredGen, GenAfter, SpentAfter
<1> QED BY <1>1, <1>2, <1>3, <1>4 DEF SlotOK

(* View::retire of an accepted descriptor.                                 *)
LEMMA AcceptRetired ==
  ASSUME NEW c \in Configs, NEW s \in 0 .. c.accept - 1, NEW x, NEW v, NEW cr, NEW cl, NEW dn \in SUBSET (0 .. c.gens),
         SlotOK(c, s, x, v, cr, cl, dn), v.h = "active",
         NEW w \in SlotsOf(c) \cup {None, Zero, Target},
         NEW x2, x2 = [x EXCEPT !.gen = GenAfter(c, x), !.spent = SpentAfter(c, x), !.lease = FALSE, !.phase = "Pending", !.word = w],
         NEW v2, v2 = [v EXCEPT !.h = "none"]
  PROVE  SlotOK(c, s, x2, v2, cr, cl, dn)
<1> USE SlotKinds, ConfigType
<1>1. x2 \in Entries(c) /\ v2 \in Around
  BY AfterType DEF SlotOK, Entries, Around, Lives
<1>2. s < c.accept /\ ~(s >= c.accept) BY DEF OutboundOf
<1>3. RetireOK(c, s, x2, v2, cl)
  BY <1>1, <1>2 DEF SlotOK, RetireOK, AcceptOK, Entries, Around, Epoch, RetiredGen, NoClose, GenAfter, SpentAfter
<1>4. AcceptOK(c, x2, v2, cr, dn)
  BY <1>1, <1>2, SMTT(30) DEF SlotOK, RetireOK, AcceptOK, Entries, Around, Epoch, RetiredGen, GenAfter, SpentAfter
<1> QED BY <1>1, <1>2, <1>3, <1>4 DEF SlotOK

(* Resolver::retire_one submits the close.                                 *)
LEMMA AcceptSubmitted ==
  ASSUME NEW c \in Configs, NEW s \in 0 .. c.accept - 1, NEW x, NEW v, NEW cr, NEW cl, NEW dn \in SUBSET (0 .. c.gens),
         SlotOK(c, s, x, v, cr, cl, dn), Waits(x), ~c.sync,
         NEW k \in 0 .. 2, NEW g \in 0 .. c.gens, g = Epoch(x), NEW cl2,
         cl2 = [st |-> "sent", gen |-> g, side |-> k, standalone |-> FALSE],
         NEW x2, x2 = [x EXCEPT !.sub = g, !.flying = TRUE, !.side = k, !.phase = "InFlight"]
  PROVE  SlotOK(c, s, x2, v, cr, cl2, dn)
<1> USE SlotKinds, ConfigType
<1>1. x2 \in Entries(c) /\ v \in Around
  BY  DEF SlotOK, Entries, Around, Lives
<1>2. s < c.accept /\ ~(s >= c.accept) BY DEF OutboundOf
<1>3. RetireOK(c, s, x2, v, cl2)
  BY <1>1, <1>2, ZenonT(60) DEF SlotOK, RetireOK, AcceptOK, Entries, Around, Epoch, RetiredGen, NoClose, Waits
<1>4. AcceptOK(c, x2, v, cr, dn)
  BY <1>1, <1>2 DEF SlotOK, RetireOK, AcceptOK, Entries, Around, Epoch, RetiredGen, Waits
<1> QED BY <1>1, <1>2, <1>3, <1>4 DEF SlotOK

(* The file table closes it.                                               *)
LEMMA AcceptClosedNow ==
  ASSUME NEW c \in Configs, NEW s \in 0 .. c.accept - 1, NEW x, NEW v, NEW cr, NEW cl, NEW dn \in SUBSET (0 .. c.gens),
         SlotOK(c, s, x, v, cr, cl, dn), Waits(x),
         NEW x2, x2 = [x EXCEPT !.phase = "Ready", !.lease = FALSE],
         NEW v2, v2 = [v EXCEPT !.file = FALSE]
  PROVE  SlotOK(c, s, x2, v2, cr, cl, dn)
<1> USE SlotKinds, ConfigType
<1>1. x2 \in Entries(c) /\ v2 \in Around
  BY  DEF SlotOK, Entries, Around, Lives
<1>2. s < c.accept /\ ~(s >= c.accept) BY DEF OutboundOf
<1>3. RetireOK(c, s, x2, v2, cl)
  BY <1>1, <1>2 DEF SlotOK, RetireOK, AcceptOK, Entries, Around, Epoch, RetiredGen, NoClose, Waits
<1>4. AcceptOK(c, x2, v2, cr, dn)
  BY <1>1, <1>2 DEF SlotOK, RetireOK, AcceptOK, Entries, Around, Epoch, RetiredGen, Waits
<1> QED BY <1>1, <1>2, <1>3, <1>4 DEF SlotOK

(* Echo::complete of the current retirement.                               *)
LEMMA AcceptSettled ==
  ASSUME NEW c \in Configs, NEW s \in 0 .. c.accept - 1, NEW x, NEW v, NEW cr, NEW cl, NEW dn \in SUBSET (0 .. c.gens),
         SlotOK(c, s, x, v, cr, cl, dn), x.flying, cl.st = "done", x.phase = "InFlight",
         NEW x2, x2 = [x EXCEPT !.flying = FALSE, !.phase = "Ready", !.lease = FALSE]
  PROVE  SlotOK(c, s, x2, v, cr, NoClose, dn \cup {x.sub})
<1> USE SlotKinds, ConfigType
<1>1. x2 \in Entries(c) /\ v \in Around
  BY  DEF SlotOK, Entries, Around, Lives
<1>2. s < c.accept /\ ~(s >= c.accept) BY DEF OutboundOf
<1>3. RetireOK(c, s, x2, v, NoClose)
  BY <1>1, <1>2 DEF SlotOK, RetireOK, AcceptOK, Entries, Around, Epoch, RetiredGen, NoClose
<1>4. AcceptOK(c, x2, v, cr, dn \cup {x.sub})
  BY <1>1, <1>2 DEF SlotOK, RetireOK, AcceptOK, Entries, Around, Epoch, RetiredGen
<1> QED BY <1>1, <1>2, <1>3, <1>4 DEF SlotOK

(* Echo::complete while the next retirement waits.                         *)
LEMMA AcceptPromoted ==
  ASSUME NEW c \in Configs, NEW s \in 0 .. c.accept - 1, NEW x, NEW v, NEW cr, NEW cl, NEW dn \in SUBSET (0 .. c.gens),
         SlotOK(c, s, x, v, cr, cl, dn), x.flying, cl.st = "done", x.phase = "Pending",
         NEW w \in SlotsOf(c) \cup {None, Zero, Target},
         NEW x2, x2 = [x EXCEPT !.flying = FALSE, !.word = w]
  PROVE  SlotOK(c, s, x2, v, cr, NoClose, dn \cup {x.sub})
<1> USE SlotKinds, ConfigType
<1>1. x2 \in Entries(c) /\ v \in Around
  BY  DEF SlotOK, Entries, Around, Lives
<1>2. s < c.accept /\ ~(s >= c.accept) BY DEF OutboundOf
<1>3. RetireOK(c, s, x2, v, NoClose)
  BY <1>1, <1>2 DEF SlotOK, RetireOK, AcceptOK, Entries, Around, Epoch, RetiredGen, NoClose
<1>4. AcceptOK(c, x2, v, cr, dn \cup {x.sub})
  BY <1>1, <1>2 DEF SlotOK, RetireOK, AcceptOK, Entries, Around, Epoch, RetiredGen
<1> QED BY <1>1, <1>2, <1>3, <1>4 DEF SlotOK

(* Echo::complete of a slot that has moved on.                             *)
LEMMA AcceptEchoed ==
  ASSUME NEW c \in Configs, NEW s \in 0 .. c.accept - 1, NEW x, NEW v, NEW cr, NEW cl, NEW dn \in SUBSET (0 .. c.gens),
         SlotOK(c, s, x, v, cr, cl, dn), x.flying, cl.st = "done", x.phase \notin {"Pending", "InFlight"},
         NEW x2, x2 = [x EXCEPT !.flying = FALSE]
  PROVE  SlotOK(c, s, x2, v, cr, NoClose, dn \cup {x.sub})
<1> USE SlotKinds, ConfigType
<1>1. x2 \in Entries(c) /\ v \in Around
  BY  DEF SlotOK, Entries, Around, Lives
<1>2. s < c.accept /\ ~(s >= c.accept) BY DEF OutboundOf
<1>3. RetireOK(c, s, x2, v, NoClose)
  BY <1>1, <1>2 DEF SlotOK, RetireOK, AcceptOK, Entries, Around, Epoch, RetiredGen, NoClose
<1>4. AcceptOK(c, x2, v, cr, dn \cup {x.sub})
  BY <1>1, <1>2 DEF SlotOK, RetireOK, AcceptOK, Entries, Around, Epoch, RetiredGen
<1> QED BY <1>1, <1>2, <1>3, <1>4 DEF SlotOK

(* Echo::retry: the close failed.                                          *)
LEMMA AcceptResubmits ==
  ASSUME NEW c \in Configs, NEW s \in 0 .. c.accept - 1, NEW x, NEW v, NEW cr, NEW cl, NEW dn \in SUBSET (0 .. c.gens),
         SlotOK(c, s, x, v, cr, cl, dn), x.flying, cl.st = "failed",
         NEW w \in SlotsOf(c) \cup {None, Zero, Target},
         NEW x2, x2 = [x EXCEPT !.flying = FALSE, !.phase = "Pending", !.word = w]
  PROVE  SlotOK(c, s, x2, v, cr, NoClose, dn)
<1> USE SlotKinds, ConfigType
<1>1. x2 \in Entries(c) /\ v \in Around
  BY  DEF SlotOK, Entries, Around, Lives
<1>2. s < c.accept /\ ~(s >= c.accept) BY DEF OutboundOf
<1>3. RetireOK(c, s, x2, v, NoClose)
  BY <1>1, <1>2 DEF SlotOK, RetireOK, AcceptOK, Entries, Around, Epoch, RetiredGen, NoClose
<1>4. AcceptOK(c, x2, v, cr, dn)
  BY <1>1, <1>2 DEF SlotOK, RetireOK, AcceptOK, Entries, Around, Epoch, RetiredGen
<1> QED BY <1>1, <1>2, <1>3, <1>4 DEF SlotOK

(* The kernel carries the close out.                                       *)
LEMMA AcceptKernelClosed ==
  ASSUME NEW c \in Configs, NEW s \in 0 .. c.accept - 1, NEW x, NEW v, NEW cr, NEW cl, NEW dn \in SUBSET (0 .. c.gens),
         SlotOK(c, s, x, v, cr, cl, dn), x.flying, cl.st = "sent",
         NEW cl2, cl2 = [cl EXCEPT !.st = "done"],
         NEW v2, v2 = [v EXCEPT !.file = FALSE]
  PROVE  SlotOK(c, s, x, v2, cr, cl2, dn)
<1> USE SlotKinds, ConfigType
<1>1. x \in Entries(c) /\ v2 \in Around
  BY  DEF SlotOK, Entries, Around, Lives
<1>2. s < c.accept /\ ~(s >= c.accept) BY DEF OutboundOf
<1>3. RetireOK(c, s, x, v2, cl2)
  BY <1>1, <1>2 DEF SlotOK, RetireOK, AcceptOK, Entries, Around, Epoch, RetiredGen, NoClose
<1>4. AcceptOK(c, x, v2, cr, dn)
  BY <1>1, <1>2 DEF SlotOK, RetireOK, AcceptOK, Entries, Around, Epoch, RetiredGen
<1> QED BY <1>1, <1>2, <1>3, <1>4 DEF SlotOK

(* The close fails.                                                        *)
LEMMA AcceptKernelFailed ==
  ASSUME NEW c \in Configs, NEW s \in 0 .. c.accept - 1, NEW x, NEW v, NEW cr, NEW cl, NEW dn \in SUBSET (0 .. c.gens),
         SlotOK(c, s, x, v, cr, cl, dn), x.flying, cl.st = "sent",
         NEW cl2, cl2 = [cl EXCEPT !.st = "failed"]
  PROVE  SlotOK(c, s, x, v, cr, cl2, dn)
<1> USE SlotKinds, ConfigType
<1>1. x \in Entries(c) /\ v \in Around
  BY  DEF SlotOK, Entries, Around, Lives
<1>2. s < c.accept /\ ~(s >= c.accept) BY DEF OutboundOf
<1>3. RetireOK(c, s, x, v, cl2)
  BY <1>1, <1>2 DEF SlotOK, RetireOK, AcceptOK, Entries, Around, Epoch, RetiredGen, NoClose
<1>4. AcceptOK(c, x, v, cr, dn)
  BY <1>1, <1>2 DEF SlotOK, RetireOK, AcceptOK, Entries, Around, Epoch, RetiredGen
<1> QED BY <1>1, <1>2, <1>3, <1>4 DEF SlotOK

(* ready::Handle::set_target.                                              *)
LEMMA AcceptTargeted ==
  ASSUME NEW c \in Configs, NEW s \in 0 .. c.accept - 1, NEW x, NEW v, NEW cr, NEW cl, NEW dn \in SUBSET (0 .. c.gens),
         SlotOK(c, s, x, v, cr, cl, dn), x.lease,
         NEW x2, x2 = [x EXCEPT !.word = Target]
  PROVE  SlotOK(c, s, x2, v, cr, cl, dn)
<1> USE SlotKinds, ConfigType
<1>1. x2 \in Entries(c) /\ v \in Around
  BY  DEF SlotOK, Entries, Around, Lives
<1>2. s < c.accept /\ ~(s >= c.accept) BY DEF OutboundOf
<1>3. RetireOK(c, s, x2, v, cl)
  BY <1>1, <1>2 DEF SlotOK, RetireOK, AcceptOK, Entries, Around, Epoch, RetiredGen, NoClose
<1>4. AcceptOK(c, x2, v, cr, dn)
  BY <1>1, <1>2 DEF SlotOK, RetireOK, AcceptOK, Entries, Around, Epoch, RetiredGen
<1> QED BY <1>1, <1>2, <1>3, <1>4 DEF SlotOK

-----------------------------------------------------------------------------
(* The chains of retirements.                                              *)

(* The slots that wait, and their links, are the same.                     *)
SameWaits(c, e, e2) ==
    \A t \in SlotsOf(c) : /\ Waits(e2[t]) <=> Waits(e[t])
                          /\ Waits(e[t]) => e2[t].word = e[t].word

LEMMA ChainsFrame ==
  ASSUME NEW c \in Configs, NEW q, NEW e, NEW ch, ChainsOK(c, q, e, ch), NEW e2, SameWaits(c, e, e2)
  PROVE  ChainsOK(c, q, e2, ch)
<1>1. ASSUME NEW k \in 1 .. 2, NEW i \in 1 .. Len(ch[k])
      PROVE  ch[k][i] \in SlotsOf(c) /\ e2[ch[k][i]].word = e[ch[k][i]].word
  <2>1. ch[k] \in Seq(SlotsOf(c)) BY DEF ChainsOK
  <2>2. ch[k][i] \in SlotsOf(c) BY <2>1
  <2>3. InChains(ch, ch[k][i]) BY DEF InChains
  <2>4. Waits(e[ch[k][i]]) BY <2>2, <2>3 DEF ChainsOK
  <2> QED BY <2>2, <2>4 DEF SameWaits
<1>2. \A k \in 1 .. 2 : Linked(q, e2, ch, k) BY <1>1 DEF ChainsOK, Linked
<1>3. \A s \in SlotsOf(c) : Waits(e2[s]) <=> InChains(ch, s) BY DEF ChainsOK, SameWaits
<1> QED BY <1>2, <1>3 DEF ChainsOK

(* Queue::push.                                                            *)
LEMMA ChainsPush ==
  ASSUME NEW c \in Configs, NEW q, NEW e, NEW ch, ChainsOK(c, q, e, ch),
         NEW s \in SlotsOf(c), ~Waits(e[s]), NEW e2, Waits(e2[s]), e2[s].word = q.heads[q.active],
         \A t \in SlotsOf(c) \ {s} : /\ Waits(e2[t]) <=> Waits(e[t])
                                     /\ Waits(e[t]) => e2[t].word = e[t].word,
         NEW q2, q2 = [q EXCEPT !.heads[q.active] = s]
  PROVE  \E ch2 \in [1 .. 2 -> Seq(SlotsOf(c))] : ChainsOK(c, q2, e2, ch2)
<1> DEFINE a == q.active
           ch2 == [ch EXCEPT ![a] = <<s>> \o ch[a]]
<1>1. /\ a \in 1 .. 2 /\ q2 \in Queues(c) /\ q2.active = a /\ q2.draining = q.draining
      /\ q2.heads[a] = s /\ \A k \in 1 .. 2 : k # a => q2.heads[k] = q.heads[k]
  BY DEF ChainsOK, Queues
<1>2. ch \in [1 .. 2 -> Seq(SlotsOf(c))] BY DEF ChainsOK
<1> HIDE DEF a
<1>3. /\ ch2 \in [1 .. 2 -> Seq(SlotsOf(c))]
      /\ Len(ch2[a]) = Len(ch[a]) + 1 /\ ch2[a][1] = s
      /\ \A i \in 1 .. Len(ch[a]) : ch2[a][i + 1] = ch[a][i]
      /\ \A i \in 2 .. Len(ch2[a]) : i - 1 \in 1 .. Len(ch[a]) /\ ch2[a][i] = ch[a][i - 1]
      /\ \A k \in 1 .. 2 : k # a => ch2[k] = ch[k]
  BY <1>1, <1>2
<1> HIDE DEF ch2
<1>4. \A k \in 1 .. 2 : Len(ch[k]) \in Nat /\ Len(ch2[k]) \in Nat /\ \A i \in 1 .. Len(ch[k]) : ch[k][i] \in SlotsOf(c)
  BY <1>2, <1>3
<1>5. \A k \in 1 .. 2 : \A i \in 1 .. Len(ch[k]) : ch[k][i] # s /\ e2[ch[k][i]].word = e[ch[k][i]].word
  <2> SUFFICES ASSUME NEW k \in 1 .. 2, NEW i \in 1 .. Len(ch[k])
               PROVE  ch[k][i] # s /\ e2[ch[k][i]].word = e[ch[k][i]].word
    OBVIOUS
  <2>1. InChains(ch, ch[k][i]) BY DEF InChains
  <2>2. Waits(e[ch[k][i]]) BY <1>4, <2>1 DEF ChainsOK
  <2> QED BY <1>4, <2>2
<1>6. ASSUME NEW k \in 1 .. 2 PROVE Linked(q2, e2, ch2, k)
  <2>1. CASE k # a BY <1>1, <1>3, <1>5, <2>1, SMTT(30) DEF ChainsOK, Linked
  <2>2. CASE k = a
    <3>1. q2.heads[k] = IF Len(ch2[k]) = 0 THEN None ELSE ch2[k][1] BY <1>1, <1>3, <1>4, <2>2
    <3>2. q.heads[a] = IF Len(ch[a]) = 0 THEN None ELSE ch[a][1] BY <1>1 DEF ChainsOK, Linked
    <3>3. e2[s].word = IF 1 < Len(ch2[k]) THEN ch2[k][2] ELSE None
      <4>1. e2[s].word = q.heads[a] BY DEF a
      <4>2. CASE Len(ch[a]) = 0 BY <4>1, <4>2, <1>3, <2>2, <3>2
      <4>3. CASE Len(ch[a]) # 0
        <5>1. 1 \in 1 .. Len(ch[a]) BY <4>3, <1>1, <1>4
        <5>2. ch2[a][1 + 1] = ch[a][1] BY <5>1, <1>3
        <5> QED BY <5>1, <5>2, <4>1, <4>3, <1>1, <1>3, <1>4, <2>2, <3>2
      <4> QED BY <4>2, <4>3
    <3>4. ASSUME NEW i \in 1 .. Len(ch2[k])
          PROVE  e2[ch2[k][i]].word = IF i < Len(ch2[k]) THEN ch2[k][i + 1] ELSE None
      <4>1. CASE i = 1 BY <4>1, <3>3, <1>3, <2>2
      <4>2. CASE i # 1
        <5>1. i \in 2 .. Len(ch2[a]) /\ i - 1 \in 1 .. Len(ch[a]) /\ ch2[a][i] = ch[a][i - 1]
          BY <4>2, <1>3, <2>2, <1>4, <1>1
        <5>2. e[ch[a][i - 1]].word = IF i - 1 < Len(ch[a]) THEN ch[a][(i - 1) + 1] ELSE None
          BY <5>1, <1>1 DEF ChainsOK, Linked
        <5>3. i < Len(ch2[a]) => i \in 1 .. Len(ch[a]) /\ ch2[a][i + 1] = ch[a][i]
          <6>1. SUFFICES ASSUME i < Len(ch2[a]) PROVE i \in 1 .. Len(ch[a]) /\ ch2[a][i + 1] = ch[a][i] OBVIOUS
          <6>2. i \in 1 .. Len(ch[a]) BY <6>1, <5>1, <1>1, <1>3, <1>4
          <6> QED BY <6>2, <1>3
        <5>4. e2[ch2[a][i]].word = e[ch[a][i - 1]].word BY <5>1, <1>5, <1>1
        <5>5. /\ i \in Int /\ Len(ch[a]) \in Int /\ Len(ch2[a]) = Len(ch[a]) + 1 /\ (i - 1) + 1 = i
              /\ i - 1 < Len(ch[a]) <=> i < Len(ch2[a])
          BY <1>1, <1>3, <1>4
        <5>6. CASE i < Len(ch2[a]) BY <5>2, <5>3, <5>4, <5>5, <5>6, <2>2
        <5>7. CASE ~(i < Len(ch2[a])) BY <5>2, <5>4, <5>5, <5>7, <2>2
        <5> QED BY <5>6, <5>7
      <4> QED BY <4>1, <4>2
    <3> QED BY <3>1, <3>4 DEF Linked
  <2> QED BY <2>1, <2>2
<1>7. ASSUME NEW k \in 1 .. 2, NEW l \in 1 .. 2, NEW i \in 1 .. Len(ch2[k]), NEW j \in 1 .. Len(ch2[l]),
             ch2[k][i] = ch2[l][j]
      PROVE  k = l /\ i = j
  <2>1. ASSUME NEW m \in 1 .. 2, NEW n \in 1 .. Len(ch2[m])
        PROVE  \/ m = a /\ n = 1 /\ ch2[m][n] = s
               \/ m = a /\ n # 1 /\ n - 1 \in 1 .. Len(ch[m]) /\ ch2[m][n] = ch[m][n - 1]
               \/ m # a /\ n \in 1 .. Len(ch[m]) /\ ch2[m][n] = ch[m][n]
    <3>1. CASE m # a BY <3>1, <1>3
    <3>2. CASE m = a /\ n = 1 BY <3>2, <1>3
    <3>3. CASE m = a /\ n # 1
      <4>1. n \in 2 .. Len(ch2[a]) BY <3>3, <1>1, <1>4
      <4> QED BY <4>1, <3>3, <1>3
    <3> QED BY <3>1, <3>2, <3>3
  <2>2. \A m, o \in 1 .. 2 : \A n \in 1 .. Len(ch[m]), p \in 1 .. Len(ch[o]) :
          ch[m][n] = ch[o][p] => m = o /\ n = p
    BY DEF ChainsOK
  <2>3. CASE k = a /\ l = a
    <3>1. i \in Int /\ j \in Int BY <1>1, <1>4
    <3>2. CASE i = 1
      <4>1. j = 1 \/ (j - 1 \in 1 .. Len(ch[a]) /\ ch2[a][j] = ch[a][j - 1]) BY <2>1, <2>3
      <4>2. ch2[a][j] = s
        <5>1. ch2[a][1] = s BY <1>3
        <5> QED BY <5>1, <3>2, <2>3, <1>7
      <4>3. j - 1 \in 1 .. Len(ch[a]) => ch[a][j - 1] # s BY <1>1, <1>5
      <4>4. j = 1 BY <4>1, <4>2, <4>3
      <4> QED BY <4>4, <3>2, <2>3
    <3>3. CASE j = 1
      <4>1. i = 1 \/ (i - 1 \in 1 .. Len(ch[a]) /\ ch2[a][i] = ch[a][i - 1]) BY <2>1, <2>3
      <4>2. ch2[a][i] = s
        <5>1. ch2[a][1] = s BY <1>3
        <5> QED BY <5>1, <3>3, <2>3, <1>7
      <4>3. i - 1 \in 1 .. Len(ch[a]) => ch[a][i - 1] # s BY <1>1, <1>5
      <4>4. i = 1 BY <4>1, <4>2, <4>3
      <4> QED BY <4>4, <3>3, <2>3
    <3>4. CASE i # 1 /\ j # 1
      <4>1. i - 1 \in 1 .. Len(ch[a]) /\ ch2[a][i] = ch[a][i - 1] BY <2>1, <2>3, <3>4
      <4>2. j - 1 \in 1 .. Len(ch[a]) /\ ch2[a][j] = ch[a][j - 1] BY <2>1, <2>3, <3>4
      <4>3. ch[a][i - 1] = ch[a][j - 1] BY <4>1, <4>2, <2>3, <1>7
      <4>4. \A n, p \in 1 .. Len(ch[a]) : ch[a][n] = ch[a][p] => n = p BY <1>1, <2>2
      <4>5. i - 1 = j - 1 BY <4>1, <4>2, <4>3, <4>4
      <4> QED BY <4>5, <3>1, <2>3
    <3> QED BY <3>2, <3>3, <3>4
  <2>4. CASE k = a /\ l # a
    <3>1. j \in 1 .. Len(ch[l]) /\ ch2[l][j] = ch[l][j] BY <2>1, <2>4
    <3>2. \/ ch2[k][i] = s
          \/ i - 1 \in 1 .. Len(ch[k]) /\ ch2[k][i] = ch[k][i - 1]
      BY <2>1, <2>4
    <3>3. CASE ch2[k][i] = s
      <4>1. ch[l][j] = s BY <3>1, <3>3, <1>7
      <4>2. ch[l][j] # s BY <3>1, <1>5
      <4> QED BY <4>1, <4>2
    <3>4. CASE i - 1 \in 1 .. Len(ch[k]) /\ ch2[k][i] = ch[k][i - 1]
      <4>1. ch[k][i - 1] = ch[l][j] BY <3>1, <3>4, <1>7
      <4> QED BY <3>1, <3>4, <4>1, <2>2, <2>4
    <3> QED BY <3>2, <3>3, <3>4
  <2>5. CASE k # a /\ l = a
    <3>1. i \in 1 .. Len(ch[k]) /\ ch2[k][i] = ch[k][i] BY <2>1, <2>5
    <3>2. \/ ch2[l][j] = s
          \/ j - 1 \in 1 .. Len(ch[l]) /\ ch2[l][j] = ch[l][j - 1]
      BY <2>1, <2>5
    <3>3. CASE ch2[l][j] = s
      <4>1. ch[k][i] = s BY <3>1, <3>3, <1>7
      <4>2. ch[k][i] # s BY <3>1, <1>5
      <4> QED BY <4>1, <4>2
    <3>4. CASE j - 1 \in 1 .. Len(ch[l]) /\ ch2[l][j] = ch[l][j - 1]
      <4>1. ch[k][i] = ch[l][j - 1] BY <3>1, <3>4, <1>7
      <4> QED BY <3>1, <3>4, <4>1, <2>2, <2>5
    <3> QED BY <3>2, <3>3, <3>4
  <2>6. CASE k # a /\ l # a BY <1>7, <2>1, <2>2, <2>6
  <2> QED BY <2>3, <2>4, <2>5, <2>6
<1>8. ASSUME NEW t \in SlotsOf(c) PROVE Waits(e2[t]) <=> InChains(ch2, t)
  <2>1. CASE t = s
    <3>1. 1 \in 1 .. Len(ch2[a]) BY <1>1, <1>3, <1>4
    <3> QED BY <3>1, <2>1, <1>1, <1>3 DEF InChains
  <2>2. CASE t # s
    <3>1. InChains(ch, t) => InChains(ch2, t)
      <4>1. ASSUME NEW k \in 1 .. 2, NEW i \in 1 .. Len(ch[k]), ch[k][i] = t
            PROVE  \E j \in 1 .. Len(ch2[k]) : ch2[k][j] = t
        <5>1. CASE k # a BY <5>1, <4>1, <1>3
        <5>2. CASE k = a
          <6>1. i + 1 \in 1 .. Len(ch2[a]) /\ ch2[a][i + 1] = t BY <5>2, <4>1, <1>1, <1>3, <1>4
          <6> QED BY <6>1, <5>2
        <5> QED BY <5>1, <5>2
      <4> QED BY <4>1 DEF InChains
    <3>2. InChains(ch2, t) => InChains(ch, t)
      <4>1. ASSUME NEW k \in 1 .. 2, NEW i \in 1 .. Len(ch2[k]), ch2[k][i] = t
            PROVE  \E j \in 1 .. Len(ch[k]) : ch[k][j] = t
        <5>1. CASE k # a BY <5>1, <4>1, <1>3
        <5>2. CASE k = a
          <6>1. i \in 2 .. Len(ch2[a]) BY <5>2, <4>1, <2>2, <1>1, <1>3, <1>4
          <6>2. i - 1 \in 1 .. Len(ch[a]) /\ ch[a][i - 1] = t BY <6>1, <5>2, <4>1, <1>3
          <6> QED BY <6>2, <5>2
        <5> QED BY <5>1, <5>2
      <4> QED BY <4>1 DEF InChains
    <3>3. Waits(e[t]) <=> InChains(ch, t) BY DEF ChainsOK
    <3> QED BY <3>1, <3>2, <3>3, <2>2
  <2> QED BY <2>1, <2>2
<1>9. IF q2.draining = None THEN Len(ch2[3 - q2.active]) = 0
      ELSE q2.draining = 3 - q2.active /\ Len(ch2[q2.draining]) > 0
  <2>1. 3 - a \in 1 .. 2 /\ 3 - a # a BY <1>1
  <2>2. ch2[3 - a] = ch[3 - a] BY <2>1, <1>3
  <2>3. IF q.draining = None THEN Len(ch[3 - a]) = 0 ELSE q.draining = 3 - a /\ Len(ch[3 - a]) > 0
    BY DEF ChainsOK, a
  <2> QED BY <2>1, <2>2, <2>3, <1>1
<1> QED BY <1>1, <1>3, <1>6, <1>7, <1>8, <1>9 DEF ChainsOK

(* Queue::front and Queue::commit: the head of the side that drains leaves *)
(* its chain.                                                              *)
OthersSame(c, s, e, e2) ==
    \A t \in SlotsOf(c) \ {s} : /\ Waits(e2[t]) <=> Waits(e[t])
                                /\ Waits(e[t]) => e2[t].word = e[t].word

PopsTo(c, q, e, s, k, q2) ==
    /\ q2 \in Queues(c) /\ q2.active = 3 - k /\ q2.heads = [q.heads EXCEPT ![k] = e[s].word]
    /\ q2.draining = IF e[s].word = None THEN None ELSE k

LEMMA ChainsPop ==
  ASSUME NEW c \in Configs, NEW q, NEW e, NEW ch, ChainsOK(c, q, e, ch),
         NEW k, k = Side(q), NEW s, s = q.heads[k], s # None, NEW e2, ~Waits(e2[s]),
         OthersSame(c, s, e, e2), NEW q2, PopsTo(c, q, e, s, k, q2)
  PROVE  \E ch2 \in [1 .. 2 -> Seq(SlotsOf(c))] : ChainsOK(c, q2, e2, ch2)
<1> \A t \in SlotsOf(c) \ {s} : /\ Waits(e2[t]) <=> Waits(e[t])
                                /\ Waits(e[t]) => e2[t].word = e[t].word
  BY DEF OthersSame
<1> /\ q2 \in Queues(c) /\ q2.active = 3 - k /\ q2.heads = [q.heads EXCEPT ![k] = e[s].word]
    /\ q2.draining = IF e[s].word = None THEN None ELSE k
  BY DEF PopsTo
<1> DEFINE ch2 == [ch EXCEPT ![k] = Tail(ch[k])]
<1>1. /\ q \in Queues(c) /\ k \in 1 .. 2 /\ 3 - k \in 1 .. 2 /\ 3 - k # k
      /\ q.active \in 1 .. 2 /\ q.heads \in [1 .. 2 -> SlotsOf(c) \cup {None}]
  BY DEF ChainsOK, Queues, Side, None
<1>2. ch \in [1 .. 2 -> Seq(SlotsOf(c))] BY DEF ChainsOK
<1>3. Len(ch[k]) > 0 /\ s = ch[k][1] /\ 1 \in 1 .. Len(ch[k])
  <2>1. q.heads[k] = IF Len(ch[k]) = 0 THEN None ELSE ch[k][1] BY <1>1 DEF ChainsOK, Linked
  <2>2. Len(ch[k]) \in Nat BY <1>1, <1>2
  <2> QED BY <2>1, <2>2
<1>4. /\ ch2 \in [1 .. 2 -> Seq(SlotsOf(c))]
      /\ Len(ch2[k]) = Len(ch[k]) - 1
      /\ \A i \in 1 .. Len(ch2[k]) : i + 1 \in 1 .. Len(ch[k]) /\ ch2[k][i] = ch[k][i + 1]
      /\ \A l \in 1 .. 2 : l # k => ch2[l] = ch[l]
  BY <1>1, <1>2, <1>3
<1> HIDE DEF ch2
<1>5. \A l \in 1 .. 2 : Len(ch[l]) \in Nat /\ Len(ch2[l]) \in Nat /\ \A i \in 1 .. Len(ch[l]) : ch[l][i] \in SlotsOf(c)
  BY <1>2, <1>4
<1>14. Len(ch[k]) \in Nat /\ Len(ch[k]) > 0 /\ Len(ch2[k]) = Len(ch[k]) - 1
  BY <1>1, <1>3, <1>4, <1>5
<1>15. \A n \in Nat : n > 0 /\ ~(n > 1) => n - 1 = 0 OBVIOUS
<1>6. \A m, o \in 1 .. 2 : \A n \in 1 .. Len(ch[m]), p \in 1 .. Len(ch[o]) :
        ch[m][n] = ch[o][p] => m = o /\ n = p
  BY DEF ChainsOK
<1>7. \A l \in 1 .. 2 : \A i \in 1 .. Len(ch[l]) :
        ch[l][i] # s => e2[ch[l][i]].word = e[ch[l][i]].word
  <2> SUFFICES ASSUME NEW l \in 1 .. 2, NEW i \in 1 .. Len(ch[l]), ch[l][i] # s
               PROVE  e2[ch[l][i]].word = e[ch[l][i]].word
    OBVIOUS
  <2>1. InChains(ch, ch[l][i]) BY DEF InChains
  <2>2. Waits(e[ch[l][i]]) BY <1>5, <2>1 DEF ChainsOK
  <2> QED BY <1>5, <2>2
<1>8. e[s].word = IF Len(ch[k]) > 1 THEN ch[k][2] ELSE None
  <2>1. \A i \in 1 .. Len(ch[k]) : e[ch[k][i]].word = IF i < Len(ch[k]) THEN ch[k][i + 1] ELSE None
    BY <1>1 DEF ChainsOK, Linked
  <2>2. e[ch[k][1]].word = IF 1 < Len(ch[k]) THEN ch[k][1 + 1] ELSE None BY <2>1, <1>3
  <2>3. Len(ch[k]) > 1 <=> 1 < Len(ch[k]) BY <1>1, <1>5
  <2> QED BY <2>2, <2>3, <1>3
<1>9. ASSUME NEW l \in 1 .. 2 PROVE Linked(q2, e2, ch2, l)
  <2>1. CASE l # k
    <3>1. \A i \in 1 .. Len(ch[l]) : ch[l][i] # s BY <1>1, <1>3, <1>6, <2>1
    <3>2. q2.heads[l] = q.heads[l] BY <1>1, <2>1
    <3> QED BY <3>1, <3>2, <1>4, <1>7, <2>1, SMTT(30) DEF ChainsOK, Linked
  <2>2. CASE l = k
    <3>1. q2.heads[k] = e[s].word BY <1>1
    <3>2. q2.heads[k] = IF Len(ch2[k]) = 0 THEN None ELSE ch2[k][1]
      <4>1. CASE Len(ch[k]) > 1
        <5>1. 1 \in 1 .. Len(ch2[k]) /\ Len(ch2[k]) # 0 BY <4>1, <1>1, <1>4, <1>5
        <5>2. ch2[k][1] = ch[k][1 + 1] BY <5>1, <1>4
        <5> QED BY <5>1, <5>2, <4>1, <3>1, <1>8
      <4>2. CASE ~(Len(ch[k]) > 1)
        <5>1. Len(ch2[k]) = 0 BY <4>2, <1>14, <1>15
        <5> QED BY <5>1, <4>2, <3>1, <1>8
      <4> QED BY <4>1, <4>2
    <3>3. ASSUME NEW i \in 1 .. Len(ch2[k])
          PROVE  e2[ch2[k][i]].word = IF i < Len(ch2[k]) THEN ch2[k][i + 1] ELSE None
      <4>1. i + 1 \in 1 .. Len(ch[k]) /\ ch2[k][i] = ch[k][i + 1] BY <1>4
      <4>2. ch[k][i + 1] # s
        <5>1. i \in Nat /\ i >= 1 BY <1>1, <1>5
        <5>2. i + 1 # 1 BY <5>1
        <5> QED BY <5>2, <4>1, <1>1, <1>3, <1>6
      <4>3. e2[ch[k][i + 1]].word = IF i + 1 < Len(ch[k]) THEN ch[k][(i + 1) + 1] ELSE None
        <5>1. \A j \in 1 .. Len(ch[k]) : e[ch[k][j]].word = IF j < Len(ch[k]) THEN ch[k][j + 1] ELSE None
          BY <1>1 DEF ChainsOK, Linked
        <5>2. e2[ch[k][i + 1]].word = e[ch[k][i + 1]].word BY <4>1, <4>2, <1>1, <1>7, ZenonT(60)
        <5>3. e[ch[k][i + 1]].word = IF i + 1 < Len(ch[k]) THEN ch[k][(i + 1) + 1] ELSE None
          BY <4>1, <5>1
        <5> QED BY <5>2, <5>3
      <4>4. i + 1 < Len(ch[k]) <=> i < Len(ch2[k]) BY <1>1, <1>4, <1>5
      <4>5. CASE i < Len(ch2[k])
        <5>1. i + 1 \in 1 .. Len(ch2[k]) BY <4>5, <1>1, <1>5
        <5>2. ch2[k][i + 1] = ch[k][(i + 1) + 1] BY <5>1, <1>4
        <5> QED BY <5>2, <4>1, <4>3, <4>4, <4>5
      <4>6. CASE ~(i < Len(ch2[k])) BY <4>1, <4>3, <4>4, <4>6
      <4> QED BY <4>5, <4>6
    <3> QED BY <3>2, <3>3, <2>2 DEF Linked
  <2> QED BY <2>1, <2>2
<1>10. ASSUME NEW m \in 1 .. 2, NEW n \in 1 .. Len(ch2[m])
       PROVE  IF m = k THEN n + 1 \in 1 .. Len(ch[m]) /\ ch2[m][n] = ch[m][n + 1]
              ELSE n \in 1 .. Len(ch[m]) /\ ch2[m][n] = ch[m][n]
  BY <1>4
<1>11. ASSUME NEW m \in 1 .. 2, NEW o \in 1 .. 2, NEW n \in 1 .. Len(ch2[m]), NEW p \in 1 .. Len(ch2[o]),
              ch2[m][n] = ch2[o][p]
       PROVE  m = o /\ n = p
  <2>0. n \in Int /\ p \in Int BY <1>5
  <2>1. CASE m = k /\ o = k
    <3>1. n + 1 \in 1 .. Len(ch[k]) /\ ch2[m][n] = ch[k][n + 1] BY <1>10, <2>1
    <3>2. p + 1 \in 1 .. Len(ch[k]) /\ ch2[o][p] = ch[k][p + 1] BY <1>10, <2>1
    <3>3. ch[k][n + 1] = ch[k][p + 1] BY <3>1, <3>2, <1>11
    <3>4. \A y, z \in 1 .. Len(ch[k]) : ch[k][y] = ch[k][z] => y = z BY <1>1, <1>6
    <3>5. n + 1 = p + 1 BY <3>1, <3>2, <3>3, <3>4
    <3> QED BY <3>5, <2>0, <2>1
  <2>2. CASE m = k /\ o # k BY <1>6, <1>10, <1>11, <2>2, SMTT(30)
  <2>3. CASE m # k /\ o = k BY <1>6, <1>10, <1>11, <2>3, SMTT(30)
  <2>4. CASE m # k /\ o # k BY <1>6, <1>10, <1>11, <2>4
  <2> QED BY <2>1, <2>2, <2>3, <2>4
<1>12. ASSUME NEW t \in SlotsOf(c) PROVE Waits(e2[t]) <=> InChains(ch2, t)
  <2>1. CASE t = s
    <3>1. ASSUME InChains(ch2, s) PROVE FALSE
      <4>0. PICK l \in 1 .. 2 : \E i \in 1 .. Len(ch2[l]) : ch2[l][i] = s BY <3>1 DEF InChains
      <4>1. PICK i \in 1 .. Len(ch2[l]) : ch2[l][i] = s BY <4>0
      <4>2. CASE l = k
        <5>1. i + 1 \in 1 .. Len(ch[k]) /\ ch[k][i + 1] = ch[k][1] BY <1>3, <1>10, <4>1, <4>2
        <5>2. i + 1 = 1 BY <5>1, <1>1, <1>3, <1>6
        <5> QED BY <5>2, <1>5
      <4>3. CASE l # k BY <1>1, <1>3, <1>6, <1>10, <4>1, <4>3, SMTT(30)
      <4> QED BY <4>2, <4>3
    <3> QED BY <3>1, <2>1
  <2>2. CASE t # s
    <3>1. InChains(ch, t) => InChains(ch2, t)
      <4>1. ASSUME NEW l \in 1 .. 2, NEW i \in 1 .. Len(ch[l]), ch[l][i] = t
            PROVE  \E j \in 1 .. Len(ch2[l]) : ch2[l][j] = t
        <5>1. CASE l # k BY <5>1, <4>1, <1>4
        <5>2. CASE l = k
          <6>1. i # 1 BY <1>3, <2>2, <4>1, <5>2
          <6>2. i - 1 \in 1 .. Len(ch2[k]) /\ (i - 1) + 1 = i BY <6>1, <5>2, <1>1, <1>4, <1>5
          <6>3. ch2[k][i - 1] = ch[k][(i - 1) + 1] BY <6>2, <1>4
          <6> QED BY <6>2, <6>3, <4>1, <5>2
        <5> QED BY <5>1, <5>2
      <4> QED BY <4>1 DEF InChains
    <3>2. InChains(ch2, t) => InChains(ch, t)
      <4>1. ASSUME NEW l \in 1 .. 2, NEW i \in 1 .. Len(ch2[l]), ch2[l][i] = t
            PROVE  \E j \in 1 .. Len(ch[l]) : ch[l][j] = t
        <5>1. CASE l = k
          <6>1. i + 1 \in 1 .. Len(ch[k]) /\ ch[k][i + 1] = t BY <1>4, <4>1, <5>1
          <6> QED BY <5>1, <6>1
        <5>2. CASE l # k BY <1>10, <4>1, <5>2
        <5> QED BY <5>1, <5>2
      <4> QED BY <4>1 DEF InChains
    <3>3. Waits(e[t]) <=> InChains(ch, t) BY DEF ChainsOK
    <3> QED BY <3>1, <3>2, <3>3, <2>2
  <2> QED BY <2>1, <2>2
<1>13. IF q2.draining = None THEN Len(ch2[3 - q2.active]) = 0
       ELSE q2.draining = 3 - q2.active /\ Len(ch2[q2.draining]) > 0
  <2>1. 3 - q2.active = k BY <1>1
  <2>2. CASE Len(ch[k]) > 1
    <3>1. e[s].word \in SlotsOf(c)
      <4>1. 2 \in 1 .. Len(ch[k]) BY <2>2, <1>1, <1>5
      <4> QED BY <4>1, <2>2, <1>1, <1>5, <1>8
    <3>2. e[s].word # None BY <3>1, NoLinks
    <3>3. Len(ch2[k]) > 0 BY <2>2, <1>1, <1>4, <1>5
    <3>4. k # None BY <1>1 DEF None
    <3> QED BY <2>1, <3>2, <3>3, <3>4
  <2>3. CASE ~(Len(ch[k]) > 1)
    <3>1. Len(ch2[k]) = 0 BY <2>3, <1>14, <1>15
    <3> QED BY <2>1, <2>3, <3>1, <1>8
  <2> QED BY <2>2, <2>3
<1> QED BY <1>4, <1>9, <1>11, <1>12, <1>13 DEF ChainsOK

-----------------------------------------------------------------------------
(* The partition.                                                          *)

(* The owner and the place of a slot are the same.                         *)
SameOwners(c, e, e2) == \A s \in OutboundOf(c) : e2[s].owner = e[s].owner
SameFree(c, e, e2) == \A s \in OutboundOf(c) : e2[s].life = "FREE" <=> e[s].life = "FREE"
SameMapped(c, e, e2) == \A s \in OutboundOf(c) : e2[s].life = "MAPPED" <=> e[s].life = "MAPPED"

(* What the lifecycle says of the owner.                                   *)
Kinds(c, e) ==
    \A s \in OutboundOf(c) : /\ e[s].owner \in c.routes \cup {None}
                             /\ e[s].owner = None <=> e[s].life \in {"FREE", "STANDALONE"}

LEMMA MappingType ==
  ASSUME NEW c \in Configs, NEW p, PartShape(c, p)
  PROVE  /\ p.mapping \in [1 .. c.outbound -> OutboundOf(c)] /\ Len(p.mapping) = c.outbound
         /\ DOMAIN p.mapping = 1 .. c.outbound
         /\ p.mapped \in Nat /\ p.allocated \in Nat /\ c.outbound \in Nat
         /\ p.mapped <= p.allocated /\ p.allocated <= c.outbound
         /\ p.routes \in [c.routes -> Leases]
         /\ \A i \in 1 .. c.outbound : p.mapping[i] \in OutboundOf(c)
<1>1. p.mapping \in [1 .. c.outbound -> OutboundOf(c)] BY DEF PartShape, Parts
<1>2. c.outbound \in Nat BY ConfigType
<1>3. p.mapping \in Seq(OutboundOf(c)) /\ Len(p.mapping) = c.outbound
  BY <1>1, <1>2
<1> QED BY <1>1, <1>2, <1>3 DEF PartShape, Parts

LEMMA LeaseType ==
  ASSUME NEW l \in Leases, l.st # "none"
  PROVE  l.start \in Nat /\ l.len \in Nat /\ l.len >= 1
BY DEF Leases

LEMMA OwnedFrame ==
  ASSUME NEW c \in Configs, NEW p, NEW e, NEW e2, PartShape(c, p), Owned(c, p, e), SameOwners(c, e, e2)
  PROVE  Owned(c, p, e2)
<1>1. \A i \in 1 .. p.mapped : p.mapping[i] \in OutboundOf(c) BY MappingType
<1> QED BY <1>1 DEF Owned, SameOwners

LEMMA FreedFrame ==
  ASSUME NEW c \in Configs, NEW p, NEW e, NEW e2, PartShape(c, p), Freed(c, p, e), SameFree(c, e, e2)
  PROVE  Freed(c, p, e2)
<1>1. \A i \in p.allocated + 1 .. c.outbound : p.mapping[i] \in OutboundOf(c) BY MappingType
<1> QED BY <1>1 DEF Freed, SameFree

LEMMA RetiringFrame ==
  ASSUME NEW c \in Configs, NEW p, NEW e, NEW e2, NEW rs, Retiring(c, p, e, rs),
         SameOwners(c, e, e2), SameMapped(c, e, e2)
  PROVE  Retiring(c, p, e2, rs)
<1>1. \A r \in c.routes : UnmappedOf(c, e2, r) = UnmappedOf(c, e, r)
  BY DEF UnmappedOf, SameOwners, SameMapped
<1> QED BY <1>1 DEF Retiring

LEMMA PartFrame ==
  ASSUME NEW c \in Configs, NEW p, NEW e, NEW e2, NEW rs, PartOK(c, p, e, rs),
         SameOwners(c, e, e2), SameFree(c, e, e2), SameMapped(c, e, e2)
  PROVE  PartOK(c, p, e2, rs)
BY OwnedFrame, FreedFrame, RetiringFrame DEF PartOK

(* The interval of a route holds the slots that it owns.                   *)
LEMMA PlaceOf ==
  ASSUME NEW c \in Configs, NEW p, NEW e, PartShape(c, p), Tiled(c, p), Owned(c, p, e), Kinds(c, e),
         NEW s \in OutboundOf(c), e[s].owner # None
  PROVE  /\ e[s].owner \in c.routes
         /\ \E i \in 1 .. p.mapped : p.mapping[i] = s /\ At(p.routes[e[s].owner], i)
<1>1. e[s].owner \in c.routes BY DEF Kinds
<1>2. PICK i \in 1 .. p.mapped : p.mapping[i] = s BY DEF Owned
<1>3. PICK r \in c.routes : At(p.routes[r], i) BY DEF Tiled
<1>4. e[s].owner = r BY <1>2, <1>3 DEF Owned
<1> QED BY <1>1, <1>2, <1>3, <1>4

LEMMA ExtentIs ==
  ASSUME NEW c \in Configs, NEW p, NEW e, PartShape(c, p), Tiled(c, p), Owned(c, p, e), Kinds(c, e),
         NEW r \in c.routes
  PROVE  Extent(p, r) = {s \in OutboundOf(c) : e[s].owner = r}
<1>1. p.routes[r] \in Leases BY MappingType
<1>2. CASE p.routes[r].st = "none"
  <2>1. ASSUME NEW s \in OutboundOf(c), e[s].owner = r PROVE FALSE
    <3>1. r # None BY ConfigType
    <3>2. PICK i \in 1 .. p.mapped : At(p.routes[r], i) BY <2>1, <3>1, PlaceOf
    <3> QED BY <3>2, <1>2 DEF At
  <2> QED BY <2>1, <1>2 DEF Extent
<1>3. CASE p.routes[r].st # "none"
  <2> DEFINE st == p.routes[r].start
             ln == p.routes[r].len
  <2>1. st \in Nat /\ ln \in Nat /\ ln >= 1 BY <1>1, <1>3, LeaseType
  <2>2. Extent(p, r) = {p.mapping[st + k + 1] : k \in 0 .. ln - 1} BY <1>3 DEF Extent, LocalSlot
  <2>3. \A i \in Int : At(p.routes[r], i) <=> i \in st + 1 .. st + ln BY <1>3 DEF At
  <2> HIDE DEF st, ln
  <2>4. ASSUME NEW k \in 0 .. ln - 1
        PROVE  p.mapping[st + k + 1] \in OutboundOf(c) /\ e[p.mapping[st + k + 1]].owner = r
    <3>1. st + k + 1 \in Int /\ st + k + 1 \in st + 1 .. st + ln BY <2>1
    <3>2. At(p.routes[r], st + k + 1) BY <2>3, <3>1
    <3>3. st + k + 1 \in 1 .. p.mapped BY <3>1, <3>2 DEF Tiled
    <3> QED BY <3>2, <3>3, MappingType DEF Owned
  <2>5. ASSUME NEW s \in OutboundOf(c), e[s].owner = r
        PROVE  \E k \in 0 .. ln - 1 : p.mapping[st + k + 1] = s
    <3>1. r # None BY ConfigType
    <3>2. PICK i \in 1 .. p.mapped : p.mapping[i] = s /\ At(p.routes[r], i) BY <2>5, <3>1, PlaceOf
    <3>3. i \in Int /\ i \in st + 1 .. st + ln BY <2>3, <3>2, MappingType
    <3>4. i - st - 1 \in 0 .. ln - 1 /\ st + (i - st - 1) + 1 = i BY <2>1, <3>3
    <3> QED BY <3>2, <3>4
  <2> QED BY <2>2, <2>4, <2>5
<1> QED BY <1>2, <1>3

LEMMA UnmappedIs ==
  ASSUME NEW c \in Configs, NEW p, NEW e, PartShape(c, p), Tiled(c, p), Owned(c, p, e), Kinds(c, e),
         NEW r \in c.routes
  PROVE  {s \in Extent(p, r) : e[s].life # "MAPPED"} = UnmappedOf(c, e, r)
BY ExtentIs DEF UnmappedOf

LEMMA SlotsFinite ==
  ASSUME NEW c \in Configs
  PROVE  /\ IsFiniteSet(SlotsOf(c)) /\ Cardinality(SlotsOf(c)) = c.accept + c.outbound
         /\ IsFiniteSet(OutboundOf(c)) /\ Cardinality(OutboundOf(c)) = c.outbound
<1>1. c.accept \in Nat /\ c.outbound \in Nat BY ConfigType
<1>2. \A a, b \in Int : /\ IsFiniteSet(a .. b)
                        /\ Cardinality(a .. b) = IF a > b THEN 0 ELSE b - a + 1
  BY FS_Interval
<1>3. PICK n \in Int : n = c.accept + c.outbound - 1 BY <1>1
<1>4. SlotsOf(c) = 0 .. n /\ OutboundOf(c) = c.accept .. n BY <1>3 DEF SlotsOf, OutboundOf
<1>5. IsFiniteSet(0 .. n) /\ Cardinality(0 .. n) = IF 0 > n THEN 0 ELSE n - 0 + 1
  <2>1. 0 \in Int OBVIOUS
  <2> QED BY <2>1, <1>2
<1>6. /\ IsFiniteSet(c.accept .. n)
      /\ Cardinality(c.accept .. n) = IF c.accept > n THEN 0 ELSE n - c.accept + 1
  <2>1. c.accept \in Int BY <1>1
  <2> QED BY <2>1, <1>2
<1>7. Cardinality(0 .. n) = c.accept + c.outbound BY <1>1, <1>3, <1>5
<1>8. Cardinality(c.accept .. n) = c.outbound BY <1>1, <1>3, <1>6
<1> QED BY <1>4, <1>5, <1>6, <1>7, <1>8

LEMMA UnmappedFinite ==
  ASSUME NEW c \in Configs, NEW e, NEW r
  PROVE  IsFiniteSet(UnmappedOf(c, e, r)) /\ Cardinality(UnmappedOf(c, e, r)) \in Nat
<1>1. UnmappedOf(c, e, r) \in SUBSET OutboundOf(c) BY DEF UnmappedOf
<1>2. IsFiniteSet(UnmappedOf(c, e, r)) BY <1>1, SlotsFinite, FS_Subset
<1> QED BY <1>2, FS_CardinalityType

(* Counting: what is allocated beyond the routes is standalone.            *)
LEMMA StandaloneCount ==
  ASSUME NEW c \in Configs, NEW p, NEW e, PartShape(c, p), Tiled(c, p), Owned(c, p, e), Freed(c, p, e),
         Kinds(c, e)
  PROVE  p.allocated - p.mapped = Cardinality({s \in OutboundOf(c) : e[s].life = "STANDALONE"})
<1> DEFINE Own == {s \in OutboundOf(c) : e[s].owner # None}
           Free == {s \in OutboundOf(c) : e[s].life = "FREE"}
           Std == {s \in OutboundOf(c) : e[s].life = "STANDALONE"}
           M == p.mapped
           A == p.allocated
           O == c.outbound
<1>1. M \in Nat /\ A \in Nat /\ O \in Nat /\ M <= A /\ A <= O BY MappingType
<1>2. \A i \in 1 .. O : p.mapping[i] \in OutboundOf(c) BY MappingType
<1>3. \A i \in 1 .. M : p.mapping[i] \in Own
  <2> SUFFICES ASSUME NEW i \in 1 .. M PROVE p.mapping[i] \in Own
    OBVIOUS
  <2>1. PICK r \in c.routes : At(p.routes[r], i) BY DEF Tiled
  <2>2. e[p.mapping[i]].owner = r BY <2>1 DEF Owned
  <2>3. r # None BY ConfigType
  <2> QED BY <1>1, <1>2, <2>2, <2>3
<1>4. \A s \in Own : \E i \in 1 .. M : p.mapping[i] = s BY DEF Owned
<1>5. \A i, j \in 1 .. M : p.mapping[i] = p.mapping[j] => i = j BY DEF Owned
<1>6. \A i \in A + 1 .. O : p.mapping[i] \in Free BY <1>1, <1>2 DEF Freed
<1>7. \A s \in Free : \E i \in A + 1 .. O : p.mapping[i] = s BY DEF Freed
<1>8. \A i, j \in A + 1 .. O : p.mapping[i] = p.mapping[j] => i = j BY DEF Freed
<1>9. Own \cap Free = {} /\ Std = OutboundOf(c) \ (Own \cup Free) /\ Own \cup Free \subseteq OutboundOf(c)
  BY DEF Kinds
<1> HIDE DEF Own, Free, Std, M, A, O
<1>10. \A a, b \in Int : /\ IsFiniteSet(a .. b)
                         /\ Cardinality(a .. b) = IF a > b THEN 0 ELSE b - a + 1
  BY FS_Interval
<1>11. IsFiniteSet(Own) /\ Cardinality(Own) = M
  <2> DEFINE f == [i \in 1 .. M |-> p.mapping[i]]
  <2>1. f \in Bijection(1 .. M, Own)
    BY <1>3, <1>4, <1>5 DEF Bijection, Injection, Surjection, IsInjective
  <2>2. ExistsBijection(1 .. M, Own) BY <2>1 DEF ExistsBijection
  <2>3. IsFiniteSet(1 .. M) /\ Cardinality(1 .. M) = M BY <1>1, <1>10
  <2> QED BY <2>2, <2>3, FS_Bijection
<1>12. IsFiniteSet(Free) /\ Cardinality(Free) = O - A
  <2> DEFINE f == [i \in A + 1 .. O |-> p.mapping[i]]
  <2>1. f \in Bijection(A + 1 .. O, Free)
    BY <1>6, <1>7, <1>8 DEF Bijection, Injection, Surjection, IsInjective
  <2>2. ExistsBijection(A + 1 .. O, Free) BY <2>1 DEF ExistsBijection
  <2>3. PICK n \in Int : n = A + 1 BY <1>1
  <2>4. IsFiniteSet(n .. O) /\ Cardinality(n .. O) = IF n > O THEN 0 ELSE O - n + 1 BY <1>1, <1>10
  <2>5. IsFiniteSet(A + 1 .. O) /\ Cardinality(A + 1 .. O) = O - A BY <2>3, <2>4, <1>1
  <2> QED BY <2>2, <2>5, FS_Bijection
<1>13. IsFiniteSet(Own \cup Free) /\ Cardinality(Own \cup Free) = M + (O - A)
  <2>1. Cardinality(Own \cap Free) = 0 BY <1>9, FS_EmptySet
  <2>2. /\ IsFiniteSet(Own \cup Free)
        /\ Cardinality(Own \cup Free) = Cardinality(Own) + Cardinality(Free) - Cardinality(Own \cap Free)
    BY <1>11, <1>12, FS_Union
  <2> QED BY <1>1, <1>11, <1>12, <2>1, <2>2
<1>14. IsFiniteSet(OutboundOf(c)) /\ Cardinality(OutboundOf(c)) = O BY SlotsFinite DEF O
<1>15. Cardinality(Std) = Cardinality(OutboundOf(c)) - Cardinality(OutboundOf(c) \cap (Own \cup Free))
  BY <1>9, <1>14, FS_Difference
<1>16. OutboundOf(c) \cap (Own \cup Free) = Own \cup Free BY <1>9
<1>17. Cardinality(Std) = O - (M + (O - A)) BY <1>13, <1>14, <1>15, <1>16
<1> QED BY <1>1, <1>17 DEF Std, M, A, O

LEMMA StandaloneRoom ==
  ASSUME NEW c \in Configs, NEW p, NEW e, PartShape(c, p), Tiled(c, p), Owned(c, p, e), Freed(c, p, e),
         Kinds(c, e), NEW s \in OutboundOf(c), e[s].life = "STANDALONE"
  PROVE  p.mapped < p.allocated
<1> DEFINE Std == {t \in OutboundOf(c) : e[t].life = "STANDALONE"}
<1>1. p.allocated - p.mapped = Cardinality(Std) BY StandaloneCount
<1>2. IsFiniteSet(Std)
  <2>1. Std \in SUBSET OutboundOf(c) OBVIOUS
  <2> QED BY <2>1, SlotsFinite, FS_Subset
<1>3. Std # {} OBVIOUS
<1>4. Cardinality(Std) # 0 /\ Cardinality(Std) \in Nat
  BY <1>2, <1>3, FS_EmptySet, FS_CardinalityType
<1> HIDE DEF Std
<1> QED BY <1>1, <1>4, MappingType

(* Outbound::release_one.                                                  *)
LEMMA PartReleased ==
  ASSUME NEW c \in Configs, NEW p, NEW e, NEW rs, PartOK(c, p, e, rs), Kinds(c, e),
         NEW s \in OutboundOf(c), e[s].life = "STANDALONE",
         NEW e2, SameOwners(c, e, e2), SameMapped(c, e, e2), e2[s].life = "FREE",
         \A t \in OutboundOf(c) \ {s} : e2[t].life = "FREE" <=> e[t].life = "FREE"
  PROVE  PartOK(c, ReleaseOne(p, s), e2, rs)
<1> DEFINE p2 == ReleaseOne(p, s)
           A == p.allocated
           M == p.mapped
           O == c.outbound
<1>1. PartShape(c, p) /\ Tiled(c, p) /\ Owned(c, p, e) /\ Freed(c, p, e) /\ Retiring(c, p, e, rs)
  BY DEF PartOK
<1>2. M < A /\ M \in Nat /\ A \in Nat /\ O \in Nat /\ A <= O /\ A >= 1 /\ A \in 1 .. O
  BY <1>1, MappingType, StandaloneRoom
<1>3. p \in Parts(c) BY <1>1 DEF PartShape
<1>4. /\ p2 \in Parts(c) /\ p2.mapped = M /\ p2.allocated = A - 1 /\ p2.routes = p.routes
      /\ p2.mapping = [p.mapping EXCEPT ![A] = s]
  <2>1. PICK m : m = [p.mapping EXCEPT ![A] = s] OBVIOUS
  <2>2. m \in [1 .. O -> OutboundOf(c)] BY <1>2, <1>3, <2>1 DEF Parts
  <2>3. p2 = [p EXCEPT !.mapping = m, !.allocated = A - 1] BY <1>3, <2>1 DEF ReleaseOne, Parts
  <2>4. A - 1 \in Int BY <1>2
  <2> HIDE DEF p2
  <2> QED BY <1>3, <2>1, <2>2, <2>3, <2>4 DEF Parts
<1>5. p.mapping \in [1 .. O -> OutboundOf(c)] BY <1>1, MappingType
<1>6. p2.mapping[A] = s /\ \A i \in 1 .. O : i # A => p2.mapping[i] = p.mapping[i]
  BY <1>2, <1>4, <1>5
<1> HIDE DEF p2, A, M, O
<1>7. PartShape(c, p2) BY <1>2, <1>4 DEF PartShape, O
<1>8. Tiled(c, p2)
  <2>1. M = p.mapped BY DEF M
  <2> QED BY <1>1, <1>4, <2>1 DEF Tiled
<1>9. Owned(c, p2, e2)
  <2>1. Owned(c, p, e2) BY <1>1, OwnedFrame
  <2>2. \A i \in 1 .. M : p2.mapping[i] = p.mapping[i] BY <1>2, <1>6
  <2>3. M = p.mapped BY DEF M
  <2> QED BY <2>1, <2>2, <2>3, <1>4 DEF Owned
<1>10. Freed(c, p2, e2)
  <2>0. A = p.allocated /\ O = c.outbound BY DEF A, O
  <2>1. \A i \in A + 1 .. O : /\ p2.mapping[i] = p.mapping[i] /\ p.mapping[i] \in OutboundOf(c)
                              /\ e[p.mapping[i]].life = "FREE" /\ p.mapping[i] # s
    <3> SUFFICES ASSUME NEW i \in A + 1 .. O
                 PROVE  /\ p2.mapping[i] = p.mapping[i] /\ p.mapping[i] \in OutboundOf(c)
                        /\ e[p.mapping[i]].life = "FREE" /\ p.mapping[i] # s
      OBVIOUS
    <3>1. i \in 1 .. O /\ i # A BY <1>2
    <3>2. e[p.mapping[i]].life = "FREE" BY <1>1, <2>0 DEF Freed
    <3> QED BY <3>1, <3>2, <1>5, <1>6
  <2>2. \A i \in (A - 1) + 1 .. O : i = A \/ i \in A + 1 .. O BY <1>2
  <2>3. A \in (A - 1) + 1 .. O /\ A + 1 .. O \subseteq (A - 1) + 1 .. O BY <1>2
  <2>4. \A i \in (A - 1) + 1 .. O : e2[p2.mapping[i]].life = "FREE" BY <1>6, <2>1, <2>2
  <2>5. ASSUME NEW i \in (A - 1) + 1 .. O, NEW j \in (A - 1) + 1 .. O, p2.mapping[i] = p2.mapping[j]
        PROVE  i = j
    <3>1. \A k, l \in A + 1 .. O : p.mapping[k] = p.mapping[l] => k = l BY <1>1, <2>0 DEF Freed
    <3>2. CASE i = A BY <1>6, <2>1, <2>2, <2>5, <3>2
    <3>3. CASE j = A BY <1>6, <2>1, <2>2, <2>5, <3>3
    <3>4. CASE i # A /\ j # A BY <2>1, <2>2, <2>5, <3>1, <3>4
    <3> QED BY <3>2, <3>3, <3>4
  <2>6. ASSUME NEW t \in OutboundOf(c), e2[t].life = "FREE"
        PROVE  \E i \in (A - 1) + 1 .. O : p2.mapping[i] = t
    <3>1. CASE t = s BY <3>1, <1>6, <2>3
    <3>2. CASE t # s
      <4>1. e[t].life = "FREE" BY <2>6, <3>2
      <4>2. PICK i \in A + 1 .. O : p.mapping[i] = t BY <4>1, <1>1, <2>0 DEF Freed
      <4> QED BY <4>2, <2>1, <2>3
    <3> QED BY <3>1, <3>2
  <2> QED BY <2>0, <2>4, <2>5, <2>6, <1>4 DEF Freed
<1>11. Retiring(c, p2, e2, rs)
  <2>1. Retiring(c, p, e2, rs) BY <1>1, RetiringFrame
  <2> QED BY <2>1, <1>4 DEF Retiring
<1> QED BY <1>7, <1>8, <1>9, <1>10, <1>11 DEF PartOK, p2

(* Outbound::try_reserve.                                                  *)
LEMMA PartTaken ==
  ASSUME NEW c \in Configs, NEW p, NEW e, NEW rs, PartOK(c, p, e, rs),
         p.allocated < c.outbound, NEW s, s = p.mapping[p.allocated + 1],
         NEW e2, SameOwners(c, e, e2), SameMapped(c, e, e2), e2[s].life # "FREE",
         \A t \in OutboundOf(c) \ {s} : e2[t].life = "FREE" <=> e[t].life = "FREE",
         NEW p2, p2 = [p EXCEPT !.allocated = @ + 1]
  PROVE  PartOK(c, p2, e2, rs) /\ s \in OutboundOf(c) /\ e[s].life = "FREE"
<1> DEFINE A == p.allocated
           M == p.mapped
           O == c.outbound
<1>1. PartShape(c, p) /\ Tiled(c, p) /\ Owned(c, p, e) /\ Freed(c, p, e) /\ Retiring(c, p, e, rs)
  BY DEF PartOK
<1>2. /\ M <= A /\ M \in Nat /\ A \in Nat /\ O \in Nat /\ A < O /\ A + 1 \in A + 1 .. O
      /\ A + 1 .. O \subseteq 1 .. O /\ (A + 1) + 1 .. O \subseteq A + 1 .. O
  BY <1>1, MappingType
<1>3. p \in Parts(c) BY <1>1 DEF PartShape
<1>4. /\ p2 \in Parts(c) /\ p2.mapped = M /\ p2.allocated = A + 1 /\ p2.routes = p.routes
      /\ p2.mapping = p.mapping
  BY <1>2, <1>3 DEF Parts
<1>5. \A i \in 1 .. O : p.mapping[i] \in OutboundOf(c) BY <1>1, MappingType
<1>6. /\ \A i \in A + 1 .. O : e[p.mapping[i]].life = "FREE"
      /\ \A i, j \in A + 1 .. O : p.mapping[i] = p.mapping[j] => i = j
      /\ \A t \in OutboundOf(c) : e[t].life = "FREE" => \E i \in A + 1 .. O : p.mapping[i] = t
  BY <1>1 DEF Freed
<1>7. s \in OutboundOf(c) /\ e[s].life = "FREE" /\ s = p.mapping[A + 1] BY <1>2, <1>5, <1>6
<1>8. PartShape(c, p2) BY <1>2, <1>4 DEF PartShape
<1>9. Tiled(c, p2) BY <1>1, <1>4 DEF Tiled
<1>10. Owned(c, p2, e2)
  <2>1. Owned(c, p, e2) BY <1>1, OwnedFrame
  <2> QED BY <2>1, <1>4 DEF Owned
<1>11. Retiring(c, p2, e2, rs)
  <2>1. Retiring(c, p, e2, rs) BY <1>1, RetiringFrame
  <2> QED BY <2>1, <1>4 DEF Retiring
<1>12. Freed(c, p2, e2)
  <2>0. O = c.outbound OBVIOUS
  <2> HIDE DEF A, M, O
  <2>1. \A i \in (A + 1) + 1 .. O : i \in A + 1 .. O /\ i # A + 1 BY <1>2
  <2>2. \A i \in A + 1 .. O : i = A + 1 \/ i \in (A + 1) + 1 .. O BY <1>2
  <2>3. \A i \in (A + 1) + 1 .. O : e2[p.mapping[i]].life = "FREE"
    <3> SUFFICES ASSUME NEW i \in (A + 1) + 1 .. O PROVE e2[p.mapping[i]].life = "FREE"
      OBVIOUS
    <3>1. p.mapping[i] # s BY <1>2, <1>6, <1>7, <2>1
    <3>2. p.mapping[i] \in OutboundOf(c) BY <1>2, <1>5, <2>1
    <3> QED BY <3>1, <3>2, <1>6, <2>1
  <2>4. ASSUME NEW t \in OutboundOf(c), e2[t].life = "FREE"
        PROVE  \E i \in (A + 1) + 1 .. O : p.mapping[i] = t
    <3>1. t # s BY <2>4
    <3>2. PICK i \in A + 1 .. O : p.mapping[i] = t BY <3>1, <2>4, <1>6
    <3> QED BY <3>1, <3>2, <2>2, <1>7
  <2>5. \A i, j \in (A + 1) + 1 .. O : p.mapping[i] = p.mapping[j] => i = j BY <1>6, <2>1, SMTT(30)
  <2> QED BY <2>0, <2>3, <2>4, <2>5, <1>4 DEF Freed
<1> QED BY <1>7, <1>8, <1>9, <1>10, <1>11, <1>12 DEF PartOK

(* A place in the interval of a route holds the same slot.                 *)
Keeps(p, p2, q) ==
    \A k \in Nat : At(p.routes[q], p.routes[q].start + k + 1) =>
      /\ At(p2.routes[q], p2.routes[q].start + k + 1)
      /\ p2.mapping[p2.routes[q].start + k + 1] = p.mapping[p.routes[q].start + k + 1]

LEMMA CreatesMove ==
  ASSUME NEW c, NEW p, NEW e, NEW cr, CreatesOK(c, p, e, cr), NEW p2, NEW e2, NEW cr2,
         \A s \in SlotsOf(c) : cr2[s] # <<>> =>
           cr2[s] = cr[s] /\ e2[s].owner = e[s].owner /\ Keeps(p, p2, e[s].owner)
  PROVE  CreatesOK(c, p2, e2, cr2)
<1> SUFFICES ASSUME NEW s \in SlotsOf(c), cr2[s] # <<>>
             PROVE  /\ cr2[s] = <<e2[s].owner, cr2[s][2]>> /\ e2[s].owner \in c.routes
                    /\ cr2[s][2] \in Nat
                    /\ At(p2.routes[e2[s].owner], p2.routes[e2[s].owner].start + cr2[s][2] + 1)
                    /\ p2.mapping[p2.routes[e2[s].owner].start + cr2[s][2] + 1] = s
  BY DEF CreatesOK
<1>1. cr2[s] = cr[s] /\ e2[s].owner = e[s].owner /\ Keeps(p, p2, e[s].owner) OBVIOUS
<1>2. /\ cr[s] = <<e[s].owner, cr[s][2]>> /\ e[s].owner \in c.routes
      /\ cr[s][2] \in Nat /\ At(p.routes[e[s].owner], p.routes[e[s].owner].start + cr[s][2] + 1)
      /\ p.mapping[p.routes[e[s].owner].start + cr[s][2] + 1] = s
  BY <1>1 DEF CreatesOK
<1> QED BY <1>1, <1>2 DEF Keeps

(* A partition whose routes and mapped places are the same.                *)
LEMMA KeepsPlaces ==
  ASSUME NEW c \in Configs, NEW p, PartShape(c, p), Tiled(c, p), NEW p2, p2.routes = p.routes,
         \A i \in 1 .. p.mapped : p2.mapping[i] = p.mapping[i], NEW q \in c.routes
  PROVE  Keeps(p, p2, q)
<1> SUFFICES ASSUME NEW k \in Nat, At(p.routes[q], p.routes[q].start + k + 1)
             PROVE  p2.mapping[p.routes[q].start + k + 1] = p.mapping[p.routes[q].start + k + 1]
  BY DEF Keeps
<1>1. p.routes[q] \in Leases /\ p.routes[q].st # "none" BY MappingType DEF At
<1>2. p.routes[q].start + k + 1 \in Int BY <1>1, LeaseType
<1>3. p.routes[q].start + k + 1 \in 1 .. p.mapped BY <1>2 DEF Tiled
<1> QED BY <1>3

(* Table::rotate.                                                          *)
Rotated(R, S, n, m, a, b, d) ==
    /\ R \in [1 .. n -> S]
    /\ \A i \in 1 .. a : R[i] = m[i]
    /\ \A i \in a + 1 .. a + (d - b) : R[i] = m[i + (b - a)]
    /\ \A i \in a + (d - b) + 1 .. d : R[i] = m[i - (d - b)]
    /\ \A i \in d + 1 .. n : R[i] = m[i]

LEMMA RotateIs ==
  ASSUME NEW S, NEW n \in Nat, NEW m \in [1 .. n -> S], NEW a \in Nat, NEW b \in Nat, NEW d \in Nat,
         a <= b, b <= d, d <= n
  PROVE  Rotated(Rotate(m, a, b, d), S, n, m, a, b, d)
<1> DEFINE R == Rotate(m, a, b, d)
<1>1. Len(m) = n BY DEF Rotate
<1>2. R = [i \in 1 .. n |-> IF i \notin a + 1 .. d THEN m[i]
                            ELSE IF i <= a + d - b THEN m[i + b - a] ELSE m[i + b - d]]
  BY <1>1 DEF Rotate
<1> HIDE DEF R
<1>3. ASSUME NEW i \in 1 .. a PROVE R[i] = m[i]
  <2>1. i \in 1 .. n /\ i \notin a + 1 .. d OBVIOUS
  <2> QED BY <2>1, <1>2
<1>4. ASSUME NEW i \in a + 1 .. a + (d - b) PROVE R[i] = m[i + (b - a)] /\ i + (b - a) \in 1 .. n
  <2>1. i \in 1 .. n /\ i \in a + 1 .. d /\ i <= a + d - b /\ i + b - a = i + (b - a) /\ i + (b - a) \in 1 .. n
    OBVIOUS
  <2> QED BY <2>1, <1>2
<1>5. ASSUME NEW i \in a + (d - b) + 1 .. d PROVE R[i] = m[i - (d - b)] /\ i - (d - b) \in 1 .. n
  <2>1. /\ i \in 1 .. n /\ i \in a + 1 .. d /\ ~(i <= a + d - b) /\ i + b - d = i - (d - b)
        /\ i - (d - b) \in 1 .. n
    OBVIOUS
  <2> QED BY <2>1, <1>2
<1>6. ASSUME NEW i \in d + 1 .. n PROVE R[i] = m[i]
  <2>1. i \in 1 .. n /\ i \notin a + 1 .. d OBVIOUS
  <2> QED BY <2>1, <1>2
<1>7. ASSUME NEW i \in 1 .. n PROVE R[i] \in S
  <2>1. i \in 1 .. a \/ i \in a + 1 .. a + (d - b) \/ i \in a + (d - b) + 1 .. d \/ i \in d + 1 .. n
    OBVIOUS
  <2> QED BY <2>1, <1>3, <1>4, <1>5, <1>6
<1>8. R \in [1 .. n -> S] BY <1>2, <1>7
<1>9. Rotated(R, S, n, m, a, b, d) BY <1>3, <1>4, <1>5, <1>6, <1>8 DEF Rotated
<1> QED BY <1>9 DEF R

(* Outbound::try_assign.                                                   *)
Fits(c, p, len) == p.allocated + len <= c.outbound

Maps(c, e, e2, X, r) ==
    \A s \in OutboundOf(c) : IF s \in X THEN e2[s].life = "MAPPED" /\ e2[s].owner = r
                             ELSE e2[s].life = e[s].life /\ e2[s].owner = e[s].owner

LEMMA PartAssigned ==
  ASSUME NEW c \in Configs, NEW p, NEW e, NEW rs, PartOK(c, p, e, rs), Kinds(c, e),
         NEW r \in c.routes, p.routes[r].st = "none", NEW len \in Nat \ {0}, Fits(c, p, len),
         NEW p2, p2 = Assign(p, r, len), NEW e2,
         Maps(c, e, e2, Extent(p2, r), r)
  PROVE  /\ PartOK(c, p2, e2, rs \cup {r})
         /\ \A s \in Extent(p2, r) : s \in OutboundOf(c) /\ e[s].life = "FREE"
         /\ \A q \in c.routes : Keeps(p, p2, q)
<1> \A s \in OutboundOf(c) : IF s \in Extent(p2, r) THEN e2[s].life = "MAPPED" /\ e2[s].owner = r
                              ELSE e2[s].life = e[s].life /\ e2[s].owner = e[s].owner
  BY DEF Maps
<1> p.allocated + len <= c.outbound BY DEF Fits
<1> DEFINE A == p.allocated
           M == p.mapped
           O == c.outbound
           m2 == Rotate(p.mapping, M, A, A + len)
           l2 == [st |-> "live", start |-> M, len |-> len]
<1>1. PartShape(c, p) /\ Tiled(c, p) /\ Owned(c, p, e) /\ Freed(c, p, e) /\ Retiring(c, p, e, rs)
  BY DEF PartOK
<1>2. M <= A /\ M \in Nat /\ A \in Nat /\ O \in Nat /\ A + len <= O /\ A + len \in Nat /\ len >= 1
  BY <1>1, MappingType
<1>3. p.mapping \in [1 .. O -> OutboundOf(c)] /\ p.routes \in [c.routes -> Leases] BY <1>1, MappingType
<1>4. /\ m2 \in [1 .. O -> OutboundOf(c)]
      /\ \A i \in 1 .. M : m2[i] = p.mapping[i]
      /\ \A i \in M + 1 .. M + ((A + len) - A) : m2[i] = p.mapping[i + (A - M)]
      /\ \A i \in (A + len) + 1 .. O : m2[i] = p.mapping[i]
  <2> HIDE DEF A, M, O
  <2>1. PICK d \in Nat : d = A + len BY <1>2
  <2>2. M <= A /\ A <= d /\ d <= O BY <1>2, <2>1
  <2>3. PICK m \in [1 .. O -> OutboundOf(c)] : m = p.mapping BY <1>3
  <2>4. Rotated(Rotate(m, M, A, d), OutboundOf(c), O, m, M, A, d)
    BY <1>2, <2>2, RotateIs
  <2> QED BY <2>1, <2>3, <2>4 DEF Rotated
<1>5. /\ p2.mapping = m2 /\ p2.mapped = M + len /\ p2.allocated = A + len
      /\ p2.routes = [p.routes EXCEPT ![r] = l2]
      /\ p2 = [mapping |-> m2, mapped |-> M + len, allocated |-> A + len, routes |-> [p.routes EXCEPT ![r] = l2]]
  BY DEF Assign
<1>6. l2 \in Leases /\ l2.st = "live" /\ l2.start = M /\ l2.len = len BY <1>2 DEF Leases
<1>7. /\ p2.routes \in [c.routes -> Leases] /\ p2.routes[r] = l2
      /\ \A q \in c.routes : q # r => p2.routes[q] = p.routes[q]
  BY <1>3, <1>5, <1>6
<1>8. \A i \in Int : At(p2.routes[r], i) <=> i \in M + 1 .. M + len BY <1>6, <1>7 DEF At
<1>9. \A q \in c.routes : \A i \in Int : At(p.routes[q], i) => q # r /\ i \in 1 .. M
  BY <1>1 DEF Tiled, At
<1>10. \A q \in c.routes, i \in Int :
         At(p2.routes[q], i) <=> (IF q = r THEN i \in M + 1 .. M + len ELSE At(p.routes[q], i))
  BY <1>7, <1>8
<1>11. /\ \A i \in A + 1 .. O : e[p.mapping[i]].life = "FREE"
       /\ \A i, j \in A + 1 .. O : p.mapping[i] = p.mapping[j] => i = j
       /\ \A t \in OutboundOf(c) : e[t].life = "FREE" => \E i \in A + 1 .. O : p.mapping[i] = t
  BY <1>1 DEF Freed
<1>12. /\ \A i \in 1 .. M, q \in c.routes : At(p.routes[q], i) => e[p.mapping[i]].owner = q
       /\ \A i, j \in 1 .. M : p.mapping[i] = p.mapping[j] => i = j
       /\ \A s \in OutboundOf(c) : e[s].owner # None => \E i \in 1 .. M : p.mapping[i] = s
       /\ \A i \in 1 .. M : \E q \in c.routes : At(p.routes[q], i)
       /\ \A q1, q2 \in c.routes, i \in Int : At(p.routes[q1], i) /\ At(p.routes[q2], i) => q1 = q2
  BY <1>1 DEF Owned, Tiled
<1>13. Extent(p2, r) = {m2[M + k + 1] : k \in 0 .. len - 1} BY <1>5, <1>6, <1>7 DEF Extent, LocalSlot
<1> HIDE DEF A, M, O, m2, l2
<1>14. \A i \in M + 1 .. M + len : m2[i] = p.mapping[i + (A - M)] /\ i + (A - M) \in A + 1 .. A + len
  BY <1>2, <1>4
<1>15. Extent(p2, r) = {p.mapping[i] : i \in A + 1 .. A + len}
  <2>1. \A k \in 0 .. len - 1 : M + k + 1 \in M + 1 .. M + len BY <1>2
  <2>2. ASSUME NEW i \in A + 1 .. A + len PROVE \E k \in 0 .. len - 1 : m2[M + k + 1] = p.mapping[i]
    <3>1. i - A - 1 \in 0 .. len - 1 /\ M + (i - A - 1) + 1 \in M + 1 .. M + len
          /\ (M + (i - A - 1) + 1) + (A - M) = i
      BY <1>2
    <3>2. m2[M + (i - A - 1) + 1] = p.mapping[i] BY <3>1, <1>14
    <3> QED BY <3>1, <3>2
  <2> QED BY <1>13, <1>14, <2>1, <2>2
<1>16. \A s \in Extent(p2, r) : s \in OutboundOf(c) /\ e[s].life = "FREE" /\ e[s].owner = None
  <2>1. \A i \in A + 1 .. A + len : i \in A + 1 .. O /\ i \in 1 .. O BY <1>2
  <2> SUFFICES ASSUME NEW i \in A + 1 .. A + len
               PROVE  /\ p.mapping[i] \in OutboundOf(c) /\ e[p.mapping[i]].life = "FREE"
                      /\ e[p.mapping[i]].owner = None
    BY <1>15
  <2>2. p.mapping[i] \in OutboundOf(c) BY <2>1, <1>3
  <2> QED BY <2>1, <2>2, <1>11 DEF Kinds
<1>17. PartShape(c, p2)
  <2>1. M + len \in 0 .. A + len /\ A + len \in 0 .. O /\ M + len \in Int BY <1>2
  <2>2. p2 \in Parts(c) BY <1>2, <1>4, <1>5, <1>7, <2>1 DEF Parts, O
  <2> QED BY <1>5, <2>1, <2>2 DEF PartShape, O
<1>18. Tiled(c, p2)
  <2>1. ASSUME NEW i \in 1 .. M + len PROVE \E q \in c.routes : At(p2.routes[q], i)
    <3>1. i \in Int /\ (i \in 1 .. M \/ i \in M + 1 .. M + len) BY <1>2
    <3> QED BY <3>1, <1>9, <1>10, <1>12
  <2>2. ASSUME NEW q \in c.routes, NEW i \in Int, At(p2.routes[q], i) PROVE i \in 1 .. M + len
    BY <2>2, <1>2, <1>9, <1>10
  <2>3. ASSUME NEW q1 \in c.routes, NEW q2 \in c.routes, NEW i \in Int, At(p2.routes[q1], i), At(p2.routes[q2], i)
        PROVE  q1 = q2
    <3>1. \A j \in Int : ~(j \in M + 1 .. M + len /\ j \in 1 .. M) BY <1>2
    <3> QED BY <2>3, <3>1, <1>9, <1>10, <1>12
  <2> QED BY <2>1, <2>2, <2>3, <1>5 DEF Tiled
<1>19. Owned(c, p2, e2)
  <2>1. \A i \in 1 .. M : i \in 1 .. O /\ m2[i] = p.mapping[i] /\ p.mapping[i] \in OutboundOf(c)
        /\ e[p.mapping[i]].owner # None /\ p.mapping[i] \notin Extent(p2, r)
    <3> SUFFICES ASSUME NEW i \in 1 .. M
                 PROVE  i \in 1 .. O /\ m2[i] = p.mapping[i] /\ p.mapping[i] \in OutboundOf(c)
                        /\ e[p.mapping[i]].owner # None /\ p.mapping[i] \notin Extent(p2, r)
      OBVIOUS
    <3>1. i \in 1 .. O BY <1>2
    <3>2. PICK q \in c.routes : At(p.routes[q], i) BY <1>12
    <3>3. e[p.mapping[i]].owner = q /\ q # None BY <3>2, <1>12, ConfigType
    <3> QED BY <3>1, <3>3, <1>3, <1>4, <1>16
  <2>2. \A i \in M + 1 .. M + len : m2[i] \in Extent(p2, r) BY <1>14, <1>15
  <2>3. \A i \in 1 .. M + len : i \in Int /\ (i \in 1 .. M \/ i \in M + 1 .. M + len) BY <1>2
  <2>4. ASSUME NEW i \in 1 .. M + len, NEW q \in c.routes, At(p2.routes[q], i)
        PROVE  e2[m2[i]].owner = q
    <3>1. CASE q = r
      <4>1. i \in M + 1 .. M + len BY <2>3, <2>4, <3>1, <1>10
      <4> QED BY <4>1, <2>2, <3>1, <1>16
    <3>2. CASE q # r
      <4>1. At(p.routes[q], i) /\ i \in 1 .. M BY <2>3, <2>4, <3>2, <1>9, <1>10
      <4> QED BY <4>1, <2>1, <1>12
    <3> QED BY <3>1, <3>2
  <2>5. ASSUME NEW i \in 1 .. M + len, NEW j \in 1 .. M + len, m2[i] = m2[j] PROVE i = j
    <3>1. CASE i \in 1 .. M /\ j \in 1 .. M BY <3>1, <2>1, <2>5, <1>12
    <3>2. CASE i \in 1 .. M /\ j \in M + 1 .. M + len BY <3>2, <2>1, <2>2, <2>5
    <3>3. CASE i \in M + 1 .. M + len /\ j \in 1 .. M BY <3>3, <2>1, <2>2, <2>5
    <3>4. CASE i \in M + 1 .. M + len /\ j \in M + 1 .. M + len
      <4>1. i + (A - M) \in A + 1 .. O /\ j + (A - M) \in A + 1 .. O BY <3>4, <1>2, <1>14
      <4>2. p.mapping[i + (A - M)] = p.mapping[j + (A - M)] BY <3>4, <1>14, <2>5
      <4>3. i + (A - M) = j + (A - M) BY <4>1, <4>2, <1>11
      <4> QED BY <4>3, <1>2, <2>3
    <3> QED BY <3>1, <3>2, <3>3, <3>4, <2>3
  <2>6. ASSUME NEW s \in OutboundOf(c), e2[s].owner # None PROVE \E i \in 1 .. M + len : m2[i] = s
    <3>1. CASE s \in Extent(p2, r)
      <4>1. PICK i \in A + 1 .. A + len : p.mapping[i] = s BY <3>1, <1>15
      <4>2. i - (A - M) \in M + 1 .. M + len /\ (i - (A - M)) + (A - M) = i
            /\ i - (A - M) \in 1 .. M + len BY <1>2
      <4>3. m2[i - (A - M)] = p.mapping[i] BY <4>2, <1>14
      <4> QED BY <4>1, <4>2, <4>3
    <3>2. CASE s \notin Extent(p2, r)
      <4>1. PICK i \in 1 .. M : p.mapping[i] = s BY <3>2, <2>6, <1>12
      <4>2. i \in 1 .. M + len BY <1>2
      <4> QED BY <4>1, <4>2, <2>1
    <3> QED BY <3>1, <3>2
  <2> QED BY <2>4, <2>5, <2>6, <1>5 DEF Owned
<1>20. Freed(c, p2, e2)
  <2>1. \A i \in (A + len) + 1 .. O : /\ i \in A + 1 .. O /\ i \in 1 .. O /\ m2[i] = p.mapping[i]
                                      /\ p.mapping[i] \in OutboundOf(c)
                                      /\ p.mapping[i] \notin Extent(p2, r)
    <3> SUFFICES ASSUME NEW i \in (A + len) + 1 .. O
                 PROVE  /\ i \in A + 1 .. O /\ i \in 1 .. O /\ m2[i] = p.mapping[i]
                        /\ p.mapping[i] \in OutboundOf(c) /\ p.mapping[i] \notin Extent(p2, r)
      OBVIOUS
    <3>1. i \in A + 1 .. O /\ i \in 1 .. O /\ i \notin A + 1 .. A + len BY <1>2
    <3>2. \A j \in A + 1 .. A + len : j \in A + 1 .. O BY <1>2
    <3> QED BY <3>1, <3>2, <1>3, <1>4, <1>11, <1>15
  <2>2. ASSUME NEW s \in OutboundOf(c), e2[s].life = "FREE"
        PROVE  \E i \in (A + len) + 1 .. O : m2[i] = s
    <3>1. s \notin Extent(p2, r) BY <2>2
    <3>2. PICK i \in A + 1 .. O : p.mapping[i] = s BY <3>1, <2>2, <1>11
    <3>3. i \notin A + 1 .. A + len BY <3>1, <3>2, <1>15
    <3>4. i \in (A + len) + 1 .. O BY <3>3, <1>2
    <3> QED BY <3>2, <3>4, <2>1
  <2>3. \A i \in (A + len) + 1 .. O : e2[m2[i]].life = "FREE" BY <2>1, <1>11
  <2>4. \A i, j \in (A + len) + 1 .. O : m2[i] = m2[j] => i = j BY <2>1, <1>11
  <2> QED BY <2>2, <2>3, <2>4, <1>5 DEF Freed, O
<1>21. Retiring(c, p2, e2, rs \cup {r})
  <2>1. rs = {q \in c.routes : p.routes[q].st = "live"} BY <1>1 DEF Retiring
  <2>2. rs \cup {r} = {q \in c.routes : p2.routes[q].st = "live"} BY <2>1, <1>6, <1>7
  <2>3. ASSUME NEW q \in c.routes, p2.routes[q].st = "retired"
        PROVE  p2.routes[q].remaining = Cardinality(UnmappedOf(c, e2, q))
    <3>1. q # r BY <2>3, <1>6, <1>7
    <3>2. q # None BY ConfigType
    <3>3. UnmappedOf(c, e2, q) = UnmappedOf(c, e, q) BY <3>1, <3>2, <1>16 DEF UnmappedOf
    <3> QED BY <3>1, <3>3, <2>3, <1>1, <1>7 DEF Retiring
  <2> QED BY <2>2, <2>3 DEF Retiring
<1>22. ASSUME NEW q \in c.routes PROVE Keeps(p, p2, q)
  <2>1. ASSUME NEW k \in Nat, At(p.routes[q], p.routes[q].start + k + 1)
        PROVE  /\ At(p2.routes[q], p2.routes[q].start + k + 1)
               /\ p2.mapping[p2.routes[q].start + k + 1] = p.mapping[p.routes[q].start + k + 1]
    <3>1. p.routes[q] \in Leases /\ p.routes[q].st # "none" BY <1>3, <2>1 DEF At
    <3>2. p.routes[q].start + k + 1 \in Int BY <3>1, LeaseType
    <3>3. q # r /\ p.routes[q].start + k + 1 \in 1 .. M BY <2>1, <3>2, <1>9
    <3>4. p2.routes[q] = p.routes[q] BY <3>3, <1>7
    <3> QED BY <2>1, <3>3, <3>4, <1>4, <1>5
  <2> QED BY <2>1 DEF Keeps
<1> QED BY <1>16, <1>17, <1>18, <1>19, <1>20, <1>21, <1>22 DEF PartOK

(* The rank of a place among places, counted from the last one.            *)
Rank(K, k) == Cardinality({j \in K : j >= k})

LEMMA RankIs ==
  ASSUME NEW K \in SUBSET Int, IsFiniteSet(K)
  PROVE  /\ Cardinality(K) \in Nat
         /\ \A k \in K : Rank(K, k) \in 1 .. Cardinality(K)
         /\ \A k, l \in K : Rank(K, k) = Rank(K, l) => k = l
         /\ \A i \in 1 .. Cardinality(K) : \E k \in K : Rank(K, k) = i
<1>1. Cardinality(K) \in Nat BY FS_CardinalityType
<1>2. ASSUME NEW k \in K PROVE IsFiniteSet({j \in K : j >= k}) /\ Rank(K, k) \in 1 .. Cardinality(K)
  <2> DEFINE R == {j \in K : j >= k}
  <2>1. R \in SUBSET K OBVIOUS
  <2>2. IsFiniteSet(R) /\ Cardinality(R) <= Cardinality(K) BY <2>1, FS_Subset
  <2>3. k \in R OBVIOUS
  <2>4. Cardinality(R) \in Nat /\ Cardinality(R) # 0
    <3>1. R # {} BY <2>3
    <3> QED BY <3>1, <2>2, FS_CardinalityType, FS_EmptySet
  <2> HIDE DEF R
  <2>5. Cardinality(R) \in 1 .. Cardinality(K) BY <1>1, <2>2, <2>4
  <2> QED BY <2>2, <2>5 DEF R, Rank
<1>3. ASSUME NEW k \in K, NEW l \in K, k < l PROVE Rank(K, l) < Rank(K, k)
  <2> DEFINE R == {j \in K : j >= k}
             T == {j \in K : j >= l}
  <2>1. IsFiniteSet(R) /\ IsFiniteSet(T) BY <1>2
  <2>2. k \in R /\ T \in SUBSET (R \ {k})
    <3>1. ASSUME NEW j \in T PROVE j \in R \ {k}
      <4>1. j \in Int /\ k \in Int /\ l \in Int /\ j \in K /\ j >= l OBVIOUS
      <4> QED BY <4>1, <1>3
    <3>2. k \in R
      <4>1. k \in Int OBVIOUS
      <4>2. k >= k BY <4>1
      <4> QED BY <4>2
    <3> HIDE DEF R, T
    <3> QED BY <3>1, <3>2
  <2>3. Rank(K, k) = Cardinality(R) /\ Rank(K, l) = Cardinality(T) BY DEF Rank
  <2> HIDE DEF R, T
  <2>4. IsFiniteSet(R \ {k}) /\ Cardinality(R \ {k}) = Cardinality(R) - 1
    BY <2>1, <2>2, FS_RemoveElement
  <2>5. Cardinality(T) <= Cardinality(R \ {k}) BY <2>2, <2>4, FS_Subset
  <2>6. Cardinality(R) \in Nat /\ Cardinality(T) \in Nat BY <2>1, FS_CardinalityType
  <2> QED BY <2>3, <2>4, <2>5, <2>6
<1>4. ASSUME NEW k \in K, NEW l \in K, Rank(K, k) = Rank(K, l) PROVE k = l
  <2>1. k \in Int /\ l \in Int OBVIOUS
  <2>2. Rank(K, k) \in Int /\ Rank(K, l) \in Int
    <3>1. Rank(K, k) \in 1 .. Cardinality(K) /\ Rank(K, l) \in 1 .. Cardinality(K) BY <1>2
    <3> QED BY <3>1, <1>1
  <2>3. ~(k < l) BY <1>3, <1>4, <2>2
  <2>4. ~(l < k) BY <1>3, <1>4, <2>2
  <2> QED BY <2>1, <2>3, <2>4
<1>5. \A i \in 1 .. Cardinality(K) : \E k \in K : Rank(K, k) = i
  <2> DEFINE f == [k \in K |-> Rank(K, k)]
             N == Cardinality(K)
  <2>1. f \in [K -> 1 .. N] BY <1>2
  <2>2. f \in Injection(K, 1 .. N) BY <2>1, <1>4 DEF Injection, IsInjective
  <2>3. IsFiniteSet(1 .. N) /\ Cardinality(1 .. N) = N
    <3>1. \A a, b \in Int : IsFiniteSet(a .. b) /\ Cardinality(a .. b) = IF a > b THEN 0 ELSE b - a + 1
      BY FS_Interval
    <3>2. N \in Nat BY <1>1
    <3> HIDE DEF N
    <3> QED BY <3>1, <3>2
  <2>4. f \in Surjection(K, 1 .. N)
    <3> HIDE DEF f
    <3> QED BY <2>2, <2>3, FS_Injection
  <2> QED BY <2>4 DEF Surjection
<1> QED BY <1>1, <1>2, <1>4, <1>5

(* The places whose slots are not spent.                                   *)
Usable(m, from, to, sp) == {k \in from .. to : m[k] \notin sp}

(* A list of the slots at the places K, each once.                         *)
Lists(b, m, K) ==
    \E g \in [1 .. Cardinality(K) -> K] :
      /\ \A i, j \in 1 .. Cardinality(K) : g[i] = g[j] => i = j
      /\ \A k \in K : \E i \in 1 .. Cardinality(K) : g[i] = k
      /\ b = [i \in 1 .. Cardinality(K) |-> m[g[i]]]

LEMMA BackwardIs ==
  ASSUME NEW m, NEW from \in Int, NEW to \in Int, NEW sp,
         NEW K, K = Usable(m, from, to, sp)
  PROVE  /\ IsFiniteSet(K) /\ Cardinality(K) \in Nat
         /\ Lists(Backward(m, from, to, sp), m, K)
<1>1. IsFiniteSet(K)
  <2>1. K \in SUBSET (from .. to) BY DEF Usable
  <2>2. IsFiniteSet(from .. to) BY FS_Interval
  <2> QED BY <2>1, <2>2, FS_Subset
<1>2. K \in SUBSET Int BY DEF Usable
<1>3. /\ Cardinality(K) \in Nat
      /\ \A k \in K : Rank(K, k) \in 1 .. Cardinality(K)
      /\ \A k, l \in K : Rank(K, k) = Rank(K, l) => k = l
      /\ \A i \in 1 .. Cardinality(K) : \E k \in K : Rank(K, k) = i
  BY <1>1, <1>2, RankIs
<1> DEFINE g == [i \in 1 .. Cardinality(K) |-> CHOOSE k \in K : Rank(K, k) = i]
<1>4. Backward(m, from, to, sp) = [i \in 1 .. Cardinality(K) |-> m[CHOOSE k \in K : Rank(K, k) = i]]
  BY DEF Backward, Rank, Usable
<1>5. ASSUME NEW i \in 1 .. Cardinality(K) PROVE g[i] \in K /\ Rank(K, g[i]) = i
  <2>1. \E k \in K : Rank(K, k) = i BY <1>3
  <2>2. g[i] = CHOOSE k \in K : Rank(K, k) = i OBVIOUS
  <2> HIDE DEF g
  <2> QED BY <2>1, <2>2
<1>6. Backward(m, from, to, sp) = [i \in 1 .. Cardinality(K) |-> m[g[i]]] BY <1>4
<1>7. g \in [1 .. Cardinality(K) -> K] BY <1>5
<1> HIDE DEF g
<1>8. \A i, j \in 1 .. Cardinality(K) : g[i] = g[j] => i = j BY <1>5
<1>9. ASSUME NEW k \in K PROVE \E i \in 1 .. Cardinality(K) : g[i] = k
  <2>1. Rank(K, k) \in 1 .. Cardinality(K) BY <1>3
  <2>2. g[Rank(K, k)] \in K /\ Rank(K, g[Rank(K, k)]) = Rank(K, k) BY <2>1, <1>5
  <2>3. g[Rank(K, k)] = k BY <2>2, <1>3
  <2> QED BY <2>1, <2>3
<1> QED BY <1>1, <1>3, <1>6, <1>7, <1>8, <1>9 DEF Lists


(* Outbound::reclaim, the mapping: the places behind the interval move up, *)
(* and the slots of the interval that are not spent come last.             *)
Compacted(S, n, m3, m, a, len, A, kept, sp) ==
    /\ kept \in A - len .. A
    /\ m3 \in [1 .. n -> S]
    /\ \A i \in 1 .. a : m3[i] = m[i]
    /\ \A i \in a + 1 .. A - len : m3[i] = m[i + len]
    /\ \A i \in kept + 1 .. A : \E k \in a + 1 .. a + len : m3[i] = m[k] /\ m[k] \notin sp
    /\ \A i, j \in kept + 1 .. A : m3[i] = m3[j] => i = j
    /\ \A k \in a + 1 .. a + len : m[k] \notin sp => \E i \in kept + 1 .. A : m3[i] = m[k]
    /\ \A i \in A + 1 .. n : m3[i] = m[i]

Filled(R, back, kept, A) == [i \in DOMAIN R |-> IF i \in kept + 1 .. A THEN back[i - kept] ELSE R[i]]

LEMMA CompactedIs ==
  ASSUME NEW S, NEW n \in Nat, NEW m \in [1 .. n -> S], NEW a \in Nat, NEW len \in Nat, NEW A \in Nat,
         a + len <= A, A <= n, NEW sp, \A i, j \in a + 1 .. a + len : m[i] = m[j] => i = j,
         NEW R, R = Rotate(m, a, a + len, A),
         NEW back, back = Backward(R, A - len + 1, A, sp), NEW kept, kept = A - Len(back),
         NEW m3, m3 = Filled(R, back, kept, A)
  PROVE  Compacted(S, n, m3, m, a, len, A, kept, sp)
<1>1. PICK b \in Nat : b = a + len OBVIOUS
<1>2. Rotated(R, S, n, m, a, b, A) BY <1>1, RotateIs
<1>3. PICK f \in Int : f = A - len + 1 OBVIOUS
<1>4. f \in 1 .. A + 1 /\ a + (A - b) = f - 1 /\ b - a = len /\ A - b = f - a - 1 /\ f <= n + 1
  BY <1>1, <1>3
<1>5. /\ R \in [1 .. n -> S]
      /\ \A i \in 1 .. a : R[i] = m[i]
      /\ \A i \in a + 1 .. f - 1 : R[i] = m[i + len]
      /\ \A i \in (f - 1) + 1 .. A : R[i] = m[i - (f - a - 1)]
      /\ \A i \in A + 1 .. n : R[i] = m[i]
  BY <1>2, <1>4 DEF Rotated
<1>6. \A i \in f .. A : R[i] = m[i - (f - a - 1)] /\ i - (f - a - 1) \in a + 1 .. a + len
  BY <1>3, <1>4, <1>5
<1> DEFINE K == Usable(R, f, A, sp)
           N == Cardinality(K)
<1>7. IsFiniteSet(K) /\ N \in Nat /\ Lists(Backward(R, f, A, sp), R, K)
  <2>1. A \in Int OBVIOUS
  <2> QED BY <2>1, BackwardIs
<1>8. PICK g \in [1 .. N -> K] : /\ \A i, j \in 1 .. N : g[i] = g[j] => i = j
                                 /\ \A k \in K : \E i \in 1 .. N : g[i] = k
                                 /\ back = [i \in 1 .. N |-> R[g[i]]]
  BY <1>3, <1>7 DEF Lists
<1>9. N <= len
  <2>1. K \in SUBSET (f .. A) BY DEF Usable
  <2>2. IsFiniteSet(f .. A) /\ Cardinality(f .. A) = IF f > A THEN 0 ELSE A - f + 1
    <3>1. A \in Int OBVIOUS
    <3> QED BY <3>1, FS_Interval
  <2>3. N <= Cardinality(f .. A) BY <2>1, <2>2, FS_Subset
  <2>4. Cardinality(f .. A) = len BY <2>2, <1>3
  <2> QED BY <2>3, <2>4
<1>10. \A k \in K : k \in f .. A /\ k \in Int /\ R[k] \notin sp BY <1>4 DEF Usable
<1>11. ASSUME NEW k \in f .. A, R[k] \notin sp PROVE k \in K BY <1>11 DEF Usable
<1> HIDE DEF K, N
<1>12. Len(back) = N BY <1>7, <1>8
<1>13. kept = A - N /\ kept \in A - len .. A /\ kept \in Int
  <2>1. \A k \in Nat : k <= len => A - k \in A - len .. A /\ A - k \in Int OBVIOUS
  <2>2. kept = A - N BY <1>12
  <2> QED BY <2>1, <2>2, <1>7, <1>9
<1>14. \A i \in 1 .. n : m3[i] = IF i \in kept + 1 .. A THEN back[i - kept] ELSE R[i] BY <1>5 DEF Filled
<1>15. DOMAIN m3 = 1 .. n /\ m3 = [i \in 1 .. n |-> m3[i]] BY <1>5 DEF Filled
<1>16. ASSUME NEW i \in kept + 1 .. A
       PROVE  /\ i \in 1 .. n /\ i - kept \in 1 .. N /\ g[i - kept] \in K /\ m3[i] = R[g[i - kept]]
  <2>1. i \in 1 .. n /\ i - kept \in 1 .. N /\ i \in Int BY <1>7, <1>9, <1>13
  <2>2. g[i - kept] \in K BY <2>1, <1>8
  <2>3. m3[i] = back[i - kept] BY <2>1, <1>14
  <2>4. back[i - kept] = R[g[i - kept]] BY <2>1, <1>8
  <2> QED BY <2>1, <2>2, <2>3, <2>4
<1>17. ASSUME NEW i \in kept + 1 .. A PROVE \E k \in a + 1 .. a + len : m3[i] = m[k] /\ m[k] \notin sp
  <2>1. PICK l \in f .. A : m3[i] = R[l] /\ R[l] \notin sp BY <1>10, <1>16
  <2> QED BY <2>1, <1>6
<1>18. ASSUME NEW i \in kept + 1 .. A, NEW j \in kept + 1 .. A, m3[i] = m3[j] PROVE i = j
  <2>1. R[g[i - kept]] = R[g[j - kept]] /\ g[i - kept] \in K /\ g[j - kept] \in K BY <1>16, <1>18
  <2>2. PICK k, l \in f .. A : k = g[i - kept] /\ l = g[j - kept] BY <2>1, <1>10
  <2>3. k \in Int /\ l \in Int BY <2>2, <1>3
  <2>4. k - (f - a - 1) = l - (f - a - 1)
    <3>1. k - (f - a - 1) \in a + 1 .. a + len /\ l - (f - a - 1) \in a + 1 .. a + len BY <1>6
    <3>2. m[k - (f - a - 1)] = m[l - (f - a - 1)] BY <1>6, <2>1, <2>2
    <3> QED BY <3>1, <3>2
  <2>5. k = l BY <2>3, <2>4, <1>3
  <2>6. i - kept = j - kept
    <3>1. i - kept \in 1 .. N /\ j - kept \in 1 .. N BY <1>16
    <3>2. g[i - kept] = g[j - kept] BY <2>2, <2>5
    <3> QED BY <3>1, <3>2, <1>8
  <2>7. i \in Int /\ j \in Int BY <1>13
  <2> QED BY <2>6, <2>7, <1>13
<1>19. ASSUME NEW k \in a + 1 .. a + len, m[k] \notin sp PROVE \E i \in kept + 1 .. A : m3[i] = m[k]
  <2>1. PICK l \in Int : l = k + (f - a - 1) BY <1>3
  <2>2. l \in f .. A /\ l - (f - a - 1) = k BY <2>1, <1>3
  <2>3. R[l] = m[k] BY <2>2, <1>6
  <2>4. l \in K BY <2>2, <2>3, <1>11, <1>19
  <2>5. PICK i \in 1 .. N : g[i] = l BY <2>4, <1>8
  <2>6. i \in Int /\ i >= 1 /\ i <= N BY <1>7
  <2>7. PICK j \in Int : j = kept + i BY <2>6, <1>13, SMTT(30)
  <2>8. j \in kept + 1 .. A /\ j - kept = i BY <2>6, <2>7, <1>7, <1>13
  <2>9. m3[j] = R[g[j - kept]] BY <2>8, <1>16
  <2> QED BY <2>3, <2>5, <2>8, <2>9
<1>20. ASSUME NEW i \in 1 .. n, i \notin kept + 1 .. A PROVE m3[i] = R[i]
  BY <1>14, <1>20
<1>21. \A i \in 1 .. a : m3[i] = m[i]
  <2>1. \A i \in 1 .. a : i \in 1 .. n /\ i \notin kept + 1 .. A BY <1>13
  <2> QED BY <2>1, <1>5, <1>20
<1>22. \A i \in a + 1 .. A - len : m3[i] = m[i + len]
  <2>1. \A i \in a + 1 .. A - len : i \in 1 .. n /\ i \notin kept + 1 .. A /\ i \in a + 1 .. f - 1 BY <1>3, <1>13
  <2> QED BY <2>1, <1>5, <1>20
<1>23. \A i \in A + 1 .. n : m3[i] = m[i]
  <2>1. \A i \in A + 1 .. n : i \in 1 .. n /\ i \notin kept + 1 .. A BY <1>13
  <2> QED BY <2>1, <1>5, <1>20
<1>24. m3 \in [1 .. n -> S]
  <2>1. ASSUME NEW i \in 1 .. n PROVE m3[i] \in S
    <3>1. CASE i \in kept + 1 .. A
      <4>0. g[i - kept] \in f .. A /\ m3[i] = R[g[i - kept]] BY <3>1, <1>10, <1>16
      <4>1. PICK l \in f .. A : m3[i] = R[l] BY <4>0
      <4>2. l \in 1 .. n BY <1>4
      <4> QED BY <4>1, <4>2, <1>5
    <3>2. CASE i \notin kept + 1 .. A BY <3>2, <1>5, <1>20
    <3> QED BY <3>1, <3>2
  <2> QED BY <2>1, <1>15
<1> QED BY <1>13, <1>17, <1>18, <1>19, <1>21, <1>22, <1>23, <1>24 DEF Compacted

(* Two intervals do not overlap.                                           *)
LEMMA Apart ==
  ASSUME NEW c \in Configs, NEW p, PartShape(c, p), Tiled(c, p),
         NEW r \in c.routes, p.routes[r].st # "none", NEW q \in c.routes, p.routes[q].st # "none", q # r
  PROVE  \/ p.routes[q].start + p.routes[q].len <= p.routes[r].start
         \/ p.routes[q].start >= p.routes[r].start + p.routes[r].len
<1>1. p.routes[r] \in Leases /\ p.routes[q] \in Leases BY MappingType
<1>2. PICK a, l, b, k \in Nat : /\ a = p.routes[r].start /\ l = p.routes[r].len /\ l >= 1
                                /\ b = p.routes[q].start /\ k = p.routes[q].len /\ k >= 1
  BY <1>1, LeaseType
<1>3. \A i \in Int : ~(i \in a + 1 .. a + l /\ i \in b + 1 .. b + k)
  <2> SUFFICES ASSUME NEW i \in Int, i \in a + 1 .. a + l, i \in b + 1 .. b + k PROVE FALSE
    OBVIOUS
  <2>1. At(p.routes[r], i) /\ At(p.routes[q], i) BY <1>2 DEF At
  <2> QED BY <2>1 DEF Tiled
<1>4. ~(a + 1 \in b + 1 .. b + k) /\ ~(b + 1 \in a + 1 .. a + l)
  <2>1. a + 1 \in Int /\ a + 1 \in a + 1 .. a + l /\ b + 1 \in Int /\ b + 1 \in b + 1 .. b + k BY <1>2
  <2> QED BY <2>1, <1>3
<1>5. b + k <= a \/ b >= a + l BY <1>2, <1>4
<1> QED BY <1>2, <1>5

(* The interval of a route is not empty and lies in the mapped prefix.     *)
LEMMA Within ==
  ASSUME NEW c \in Configs, NEW p, PartShape(c, p), Tiled(c, p), NEW r \in c.routes, p.routes[r].st # "none"
  PROVE  p.routes[r].start + p.routes[r].len <= p.mapped
<1>1. p.routes[r] \in Leases /\ p.mapped \in Nat BY MappingType
<1>2. PICK a, l \in Nat : a = p.routes[r].start /\ l = p.routes[r].len /\ l >= 1 BY <1>1, LeaseType
<1>3. PICK i \in Int : i = a + l OBVIOUS
<1>4. At(p.routes[r], i) BY <1>2, <1>3 DEF At
<1>5. i \in 1 .. p.mapped BY <1>4 DEF Tiled
<1> QED BY <1>1, <1>2, <1>3, <1>5

(* Outbound::reclaim, the leases.                                          *)
MovedUp(l, a, len) ==
    IF l.st # "none" /\ l.start > a THEN [l EXCEPT !.start = @ - len] ELSE l

Clear(l, a, len) == l.st # "none" => l.start + l.len <= a \/ l.start >= a + len

Moved(l2, l, a, len) ==
    /\ l2 \in Leases /\ l2.st = l.st
    /\ l.st = "retired" => l2.remaining = l.remaining
    /\ \A i \in Int : At(l2, i) <=> (IF i <= a THEN At(l, i) ELSE At(l, i + len))
    /\ l.st # "none" => l2.start = IF l.start > a THEN l.start - len ELSE l.start

LEMMA MovedUpIs ==
  ASSUME NEW l \in Leases, NEW a \in Nat, NEW len \in Nat, Clear(l, a, len), len >= 1
  PROVE  Moved(MovedUp(l, a, len), l, a, len)
<1>1. CASE l.st = "none" BY <1>1 DEF MovedUp, At, Moved
<1>2. CASE l.st # "none"
  <2>1. l.start \in Nat /\ l.len \in Nat /\ l.len >= 1 BY <1>2, LeaseType
  <2>2. CASE l.start > a
    <3>0. l.start >= a + len BY <1>2, <2>1, <2>2 DEF Clear
    <3>1. PICK n \in Nat : n = l.start - len BY <2>1, <3>0
    <3>2. MovedUp(l, a, len) = [l EXCEPT !.start = n] BY <1>2, <2>2, <3>1 DEF MovedUp
    <3>3. /\ MovedUp(l, a, len) \in Leases /\ MovedUp(l, a, len).st = l.st
          /\ MovedUp(l, a, len).start = n /\ MovedUp(l, a, len).len = l.len
          /\ l.st = "retired" => MovedUp(l, a, len).remaining = l.remaining
      BY <1>2, <3>2 DEF Leases
    <3>4. ASSUME NEW i \in Int PROVE At(MovedUp(l, a, len), i) <=> (IF i <= a THEN At(l, i) ELSE At(l, i + len))
      <4>1. At(MovedUp(l, a, len), i) <=> i \in n + 1 .. n + l.len BY <1>2, <3>3 DEF At
      <4>2. At(l, i) <=> i \in l.start + 1 .. l.start + l.len BY <1>2 DEF At
      <4>3. At(l, i + len) <=> i + len \in l.start + 1 .. l.start + l.len BY <1>2 DEF At
      <4> QED BY <4>1, <4>2, <4>3, <3>0, <3>1, <2>1
    <3> QED BY <3>1, <3>3, <3>4, <2>2 DEF Moved
  <2>3. CASE ~(l.start > a)
    <3>0. l.start + l.len <= a BY <1>2, <2>1, <2>3 DEF Clear
    <3>1. MovedUp(l, a, len) = l BY <2>3 DEF MovedUp
    <3>2. ASSUME NEW i \in Int PROVE At(l, i) <=> (IF i <= a THEN At(l, i) ELSE At(l, i + len))
      <4>1. At(l, i) <=> i \in l.start + 1 .. l.start + l.len BY <1>2 DEF At
      <4>2. At(l, i + len) <=> i + len \in l.start + 1 .. l.start + l.len BY <1>2 DEF At
      <4> QED BY <4>1, <4>2, <3>0, <2>1
    <3> QED BY <3>1, <3>2, <2>3 DEF Moved
  <2> QED BY <2>2, <2>3
<1> QED BY <1>1, <1>2

(* Outbound::reclaim.                                                      *)
FreesRoute(c, e, e2, r) ==
    \A s \in OutboundOf(c) :
      IF e[s].owner = r
      THEN e2[s].owner = None /\ e2[s].life = IF e[s].spent THEN "STANDALONE" ELSE "FREE"
      ELSE e2[s].owner = e[s].owner /\ e2[s].life = e[s].life

OthersWait(c, p, e, r) ==
    \A q \in c.routes : q # r /\ p.routes[q].st = "retired" =>
      p.routes[q].remaining = Cardinality(UnmappedOf(c, e, q))

OthersLive(c, p, r) == {q \in c.routes : q # r /\ p.routes[q].st = "live"}

LEMMA PartReclaimed ==
  ASSUME NEW c \in Configs, NEW p, NEW e, PartShape(c, p), Tiled(c, p), Owned(c, p, e), Freed(c, p, e),
         Kinds(c, e), NEW r \in c.routes, p.routes[r].st # "none",
         OthersWait(c, p, e, r), NEW e2, FreesRoute(c, e, e2, r),
         NEW sp, \A s \in OutboundOf(c) : s \in sp <=> e[s].spent,
         NEW p2, p2 = Reclaim(p, r, sp)
  PROVE  PartOK(c, p2, e2, OthersLive(c, p, r)) /\ \A q \in c.routes : q # r => Keeps(p, p2, q)
<1> USE DEF FreesRoute
<1> DEFINE O == c.outbound
           pm == p.mapping
<1>1. /\ pm \in [1 .. O -> OutboundOf(c)] /\ O \in Nat /\ p.routes \in [c.routes -> Leases]
      /\ DOMAIN p.routes = c.routes
  BY MappingType
<1>2. PICK M, A \in Nat : M = p.mapped /\ A = p.allocated /\ M <= A /\ A <= O BY MappingType
<1>3. PICK a, len \in Nat : a = p.routes[r].start /\ len = p.routes[r].len /\ len >= 1 BY <1>1, LeaseType
<1>4. a + len <= M BY <1>2, <1>3, Within
<1>5. \A i \in Int : At(p.routes[r], i) <=> i \in a + 1 .. a + len BY <1>3 DEF At
<1>6. /\ \A i \in 1 .. M, q \in c.routes : At(p.routes[q], i) => e[pm[i]].owner = q
      /\ \A i, j \in 1 .. M : pm[i] = pm[j] => i = j
      /\ \A s \in OutboundOf(c) : e[s].owner # None => \E i \in 1 .. M : pm[i] = s
      /\ \A i \in 1 .. M : \E q \in c.routes : At(p.routes[q], i)
      /\ \A q \in c.routes, i \in Int : At(p.routes[q], i) => i \in 1 .. M
      /\ \A q1, q2 \in c.routes, i \in Int : At(p.routes[q1], i) /\ At(p.routes[q2], i) => q1 = q2
  BY <1>2 DEF Owned, Tiled
<1>7. /\ \A i \in A + 1 .. O : e[pm[i]].life = "FREE"
      /\ \A i, j \in A + 1 .. O : pm[i] = pm[j] => i = j
      /\ \A t \in OutboundOf(c) : e[t].life = "FREE" => \E i \in A + 1 .. O : pm[i] = t
  BY <1>2 DEF Freed
<1> DEFINE R == Rotate(pm, a, a + len, A)
           back == Backward(R, A - len + 1, A, sp)
           kept == A - Len(back)
           m3 == Filled(R, back, kept, A)
           rt2 == [q \in c.routes |-> IF q = r THEN NoLease ELSE MovedUp(p.routes[q], a, len)]
<1>8. p2 = [mapping |-> m3, mapped |-> M - len, allocated |-> kept, routes |-> rt2]
  BY <1>1, <1>2, <1>3 DEF Reclaim, MovedUp, Filled
<1>9. Compacted(OutboundOf(c), O, m3, pm, a, len, A, kept, sp)
  <2>1. \A i, j \in a + 1 .. a + len : pm[i] = pm[j] => i = j
    <3>1. a + 1 .. a + len \subseteq 1 .. M BY <1>4
    <3> QED BY <3>1, <1>6
  <2>2. a + len <= A BY <1>2, <1>4
  <2> HIDE DEF R, pm, O
  <2>3. kept = A - Len(back) /\ m3 = Filled(R, back, kept, A) /\ R = Rotate(pm, a, a + len, A)
        /\ back = Backward(R, A - len + 1, A, sp)
    BY DEF R
  <2> HIDE DEF back, kept, m3
  <2> QED BY <1>1, <1>2, <2>1, <2>2, <2>3, CompactedIs
<1> HIDE DEF R, back, kept, m3, O, pm
<1>10. /\ kept \in A - len .. A
       /\ m3 \in [1 .. O -> OutboundOf(c)]
       /\ \A i \in 1 .. a : m3[i] = pm[i]
       /\ \A i \in a + 1 .. A - len : m3[i] = pm[i + len]
       /\ \A i \in kept + 1 .. A : \E k \in a + 1 .. a + len : m3[i] = pm[k] /\ pm[k] \notin sp
       /\ \A i, j \in kept + 1 .. A : m3[i] = m3[j] => i = j
       /\ \A k \in a + 1 .. a + len : pm[k] \notin sp => \E i \in kept + 1 .. A : m3[i] = pm[k]
       /\ \A i \in A + 1 .. O : m3[i] = pm[i]
  BY <1>9 DEF Compacted
<1>11. kept \in Int /\ kept <= A /\ kept >= M - len /\ kept \in 0 .. O
  <2>1. kept \in A - len .. A BY <1>10
  <2>2. O \in Nat BY <1>1
  <2> QED BY <2>1, <2>2, <1>2, <1>3, <1>4
<1>12. ASSUME NEW q \in c.routes, q # r
       PROVE  /\ rt2[q] = MovedUp(p.routes[q], a, len)
              /\ rt2[q] \in Leases /\ rt2[q].st = p.routes[q].st
              /\ p.routes[q].st = "retired" => rt2[q].remaining = p.routes[q].remaining
              /\ \A i \in Int : At(rt2[q], i) <=> (IF i <= a THEN At(p.routes[q], i) ELSE At(p.routes[q], i + len))
              /\ p.routes[q].st # "none" =>
                   /\ rt2[q].start = IF p.routes[q].start > a THEN p.routes[q].start - len ELSE p.routes[q].start
                   /\ \/ p.routes[q].start + p.routes[q].len <= a
                      \/ p.routes[q].start >= a + len
  <2>1. p.routes[q].st # "none" => \/ p.routes[q].start + p.routes[q].len <= a
                                   \/ p.routes[q].start >= a + len
    BY <1>3, <1>12, Apart
  <2>2. p.routes[q] \in Leases /\ rt2[q] = MovedUp(p.routes[q], a, len) BY <1>1, <1>12
  <2>3. Clear(p.routes[q], a, len) BY <2>1 DEF Clear
  <2>4. Moved(rt2[q], p.routes[q], a, len)
    <3> HIDE DEF rt2
    <3> QED BY <2>2, <2>3, <1>3, MovedUpIs
  <2> HIDE DEF rt2
  <2> QED BY <2>1, <2>2, <2>4 DEF Moved
<1>13. rt2 \in [c.routes -> Leases] /\ rt2[r] = NoLease /\ \A i : ~At(rt2[r], i)
  <2>1. NoLease \in Leases BY DEF Leases, NoLease
  <2> QED BY <2>1, <1>12 DEF At, NoLease
<1> HIDE DEF rt2
<1>14. p2.mapping = m3 /\ p2.mapped = M - len /\ p2.allocated = kept /\ p2.routes = rt2
  BY <1>8
<1>15. PartShape(c, p2)
  <2>1. M - len \in 0 .. kept /\ M - len \in Int BY <1>4, <1>11
  <2>2. p2 \in Parts(c) BY <1>8, <1>10, <1>11, <1>13, <2>1 DEF Parts, O
  <2> QED BY <1>11, <1>14, <2>1, <2>2 DEF PartShape, O
<1>16. ASSUME NEW i \in 1 .. M - len
       PROVE  \/ i <= a /\ i \in 1 .. a /\ i \in 1 .. M /\ i \notin a + 1 .. a + len /\ i \in Int /\ m3[i] = pm[i]
              \/ /\ i > a /\ i + len \in 1 .. M /\ i + len \notin a + 1 .. a + len /\ i + len \in Int
                 /\ i \in Int /\ ~(i <= a) /\ m3[i] = pm[i + len]
  <2>1. CASE i <= a BY <2>1, <1>4, <1>10
  <2>2. CASE ~(i <= a)
    <3>1. i \in a + 1 .. A - len BY <2>2, <1>2, <1>4
    <3>2. i > a /\ i + len \in 1 .. M /\ i + len \notin a + 1 .. a + len /\ i + len \in Int /\ i \in Int BY <2>2, <1>4
    <3> QED BY <3>1, <3>2, <2>2, <1>10
  <2> QED BY <2>1, <2>2
<1>17. Tiled(c, p2)
  <2>1. ASSUME NEW i \in 1 .. M - len PROVE \E q \in c.routes : At(rt2[q], i)
    <3>1. CASE i <= a /\ i \in 1 .. M /\ i \notin a + 1 .. a + len /\ i \in Int
      <4>1. PICK q \in c.routes : At(p.routes[q], i) BY <3>1, <1>6
      <4>2. q # r BY <4>1, <3>1, <1>5
      <4> QED BY <4>1, <4>2, <3>1, <1>12
    <3>2. CASE ~(i <= a) /\ i + len \in 1 .. M /\ i + len \notin a + 1 .. a + len /\ i + len \in Int /\ i \in Int
      <4>1. PICK q \in c.routes : At(p.routes[q], i + len) BY <3>2, <1>6
      <4>2. q # r BY <4>1, <3>2, <1>5
      <4> QED BY <4>1, <4>2, <3>2, <1>12
    <3> QED BY <3>1, <3>2, <1>16
  <2>2. ASSUME NEW q \in c.routes, NEW i \in Int, At(rt2[q], i) PROVE i \in 1 .. M - len
    <3>1. q # r BY <2>2, <1>13
    <3>2. CASE i <= a
      <4>1. i \in 1 .. M BY <3>1, <3>2, <2>2, <1>6, <1>12
      <4> QED BY <4>1, <3>2, <1>4
    <3>3. CASE ~(i <= a)
      <4>1. i + len \in 1 .. M
        <5>1. i + len \in Int /\ At(p.routes[q], i + len) BY <3>1, <3>3, <2>2, <1>12
        <5> QED BY <5>1, <1>6
      <4> QED BY <4>1, <3>3
    <3> QED BY <3>2, <3>3
  <2>3. ASSUME NEW q1 \in c.routes, NEW q2 \in c.routes, NEW i \in Int, At(rt2[q1], i), At(rt2[q2], i)
        PROVE  q1 = q2
    <3>1. q1 # r /\ q2 # r BY <2>3, <1>13
    <3>2. CASE i <= a BY <3>1, <3>2, <2>3, <1>6, <1>12
    <3>3. CASE ~(i <= a)
      <4>1. i + len \in Int /\ At(p.routes[q1], i + len) /\ At(p.routes[q2], i + len) BY <3>1, <3>3, <2>3, <1>12
      <4> QED BY <4>1, <1>6
    <3> QED BY <3>2, <3>3
  <2> QED BY <2>1, <2>2, <2>3, <1>14 DEF Tiled
<1>18. \A i \in 1 .. O : pm[i] \in OutboundOf(c) /\ m3[i] \in OutboundOf(c) BY <1>1, <1>10
<1>19. \A k \in a + 1 .. a + len : k \in 1 .. M /\ k \in 1 .. O /\ pm[k] \in OutboundOf(c) /\ e[pm[k]].owner = r
  <2>1. \A k \in a + 1 .. a + len : k \in 1 .. M /\ k \in 1 .. O /\ k \in Int BY <1>1, <1>2, <1>4
  <2> QED BY <2>1, <1>5, <1>6, <1>18
<1>20. r # None BY ConfigType
<1>21. Owned(c, p2, e2)
  <2>1. ASSUME NEW i \in 1 .. M - len, NEW q \in c.routes, At(rt2[q], i) PROVE e2[m3[i]].owner = q
    <3>1. q # r BY <2>1, <1>13
    <3>2. PICK k \in 1 .. M : m3[i] = pm[k] /\ At(p.routes[q], k)
      <4>1. CASE i <= a /\ i \in 1 .. M /\ m3[i] = pm[i] /\ i \in Int BY <4>1, <3>1, <2>1, <1>12
      <4>2. CASE ~(i <= a) /\ i + len \in 1 .. M /\ m3[i] = pm[i + len] /\ i \in Int BY <4>2, <3>1, <2>1, <1>12
      <4> QED BY <4>1, <4>2, <1>16
    <3>3. e[pm[k]].owner = q /\ k \in 1 .. O BY <3>2, <1>1, <1>2, <1>6
    <3> QED BY <3>1, <3>2, <3>3, <1>18
  <2>2. ASSUME NEW i \in 1 .. M - len, NEW j \in 1 .. M - len, m3[i] = m3[j] PROVE i = j
    <3>1. \A k, l \in 1 .. M : pm[k] = pm[l] => k = l BY <1>6
    <3>2. CASE i <= a /\ j <= a
      <4>1. i \in 1 .. M /\ j \in 1 .. M /\ m3[i] = pm[i] /\ m3[j] = pm[j] BY <3>2, <1>16
      <4> QED BY <4>1, <3>1, <2>2
    <3>3. CASE i <= a /\ ~(j <= a)
      <4>1. i \in 1 .. M /\ j + len \in 1 .. M /\ m3[i] = pm[i] /\ m3[j] = pm[j + len] BY <3>3, <1>16
      <4>2. i = j + len BY <4>1, <3>1, <2>2
      <4> QED BY <4>2, <3>3
    <3>4. CASE ~(i <= a) /\ j <= a
      <4>1. j \in 1 .. M /\ i + len \in 1 .. M /\ m3[j] = pm[j] /\ m3[i] = pm[i + len] BY <3>4, <1>16
      <4>2. j = i + len BY <4>1, <3>1, <2>2
      <4> QED BY <4>2, <3>4
    <3>5. CASE ~(i <= a) /\ ~(j <= a)
      <4>1. i + len \in 1 .. M /\ j + len \in 1 .. M /\ m3[i] = pm[i + len] /\ m3[j] = pm[j + len] BY <3>5, <1>16
      <4>2. i + len = j + len BY <4>1, <3>1, <2>2
      <4> QED BY <4>2
    <3> QED BY <3>2, <3>3, <3>4, <3>5
  <2>3. ASSUME NEW s \in OutboundOf(c), e2[s].owner # None PROVE \E i \in 1 .. M - len : m3[i] = s
    <3>1. e[s].owner # r /\ e[s].owner # None BY <2>3
    <3>2. PICK k \in 1 .. M : pm[k] = s BY <3>1, <1>6
    <3>3. k \notin a + 1 .. a + len BY <3>1, <3>2, <1>19
    <3>4. CASE k <= a
      <4>1. k \in 1 .. a /\ k \in 1 .. M - len BY <3>4, <1>4
      <4> QED BY <4>1, <3>2, <1>10
    <3>5. CASE ~(k <= a)
      <4>1. PICK i \in Int : i = k - len OBVIOUS
      <4>2. i \in a + 1 .. A - len /\ i \in 1 .. M - len /\ i + len = k BY <4>1, <3>3, <3>5, <1>2, <1>4
      <4> QED BY <4>2, <3>2, <1>10
    <3> QED BY <3>4, <3>5
  <2> QED BY <2>1, <2>2, <2>3, <1>14 DEF Owned
<1>22. ASSUME NEW i \in kept + 1 .. O
       PROVE  \/ i \in kept + 1 .. A /\ m3[i] \in OutboundOf(c) /\ e[m3[i]].owner = r /\ ~e[m3[i]].spent
              \/ i \in A + 1 .. O /\ m3[i] = pm[i] /\ m3[i] \in OutboundOf(c) /\ e[m3[i]].life = "FREE"
                 /\ e[m3[i]].owner = None
  <2>1. CASE i <= A
    <3>1. i \in kept + 1 .. A BY <2>1, <1>11
    <3>2. PICK k \in a + 1 .. a + len : m3[i] = pm[k] /\ pm[k] \notin sp BY <3>1, <1>10
    <3> QED BY <3>1, <3>2, <1>19
  <2>2. CASE ~(i <= A)
    <3>1. i \in A + 1 .. O /\ i \in 1 .. O BY <2>2, <1>11
    <3> QED BY <3>1, <1>7, <1>10, <1>18 DEF Kinds
  <2> QED BY <2>1, <2>2
<1>23. Freed(c, p2, e2)
  <2>1. ASSUME NEW i \in kept + 1 .. O PROVE e2[m3[i]].life = "FREE" BY <1>20, <1>22
  <2>2. ASSUME NEW i \in kept + 1 .. O, NEW j \in kept + 1 .. O, m3[i] = m3[j] PROVE i = j
    <3>1. CASE i \in kept + 1 .. A /\ j \in kept + 1 .. A BY <3>1, <2>2, <1>10
    <3>2. CASE i \in A + 1 .. O /\ j \in A + 1 .. O BY <3>2, <2>2, <1>7, <1>10
    <3>3. CASE e[m3[i]].owner # e[m3[j]].owner BY <3>3, <2>2
    <3> QED BY <3>1, <3>2, <3>3, <1>20, <1>22
  <2>3. ASSUME NEW s \in OutboundOf(c), e2[s].life = "FREE" PROVE \E i \in kept + 1 .. O : m3[i] = s
    <3>1. CASE e[s].owner = r
      <4>1. s \notin sp BY <3>1, <2>3
      <4>2. PICK k \in 1 .. M : pm[k] = s /\ At(p.routes[r], k) BY <3>1, <1>2, <1>20, PlaceOf DEF pm
      <4>3. k \in a + 1 .. a + len BY <4>2, <1>5
      <4>4. PICK i \in kept + 1 .. A : m3[i] = s BY <4>1, <4>2, <4>3, <1>10
      <4>5. i \in kept + 1 .. O BY <1>1, <1>2, <1>11
      <4> QED BY <4>4, <4>5
    <3>2. CASE e[s].owner # r
      <4>1. PICK i \in A + 1 .. O : pm[i] = s BY <3>2, <2>3, <1>7
      <4>2. i \in kept + 1 .. O BY <1>11
      <4> QED BY <4>1, <4>2, <1>10
    <3> QED BY <3>1, <3>2
  <2> QED BY <2>1, <2>2, <2>3, <1>14 DEF Freed, O
<1>24. Retiring(c, p2, e2, OthersLive(c, p, r))
  <2>1. OthersLive(c, p, r) = {q \in c.routes : rt2[q].st = "live"}
    <3>1. rt2[r].st # "live" BY <1>13 DEF NoLease
    <3> QED BY <3>1, <1>12 DEF OthersLive
  <2>2. ASSUME NEW q \in c.routes, rt2[q].st = "retired" PROVE rt2[q].remaining = Cardinality(UnmappedOf(c, e2, q))
    <3>1. q # r BY <2>2, <1>13 DEF NoLease
    <3>2. q # None BY ConfigType
    <3>3. UnmappedOf(c, e2, q) = UnmappedOf(c, e, q) BY <3>1, <3>2 DEF UnmappedOf
    <3> QED BY <3>1, <3>3, <2>2, <1>12 DEF OthersWait
  <2> QED BY <2>1, <2>2, <1>14 DEF Retiring
<1>25. ASSUME NEW q \in c.routes, q # r PROVE Keeps(p, p2, q)
  <2>1. ASSUME NEW k \in Nat, At(p.routes[q], p.routes[q].start + k + 1)
        PROVE  /\ At(rt2[q], rt2[q].start + k + 1)
               /\ m3[rt2[q].start + k + 1] = pm[p.routes[q].start + k + 1]
    <3>1. p.routes[q] \in Leases /\ p.routes[q].st # "none" BY <1>1, <2>1 DEF At
    <3>2. PICK b, l \in Nat : b = p.routes[q].start /\ l = p.routes[q].len /\ l >= 1 BY <3>1, LeaseType
    <3>3. b + k + 1 \in Int /\ b + k + 1 \in 1 .. M /\ b + k + 1 \in b + 1 .. b + l
      <4>1. b + k + 1 \in Int OBVIOUS
      <4> QED BY <4>1, <2>1, <3>2, <1>6 DEF At
    <3>4. (b + l <= a \/ b >= a + len) /\ rt2[q].start = IF b > a THEN b - len ELSE b
      BY <3>1, <3>2, <1>12, <1>25
    <3>5. CASE b + l <= a
      <4>1. rt2[q].start = b /\ b + k + 1 \in 1 .. a /\ b + k + 1 <= a BY <3>2, <3>3, <3>4, <3>5
      <4> QED BY <4>1, <3>2, <3>3, <2>1, <1>10, <1>12, <1>25
    <3>6. CASE b >= a + len
      <4>1. PICK i \in Int : i = (b - len) + k + 1 OBVIOUS
      <4>2. /\ rt2[q].start = b - len /\ i + len = b + k + 1 /\ ~(i <= a) /\ i \in a + 1 .. A - len
        BY <4>1, <3>2, <3>3, <3>4, <3>6, <1>2, <1>3
      <4>3. At(rt2[q], i) BY <4>2, <3>2, <3>3, <2>1, <1>12, <1>25
      <4>4. m3[i] = pm[b + k + 1] BY <4>2, <1>10
      <4> QED BY <4>1, <4>2, <4>3, <4>4, <3>2
    <3> QED BY <3>4, <3>5, <3>6
  <2> QED BY <2>1, <1>14 DEF Keeps, pm
<1> QED BY <1>15, <1>17, <1>21, <1>23, <1>24, <1>25 DEF PartOK

(* A slot of a live route is claimed.                                      *)
LEMMA PartAcquired ==
  ASSUME NEW c \in Configs, NEW p, NEW e, NEW rs, PartOK(c, p, e, rs),
         NEW s \in OutboundOf(c), e[s].owner \in rs, NEW e2, SameOwners(c, e, e2), SameFree(c, e, e2),
         \A t \in OutboundOf(c) \ {s} : e2[t].life = "MAPPED" <=> e[t].life = "MAPPED"
  PROVE  PartOK(c, p, e2, rs)
<1>1. PartShape(c, p) /\ Tiled(c, p) /\ Owned(c, p, e2) /\ Freed(c, p, e2) BY OwnedFrame, FreedFrame DEF PartOK
<1>2. ASSUME NEW q \in c.routes, p.routes[q].st = "retired" PROVE UnmappedOf(c, e2, q) = UnmappedOf(c, e, q)
  <2>1. e[s].owner # q BY <1>2 DEF PartOK, Retiring
  <2> QED BY <2>1 DEF UnmappedOf, SameOwners
<1> QED BY <1>1, <1>2 DEF PartOK, Retiring

(* The leases change, and no place does.                                   *)
LEMMA TiledFrame ==
  ASSUME NEW c \in Configs, NEW p, NEW e, PartShape(c, p), Tiled(c, p), Owned(c, p, e), Freed(c, p, e),
         NEW p2 \in Parts(c), p2.mapping = p.mapping, p2.mapped = p.mapped, p2.allocated = p.allocated,
         \A q \in c.routes : \A i \in Int : At(p2.routes[q], i) <=> At(p.routes[q], i)
  PROVE  PartShape(c, p2) /\ Tiled(c, p2) /\ Owned(c, p2, e) /\ Freed(c, p2, e)
<1>0. p.mapped \in Nat BY MappingType
<1>1. PartShape(c, p2) BY DEF PartShape
<1>2. Tiled(c, p2)
  <2>1. \A i \in 1 .. p.mapped : i \in Int BY <1>0
  <2> QED BY <2>1 DEF Tiled
<1>3. Owned(c, p2, e)
  <2>1. \A i \in 1 .. p.mapped : i \in Int BY <1>0
  <2> QED BY <2>1 DEF Owned
<1>4. Freed(c, p2, e) BY DEF Freed
<1> QED BY <1>1, <1>2, <1>3, <1>4

(* Outbound::retire, some slots still in use.                              *)
LEMMA PartRetired ==
  ASSUME NEW c \in Configs, NEW p, NEW e, NEW rs, PartOK(c, p, e, rs), NEW r \in rs,
         NEW left, left = Cardinality(UnmappedOf(c, e, r)), left # 0,
         NEW p2, p2 = [p EXCEPT !.routes[r] =
                         [st |-> "retired", start |-> @.start, len |-> @.len, remaining |-> left]]
  PROVE  PartOK(c, p2, e, rs \ {r}) /\ \A q \in c.routes : Keeps(p, p2, q)
<1>1. PartShape(c, p) /\ Tiled(c, p) /\ Owned(c, p, e) /\ Freed(c, p, e) /\ Retiring(c, p, e, rs)
  BY DEF PartOK
<1>2. r \in c.routes /\ p.routes[r].st = "live" /\ rs = {q \in c.routes : p.routes[q].st = "live"}
  BY <1>1 DEF Retiring
<1>3. left \in Nat \ {0} BY UnmappedFinite
<1>4. p \in Parts(c) /\ p.routes \in [c.routes -> Leases] BY <1>1, MappingType DEF PartShape
<1> DEFINE l == p.routes[r]
           l2 == [st |-> "retired", start |-> l.start, len |-> l.len, remaining |-> left]
<1>5. l.st # "none" /\ l.start \in Nat /\ l.len \in Nat /\ l.len >= 1 /\ l2 \in Leases
  BY <1>2, <1>3, <1>4, LeaseType DEF Leases
<1>6. /\ p2.mapping = p.mapping /\ p2.mapped = p.mapped /\ p2.allocated = p.allocated
      /\ p2.routes = [p.routes EXCEPT ![r] = l2] /\ p2 = [p EXCEPT !.routes = p2.routes]
  BY <1>4 DEF Parts
<1>7. /\ p2.routes \in [c.routes -> Leases] /\ p2.routes[r] = l2
      /\ \A q \in c.routes : q # r => p2.routes[q] = p.routes[q]
  BY <1>2, <1>4, <1>5, <1>6
<1>8. p2 \in Parts(c) BY <1>4, <1>6, <1>7 DEF Parts
<1>9. l2.st = "retired" /\ l2.start = l.start /\ l2.len = l.len /\ l2.remaining = left OBVIOUS
<1> HIDE DEF l2
<1>10. \A i : At(l2, i) <=> At(l, i) BY <1>5, <1>9 DEF At
<1> HIDE DEF l
<1>11. \A q \in c.routes : \A i : At(p2.routes[q], i) <=> At(p.routes[q], i) BY <1>7, <1>10 DEF l
<1>12. PartShape(c, p2) /\ Tiled(c, p2) /\ Owned(c, p2, e) /\ Freed(c, p2, e)
  BY <1>1, <1>6, <1>8, <1>11, TiledFrame
<1>13. Retiring(c, p2, e, rs \ {r})
  <2>1. rs \ {r} = {q \in c.routes : p2.routes[q].st = "live"} BY <1>2, <1>7, <1>9
  <2>2. ASSUME NEW q \in c.routes, p2.routes[q].st = "retired"
        PROVE  p2.routes[q].remaining = Cardinality(UnmappedOf(c, e, q))
    <3>1. CASE q = r BY <3>1, <1>7, <1>9
    <3>2. CASE q # r BY <3>2, <2>2, <1>1, <1>7 DEF Retiring
    <3> QED BY <3>1, <3>2
  <2> QED BY <2>1, <2>2 DEF Retiring
<1>14. ASSUME NEW q \in c.routes PROVE Keeps(p, p2, q)
  <2>1. p.routes[q].st # "none" => p2.routes[q].start = p.routes[q].start BY <1>7, <1>9 DEF l
  <2>2. \A k : At(p.routes[q], k) => p.routes[q].st # "none" BY DEF At
  <2> QED BY <2>1, <2>2, <1>6, <1>11 DEF Keeps
<1> QED BY <1>12, <1>13, <1>14 DEF PartOK

(* Domain::release_slot of a retired route that has more to come.          *)
LEMMA PartLess ==
  ASSUME NEW c \in Configs, NEW p, NEW e, NEW rs, PartOK(c, p, e, rs),
         NEW s \in OutboundOf(c), NEW r \in c.routes, e[s].owner = r, e[s].life # "MAPPED",
         p.routes[r].st = "retired", p.routes[r].remaining > 1,
         NEW e2, SameOwners(c, e, e2), SameFree(c, e, e2), e2[s].life = "MAPPED",
         \A t \in OutboundOf(c) \ {s} : e2[t].life = "MAPPED" <=> e[t].life = "MAPPED",
         NEW p2, p2 = [p EXCEPT !.routes[r].remaining = @ - 1]
  PROVE  PartOK(c, p2, e2, rs) /\ \A q \in c.routes : Keeps(p, p2, q)
<1>1. PartShape(c, p) /\ Tiled(c, p) /\ Owned(c, p, e) /\ Freed(c, p, e) /\ Retiring(c, p, e, rs)
  BY DEF PartOK
<1>2. Owned(c, p, e2) /\ Freed(c, p, e2) BY <1>1, OwnedFrame, FreedFrame
<1>4. p \in Parts(c) /\ p.routes \in [c.routes -> Leases] BY <1>1, MappingType DEF PartShape
<1> DEFINE l == p.routes[r]
           l2 == [l EXCEPT !.remaining = @ - 1]
<1>5. /\ l2 \in Leases /\ l2.st = "retired" /\ l2.start = l.start /\ l2.len = l.len
      /\ l2.remaining = l.remaining - 1 /\ l.remaining \in Nat
  BY <1>4 DEF Leases
<1>6. /\ p2.mapping = p.mapping /\ p2.mapped = p.mapped /\ p2.allocated = p.allocated
      /\ p2.routes = [p.routes EXCEPT ![r] = l2] /\ p2 = [p EXCEPT !.routes = p2.routes]
  BY <1>4 DEF Parts
<1>7. /\ p2.routes \in [c.routes -> Leases] /\ p2.routes[r] = l2
      /\ \A q \in c.routes : q # r => p2.routes[q] = p.routes[q]
  BY <1>4, <1>5, <1>6
<1>8. p2 \in Parts(c) BY <1>4, <1>6, <1>7 DEF Parts
<1> HIDE DEF l2
<1>10. \A i : At(l2, i) <=> At(l, i) BY <1>5 DEF At
<1> HIDE DEF l
<1>11. \A q \in c.routes : \A i : At(p2.routes[q], i) <=> At(p.routes[q], i) BY <1>7, <1>10 DEF l
<1>12. PartShape(c, p2) /\ Tiled(c, p2) /\ Owned(c, p2, e2) /\ Freed(c, p2, e2)
  BY <1>1, <1>2, <1>6, <1>8, <1>11, TiledFrame
<1>13. Retiring(c, p2, e2, rs)
  <2>1. rs = {q \in c.routes : p.routes[q].st = "live"} BY <1>1 DEF Retiring
  <2>2. rs = {q \in c.routes : p2.routes[q].st = "live"} BY <2>1, <1>5, <1>7 DEF l
  <2>3. ASSUME NEW q \in c.routes, p2.routes[q].st = "retired"
        PROVE  p2.routes[q].remaining = Cardinality(UnmappedOf(c, e2, q))
    <3>1. CASE q = r
      <4>1. l.remaining = Cardinality(UnmappedOf(c, e, r)) BY <1>1 DEF Retiring, l
      <4>2. s \in UnmappedOf(c, e, r) BY DEF UnmappedOf
      <4>3. UnmappedOf(c, e2, r) = UnmappedOf(c, e, r) \ {s} BY DEF UnmappedOf, SameOwners
      <4>4. Cardinality(UnmappedOf(c, e2, r)) = Cardinality(UnmappedOf(c, e, r)) - 1
        BY <4>2, <4>3, UnmappedFinite, FS_RemoveElement, ZenonT(60)
      <4> QED BY <4>1, <4>4, <3>1, <1>5, <1>7
    <3>2. CASE q # r
      <4>1. UnmappedOf(c, e2, q) = UnmappedOf(c, e, q) BY <3>2 DEF UnmappedOf, SameOwners
      <4> QED BY <4>1, <3>2, <2>3, <1>1, <1>7 DEF Retiring
    <3> QED BY <3>1, <3>2
  <2> QED BY <2>2, <2>3 DEF Retiring
<1>14. ASSUME NEW q \in c.routes PROVE Keeps(p, p2, q)
  <2>1. p2.routes[q].start = p.routes[q].start BY <1>5, <1>7 DEF l
  <2> QED BY <2>1, <1>6, <1>11 DEF Keeps
<1> QED BY <1>12, <1>13, <1>14 DEF PartOK
-----------------------------------------------------------------------------
(* Stores.                                                                 *)

St(e, q, n, p) == [e |-> e, q |-> q, n |-> n, p |-> p]
Put(e, s, x) == [e EXCEPT ![s] = x]

LEMMA PutIs ==
  ASSUME NEW S, NEW T, NEW e \in [S -> T], NEW s \in S, NEW x
  PROVE  /\ Put(e, s, x)[s] = x /\ \A t \in S \ {s} : Put(e, s, x)[t] = e[t]
         /\ x \in T => Put(e, s, x) \in [S -> T]
         /\ \A y : Put(Put(e, s, x), s, y) = Put(e, s, y)
         /\ Put(e, s, e[s]) = e
BY DEF Put

(* Outbound::reclaim.                                                      *)
FreeEntry(x) == [x EXCEPT !.owner = None, !.life = IF x.spent THEN "STANDALONE" ELSE "FREE"]

FreeAll(c, e, r) ==
    [t \in SlotsOf(c) |-> IF t \in OutboundOf(c) /\ e[t].owner = r THEN FreeEntry(e[t]) ELSE e[t]]

LEMMA FreeEntryIs ==
  ASSUME NEW c \in Configs, NEW x \in Entries(c)
  PROVE  /\ FreeEntry(x) \in Entries(c) /\ FreeEntry(x).owner = None
         /\ FreeEntry(x).life = IF x.spent THEN "STANDALONE" ELSE "FREE"
         /\ FreeEntry(x).phase = x.phase /\ FreeEntry(x).flying = x.flying /\ FreeEntry(x).word = x.word
BY DEF FreeEntry, Entries, Lives

LEMMA ReclaimIs ==
  ASSUME config \in Configs, NEW e \in [SlotsOf(config) -> Entries(config)], NEW q, NEW n, NEW p,
         PartShape(config, p), Tiled(config, p), Owned(config, p, e), Freed(config, p, e), Kinds(config, e),
         NEW r \in config.routes, p.routes[r].st # "none",
         OthersWait(config, p, e, r), NEW e2, e2 = FreeAll(config, e, r)
  PROVE  /\ e2 \in [SlotsOf(config) -> Entries(config)]
         /\ \E p2 : /\ ReclaimRoute(St(e, q, n, p), r) = St(e2, q, n, p2)
                    /\ PartOK(config, p2, e2, OthersLive(config, p, r))
                    /\ \A k \in config.routes : k # r => Keeps(p, p2, k)
<1> DEFINE d == St(e, q, n, p)
           sp == Spent(d)
           p2 == Reclaim(p, r, sp)
<1>1. Slots = SlotsOf(config) /\ OutboundSlots = OutboundOf(config) BY SlotsAre
<1>2. OutboundOf(config) \subseteq SlotsOf(config) BY SlotKinds
<1>3. Extent(p, r) = {s \in OutboundOf(config) : e[s].owner = r} BY ExtentIs
<1>4. d = [e |-> e, q |-> q, n |-> n, p |-> p] BY DEF St
<1>5. e2 = [s \in Slots |-> IF s \notin Extent(p, r) THEN e[s]
                            ELSE [e[s] EXCEPT !.owner = None, !.life = IF e[s].spent THEN "STANDALONE" ELSE "FREE"]]
  BY <1>1, <1>3 DEF FreeAll, FreeEntry
<1>6. ReclaimRoute(d, r) = St(e2, q, n, p2)
  <2> DEFINE ee == [s \in Slots |->
                      IF s \notin Extent(d.p, r) THEN d.e[s]
                      ELSE [d.e[s] EXCEPT !.owner = None,
                            !.life = IF d.e[s].spent THEN "STANDALONE" ELSE "FREE"]]
  <2>1. ee = e2
    <3>1. d.p = p /\ d.e = e BY <1>4
    <3> HIDE DEF d
    <3> QED BY <3>1, <1>5
  <2>2. ReclaimRoute(d, r) = [d EXCEPT !.p = Reclaim(@, r, Spent(d)), !.e = ee]
    BY DEF ReclaimRoute
  <2> HIDE DEF ee
  <2> QED BY <1>4, <2>1, <2>2 DEF St
<1>7. \A s \in OutboundOf(config) : s \in sp <=> e[s].spent BY <1>1, <1>4 DEF Spent
<1>8. \A s \in SlotsOf(config) : e[s] \in Entries(config) OBVIOUS
<1>9. FreesRoute(config, e, e2, r) BY <1>2, <1>8, FreeEntryIs DEF FreeAll, FreesRoute
<1>10. e2 \in [SlotsOf(config) -> Entries(config)] BY <1>8, FreeEntryIs DEF FreeAll
<1> HIDE DEF sp, d
<1>11. PartOK(config, p2, e2, OthersLive(config, p, r)) /\ \A k \in config.routes : k # r => Keeps(p, p2, k)
  <2> HIDE DEF p2
  <2>1. p2 = Reclaim(p, r, sp) BY DEF p2
  <2> QED BY <2>1, <1>7, <1>9, PartReclaimed
<1> HIDE DEF p2
<1> QED BY <1>6, <1>10, <1>11 DEF d

(* Domain::release_slot: besides s, whole intervals may be freed.          *)
Mapped(e, s) == Put(e, s, [e[s] EXCEPT !.life = "MAPPED"])

Swept(c, e, e2, G) ==
    \A t \in SlotsOf(c) : IF t \in G THEN e[t].life = "MAPPED" /\ e2[t] = FreeEntry(e[t]) ELSE e2[t] = e[t]

Released(c, e, q, n, p, rs, s, e2, p2, G) ==
    /\ ReleaseSlot(St(e, q, n, p), s) = St(e2, q, n, p2)
    /\ PartOK(c, p2, e2, rs)
    /\ Swept(c, Mapped(e, s), e2, G)
    /\ \A t \in OutboundOf(c) : t \notin G /\ e[t].owner # None => Keeps(p, p2, e[t].owner)

LEMMA ReleaseSlotIs ==
  ASSUME config \in Configs, NEW e \in [SlotsOf(config) -> Entries(config)], NEW q, NEW n, NEW p, NEW rs,
         PartOK(config, p, e, rs), Kinds(config, e),
         NEW s \in OutboundOf(config), e[s].owner # None, e[s].life # "MAPPED"
  PROVE  \E p2 : \E e2 \in [SlotsOf(config) -> Entries(config)], G \in SUBSET OutboundOf(config) :
           Released(config, e, q, n, p, rs, s, e2, p2, G)
<1> DEFINE r == e[s].owner
           m == Mapped(e, s)
           x2 == [e[s] EXCEPT !.life = "MAPPED"]
           d == St(e, q, n, p)
           l == p.routes[r]
<1>1. OutboundOf(config) \subseteq SlotsOf(config) /\ s \in SlotsOf(config) BY SlotKinds
<1>2. PartShape(config, p) /\ Tiled(config, p) /\ Owned(config, p, e) /\ Freed(config, p, e) /\ Retiring(config, p, e, rs)
  BY DEF PartOK
<1>3. r \in config.routes /\ r # None /\ l.st # "none"
  <2>1. PICK i \in 1 .. p.mapped : At(p.routes[r], i) BY <1>2, PlaceOf
  <2> QED BY <2>1, <1>2, PlaceOf DEF At
<1>4. x2 \in Entries(config) /\ x2.owner = r /\ x2.life = "MAPPED" /\ x2.spent = e[s].spent
  <2>1. e[s] \in Entries(config) BY <1>1
  <2> QED BY <2>1 DEF Entries, Lives
<1>5. m \in [SlotsOf(config) -> Entries(config)] /\ m[s] = x2 /\ \A t \in SlotsOf(config) \ {s} : m[t] = e[t]
  <2> HIDE DEF x2
  <2>1. m = Put(e, s, x2) BY DEF Mapped, x2
  <2> QED BY <2>1, <1>1, <1>4, PutIs
<1>6. Live(d, s, "MAPPED") = St(m, q, n, p) BY <1>1 DEF Live, St, Mapped, Put
<1>7. ReleaseSlot(d, s) = IF l.st # "retired" THEN St(m, q, n, p)
                          ELSE IF l.remaining > 1 THEN [St(m, q, n, p) EXCEPT !.p.routes[r].remaining = @ - 1]
                          ELSE ReclaimRoute(St(m, q, n, p), r)
  BY <1>6 DEF ReleaseSlot, St
<1> HIDE DEF m, x2, d
<1>8. SameOwners(config, e, m) BY <1>1, <1>4, <1>5 DEF SameOwners
<1>9. SameFree(config, e, m) BY <1>1, <1>3, <1>4, <1>5 DEF SameFree, Kinds
<1>10. \A t \in OutboundOf(config) \ {s} : m[t].life = "MAPPED" <=> e[t].life = "MAPPED" BY <1>1, <1>5
<1>11. p.routes \in [config.routes -> Leases] BY <1>2, MappingType
<1>12. CASE l.st # "retired"
  <2>1. l.st = "live" BY <1>3, <1>11, <1>12 DEF Leases
  <2>2. r \in rs BY <2>1, <1>2, <1>3 DEF Retiring
  <2>3. PartOK(config, p, m, rs) BY <2>2, <1>8, <1>9, <1>10, PartAcquired
  <2>4. Swept(config, m, m, {}) BY DEF Swept
  <2>5. \A k : Keeps(p, p, k) BY DEF Keeps
  <2>6. ReleaseSlot(d, s) = St(m, q, n, p) BY <1>7, <1>12
  <2>7. Released(config, e, q, n, p, rs, s, m, p, {}) BY <2>3, <2>4, <2>5, <2>6 DEF d, m, Released
  <2> QED BY <2>7, <1>5
<1>13. CASE l.st = "retired" /\ l.remaining > 1
  <2> DEFINE p2 == [p EXCEPT !.routes[r].remaining = @ - 1]
  <2>1. ReleaseSlot(d, s) = St(m, q, n, p2) BY <1>7, <1>13 DEF St
  <2>2. PartOK(config, p2, m, rs) /\ \A k \in config.routes : Keeps(p, p2, k)
    <3>1. m[s].life = "MAPPED" BY <1>4, <1>5
    <3> HIDE DEF p2
    <3>2. PICK rr \in config.routes : rr = r BY <1>3
    <3>3. p2 = [p EXCEPT !.routes[rr].remaining = @ - 1] BY <3>2 DEF p2
    <3> QED BY <3>1, <3>2, <3>3, <1>8, <1>9, <1>10, <1>13, PartLess
  <2>3. Swept(config, m, m, {}) BY DEF Swept
  <2>4. \A t \in OutboundOf(config) : e[t].owner # None => e[t].owner \in config.routes BY DEF Kinds
  <2> HIDE DEF p2
  <2>5. Released(config, e, q, n, p, rs, s, m, p2, {}) BY <2>1, <2>2, <2>3, <2>4 DEF d, m, Released
  <2> QED BY <2>5, <1>5
<1>14. CASE l.st = "retired" /\ ~(l.remaining > 1)
  <2>1. l.remaining = 1 BY <1>11, <1>14, <1>3 DEF Leases
  <2>2. Cardinality(UnmappedOf(config, e, r)) = 1 /\ s \in UnmappedOf(config, e, r)
    BY <2>1, <1>2, <1>3, <1>14 DEF Retiring, UnmappedOf
  <2>3. UnmappedOf(config, e, r) \ {s} = {}
    <3>1. IsFiniteSet(UnmappedOf(config, e, r)) BY UnmappedFinite
    <3>2. /\ IsFiniteSet(UnmappedOf(config, e, r) \ {s})
          /\ Cardinality(UnmappedOf(config, e, r) \ {s}) = Cardinality(UnmappedOf(config, e, r)) - 1
      BY <2>2, <3>1, FS_RemoveElement
    <3>3. Cardinality(UnmappedOf(config, e, r) \ {s}) = 0 BY <2>2, <3>2
    <3> QED BY <3>2, <3>3, FS_EmptySet
  <2>4. Owned(config, p, m) /\ Freed(config, p, m) BY <1>2, <1>8, <1>9, OwnedFrame, FreedFrame
  <2>5. Kinds(config, m)
    <3>1. ASSUME NEW t \in OutboundOf(config) PROVE m[t].owner \in config.routes \cup {None} /\ (m[t].owner = None <=> m[t].life \in {"FREE", "STANDALONE"})
      <4>1. CASE t = s BY <4>1, <1>3, <1>4, <1>5
      <4>2. CASE t # s
        <5>1. m[t] = e[t] BY <4>2, <1>1, <1>5
        <5> QED BY <5>1 DEF Kinds
      <4> QED BY <4>1, <4>2
    <3> QED BY <3>1 DEF Kinds
  <2>6. rs = OthersLive(config, p, r) BY <1>2, <1>14 DEF Retiring, OthersLive
  <2>7. OthersWait(config, p, m, r)
    <3>1. \A k \in config.routes : k # r => UnmappedOf(config, m, k) = UnmappedOf(config, e, k)
      BY <1>8, <1>10 DEF UnmappedOf, SameOwners
    <3> QED BY <3>1, <1>2 DEF Retiring, OthersWait
  <2> DEFINE e2 == FreeAll(config, m, r)
             G == {t \in OutboundOf(config) : m[t].owner = r}
  <2>8. PICK p2 : /\ ReclaimRoute(St(m, q, n, p), r) = St(e2, q, n, p2)
                  /\ e2 \in [SlotsOf(config) -> Entries(config)]
                  /\ PartOK(config, p2, e2, rs)
                  /\ \A k \in config.routes : k # r => Keeps(p, p2, k)
    <3>1. e2 = FreeAll(config, m, r) OBVIOUS
    <3> HIDE DEF r, e2
    <3> QED BY <3>1, <1>2, <1>3, <1>5, <2>4, <2>5, <2>6, <2>7, ReclaimIs
  <2>9. Swept(config, m, e2, G)
    <3>1. ASSUME NEW t \in G PROVE t \in SlotsOf(config) /\ m[t].life = "MAPPED" /\ e2[t] = FreeEntry(m[t])
      <4>1. t \in OutboundOf(config) /\ m[t].owner = r /\ t \in SlotsOf(config) BY <1>1
      <4>2. CASE t = s BY <4>1, <4>2, <1>4, <1>5 DEF FreeAll
      <4>3. CASE t # s
        <5>1. e[t].owner = r /\ m[t] = e[t] BY <4>1, <4>3, <1>5
        <5>2. e[t].life = "MAPPED" BY <5>1, <4>1, <4>3, <2>3 DEF UnmappedOf
        <5> QED BY <5>1, <5>2, <4>1 DEF FreeAll
      <4> QED BY <4>2, <4>3
    <3>2. ASSUME NEW t \in SlotsOf(config), t \notin G PROVE e2[t] = m[t]
      BY <3>2 DEF FreeAll
    <3> QED BY <3>1, <3>2 DEF Swept
  <2>10. ASSUME NEW t \in OutboundOf(config), t \notin G, e[t].owner # None PROVE Keeps(p, p2, e[t].owner)
    <3>1. e[t].owner \in config.routes BY <2>10 DEF Kinds
    <3>2. e[t].owner # r BY <2>10, <1>8 DEF SameOwners
    <3> QED BY <3>1, <3>2, <2>8
  <2>11. ReleaseSlot(d, s) = St(e2, q, n, p2) BY <2>8, <1>7, <1>14
  <2>12. G \in SUBSET OutboundOf(config) OBVIOUS
  <2> HIDE DEF e2, G
  <2>13. Released(config, e, q, n, p, rs, s, e2, p2, G) BY <2>8, <2>9, <2>10, <2>11 DEF d, m, Released
  <2> QED BY <2>8, <2>12, <2>13
<1> QED BY <1>12, <1>13, <1>14

(* The operations on the entry of a slot.                                  *)
StatusOf(x, ph, ls) == [x EXCEPT !.phase = ph, !.lease = ls]
LifeOf(x, l) == [x EXCEPT !.life = l]
ClaimOf(x) == [x EXCEPT !.word = Zero, !.phase = "Ready", !.lease = TRUE]
Advanced(c, x) == [x EXCEPT !.gen = GenAfter(c, x), !.spent = SpentAfter(c, x)]

LEMMA StatusPut ==
  ASSUME NEW e, NEW s \in DOMAIN e, NEW x, NEW q, NEW n, NEW p, NEW ph, NEW ls
  PROVE  Status(St(Put(e, s, x), q, n, p), s, ph, ls) = St(Put(e, s, StatusOf(x, ph, ls)), q, n, p)
<1>1. /\ StatusOf(x, ph, ls) = [[x EXCEPT !.phase = ph] EXCEPT !.lease = ls]
      /\ Status(St(Put(e, s, x), q, n, p), s, ph, ls) =
           [[St(Put(e, s, x), q, n, p) EXCEPT !.e[s].phase = ph] EXCEPT !.e[s].lease = ls]
  BY DEF Status, StatusOf
<1>2. [St(Put(e, s, x), q, n, p) EXCEPT !.e[s].phase = ph] = St(Put(e, s, [x EXCEPT !.phase = ph]), q, n, p)
  BY DEF St, Put
<1>3. \A y : [St(Put(e, s, y), q, n, p) EXCEPT !.e[s].lease = ls] = St(Put(e, s, [y EXCEPT !.lease = ls]), q, n, p)
  BY DEF St, Put
<1> QED BY <1>1, <1>2, <1>3

LEMMA LivePut ==
  ASSUME NEW e, NEW s \in DOMAIN e, NEW x, NEW q, NEW n, NEW p, NEW l
  PROVE  Live(St(Put(e, s, x), q, n, p), s, l) = St(Put(e, s, LifeOf(x, l)), q, n, p)
BY DEF Live, St, Put, LifeOf

LEMMA ClaimedPut ==
  ASSUME NEW e, NEW s \in DOMAIN e, NEW x, NEW q, NEW n, NEW p
  PROVE  Claimed(St(Put(e, s, x), q, n, p), s) = St(Put(e, s, ClaimOf(x)), q, n, p)
<1>1. PICK y : y = [x EXCEPT !.word = Zero] OBVIOUS
<1>2. [St(Put(e, s, x), q, n, p) EXCEPT !.e[s].word = Zero] = St(Put(e, s, y), q, n, p)
  BY <1>1 DEF St, Put
<1>3. ClaimOf(x) = StatusOf(y, "Ready", TRUE) BY <1>1 DEF ClaimOf, StatusOf
<1>4. Claimed(St(Put(e, s, x), q, n, p), s) = Status(St(Put(e, s, y), q, n, p), s, "Ready", TRUE)
  BY <1>2 DEF Claimed
<1>5. Status(St(Put(e, s, y), q, n, p), s, "Ready", TRUE) = St(Put(e, s, StatusOf(y, "Ready", TRUE)), q, n, p)
  <2>1. PICK b : b = TRUE OBVIOUS
  <2>2. Status(St(Put(e, s, y), q, n, p), s, "Ready", b) = St(Put(e, s, StatusOf(y, "Ready", b)), q, n, p)
    BY StatusPut
  <2> QED BY <2>1, <2>2
<1> QED BY <1>3, <1>4, <1>5

LEMMA AdvancePut ==
  ASSUME config \in Configs, NEW e, NEW s \in DOMAIN e, NEW x \in Entries(config), NEW q, NEW n, NEW p
  PROVE  Advance(St(Put(e, s, x), q, n, p), s) = St(Put(e, s, Advanced(config, x)), q, n, p)
<1>1. CASE x.gen = config.gens
  <2>1. Advanced(config, x) = [x EXCEPT !.spent = TRUE]
    BY <1>1 DEF Advanced, GenAfter, SpentAfter, Entries
  <2>2. Advance(St(Put(e, s, x), q, n, p), s) = St(Put(e, s, [x EXCEPT !.spent = TRUE]), q, n, p)
    BY <1>1 DEF Advance, St, Put
  <2> QED BY <2>1, <2>2
<1>2. CASE x.gen # config.gens
  <2>1. Advanced(config, x) = [x EXCEPT !.gen = @ + 1]
    BY <1>2 DEF Advanced, GenAfter, SpentAfter, Entries
  <2>2. Advance(St(Put(e, s, x), q, n, p), s) = St(Put(e, s, [x EXCEPT !.gen = @ + 1]), q, n, p)
    BY <1>2 DEF Advance, St, Put
  <2> QED BY <2>1, <2>2
<1> QED BY <1>1, <1>2

(* retire::queue.                                                          *)
WordOf(q, x) == IF x.flying THEN x.word ELSE q.heads[q.active]
Headed(q, s, flying) == IF flying THEN q ELSE [q EXCEPT !.heads[q.active] = s]

WordTo(x, w) == [x EXCEPT !.word = w]

LEMMA QueuePut ==
  ASSUME NEW c \in Configs, NEW e, NEW s \in DOMAIN e, NEW x \in Entries(c), NEW q, NEW n, NEW p
  PROVE  Queue(St(Put(e, s, x), q, n, p), s) =
           St(Put(e, s, WordTo(x, WordOf(q, x))), Headed(q, s, x.flying), n, p)
<1> DEFINE d == St(Put(e, s, x), q, n, p)
<1>1. d.e[s] = x /\ d.q = q BY DEF St, Put
<1>2. CASE x.flying
  <2>1. WordTo(x, WordOf(q, x)) = x BY <1>2 DEF WordOf, WordTo, Entries
  <2> QED BY <1>1, <1>2, <2>1 DEF Queue, Headed
<1>3. CASE ~x.flying
  <2>1. PICK a, w, f : a = q.active /\ w = q.heads[a] /\ f = Put(e, s, WordTo(x, w)) OBVIOUS
  <2>2. Push(d, s) = [[d EXCEPT !.e[s].word = w] EXCEPT !.q.heads[a] = s] BY <1>1, <2>1 DEF Push
  <2>3. [d EXCEPT !.e[s].word = w] = St(f, q, n, p) BY <2>1 DEF St, Put, WordTo
  <2>4. [St(f, q, n, p) EXCEPT !.q.heads[a] = s] = St(f, [q EXCEPT !.heads[a] = s], n, p) BY DEF St
  <2>5. Push(d, s) = St(f, [q EXCEPT !.heads[a] = s], n, p) BY <2>2, <2>3, <2>4
  <2> QED BY <1>1, <1>3, <2>1, <2>5 DEF Queue, Headed, WordOf
<1> QED BY <1>2, <1>3

RetiredOf(c, x, w) == [Advanced(c, x) EXCEPT !.phase = "Pending", !.lease = FALSE, !.word = w]

LEMMA ReleaseEnqueuePut ==
  ASSUME config \in Configs, NEW e, NEW s \in DOMAIN e, NEW x \in Entries(config), NEW q, NEW n, NEW p
  PROVE  ReleaseEnqueue(St(Put(e, s, x), q, n, p), s) =
           St(Put(e, s, RetiredOf(config, x, WordOf(q, x))), Headed(q, s, x.flying), n, p)
<1>0. PICK y : y = Advanced(config, x) OBVIOUS
<1>00. PICK z : z = StatusOf(y, "Pending", FALSE) OBVIOUS
<1>1. y \in Entries(config) /\ y.flying = x.flying /\ y.word = x.word BY <1>0, AfterType DEF Advanced, Entries
<1>2. z \in Entries(config) /\ z.flying = x.flying /\ z.word = x.word BY <1>00, <1>1 DEF Entries, StatusOf
<1>3. WordTo(z, WordOf(q, z)) = RetiredOf(config, x, WordOf(q, x))
  BY <1>0, <1>00, <1>2 DEF WordOf, WordTo, StatusOf, RetiredOf
<1>4. Status(Advance(St(Put(e, s, x), q, n, p), s), s, "Pending", FALSE) = St(Put(e, s, z), q, n, p)
  <2>1. Advance(St(Put(e, s, x), q, n, p), s) = St(Put(e, s, y), q, n, p) BY <1>0, AdvancePut
  <2>2. Status(St(Put(e, s, y), q, n, p), s, "Pending", FALSE) = St(Put(e, s, StatusOf(y, "Pending", FALSE)), q, n, p)
    <3>1. PICK b : b = FALSE OBVIOUS
    <3>2. Status(St(Put(e, s, y), q, n, p), s, "Pending", b) = St(Put(e, s, StatusOf(y, "Pending", b)), q, n, p)
      BY StatusPut
    <3> QED BY <3>1, <3>2
  <2> QED BY <2>1, <2>2, <1>00
<1>5. Queue(St(Put(e, s, z), q, n, p), s) = St(Put(e, s, WordTo(z, WordOf(q, z))), Headed(q, s, z.flying), n, p)
  BY <1>2, QueuePut
<1> QED BY <1>2, <1>3, <1>4, <1>5 DEF ReleaseEnqueue

QueuedOf(x, w) == [x EXCEPT !.phase = "Pending", !.word = w]

LEMMA EnqueuePut ==
  ASSUME config \in Configs, NEW e, NEW s \in DOMAIN e, NEW x \in Entries(config), NEW q, NEW n, NEW p
  PROVE  Enqueue(St(Put(e, s, x), q, n, p), s) =
           St(Put(e, s, QueuedOf(x, WordOf(q, x))), Headed(q, s, x.flying), n, p)
<1>0. PICK z : z = [x EXCEPT !.phase = "Pending"] OBVIOUS
<1>1. z \in Entries(config) /\ z.flying = x.flying /\ z.word = x.word BY <1>0 DEF Entries
<1>2. WordTo(z, WordOf(q, z)) = QueuedOf(x, WordOf(q, x)) BY <1>0, <1>1 DEF WordOf, WordTo, QueuedOf
<1>3. [St(Put(e, s, x), q, n, p) EXCEPT !.e[s].phase = "Pending"] = St(Put(e, s, z), q, n, p) BY <1>0 DEF St, Put
<1>4. Queue(St(Put(e, s, z), q, n, p), s) = St(Put(e, s, WordTo(z, WordOf(q, z))), Headed(q, s, z.flying), n, p)
  BY <1>1, QueuePut
<1> QED BY <1>1, <1>2, <1>3, <1>4 DEF Enqueue

ReleasedOf(c, x) ==
    StatusOf(Advanced(c, x), IF x.phase \in {"Ready", "Quiescent"} THEN "Ready" ELSE x.phase, FALSE)

LEMMA ReleaseOnlyPut ==
  ASSUME config \in Configs, NEW e, NEW s \in DOMAIN e, NEW x \in Entries(config), NEW q, NEW n, NEW p
  PROVE  ReleaseOnly(St(Put(e, s, x), q, n, p), s) = St(Put(e, s, ReleasedOf(config, x)), q, n, p)
<1>1. St(Put(e, s, x), q, n, p).e[s].phase = x.phase BY DEF St, Put
<1>2. Advance(St(Put(e, s, x), q, n, p), s) = St(Put(e, s, Advanced(config, x)), q, n, p) BY AdvancePut
<1>3. PICK ph : ph = IF x.phase \in {"Ready", "Quiescent"} THEN "Ready" ELSE x.phase OBVIOUS
<1>4. ReleaseOnly(St(Put(e, s, x), q, n, p), s) = Status(St(Put(e, s, Advanced(config, x)), q, n, p), s, ph, FALSE)
  BY <1>1, <1>2, <1>3 DEF ReleaseOnly
<1>5. Status(St(Put(e, s, Advanced(config, x)), q, n, p), s, ph, FALSE) =
        St(Put(e, s, StatusOf(Advanced(config, x), ph, FALSE)), q, n, p)
  <2>1. PICK b : b = FALSE OBVIOUS
  <2>2. Status(St(Put(e, s, Advanced(config, x)), q, n, p), s, ph, b) =
        St(Put(e, s, StatusOf(Advanced(config, x), ph, b)), q, n, p)
    BY StatusPut
  <2> QED BY <2>1, <2>2
<1> QED BY <1>3, <1>4, <1>5 DEF ReleasedOf
-----------------------------------------------------------------------------
(* One step.  A step touches the slot s, and may free mapped slots G.      *)

SameAround(t) ==
    /\ handle'[t] = handle[t] /\ (t \in made' <=> t \in made) /\ (t \in file' <=> t \in file)
    /\ (t \in acc' <=> t \in acc) /\ create'[t] = create[t] /\ close'[t] = close[t]
    /\ \A g : <<t, g>> \in done' <=> <<t, g>> \in done

LEMMA SlotsSwept ==
  ASSUME TypeInv, config' = config, NEW e \in [SlotsOf(config) -> Entries(config)],
         \A t \in SlotsOf(config) : SlotOK(config, t, e[t], Surround(t)', create'[t], close'[t], DoneOf(t)'),
         AroundType', NEW G \in SUBSET OutboundOf(config), entry' \in [SlotsOf(config) -> Entries(config)],
         Swept(config, e, entry', G)
  PROVE  TypeInv' /\ SlotsInv'
<1>1. config \in Configs BY DEF TypeInv
<1>2. TypeInv' BY DEF TypeInv
<1>3. ASSUME NEW t \in SlotsOf(config) PROVE SlotOK(config, t, entry'[t], Surround(t)', create'[t], close'[t], DoneOf(t)')
  <2>1. CASE t \in G
    <3>1. e[t].life = "MAPPED" /\ entry'[t] = FreeEntry(e[t]) BY <2>1 DEF Swept
    <3>2. t \in OutboundOf(config) BY <2>1
    <3> QED BY <3>1, <3>2, <1>1, SlotFreed DEF FreeEntry
  <2>2. CASE t \notin G
    <3>1. entry'[t] = e[t] BY <2>2 DEF Swept
    <3> QED BY <3>1
  <2> QED BY <2>1, <2>2
<1>4. SlotsInv' BY <1>3 DEF SlotsInv
<1> QED BY <1>2, <1>4

(* What stands around a slot is the same.                                  *)
LEMMA SlotKept ==
  ASSUME SlotsInv, config' = config, NEW t \in SlotsOf(config), SameAround(t)
  PROVE  SlotOK(config, t, entry[t], Surround(t)', create'[t], close'[t], DoneOf(t)')
<1>1. Surround(t)' = Surround(t) BY DEF SameAround, Surround
<1>2. DoneOf(t)' = DoneOf(t) BY DEF SameAround, DoneOf
<1>3. create'[t] = create[t] /\ close'[t] = close[t] BY DEF SameAround
<1> QED BY <1>1, <1>2, <1>3 DEF SlotsInv

LEMMA SlotsStep ==
  ASSUME TypeInv, SlotsInv, config' = config, NEW s \in SlotsOf(config), NEW e \in [SlotsOf(config) -> Entries(config)],
         \A t \in SlotsOf(config) \ {s} : SameAround(t) /\ e[t] = entry[t],
         SlotOK(config, s, e[s], Surround(s)', create'[s], close'[s], DoneOf(s)'),
         AroundType', NEW G \in SUBSET OutboundOf(config), entry' \in [SlotsOf(config) -> Entries(config)],
         Swept(config, e, entry', G)
  PROVE  TypeInv' /\ SlotsInv'
<1>1. ASSUME NEW t \in SlotsOf(config) PROVE SlotOK(config, t, e[t], Surround(t)', create'[t], close'[t], DoneOf(t)')
  <2>1. CASE t = s BY <2>1
  <2>2. CASE t # s
    <3>1. SameAround(t) /\ e[t] = entry[t] BY <2>2
    <3> QED BY <3>1, SlotKept
  <2> QED BY <2>1, <2>2
<1> QED BY <1>1, SlotsSwept

(* ... that frees no slot.                                                 *)
LEMMA SlotStep ==
  ASSUME TypeInv, SlotsInv, config' = config, NEW s \in SlotsOf(config), NEW x2, entry' = Put(entry, s, x2),
         \A t \in SlotsOf(config) \ {s} : SameAround(t),
         SlotOK(config, s, x2, Surround(s)', create'[s], close'[s], DoneOf(s)'), AroundType'
  PROVE  TypeInv' /\ SlotsInv' /\ entry'[s] = x2 /\ \A t \in SlotsOf(config) \ {s} : entry'[t] = entry[t]
<1>1. entry \in [SlotsOf(config) -> Entries(config)] BY DEF TypeInv
<1>2. x2 \in Entries(config) BY DEF SlotOK
<1>3. /\ entry' \in [SlotsOf(config) -> Entries(config)] /\ entry'[s] = x2
      /\ \A t \in SlotsOf(config) \ {s} : entry'[t] = entry[t]
  <2>1. Put(entry, s, x2)[s] = x2 /\ \A t \in SlotsOf(config) \ {s} : Put(entry, s, x2)[t] = entry[t] BY <1>1 DEF Put
  <2>2. Put(entry, s, x2) \in [SlotsOf(config) -> Entries(config)] BY <1>1, <1>2 DEF Put
  <2> QED BY <2>1, <2>2
<1>4. PICK e \in [SlotsOf(config) -> Entries(config)] : e = entry' BY <1>3
<1>5. Swept(config, e, entry', {}) BY <1>4 DEF Swept
<1>6. {} \in SUBSET OutboundOf(config) OBVIOUS
<1>7. TypeInv' /\ SlotsInv' BY <1>3, <1>4, <1>5, <1>6, SlotsStep
<1> QED BY <1>3, <1>7

(* The queue after a step that touches one slot.                           *)
Chained(c, q, e) == \E ch \in [1 .. 2 -> Seq(SlotsOf(c))] : ChainsOK(c, q, e, ch)

LEMMA ChainedSame ==
  ASSUME NEW c \in Configs, NEW q, NEW e, Chained(c, q, e), NEW e2, SameWaits(c, e, e2)
  PROVE  Chained(c, q, e2)
BY ChainsFrame DEF Chained

LEMMA ChainedStill ==
  ASSUME NEW c \in Configs, NEW q, NEW e \in [SlotsOf(c) -> Entries(c)], Chained(c, q, e),
         NEW s \in SlotsOf(c), NEW x2, Waits(x2) <=> Waits(e[s]), Waits(x2) => x2.word = e[s].word
  PROVE  Chained(c, q, Put(e, s, x2))
<1>1. SameWaits(c, e, Put(e, s, x2))
  <2>1. Put(e, s, x2)[s] = x2 /\ \A t \in SlotsOf(c) \ {s} : Put(e, s, x2)[t] = e[t] BY DEF Put
  <2> QED BY <2>1 DEF SameWaits
<1> QED BY <1>1, ChainedSame

LEMMA ChainedQueued ==
  ASSUME NEW c \in Configs, NEW q, NEW e \in [SlotsOf(c) -> Entries(c)], Chained(c, q, e),
         NEW s \in SlotsOf(c), ~Waits(e[s]), NEW x, NEW x2,
         x2.phase = "Pending", x2.flying = x.flying, x2.word = WordOf(q, x), x.flying \in BOOLEAN
  PROVE  Chained(c, Headed(q, s, x.flying), Put(e, s, x2))
<1>1. Put(e, s, x2)[s] = x2 /\ \A t \in SlotsOf(c) \ {s} : Put(e, s, x2)[t] = e[t] BY DEF Put
<1>2. CASE x.flying
  <2>1. ~Waits(x2) BY <1>2 DEF Waits
  <2> QED BY <2>1, <1>2, ChainedStill DEF Headed
<1>3. CASE ~x.flying
  <2>1. Waits(x2) /\ x2.word = q.heads[q.active] BY <1>3 DEF Waits, WordOf
  <2>2. PICK ch : ChainsOK(c, q, e, ch) BY DEF Chained
  <2>3. PICK q2 : q2 = [q EXCEPT !.heads[q.active] = s] OBVIOUS
  <2>4. PICK e2 : e2 = Put(e, s, x2) OBVIOUS
  <2>5. /\ Waits(e2[s]) /\ e2[s].word = q.heads[q.active]
        /\ \A t \in SlotsOf(c) \ {s} : (Waits(e2[t]) <=> Waits(e[t])) /\ (Waits(e[t]) => e2[t].word = e[t].word)
    BY <1>1, <2>1, <2>4
  <2>6. \E ch2 \in [1 .. 2 -> Seq(SlotsOf(c))] : ChainsOK(c, q2, e2, ch2)
    BY <2>2, <2>3, <2>5, ChainsPush, ZenonT(60)
  <2> QED BY <2>3, <2>4, <2>6, <1>3 DEF Chained, Headed
<1> QED BY <1>2, <1>3

(* The closes in flight.                                                   *)
LEMMA FlyingSame ==
  ASSUME NEW c \in Configs, NEW e, NEW e2, \A t \in SlotsOf(c) : e2[t].flying = e[t].flying
  PROVE  Flying(c, e2) = Flying(c, e)
BY DEF Flying

LEMMA FlyingFinite ==
  ASSUME NEW c \in Configs, NEW e
  PROVE  IsFiniteSet(Flying(c, e)) /\ Cardinality(Flying(c, e)) \in Nat
         /\ Cardinality(Flying(c, e)) <= Cardinality(SlotsOf(c))
<1>1. Flying(c, e) \in SUBSET SlotsOf(c) BY DEF Flying
<1> QED BY <1>1, SlotsFinite, FS_Subset, FS_CardinalityType

LEMMA FlyingPut ==
  ASSUME NEW c \in Configs, NEW e \in [SlotsOf(c) -> Entries(c)], NEW s \in SlotsOf(c), NEW x2
  PROVE  /\ x2.flying = e[s].flying => Cardinality(Flying(c, Put(e, s, x2))) = Cardinality(Flying(c, e))
         /\ x2.flying /\ ~e[s].flying => Cardinality(Flying(c, Put(e, s, x2))) = Cardinality(Flying(c, e)) + 1
         /\ ~x2.flying /\ e[s].flying => Cardinality(Flying(c, Put(e, s, x2))) = Cardinality(Flying(c, e)) - 1
<1>1. PICK e2 : e2 = Put(e, s, x2) OBVIOUS
<1>2. e2[s] = x2 /\ \A t \in SlotsOf(c) \ {s} : e2[t] = e[t] BY <1>1 DEF Put
<1>3. x2.flying = e[s].flying => Flying(c, e2) = Flying(c, e) BY <1>2 DEF Flying
<1>4. ASSUME x2.flying, ~e[s].flying PROVE Cardinality(Flying(c, e2)) = Cardinality(Flying(c, e)) + 1
  <2>1. s \notin Flying(c, e) /\ Flying(c, e2) = Flying(c, e) \cup {s} BY <1>2, <1>4 DEF Flying
  <2> QED BY <2>1, FlyingFinite, FS_AddElement
<1>5. ASSUME ~x2.flying, e[s].flying PROVE Cardinality(Flying(c, e2)) = Cardinality(Flying(c, e)) - 1
  <2>1. s \in Flying(c, e) /\ Flying(c, e2) = Flying(c, e) \ {s} BY <1>2, <1>5 DEF Flying
  <2> QED BY <2>1, FlyingFinite, FS_RemoveElement, ZenonT(60)
<1> QED BY <1>1, <1>3, <1>4, <1>5

(* The lifecycles.                                                         *)
LEMMA KindsHold ==
  ASSUME TypeInv, SlotsInv
  PROVE  Kinds(config, entry)
<1>1. config \in Configs /\ OutboundOf(config) \subseteq SlotsOf(config) BY SlotKinds DEF TypeInv
<1>2. ASSUME NEW s \in OutboundOf(config)
      PROVE  /\ entry[s].owner \in config.routes \cup {None}
             /\ entry[s].owner = None <=> entry[s].life \in {"FREE", "STANDALONE"}
  <2>1. s \in SlotsOf(config) /\ ~(s < config.accept) BY <1>1, SlotKinds, ConfigType DEF OutboundOf
  <2>2. SlotOK(config, s, entry[s], Surround(s), create[s], close[s], DoneOf(s)) BY <2>1 DEF SlotsInv
  <2>3. entry[s] \in Entries(config) /\ OutboundOK(entry[s], Surround(s), create[s]) BY <2>1, <2>2 DEF SlotOK
  <2>4. entry[s].owner \in config.routes \cup {None} BY <2>3 DEF Entries
  <2>5. entry[s].owner = None <=> entry[s].life \in {"FREE", "STANDALONE"} BY <2>3 DEF OutboundOK
  <2> QED BY <2>4, <2>5
<1> QED BY <1>2 DEF Kinds

LEMMA KindsPut ==
  ASSUME NEW c \in Configs, NEW e \in [SlotsOf(c) -> Entries(c)], Kinds(c, e), NEW s \in SlotsOf(c), NEW x2,
         x2.owner = e[s].owner, x2.life = e[s].life
  PROVE  Kinds(c, Put(e, s, x2))
<1>1. Put(e, s, x2)[s] = x2 /\ \A t \in SlotsOf(c) \ {s} : Put(e, s, x2)[t] = e[t] BY DEF Put
<1>2. OutboundOf(c) \subseteq SlotsOf(c) BY SlotKinds
<1>3. \A t \in SlotsOf(c) : Put(e, s, x2)[t].owner = e[t].owner /\ Put(e, s, x2)[t].life = e[t].life BY <1>1
<1> QED BY <1>2, <1>3 DEF Kinds

LEMMA PartPut ==
  ASSUME NEW c \in Configs, NEW e \in [SlotsOf(c) -> Entries(c)], NEW p, NEW rs, PartOK(c, p, e, rs),
         NEW s \in SlotsOf(c), NEW x2, x2.owner = e[s].owner,
         x2.life = "FREE" <=> e[s].life = "FREE", x2.life = "MAPPED" <=> e[s].life = "MAPPED"
  PROVE  PartOK(c, p, Put(e, s, x2), rs)
<1>1. Put(e, s, x2)[s] = x2 /\ \A t \in SlotsOf(c) \ {s} : Put(e, s, x2)[t] = e[t] BY DEF Put
<1>2. OutboundOf(c) \subseteq SlotsOf(c) BY SlotKinds
<1>3. SameOwners(c, e, Put(e, s, x2)) BY <1>1, <1>2 DEF SameOwners
<1>4. SameFree(c, e, Put(e, s, x2)) BY <1>1, <1>2 DEF SameFree
<1>5. SameMapped(c, e, Put(e, s, x2)) BY <1>1, <1>2 DEF SameMapped
<1> QED BY <1>3, <1>4, <1>5, PartFrame

(* A step that touches one slot and leaves the partition alone.            *)
Steady(x, x2) ==
    /\ x2.owner = x.owner /\ (x2.life = "FREE" <=> x.life = "FREE")
    /\ (x2.life = "MAPPED" <=> x.life = "MAPPED")

LEMMA StepOne ==
  ASSUME IInv, config' = config, NEW s \in SlotsOf(config), NEW x2, entry' = Put(entry, s, x2),
         part' = part, resv' = resv, \A t \in SlotsOf(config) \ {s} : SameAround(t),
         SlotOK(config, s, x2, Surround(s)', create'[s], close'[s], DoneOf(s)'), AroundType',
         Steady(entry[s], x2), create'[s] = <<>> \/ create'[s] = create[s],
         Chained(config, queue', Put(entry, s, x2)), count' = Cardinality(Flying(config, Put(entry, s, x2)))
  PROVE  IInv'
<1>1. TypeInv /\ SlotsInv /\ config \in Configs /\ entry \in [SlotsOf(config) -> Entries(config)]
  BY DEF IInv, TypeInv
<1>2. TypeInv' /\ SlotsInv' /\ entry'[s] = x2 /\ \A t \in SlotsOf(config) \ {s} : entry'[t] = entry[t]
  BY <1>1, SlotStep
<1>3. QueueInv' BY DEF QueueInv, Chained
<1>4. PartOK(config, part, entry', resv) BY <1>1, PartPut DEF IInv, Steady
<1>5. CreatesOK(config, part, entry', create')
  <2>1. \A k : Keeps(part, part, k) BY DEF Keeps
  <2>2. \A t \in SlotsOf(config) : create'[t] # <<>> => create'[t] = create[t] /\ entry'[t].owner = entry[t].owner
    BY <1>2 DEF SameAround, Steady
  <2> QED BY <2>1, <2>2, CreatesMove DEF IInv
<1> QED BY <1>2, <1>3, <1>4, <1>5 DEF IInv

(* A step that releases a slot of a route.                                 *)
LEMMA StepRelease ==
  ASSUME IInv, config' = config, NEW s \in OutboundOf(config), NEW x1 \in Entries(config),
         x1.owner = entry[s].owner, x1.owner # None, x1.life = entry[s].life, x1.life # "MAPPED",
         NEW q2, NEW n2, Commit(ReleaseSlot(St(Put(entry, s, x1), q2, n2, part), s)),
         resv' = resv, \A t \in SlotsOf(config) \ {s} : SameAround(t),
         SlotOK(config, s, LifeOf(x1, "MAPPED"), Surround(s)', create'[s], close'[s], DoneOf(s)'), AroundType',
         create'[s] = <<>>, Chained(config, q2, Put(entry, s, x1)),
         n2 = Cardinality(Flying(config, Put(entry, s, x1)))
  PROVE  IInv'
<1>1. /\ TypeInv /\ SlotsInv /\ config \in Configs /\ entry \in [SlotsOf(config) -> Entries(config)]
      /\ s \in SlotsOf(config) /\ OutboundOf(config) \subseteq SlotsOf(config)
  BY SlotKinds DEF IInv, TypeInv
<1>2. PICK e1 \in [SlotsOf(config) -> Entries(config)] : e1 = Put(entry, s, x1) BY <1>1 DEF Put
<1>3. e1[s] = x1 /\ \A t \in SlotsOf(config) \ {s} : e1[t] = entry[t] BY <1>1, <1>2 DEF Put
<1>4. Kinds(config, e1) BY <1>1, <1>2, KindsHold, KindsPut
<1>5. PartOK(config, part, e1, resv) BY <1>1, <1>2, PartPut DEF IInv
<1>6. PICK p2 : \E e2 \in [SlotsOf(config) -> Entries(config)], G \in SUBSET OutboundOf(config) :
                  Released(config, e1, q2, n2, part, resv, s, e2, p2, G)
  BY <1>1, <1>3, <1>4, <1>5, ReleaseSlotIs
<1>7. PICK e2 \in [SlotsOf(config) -> Entries(config)], G \in SUBSET OutboundOf(config) :
        Released(config, e1, q2, n2, part, resv, s, e2, p2, G)
  BY <1>6
<1>8. /\ ReleaseSlot(St(e1, q2, n2, part), s) = St(e2, q2, n2, p2) /\ PartOK(config, p2, e2, resv)
      /\ Swept(config, Mapped(e1, s), e2, G)
      /\ \A t \in OutboundOf(config) : t \notin G /\ e1[t].owner # None => Keeps(part, p2, e1[t].owner)
  BY <1>7 DEF Released
<1>9. entry' = e2 /\ queue' = q2 /\ count' = n2 /\ part' = p2 BY <1>2, <1>8 DEF Commit, St
<1>10. PICK m : m = Mapped(e1, s) OBVIOUS
<1>11. m[s] = LifeOf(x1, "MAPPED") /\ (\A t \in SlotsOf(config) \ {s} : m[t] = entry[t])
       /\ m \in [SlotsOf(config) -> Entries(config)]
  <2>1. LifeOf(x1, "MAPPED") \in Entries(config) BY DEF SlotOK
  <2>2. m = Put(e1, s, LifeOf(x1, "MAPPED")) BY <1>3, <1>10 DEF Mapped, LifeOf
  <2> QED BY <1>1, <1>3, <2>1, <2>2 DEF Put
<1>12. Swept(config, m, entry', G) BY <1>8, <1>9, <1>10
<1>13. TypeInv' /\ SlotsInv' BY <1>1, <1>9, <1>11, <1>12, SlotsStep
<1>14. \A t \in SlotsOf(config) : e2[t].phase = e1[t].phase /\ e2[t].flying = e1[t].flying /\ e2[t].word = e1[t].word
  <2>1. m[s].phase = x1.phase /\ m[s].flying = x1.flying /\ m[s].word = x1.word BY <1>11 DEF LifeOf, Entries
  <2>2. \A t \in SlotsOf(config) : m[t].phase = e1[t].phase /\ m[t].flying = e1[t].flying /\ m[t].word = e1[t].word
    BY <1>3, <1>11, <2>1
  <2>3. \A t \in SlotsOf(config) : e2[t] = m[t] \/ e2[t] = FreeEntry(m[t]) BY <1>9, <1>12 DEF Swept
  <2>4. \A t \in SlotsOf(config) : m[t] \in Entries(config) BY <1>11
  <2>5. \A t \in SlotsOf(config) : e2[t].phase = m[t].phase /\ e2[t].flying = m[t].flying /\ e2[t].word = m[t].word
    BY <1>1, <2>3, <2>4, FreeEntryIs
  <2> QED BY <2>2, <2>5
<1>15. QueueInv'
  <2>1. SameWaits(config, e1, e2) BY <1>14 DEF SameWaits, Waits
  <2>2. Chained(config, q2, e2) BY <1>1, <1>2, <2>1, ChainedSame
  <2> QED BY <2>2, <1>9 DEF QueueInv, Chained
<1>16. count' = Cardinality(Flying(config, entry'))
  <2>1. Flying(config, e2) = Flying(config, e1) BY <1>1, <1>14, FlyingSame
  <2> QED BY <2>1, <1>2, <1>9
<1>17. CreatesOK(config, part', entry', create')
  <2>1. ASSUME NEW t \in SlotsOf(config), create'[t] # <<>>
        PROVE  create'[t] = create[t] /\ entry'[t].owner = entry[t].owner /\ Keeps(part, part', entry[t].owner)
    <3>1. t # s BY <2>1
    <3>2. create'[t] = create[t] BY <3>1 DEF SameAround
    <3>3. SlotOK(config, t, entry[t], Surround(t), create[t], close[t], DoneOf(t)) BY <1>1 DEF SlotsInv
    <3>4. t \in OutboundOf(config) /\ entry[t].life # "MAPPED" /\ entry[t].owner # None
      <4>1. ~(t < config.accept) BY <2>1, <3>2, <3>3 DEF SlotOK, AcceptOK
      <4>2. OutboundOK(entry[t], Surround(t), create[t]) BY <4>1, <3>3 DEF SlotOK
      <4>3. t \in OutboundOf(config) BY <4>1, <1>1, SlotKinds, ConfigType DEF SlotsOf
      <4>4. entry[t].life \in {"CREATING_ONE", "CREATING_ZERO"} BY <4>2, <2>1, <3>2 DEF OutboundOK
      <4>5. entry[t].owner # None BY <4>2, <4>4 DEF OutboundOK
      <4> QED BY <4>3, <4>4, <4>5
    <3>5. m[t] = entry[t] /\ e1[t] = entry[t] BY <3>1, <1>3, <1>11
    <3>6. t \notin G /\ e2[t] = entry[t] BY <3>4, <3>5, <1>9, <1>12 DEF Swept
    <3> QED BY <3>2, <3>4, <3>5, <3>6, <1>8, <1>9
  <2> QED BY <2>1, CreatesMove DEF IInv
<1> QED BY <1>8, <1>9, <1>13, <1>15, <1>16, <1>17 DEF IInv
-----------------------------------------------------------------------------
(* Steps of one slot, by what they do to the queue.                        *)

LEMMA SlotNow ==
  ASSUME IInv, NEW s \in SlotsOf(config)
  PROVE  /\ SlotOK(config, s, entry[s], Surround(s), create[s], close[s], DoneOf(s))
         /\ entry[s] \in Entries(config) /\ DoneOf(s) \in SUBSET (0 .. config.gens)
         /\ config \in Configs /\ TypeInv /\ AroundType
         /\ entry \in [SlotsOf(config) -> Entries(config)] /\ DOMAIN entry = SlotsOf(config)
         /\ s \in DOMAIN entry
BY DEF IInv, SlotsInv, TypeInv, DoneOf

LEMMA StoreIs ==
  ASSUME IInv, NEW s \in SlotsOf(config)
  PROVE  Store = St(Put(entry, s, entry[s]), queue, count, part)
BY SlotNow, PutIs DEF Store, St

LEMMA StepStill ==
  ASSUME IInv, config' = config, NEW s \in SlotsOf(config), NEW x2, entry' = Put(entry, s, x2),
         queue' = queue, count' = count,
         part' = part, resv' = resv, \A t \in SlotsOf(config) \ {s} : SameAround(t),
         SlotOK(config, s, x2, Surround(s)', create'[s], close'[s], DoneOf(s)'), AroundType',
         Steady(entry[s], x2), create'[s] = <<>> \/ create'[s] = create[s],
         x2.flying = entry[s].flying, Waits(x2) <=> Waits(entry[s]), Waits(x2) => x2.word = entry[s].word
  PROVE  IInv'
<1>1. config \in Configs /\ entry \in [SlotsOf(config) -> Entries(config)] BY SlotNow
<1>2. Chained(config, queue, entry) BY DEF IInv, QueueInv, Chained
<1>3. Chained(config, queue', Put(entry, s, x2)) BY <1>1, <1>2, ChainedStill
<1>4. count' = Cardinality(Flying(config, Put(entry, s, x2))) BY <1>1, FlyingPut DEF IInv
<1> QED BY <1>3, <1>4, StepOne

LEMMA StepQueued ==
  ASSUME IInv, config' = config, NEW s \in SlotsOf(config), NEW x \in Entries(config), NEW x2, entry' = Put(entry, s, x2),
         queue' = Headed(queue, s, x.flying), count' = Cardinality(Flying(config, Put(entry, s, x2))),
         part' = part, resv' = resv, \A t \in SlotsOf(config) \ {s} : SameAround(t),
         SlotOK(config, s, x2, Surround(s)', create'[s], close'[s], DoneOf(s)'), AroundType',
         Steady(entry[s], x2), create'[s] = <<>> \/ create'[s] = create[s],
         ~Waits(entry[s]), x2.phase = "Pending", x2.flying = x.flying, x2.word = WordOf(queue, x)
  PROVE  IInv'
<1>1. config \in Configs /\ entry \in [SlotsOf(config) -> Entries(config)] BY SlotNow
<1>2. Chained(config, queue, entry) BY DEF IInv, QueueInv, Chained
<1>3. x.flying \in BOOLEAN BY DEF Entries
<1>4. Chained(config, queue', Put(entry, s, x2)) BY <1>1, <1>2, <1>3, ChainedQueued
<1> QED BY <1>4, StepOne

(* A word that the queue writes is a link.                                 *)
LEMMA WordType ==
  ASSUME IInv, NEW x \in Entries(config)
  PROVE  WordOf(queue, x) \in SlotsOf(config) \cup {None, Zero, Target}
<1>1. queue \in Queues(config) BY DEF IInv, QueueInv, ChainsOK
<1> QED BY <1>1 DEF WordOf, Queues, Entries

(* A standalone slot is freed.                                             *)
LEMMA StepFree ==
  ASSUME IInv, config' = config, NEW s \in OutboundOf(config), NEW x2, entry' = Put(entry, s, x2),
         entry[s].life = "STANDALONE", x2.life = "FREE", x2.owner = entry[s].owner,
         part' = ReleaseOne(part, s), resv' = resv, \A t \in SlotsOf(config) \ {s} : SameAround(t),
         SlotOK(config, s, x2, Surround(s)', create'[s], close'[s], DoneOf(s)'), AroundType',
         create'[s] = create[s],
         Chained(config, queue', Put(entry, s, x2)), count' = Cardinality(Flying(config, Put(entry, s, x2)))
  PROVE  IInv'
<1>1. /\ TypeInv /\ SlotsInv /\ config \in Configs /\ entry \in [SlotsOf(config) -> Entries(config)]
      /\ s \in SlotsOf(config) /\ OutboundOf(config) \subseteq SlotsOf(config)
  BY SlotKinds DEF IInv, TypeInv
<1>2. TypeInv' /\ SlotsInv' /\ entry'[s] = x2 /\ \A t \in SlotsOf(config) \ {s} : entry'[t] = entry[t]
  BY <1>1, SlotStep
<1>3. QueueInv' BY DEF QueueInv, Chained
<1>4. Kinds(config, entry) BY <1>1, KindsHold
<1>5. PartShape(config, part) /\ Tiled(config, part) /\ Owned(config, part, entry) /\ Freed(config, part, entry)
  BY DEF IInv, PartOK
<1>6. PartOK(config, part', entry', resv)
  <2>1. SameOwners(config, entry, entry') BY <1>1, <1>2 DEF SameOwners
  <2>2. SameMapped(config, entry, entry') BY <1>1, <1>2 DEF SameMapped
  <2>3. \A t \in OutboundOf(config) \ {s} : entry'[t].life = "FREE" <=> entry[t].life = "FREE" BY <1>1, <1>2
  <2>4. PartOK(config, part, entry, resv) /\ entry'[s].life = "FREE" BY <1>2 DEF IInv
  <2>5. PICK e2 : e2 = entry' OBVIOUS
  <2>6. PartOK(config, ReleaseOne(part, s), e2, resv) BY <1>1, <1>4, <2>1, <2>2, <2>3, <2>4, <2>5, PartReleased
  <2> QED BY <2>5, <2>6
<1>7. CreatesOK(config, part', entry', create')
  <2>1. part.mapped < part.allocated BY <1>1, <1>4, <1>5, StandaloneRoom
  <2>2. /\ part'.routes = part.routes /\ \A i \in 1 .. part.mapped : part'.mapping[i] = part.mapping[i]
    <3>1. part \in Parts(config) /\ part.mapped \in Int /\ part.allocated \in Int BY <1>5 DEF PartShape, Parts
    <3>2. \A i \in 1 .. part.mapped : i # part.allocated BY <3>1, <2>1
    <3> QED BY <3>1, <3>2 DEF ReleaseOne, Parts
  <2>3. \A r \in config.routes : Keeps(part, part', r) BY <1>1, <1>5, <2>2, KeepsPlaces
  <2>4. ASSUME NEW t \in SlotsOf(config), create'[t] # <<>>
        PROVE  create'[t] = create[t] /\ entry'[t].owner = entry[t].owner /\ Keeps(part, part', entry[t].owner)
    <3>1. create'[t] = create[t] BY DEF SameAround
    <3>2. entry'[t].owner = entry[t].owner BY <1>2
    <3>3. entry[t].owner \in config.routes BY <2>4, <3>1 DEF IInv, CreatesOK
    <3> QED BY <3>1, <3>2, <3>3, <2>3
  <2> QED BY <2>4, CreatesMove DEF IInv
<1> QED BY <1>2, <1>3, <1>6, <1>7 DEF IInv
-----------------------------------------------------------------------------
(* The actions that leave the store alone or touch one slot of it.         *)

LEMMA OutboundSlot ==
  ASSUME IInv, NEW s \in SlotsOf(config),
         handle[s] \notin {"none", "active"} \/ s \in made \/ create[s] # <<>> \/ entry[s].life # "FREE"
  PROVE  s \in OutboundOf(config) /\ OutboundOK(entry[s], Surround(s), create[s])
<1>1. SlotOK(config, s, entry[s], Surround(s), create[s], close[s], DoneOf(s)) /\ config \in Configs BY SlotNow
<1>2. ~(s < config.accept) BY <1>1 DEF SlotOK, AcceptOK, Surround
<1>3. s >= config.accept BY <1>1, <1>2, ConfigType DEF SlotsOf
<1> QED BY <1>1, <1>2, <1>3, SlotKinds DEF SlotOK

LEMMA OwnerSlot ==
  ASSUME IInv, NEW s \in SlotsOf(config), entry[s].owner # None
  PROVE  s \in OutboundOf(config) /\ OutboundOK(entry[s], Surround(s), create[s])
<1>1. SlotOK(config, s, entry[s], Surround(s), create[s], close[s], DoneOf(s)) /\ config \in Configs BY SlotNow
<1>2. ~(s < config.accept) BY <1>1 DEF SlotOK, AcceptOK
<1>3. s >= config.accept BY <1>1, <1>2, ConfigType DEF SlotsOf
<1> QED BY <1>1, <1>2, <1>3, SlotKinds DEF SlotOK

LEMMA SlotSide ==
  ASSUME IInv, NEW s \in SlotsOf(config)
  PROVE  s \in OutboundOf(config) \/ s \in 0 .. config.accept - 1
<1>1. config \in Configs BY SlotNow
<1> QED BY <1>1, SlotKinds, ConfigType DEF SlotsOf

(* What stands around a slot after a step.                                 *)
Moves(v, v2, s) ==
    /\ v \in Around /\ v2 \in Around /\ v.h = handle[s] /\ v2.h = handle'[s]
    /\ (s \in made' <=> s \in made) => v2.made = v.made
    /\ s \in made' => v2.made = TRUE
    /\ s \notin made' => v2.made = FALSE
    /\ (s \in file' <=> s \in file) => v2.file = v.file
    /\ s \in file' => v2.file = TRUE
    /\ s \notin file' => v2.file = FALSE
    /\ (s \in acc' <=> s \in acc) => v2.acc = v.acc
    /\ s \in acc' => v2.acc = TRUE
    /\ s \notin acc' => v2.acc = FALSE
    /\ v.made <=> s \in made
    /\ v.file <=> s \in file
    /\ v.acc <=> s \in acc

LEMMA Falsity == ASSUME NEW b \in BOOLEAN, ~b PROVE b = FALSE
OBVIOUS

LEMMA TruthOf ==
  ASSUME NEW b, NEW S, NEW s, b = (s \in S)
  PROVE  (b <=> s \in S) /\ (s \in S => b = TRUE) /\ (s \notin S => b = FALSE)
<1>1. b <=> s \in S OBVIOUS
<1>2. s \in S => b = TRUE OBVIOUS
<1>3. b \in BOOLEAN OBVIOUS
<1>4. s \notin S => b = FALSE BY <1>1, <1>3, Falsity
<1> QED BY <1>1, <1>2, <1>4

LEMMA SameTruth ==
  ASSUME NEW b, NEW S, NEW s, b = (s \in S), NEW b2, NEW S2, b2 = (s \in S2)
  PROVE  (s \in S2 <=> s \in S) => b2 = b
OBVIOUS

LEMMA SurroundMoves ==
  ASSUME AroundType, AroundType', config' = config, NEW s \in SlotsOf(config),
         NEW v, v = Surround(s), NEW v2, v2 = Surround(s)'
  PROVE  Moves(v, v2, s)
<1>1. PICK m : m = (s \in made) OBVIOUS
<1>2. PICK f : f = (s \in file) OBVIOUS
<1>3. PICK a : a = (s \in acc) OBVIOUS
<1>4. PICK m2 : m2 = (s \in made') OBVIOUS
<1>5. PICK f2 : f2 = (s \in file') OBVIOUS
<1>6. PICK a2 : a2 = (s \in acc') OBVIOUS
<1>7. v = [h |-> handle[s], made |-> m, file |-> f, acc |-> a] BY <1>1, <1>2, <1>3 DEF Surround
<1>8. v2 = [h |-> handle'[s], made |-> m2, file |-> f2, acc |-> a2] BY <1>4, <1>5, <1>6 DEF Surround
<1>9. m \in BOOLEAN /\ f \in BOOLEAN /\ a \in BOOLEAN /\ m2 \in BOOLEAN /\ f2 \in BOOLEAN /\ a2 \in BOOLEAN
  BY <1>1, <1>2, <1>3, <1>4, <1>5, <1>6
<1>10. handle[s] \in {"none", "unopened", "creating", "reserved", "active"}
       /\ handle'[s] \in {"none", "unopened", "creating", "reserved", "active"}
  BY DEF AroundType
<1>11. v \in Around /\ v2 \in Around BY <1>7, <1>8, <1>9, <1>10 DEF Around
<1>12. /\ v.h = handle[s] /\ v.made = m /\ v.file = f /\ v.acc = a
       /\ v2.h = handle'[s] /\ v2.made = m2 /\ v2.file = f2 /\ v2.acc = a2
  BY <1>7, <1>8
<1>13. /\ (s \in made' <=> s \in made) => m2 = m
       /\ (s \in file' <=> s \in file) => f2 = f
       /\ (s \in acc' <=> s \in acc) => a2 = a
  BY <1>1, <1>2, <1>3, <1>4, <1>5, <1>6, SameTruth
<1>14. /\ (m <=> s \in made) /\ (s \in made' => m2 = TRUE) /\ (s \notin made' => m2 = FALSE)
  BY <1>1, <1>4, TruthOf
<1>15. /\ (f <=> s \in file) /\ (s \in file' => f2 = TRUE) /\ (s \notin file' => f2 = FALSE)
  BY <1>2, <1>5, TruthOf
<1>16. /\ (a <=> s \in acc) /\ (s \in acc' => a2 = TRUE) /\ (s \notin acc' => a2 = FALSE)
  BY <1>3, <1>6, TruthOf
<1>17. (v.made <=> m) /\ (v.file <=> f) /\ (v.acc <=> a) BY <1>12
<1> QED BY <1>11, <1>12, <1>13, <1>14, <1>15, <1>16, <1>17 DEF Moves

(* Install.                                                                *)
LEMMA InstallStep ==
  ASSUME IInv, config' = config, NEW s \in SlotsOf(config), Install(s)
  PROVE  IInv'
<1>1. /\ handle[s] = "reserved" /\ handle' = [handle EXCEPT ![s] = "active"] /\ file' = file \cup {s}
      /\ UNCHANGED <<entry, queue, count, part, resv, made, acc, create, close, closed, done>>
  BY DEF Install
<1>2. s \in OutboundOf(config) BY <1>1, OutboundSlot
<1>3. /\ SlotOK(config, s, entry[s], Surround(s), create[s], close[s], DoneOf(s)) /\ config \in Configs
      /\ entry \in [SlotsOf(config) -> Entries(config)] /\ AroundType
  BY SlotNow
<1>4. PICK v : v = Surround(s) OBVIOUS
<1>5. PICK v2 : v2 = Surround(s)' OBVIOUS
<1>9. AroundType' BY <1>1, <1>3 DEF AroundType, AcceptSlots
<1>6. v.h = "reserved" /\ v2 = [v EXCEPT !.h = "active", !.file = TRUE]
  <2>1. Moves(v, v2, s) BY <1>3, <1>4, <1>5, <1>9, SurroundMoves
  <2>2. handle'[s] = "active" /\ s \in file' /\ made' = made /\ acc' = acc BY <1>1, <1>3 DEF AroundType
  <2>3. v2.h = "active" /\ v2.file = TRUE /\ v2.made = v.made /\ v2.acc = v.acc BY <2>1, <2>2 DEF Moves
  <2> QED BY <1>1, <2>1, <2>3 DEF Moves, Around
<1>7. SlotOK(config, s, entry[s], v2, create[s], close[s], DoneOf(s)) BY <1>2, <1>3, <1>4, <1>6, SlotInstalled
<1>8. SlotOK(config, s, entry[s], Surround(s)', create'[s], close'[s], DoneOf(s)') BY <1>1, <1>5, <1>7 DEF DoneOf
<1>10. \A t \in SlotsOf(config) \ {s} : SameAround(t) BY <1>1, <1>3 DEF SameAround, AroundType
<1>11. entry' = Put(entry, s, entry[s]) BY <1>1, <1>3 DEF Put
<1>12. Steady(entry[s], entry[s]) BY DEF Steady
<1> QED BY <1>1, <1>8, <1>9, <1>10, <1>11, <1>12, StepStill

(* KernelAccept.                                                           *)
LEMMA KernelAcceptStep ==
  ASSUME IInv, config' = config, NEW s \in SlotsOf(config), KernelAccept(s)
  PROVE  IInv'
<1>1. /\ s \in AcceptSlots /\ s \notin file /\ file' = file \cup {s} /\ acc' = acc \cup {s}
      /\ UNCHANGED <<entry, queue, count, part, resv, handle, made, create, close, closed, done>>
  BY DEF KernelAccept, program
<1>3. /\ SlotOK(config, s, entry[s], Surround(s), create[s], close[s], DoneOf(s)) /\ config \in Configs
      /\ entry \in [SlotsOf(config) -> Entries(config)] /\ AroundType /\ DoneOf(s) \in SUBSET (0 .. config.gens)
  BY SlotNow
<1>2. s \in 0 .. config.accept - 1 BY <1>1, <1>3, SlotsAre
<1>4. PICK v : v = Surround(s) OBVIOUS
<1>5. PICK v2 : v2 = Surround(s)' OBVIOUS
<1>9. AroundType' BY <1>1, <1>3 DEF AroundType, AcceptSlots
<1>6. ~v.file /\ v2 = [v EXCEPT !.file = TRUE, !.acc = TRUE]
  <2>1. Moves(v, v2, s) BY <1>3, <1>4, <1>5, <1>9, SurroundMoves
  <2>2. v2.h = v.h /\ v2.file = TRUE /\ v2.made = v.made /\ v2.acc = TRUE BY <1>1, <2>1 DEF Moves
  <2> QED BY <1>1, <2>1, <2>2 DEF Moves, Around
<1>7. SlotOK(config, s, entry[s], v2, create[s], close[s], DoneOf(s)) BY <1>2, <1>3, <1>4, <1>6, AcceptArrives
<1>8. SlotOK(config, s, entry[s], Surround(s)', create'[s], close'[s], DoneOf(s)') BY <1>1, <1>5, <1>7 DEF DoneOf
<1>10. \A t \in SlotsOf(config) \ {s} : SameAround(t) BY <1>1, <1>3 DEF SameAround, AroundType
<1>11. entry' = Put(entry, s, entry[s]) BY <1>1, <1>3 DEF Put
<1>12. Steady(entry[s], entry[s]) BY DEF Steady
<1> QED BY <1>1, <1>8, <1>9, <1>10, <1>11, <1>12, StepStill

(* KernelClose.                                                            *)
LEMMA KernelCloseStep ==
  ASSUME IInv, config' = config, NEW s \in SlotsOf(config), NEW b \in BOOLEAN, KernelClose(s, b)
  PROVE  IInv'
<1>1. /\ close[s].st = "sent" /\ close' = [close EXCEPT ![s].st = IF b THEN "done" ELSE "failed"]
      /\ file' = (IF b THEN file \ {s} ELSE file)
      /\ UNCHANGED <<entry, queue, count, part, resv, handle, made, acc, create, closed, done>>
  BY DEF KernelClose, program
<1>3. /\ SlotOK(config, s, entry[s], Surround(s), create[s], close[s], DoneOf(s)) /\ config \in Configs
      /\ entry \in [SlotsOf(config) -> Entries(config)] /\ AroundType /\ DoneOf(s) \in SUBSET (0 .. config.gens)
  BY SlotNow
<1>4. PICK v : v = Surround(s) OBVIOUS
<1>5. PICK v2 : v2 = Surround(s)' OBVIOUS
<1>6. PICK cl : cl = close[s] OBVIOUS
<1>7. PICK cl2 : cl2 = close'[s] OBVIOUS
<1>8. entry[s].flying
  <2>1. RetireOK(config, s, entry[s], Surround(s), cl) BY <1>3, <1>6 DEF SlotOK
  <2>2. cl # NoClose BY <1>1, <1>6 DEF NoClose
  <2>3. entry[s].flying \in BOOLEAN BY <1>3 DEF Entries
  <2> QED BY <2>1, <2>2, <2>3 DEF RetireOK
<1>11. AroundType' BY <1>1, <1>3 DEF AroundType, AcceptSlots
<1>9. SlotOK(config, s, entry[s], v2, create[s], cl2, DoneOf(s))
  <2>1. CASE b
    <3>1. v2 = [v EXCEPT !.file = FALSE]
      <4>1. Moves(v, v2, s) BY <1>3, <1>4, <1>5, <1>11, SurroundMoves
      <4>2. v2.h = v.h /\ v2.file = FALSE /\ v2.made = v.made /\ v2.acc = v.acc BY <1>1, <2>1, <4>1 DEF Moves
      <4> QED BY <4>1, <4>2 DEF Moves, Around
    <3>2. cl2 = [cl EXCEPT !.st = "done"] BY <2>1, <1>1, <1>3, <1>6, <1>7 DEF AroundType
    <3> QED BY <1>1, <1>3, <1>4, <1>6, <1>8, <3>1, <3>2, SlotSide, SlotKernelClosed, AcceptKernelClosed
  <2>2. CASE ~b
    <3>1. v2 = v BY <2>2, <1>1, <1>3, <1>4, <1>5 DEF Surround, AroundType
    <3>2. cl2 = [cl EXCEPT !.st = "failed"] BY <2>2, <1>1, <1>3, <1>6, <1>7 DEF AroundType
    <3> QED BY <1>1, <1>3, <1>4, <1>6, <1>8, <3>1, <3>2, SlotSide, SlotKernelFailed, AcceptKernelFailed
  <2> QED BY <2>1, <2>2
<1>10. SlotOK(config, s, entry[s], Surround(s)', create'[s], close'[s], DoneOf(s)') BY <1>1, <1>5, <1>7, <1>9 DEF DoneOf
<1>12. \A t \in SlotsOf(config) \ {s} : SameAround(t) BY <1>1, <1>3 DEF SameAround, AroundType
<1>13. entry' = Put(entry, s, entry[s]) BY <1>1, <1>3 DEF Put
<1>14. Steady(entry[s], entry[s]) BY DEF Steady
<1> QED BY <1>1, <1>10, <1>11, <1>12, <1>13, <1>14, StepStill

(* SetTarget.                                                              *)
LEMMA SetTargetStep ==
  ASSUME IInv, config' = config, NEW s \in SlotsOf(config), NEW g, SetTarget(s, g)
  PROVE  IInv'
<1>1. /\ entry[s].phase = "Ready" /\ entry[s].lease /\ Commit([Store EXCEPT !.e[s].word = Target])
      /\ UNCHANGED <<resv, handle, made, file, acc, create, close, closed, done>>
  BY DEF SetTarget, Resolves, program, kernel
<1>2. /\ SlotOK(config, s, entry[s], Surround(s), create[s], close[s], DoneOf(s)) /\ config \in Configs
      /\ entry \in [SlotsOf(config) -> Entries(config)] /\ AroundType /\ DoneOf(s) \in SUBSET (0 .. config.gens)
      /\ entry[s] \in Entries(config)
  BY SlotNow
<1>3. PICK x : x = entry[s] OBVIOUS
<1>4. PICK x2 : x2 = [x EXCEPT !.word = Target] OBVIOUS
<1>5. entry' = Put(entry, s, x2) /\ queue' = queue /\ count' = count /\ part' = part
  BY <1>1, <1>2, <1>3, <1>4 DEF Commit, Store, Put
<1>6. SlotOK(config, s, x2, Surround(s), create[s], close[s], DoneOf(s))
  <2>1. x.lease BY <1>1, <1>3
  <2> QED BY <1>2, <1>3, <1>4, <2>1, SlotSide, SlotTargeted, AcceptTargeted
<1>7. SlotOK(config, s, x2, Surround(s)', create'[s], close'[s], DoneOf(s)') BY <1>1, <1>6 DEF DoneOf, Surround
<1>8. AroundType' BY <1>1, <1>2 DEF AroundType, AcceptSlots
<1>9. \A t \in SlotsOf(config) \ {s} : SameAround(t) BY <1>1 DEF SameAround
<1>10. Steady(entry[s], x2) BY <1>2, <1>3, <1>4 DEF Steady, Entries
<1>11. x2.flying = entry[s].flying /\ ~Waits(x2) /\ ~Waits(entry[s]) BY <1>1, <1>2, <1>3, <1>4 DEF Waits, Entries
<1> QED BY <1>1, <1>5, <1>7, <1>8, <1>9, <1>10, <1>11, StepStill
-----------------------------------------------------------------------------
(* The leases of standalone slots, and the two halves of a socket.         *)

LEMMA CommitIs ==
  ASSUME NEW e, NEW q, NEW n, NEW p, Commit(St(e, q, n, p))
  PROVE  entry' = e /\ queue' = q /\ count' = n /\ part' = p
BY DEF Commit, St

LEMMA FreeStandalonePut ==
  ASSUME NEW e, NEW s \in DOMAIN e, NEW x, NEW q, NEW n, NEW p
  PROVE  FreeStandalone(St(Put(e, s, x), q, n, p), s) = St(Put(e, s, LifeOf(x, "FREE")), q, n, ReleaseOne(p, s))
<1>1. PICK y : y = LifeOf(x, "FREE") OBVIOUS
<1>2. Live(St(Put(e, s, x), q, n, p), s, "FREE") = St(Put(e, s, y), q, n, p) BY <1>1, LivePut
<1>3. PICK e1 : e1 = Put(e, s, y) OBVIOUS
<1>4. PICK p1 : p1 = ReleaseOne(p, s) OBVIOUS
<1>5. [St(e1, q, n, p) EXCEPT !.p = ReleaseOne(@, s)] = St(e1, q, n, p1) BY <1>4 DEF St
<1> QED BY <1>1, <1>2, <1>3, <1>4, <1>5 DEF FreeStandalone

(* CancelReserved.                                                         *)
LEMMA CancelReservedStep ==
  ASSUME IInv, config' = config, NEW s \in SlotsOf(config), CancelReserved(s)
  PROVE  IInv'
<1>1. /\ handle[s] = "reserved" /\ handle' = [handle EXCEPT ![s] = "none"]
      /\ Commit(FreeStandalone(Status(Store, s, "Ready", FALSE), s))
      /\ UNCHANGED <<resv, made, file, acc, create, close, closed, done>>
  BY DEF CancelReserved, kernel
<1>2. s \in OutboundOf(config) /\ OutboundOK(entry[s], Surround(s), create[s]) BY <1>1, OutboundSlot
<1>3. /\ SlotOK(config, s, entry[s], Surround(s), create[s], close[s], DoneOf(s)) /\ config \in Configs
      /\ entry \in [SlotsOf(config) -> Entries(config)] /\ AroundType /\ entry[s] \in Entries(config)
      /\ s \in DOMAIN entry
  BY SlotNow
<1>4. PICK v : v = Surround(s) OBVIOUS
<1>5. PICK v2 : v2 = Surround(s)' OBVIOUS
<1>6. PICK x : x = entry[s] OBVIOUS
<1>7. PICK no : no = FALSE OBVIOUS
<1>8. PICK y : y = StatusOf(x, "Ready", no) OBVIOUS
<1>9. PICK x2 : x2 = LifeOf(y, "FREE") OBVIOUS
<1>10. x2 = [x EXCEPT !.phase = "Ready", !.lease = FALSE, !.life = "FREE"]
  BY <1>3, <1>6, <1>7, <1>8, <1>9 DEF StatusOf, LifeOf, Entries
<1>11. entry' = Put(entry, s, x2) /\ queue' = queue /\ count' = count /\ part' = ReleaseOne(part, s)
  <2>1. Store = St(Put(entry, s, x), queue, count, part) BY <1>6, StoreIs
  <2>2. Status(Store, s, "Ready", no) = St(Put(entry, s, y), queue, count, part) BY <1>3, <1>8, <2>1, StatusPut
  <2>3. FreeStandalone(St(Put(entry, s, y), queue, count, part), s)
          = St(Put(entry, s, x2), queue, count, ReleaseOne(part, s))
    BY <1>3, <1>9, FreeStandalonePut
  <2>4. Commit(St(Put(entry, s, x2), queue, count, ReleaseOne(part, s))) BY <1>1, <1>7, <2>2, <2>3
  <2> QED BY <2>4, CommitIs
<1>12. AroundType' BY <1>1, <1>3 DEF AroundType, AcceptSlots
<1>13. v.h = "reserved" /\ v2 = [v EXCEPT !.h = "none"]
  <2>1. Moves(v, v2, s) BY <1>3, <1>4, <1>5, <1>12, SurroundMoves
  <2>2. handle'[s] = "none" BY <1>1, <1>3 DEF AroundType
  <2>3. v2.h = "none" /\ v2.file = v.file /\ v2.made = v.made /\ v2.acc = v.acc BY <1>1, <2>1, <2>2 DEF Moves
  <2> QED BY <1>1, <2>1, <2>3 DEF Moves, Around
<1>14. SlotOK(config, s, x2, v2, create[s], close[s], DoneOf(s)) BY <1>2, <1>3, <1>4, <1>6, <1>10, <1>13, SlotCancelled
<1>15. SlotOK(config, s, x2, Surround(s)', create'[s], close'[s], DoneOf(s)') BY <1>1, <1>5, <1>14 DEF DoneOf
<1>16. \A t \in SlotsOf(config) \ {s} : SameAround(t) BY <1>1, <1>3 DEF SameAround, AroundType
<1>17. /\ entry[s].life = "STANDALONE" /\ entry[s].phase = "Ready" /\ x2.life = "FREE" /\ x2.phase = "Ready"
       /\ x2.owner = entry[s].owner /\ x2.flying = entry[s].flying
  <2>1. OutboundOK(x, v, create[s]) BY <1>2, <1>4, <1>6
  <2>2. x.life = "STANDALONE" /\ x.phase = "Ready" BY <2>1, <1>13 DEF OutboundOK
  <2> QED BY <2>2, <1>3, <1>6, <1>10 DEF Entries
<1>18. Chained(config, queue', Put(entry, s, x2))
  <2>1. Chained(config, queue, entry) BY DEF IInv, QueueInv, Chained
  <2>2. ~Waits(x2) /\ ~Waits(entry[s]) BY <1>17 DEF Waits
  <2> QED BY <2>1, <2>2, <1>3, <1>11, ChainedStill
<1>19. count' = Cardinality(Flying(config, Put(entry, s, x2))) BY <1>3, <1>11, <1>17, FlyingPut DEF IInv
<1> QED BY <1>1, <1>2, <1>11, <1>12, <1>15, <1>16, <1>17, <1>18, <1>19, StepFree

(* Activate.                                                               *)
LEMMA ActivateStep ==
  ASSUME IInv, config' = config, NEW s \in SlotsOf(config), Activate(s)
  PROVE  IInv'
<1>1. /\ handle[s] = "creating" /\ s \in made /\ handle' = [handle EXCEPT ![s] = "active"] /\ made' = made \ {s}
      /\ Commit(Live(Store, s, "OPEN_ONE"))
      /\ UNCHANGED <<resv, file, acc, create, close, closed, done>>
  BY DEF Activate, kernel
<1>2. s \in OutboundOf(config) /\ OutboundOK(entry[s], Surround(s), create[s]) BY <1>1, OutboundSlot
<1>3. /\ SlotOK(config, s, entry[s], Surround(s), create[s], close[s], DoneOf(s)) /\ config \in Configs
      /\ entry \in [SlotsOf(config) -> Entries(config)] /\ AroundType /\ entry[s] \in Entries(config)
      /\ s \in DOMAIN entry
  BY SlotNow
<1>4. PICK v : v = Surround(s) OBVIOUS
<1>5. PICK v2 : v2 = Surround(s)' OBVIOUS
<1>6. PICK x : x = entry[s] OBVIOUS
<1>7. PICK x2 : x2 = LifeOf(x, "OPEN_ONE") OBVIOUS
<1>8. entry' = Put(entry, s, x2) /\ queue' = queue /\ count' = count /\ part' = part
  <2>1. Store = St(Put(entry, s, x), queue, count, part) BY <1>6, StoreIs
  <2>2. Live(Store, s, "OPEN_ONE") = St(Put(entry, s, x2), queue, count, part) BY <1>3, <1>7, <2>1, LivePut
  <2>3. Commit(St(Put(entry, s, x2), queue, count, part)) BY <1>1, <2>2
  <2> QED BY <2>3, CommitIs
<1>9. AroundType' BY <1>1, <1>3 DEF AroundType, AcceptSlots
<1>10. v.h = "creating" /\ v.made /\ v2 = [v EXCEPT !.h = "active", !.made = FALSE]
  <2>1. Moves(v, v2, s) BY <1>3, <1>4, <1>5, <1>9, SurroundMoves
  <2>2. handle'[s] = "active" /\ s \notin made' BY <1>1, <1>3 DEF AroundType
  <2>3. v2.h = "active" /\ v2.file = v.file /\ v2.made = FALSE /\ v2.acc = v.acc BY <1>1, <2>1, <2>2 DEF Moves
  <2> QED BY <1>1, <2>1, <2>3 DEF Moves, Around
<1>11. SlotOK(config, s, x2, v2, create[s], close[s], DoneOf(s))
  BY <1>2, <1>3, <1>4, <1>6, <1>7, <1>10, SlotActivated DEF LifeOf
<1>12. SlotOK(config, s, x2, Surround(s)', create'[s], close'[s], DoneOf(s)') BY <1>1, <1>5, <1>11 DEF DoneOf
<1>13. \A t \in SlotsOf(config) \ {s} : SameAround(t) BY <1>1, <1>3 DEF SameAround, AroundType
<1>14. x.life \in {"OPEN_TWO", "CLOSING_ONE", "CLOSED_ONE"} BY <1>2, <1>4, <1>6, <1>10 DEF OutboundOK
<1>15. /\ x2.owner = x.owner /\ x2.life = "OPEN_ONE" /\ x2.flying = x.flying /\ x2.phase = x.phase /\ x2.word = x.word
  BY <1>3, <1>6, <1>7 DEF Entries, LifeOf
<1>16. Steady(entry[s], x2) BY <1>6, <1>14, <1>15 DEF Steady
<1>17. x2.flying = entry[s].flying /\ (Waits(x2) <=> Waits(entry[s])) /\ (Waits(x2) => x2.word = entry[s].word)
  BY <1>6, <1>15 DEF Waits
<1> QED BY <1>1, <1>8, <1>9, <1>12, <1>13, <1>16, <1>17, StepStill
(* A retirement is queued.                                                 *)
LEMMA StepEnqueue ==
  ASSUME IInv, config' = config, NEW s \in SlotsOf(config), NEW x1 \in Entries(config),
         x1.flying = entry[s].flying, Steady(entry[s], x1), ~Waits(entry[s]),
         NEW x2, x2 = QueuedOf(x1, WordOf(queue, x1)),
         Commit(Enqueue(St(Put(entry, s, x1), queue, count, part), s)), resv' = resv,
         \A t \in SlotsOf(config) \ {s} : SameAround(t),
         SlotOK(config, s, x2, Surround(s)', create'[s], close'[s], DoneOf(s)'), AroundType',
         create'[s] = <<>> \/ create'[s] = create[s]
  PROVE  IInv'
<1>1. config \in Configs /\ entry \in [SlotsOf(config) -> Entries(config)] /\ s \in DOMAIN entry BY SlotNow
<1>2. Commit(St(Put(entry, s, x2), Headed(queue, s, x1.flying), count, part)) BY <1>1, EnqueuePut
<1>3. entry' = Put(entry, s, x2) /\ queue' = Headed(queue, s, x1.flying) /\ count' = count /\ part' = part
  BY <1>2, CommitIs
<1>4. /\ x2.flying = x1.flying /\ x2.phase = "Pending" /\ x2.word = WordOf(queue, x1) /\ x2.owner = x1.owner
      /\ x2.life = x1.life
  BY DEF QueuedOf, Entries
<1>5. count' = Cardinality(Flying(config, Put(entry, s, x2))) BY <1>1, <1>3, <1>4, FlyingPut DEF IInv
<1>6. Steady(entry[s], x2) BY <1>4 DEF Steady
<1> QED BY <1>3, <1>4, <1>5, <1>6, StepQueued

(* A lease is released and its retirement queued.                          *)
LEMMA StepRetire ==
  ASSUME IInv, config' = config, NEW s \in SlotsOf(config), NEW x1 \in Entries(config),
         x1.flying = entry[s].flying, Steady(entry[s], x1), ~Waits(entry[s]),
         NEW x2, x2 = RetiredOf(config, x1, WordOf(queue, x1)),
         Commit(ReleaseEnqueue(St(Put(entry, s, x1), queue, count, part), s)), resv' = resv,
         \A t \in SlotsOf(config) \ {s} : SameAround(t),
         SlotOK(config, s, x2, Surround(s)', create'[s], close'[s], DoneOf(s)'), AroundType',
         create'[s] = <<>> \/ create'[s] = create[s]
  PROVE  IInv'
<1>1. config \in Configs /\ entry \in [SlotsOf(config) -> Entries(config)] /\ s \in DOMAIN entry BY SlotNow
<1>2. Commit(St(Put(entry, s, x2), Headed(queue, s, x1.flying), count, part)) BY <1>1, ReleaseEnqueuePut
<1>3. entry' = Put(entry, s, x2) /\ queue' = Headed(queue, s, x1.flying) /\ count' = count /\ part' = part
  BY <1>2, CommitIs
<1>4. /\ x2.flying = x1.flying /\ x2.phase = "Pending" /\ x2.word = WordOf(queue, x1) /\ x2.owner = x1.owner
      /\ x2.life = x1.life
  BY DEF RetiredOf, Advanced, Entries
<1>5. count' = Cardinality(Flying(config, Put(entry, s, x2))) BY <1>1, <1>3, <1>4, FlyingPut DEF IInv
<1>6. Steady(entry[s], x2) BY <1>4 DEF Steady
<1> QED BY <1>3, <1>4, <1>5, <1>6, StepQueued

(* The lifecycle changes, and nothing that the queue reads.                *)
LEMMA StepLive ==
  ASSUME IInv, config' = config, NEW s \in SlotsOf(config), NEW x2,
         entry' = Put(entry, s, x2), queue' = queue, count' = count, part' = part, resv' = resv,
         x2.owner = entry[s].owner, x2.flying = entry[s].flying, x2.phase = entry[s].phase, x2.word = entry[s].word,
         entry[s].life \notin {"FREE", "MAPPED"}, x2.life \notin {"FREE", "MAPPED"},
         \A t \in SlotsOf(config) \ {s} : SameAround(t),
         SlotOK(config, s, x2, Surround(s)', create'[s], close'[s], DoneOf(s)'), AroundType',
         create'[s] = <<>> \/ create'[s] = create[s]
  PROVE  IInv'
<1>1. Steady(entry[s], x2) BY DEF Steady
<1>2. (Waits(x2) <=> Waits(entry[s])) /\ (Waits(x2) => x2.word = entry[s].word) BY DEF Waits
<1> QED BY <1>1, <1>2, StepStill

(* Discard.                                                                *)
LEMMA DiscardStep ==
  ASSUME IInv, config' = config, NEW s \in SlotsOf(config), Discard(s)
  PROVE  IInv'
<1>1. /\ s \in made /\ made' = made \ {s}
      /\ Commit(CASE entry[s].life = "OPEN_TWO" -> Enqueue(Live(Store, s, "CLOSING_ONE"), s)
                  [] entry[s].life = "CLOSING_ONE" -> Live(Store, s, "CLOSING_ZERO")
                  [] OTHER -> ReleaseSlot(Store, s))
      /\ UNCHANGED <<resv, handle, file, acc, create, close, closed, done>>
  BY DEF Discard, kernel
<1>2. s \in OutboundOf(config) /\ OutboundOK(entry[s], Surround(s), create[s]) BY <1>1, OutboundSlot
<1>3. /\ SlotOK(config, s, entry[s], Surround(s), create[s], close[s], DoneOf(s)) /\ config \in Configs
      /\ entry \in [SlotsOf(config) -> Entries(config)] /\ AroundType /\ entry[s] \in Entries(config)
      /\ s \in DOMAIN entry
  BY SlotNow
<1>4. PICK v : v = Surround(s) OBVIOUS
<1>5. PICK v2 : v2 = Surround(s)' OBVIOUS
<1>6. PICK x : x = entry[s] OBVIOUS
<1>7. Store = St(Put(entry, s, x), queue, count, part) BY <1>6, StoreIs
<1>8. AroundType' BY <1>1, <1>3 DEF AroundType, AcceptSlots
<1>9. v.made /\ v2 = [v EXCEPT !.made = FALSE]
  <2>1. Moves(v, v2, s) BY <1>3, <1>4, <1>5, <1>8, SurroundMoves
  <2>2. v2.h = v.h /\ v2.file = v.file /\ v2.made = FALSE /\ v2.acc = v.acc BY <1>1, <2>1 DEF Moves
  <2> QED BY <1>1, <2>1, <2>2 DEF Moves, Around
<1>10. \A t \in SlotsOf(config) \ {s} : SameAround(t) BY <1>1, <1>3 DEF SameAround, AroundType
<1>11. OutboundOK(x, v, create[s]) /\ x.life \in {"OPEN_TWO", "CLOSING_ONE", "CLOSED_ONE"} BY <1>2, <1>4, <1>6, <1>9 DEF OutboundOK
<1>12. CASE x.life = "OPEN_TWO"
  <2>1. PICK x1 : x1 = LifeOf(x, "CLOSING_ONE") OBVIOUS
  <2>2. Live(Store, s, "CLOSING_ONE") = St(Put(entry, s, x1), queue, count, part) BY <1>3, <1>7, <2>1, LivePut
  <2>3. Commit(Enqueue(St(Put(entry, s, x1), queue, count, part), s)) BY <1>1, <1>6, <1>12, <2>2
  <2>4. x1 \in Entries(config) /\ x1.flying = x.flying /\ x1.owner = x.owner /\ x1.life = "CLOSING_ONE"
    BY <1>3, <1>6, <2>1 DEF LifeOf, Entries, Lives
  <2>5. PICK w : w = WordOf(queue, x1) OBVIOUS
  <2>6. w \in SlotsOf(config) \cup {None, Zero, Target} BY <2>4, <2>5, WordType
  <2>7. PICK x2 : x2 = QueuedOf(x1, w) OBVIOUS
  <2>8. x2 = [x EXCEPT !.life = "CLOSING_ONE", !.phase = "Pending", !.word = w]
    BY <1>3, <1>6, <2>1, <2>7 DEF LifeOf, QueuedOf, Entries
  <2>9. SlotOK(config, s, x2, v2, create[s], close[s], DoneOf(s))
    BY <1>2, <1>3, <1>4, <1>6, <1>9, <1>12, <2>6, <2>8, SlotDiscarded
  <2>10. SlotOK(config, s, x2, Surround(s)', create'[s], close'[s], DoneOf(s)') BY <1>1, <1>5, <2>9 DEF DoneOf
  <2>11. Steady(entry[s], x1) BY <1>6, <1>12, <2>4 DEF Steady
  <2>12. ~Waits(entry[s]) BY <1>6, <1>11, <1>12 DEF OutboundOK, Waits
  <2> QED BY <1>1, <1>6, <1>8, <1>10, <2>3, <2>4, <2>5, <2>7, <2>10, <2>11, <2>12, StepEnqueue
<1>13. CASE x.life = "CLOSING_ONE"
  <2>1. PICK x2 : x2 = LifeOf(x, "CLOSING_ZERO") OBVIOUS
  <2>2. Live(Store, s, "CLOSING_ZERO") = St(Put(entry, s, x2), queue, count, part) BY <1>3, <1>7, <2>1, LivePut
  <2>3. Commit(St(Put(entry, s, x2), queue, count, part)) BY <1>1, <1>6, <1>13, <2>2
  <2>4. entry' = Put(entry, s, x2) /\ queue' = queue /\ count' = count /\ part' = part BY <2>3, CommitIs
  <2>5. /\ x2.owner = x.owner /\ x2.flying = x.flying /\ x2.phase = x.phase /\ x2.word = x.word
        /\ x2.life = "CLOSING_ZERO"
    BY <1>3, <1>6, <2>1 DEF LifeOf, Entries
  <2>6. SlotOK(config, s, x2, v2, create[s], close[s], DoneOf(s))
    BY <1>2, <1>3, <1>4, <1>6, <1>9, <1>13, <2>1, SlotClosing DEF LifeOf
  <2>7. SlotOK(config, s, x2, Surround(s)', create'[s], close'[s], DoneOf(s)') BY <1>1, <1>5, <2>6 DEF DoneOf
  <2> QED BY <1>1, <1>6, <1>8, <1>10, <1>13, <2>4, <2>5, <2>7, StepLive
<1>14. CASE x.life = "CLOSED_ONE"
  <2>1. Commit(ReleaseSlot(St(Put(entry, s, x), queue, count, part), s)) BY <1>1, <1>6, <1>7, <1>14
  <2>2. x.owner # None /\ create[s] = <<>> BY <1>11, <1>14 DEF OutboundOK
  <2>3. PICK x2 : x2 = LifeOf(x, "MAPPED") OBVIOUS
  <2>4. SlotOK(config, s, x2, v2, create[s], close[s], DoneOf(s))
    BY <1>2, <1>3, <1>4, <1>6, <1>9, <1>14, <2>3, SlotUsed DEF LifeOf
  <2>5. SlotOK(config, s, LifeOf(x, "MAPPED"), Surround(s)', create'[s], close'[s], DoneOf(s)')
    BY <1>1, <1>5, <2>3, <2>4 DEF DoneOf
  <2>6. Put(entry, s, x) = entry BY <1>3, <1>6 DEF Put
  <2>7. Chained(config, queue, Put(entry, s, x)) BY <2>6 DEF IInv, QueueInv, Chained
  <2>8. count = Cardinality(Flying(config, Put(entry, s, x))) BY <2>6 DEF IInv
  <2> QED BY <1>1, <1>2, <1>3, <1>6, <1>8, <1>10, <1>14, <2>1, <2>2, <2>5, <2>7, <2>8, StepRelease
<1> QED BY <1>11, <1>12, <1>13, <1>14

(* DropCreating.                                                           *)
LEMMA DropCreatingStep ==
  ASSUME IInv, config' = config, NEW s \in SlotsOf(config), DropCreating(s)
  PROVE  IInv'
<1>1. /\ handle[s] \in {"unopened", "creating"} /\ handle' = [handle EXCEPT ![s] = "none"]
      /\ Commit(CASE entry[s].life = "CREATING_ONE" -> Live(ReleaseOnly(Store, s), s, "CREATING_ZERO")
                  [] entry[s].life = "OPEN_TWO" -> ReleaseEnqueue(Live(Store, s, "CLOSING_ONE"), s)
                  [] entry[s].life = "CLOSING_ONE" -> Live(ReleaseOnly(Store, s), s, "CLOSING_ZERO")
                  [] OTHER -> ReleaseSlot(ReleaseOnly(Store, s), s))
      /\ UNCHANGED <<resv, made, file, acc, create, close, closed, done>>
  BY DEF DropCreating, kernel
<1>2. s \in OutboundOf(config) /\ OutboundOK(entry[s], Surround(s), create[s]) BY <1>1, OutboundSlot
<1>3. /\ SlotOK(config, s, entry[s], Surround(s), create[s], close[s], DoneOf(s)) /\ config \in Configs
      /\ entry \in [SlotsOf(config) -> Entries(config)] /\ AroundType /\ entry[s] \in Entries(config)
      /\ s \in DOMAIN entry
  BY SlotNow
<1>4. PICK v : v = Surround(s) OBVIOUS
<1>5. PICK v2 : v2 = Surround(s)' OBVIOUS
<1>6. PICK x : x = entry[s] OBVIOUS
<1>7. Store = St(Put(entry, s, x), queue, count, part) BY <1>6, StoreIs
<1>8. AroundType' BY <1>1, <1>3 DEF AroundType, AcceptSlots
<1>9. v.h \in {"unopened", "creating"} /\ v2 = [v EXCEPT !.h = "none"]
  <2>1. Moves(v, v2, s) BY <1>3, <1>4, <1>5, <1>8, SurroundMoves
  <2>2. handle'[s] = "none" BY <1>1, <1>3 DEF AroundType
  <2>3. v2.h = "none" /\ v2.file = v.file /\ v2.made = v.made /\ v2.acc = v.acc BY <1>1, <2>1, <2>2 DEF Moves
  <2> QED BY <1>1, <2>1, <2>3 DEF Moves, Around
<1>10. \A t \in SlotsOf(config) \ {s} : SameAround(t) BY <1>1, <1>3 DEF SameAround, AroundType
<1>11. OutboundOK(x, v, create[s]) /\ x \in Entries(config) BY <1>2, <1>3, <1>4, <1>6
<1>12. x.life \in {"UNOPENED_ONE", "CREATING_ONE", "OPEN_TWO", "FAILED_ONE", "CLOSING_ONE", "CLOSED_ONE"}
  BY <1>9, <1>11 DEF OutboundOK
<1>13. PICK y : y = ReleasedOf(config, x) OBVIOUS
<1>14. ReleaseOnly(Store, s) = St(Put(entry, s, y), queue, count, part) BY <1>3, <1>6, <1>7, <1>13, ReleaseOnlyPut
<1>15. PICK g : g = GenAfter(config, x) OBVIOUS
<1>16. PICK sp : sp = SpentAfter(config, x) OBVIOUS
<1>17. g \in 0 .. config.gens /\ sp \in BOOLEAN BY <1>3, <1>11, <1>15, <1>16, AfterType
<1>18. PICK ph : ph = IF x.phase \in {"Ready", "Quiescent"} THEN "Ready" ELSE x.phase OBVIOUS
<1>19. y = [x EXCEPT !.gen = g, !.spent = sp, !.phase = ph, !.lease = FALSE]
  BY <1>11, <1>13, <1>15, <1>16, <1>17, <1>18 DEF ReleasedOf, StatusOf, Advanced, Entries
<1>20. ph \in {"Ready", "Pending", "InFlight", "Quiescent"} BY <1>11, <1>18 DEF Entries
<1>21. /\ y \in Entries(config) /\ y.owner = x.owner /\ y.flying = x.flying /\ y.word = x.word /\ y.life = x.life
       /\ y.phase = ph
  BY <1>11, <1>17, <1>19, <1>20 DEF Entries
<1>22. CASE x.life \in {"CREATING_ONE", "CLOSING_ONE"}
  <2>1. PICK l : l = IF x.life = "CREATING_ONE" THEN "CREATING_ZERO" ELSE "CLOSING_ZERO" OBVIOUS
  <2>2. PICK x2 : x2 = LifeOf(y, l) OBVIOUS
  <2>3. Live(ReleaseOnly(Store, s), s, l) = St(Put(entry, s, x2), queue, count, part) BY <1>3, <1>14, <2>2, LivePut
  <2>4. Commit(Live(ReleaseOnly(Store, s), s, l)) BY <1>1, <1>6, <1>22, <2>1
  <2>5. entry' = Put(entry, s, x2) /\ queue' = queue /\ count' = count /\ part' = part BY <2>3, <2>4, CommitIs
  <2>6. ph = x.phase BY <1>18, <1>11, <1>22 DEF OutboundOK, Entries
  <2>7. x2.owner = x.owner /\ x2.flying = x.flying /\ x2.phase = x.phase /\ x2.word = x.word /\ x2.life = l
    BY <1>21, <2>2, <2>6 DEF LifeOf, Entries
  <2>8. x2 = [x EXCEPT !.gen = g, !.spent = sp, !.lease = FALSE, !.life = l]
    BY <1>11, <1>17, <1>19, <2>2, <2>6 DEF LifeOf, Entries
  <2>9. SlotOK(config, s, x2, v2, create[s], close[s], DoneOf(s))
    <3>1. CASE x.life = "CREATING_ONE"
      <4>1. x2 = [x EXCEPT !.gen = g, !.spent = sp, !.lease = FALSE, !.life = "CREATING_ZERO"] BY <2>1, <2>8, <3>1
      <4> QED BY <1>2, <1>3, <1>4, <1>6, <1>9, <1>15, <1>16, <3>1, <4>1, SlotForsaken
    <3>2. CASE x.life = "CLOSING_ONE"
      <4>1. x2 = [x EXCEPT !.gen = g, !.spent = sp, !.lease = FALSE, !.life = "CLOSING_ZERO"] BY <2>1, <2>8, <3>2
      <4> QED BY <1>2, <1>3, <1>4, <1>6, <1>9, <1>15, <1>16, <3>2, <4>1, SlotLeft
    <3> QED BY <1>22, <3>1, <3>2
  <2>10. SlotOK(config, s, x2, Surround(s)', create'[s], close'[s], DoneOf(s)') BY <1>1, <1>5, <2>9 DEF DoneOf
  <2>11. entry[s].life \notin {"FREE", "MAPPED"} /\ x2.life \notin {"FREE", "MAPPED"} BY <1>6, <1>22, <2>1, <2>7
  <2> QED BY <1>1, <1>6, <1>8, <1>10, <2>5, <2>7, <2>10, <2>11, StepLive
<1>23. CASE x.life = "OPEN_TWO"
  <2>1. PICK x1 : x1 = LifeOf(x, "CLOSING_ONE") OBVIOUS
  <2>2. Live(Store, s, "CLOSING_ONE") = St(Put(entry, s, x1), queue, count, part) BY <1>3, <1>7, <2>1, LivePut
  <2>3. Commit(ReleaseEnqueue(St(Put(entry, s, x1), queue, count, part), s)) BY <1>1, <1>6, <1>23, <2>2
  <2>4. /\ x1 \in Entries(config) /\ x1.flying = x.flying /\ x1.owner = x.owner /\ x1.life = "CLOSING_ONE"
        /\ x1.gen = x.gen /\ x1.spent = x.spent
    BY <1>3, <1>6, <2>1 DEF LifeOf, Entries, Lives
  <2>5. PICK w : w = WordOf(queue, x1) OBVIOUS
  <2>6. w \in SlotsOf(config) \cup {None, Zero, Target} BY <2>4, <2>5, WordType
  <2>7. PICK x2 : x2 = RetiredOf(config, x1, w) OBVIOUS
  <2>8. GenAfter(config, x1) = g /\ SpentAfter(config, x1) = sp BY <1>15, <1>16, <2>4 DEF GenAfter, SpentAfter
  <2>9. x2 = [x EXCEPT !.gen = g, !.spent = sp, !.lease = FALSE, !.life = "CLOSING_ONE", !.phase = "Pending", !.word = w]
    BY <1>11, <1>17, <2>1, <2>7, <2>8 DEF LifeOf, RetiredOf, Advanced, Entries
  <2>10. SlotOK(config, s, x2, v2, create[s], close[s], DoneOf(s))
    BY <1>2, <1>3, <1>4, <1>6, <1>9, <1>15, <1>16, <1>23, <2>6, <2>9, SlotDropped
  <2>11. SlotOK(config, s, x2, Surround(s)', create'[s], close'[s], DoneOf(s)') BY <1>1, <1>5, <2>10 DEF DoneOf
  <2>12. Steady(entry[s], x1) BY <1>6, <1>23, <2>4 DEF Steady
  <2>13. ~Waits(entry[s]) BY <1>6, <1>11, <1>23 DEF OutboundOK, Waits
  <2> QED BY <1>1, <1>6, <1>8, <1>10, <2>3, <2>4, <2>5, <2>7, <2>11, <2>12, <2>13, StepRetire
<1>24. CASE x.life \in {"UNOPENED_ONE", "FAILED_ONE", "CLOSED_ONE"}
  <2>1. Commit(ReleaseSlot(St(Put(entry, s, y), queue, count, part), s)) BY <1>1, <1>6, <1>14, <1>24
  <2>2. x.owner # None /\ create[s] = <<>> /\ x.phase \in {"Ready", "Quiescent"} BY <1>11, <1>24 DEF OutboundOK, Entries
  <2>3. PICK x2 : x2 = LifeOf(y, "MAPPED") OBVIOUS
  <2>4. x2 = [x EXCEPT !.gen = g, !.spent = sp, !.lease = FALSE, !.phase = "Ready", !.life = "MAPPED"]
    BY <1>11, <1>17, <1>18, <1>19, <2>2, <2>3 DEF LifeOf, Entries
  <2>5. SlotOK(config, s, x2, v2, create[s], close[s], DoneOf(s))
    BY <1>2, <1>3, <1>4, <1>6, <1>9, <1>15, <1>16, <1>24, <2>4, SlotReturned
  <2>6. SlotOK(config, s, LifeOf(y, "MAPPED"), Surround(s)', create'[s], close'[s], DoneOf(s)')
    BY <1>1, <1>5, <2>3, <2>5 DEF DoneOf
  <2>7. Chained(config, queue, Put(entry, s, y))
    <3>1. Chained(config, queue, entry) BY DEF IInv, QueueInv, Chained
    <3>2. ~Waits(y) /\ ~Waits(entry[s]) BY <1>6, <1>18, <1>21, <2>2 DEF Waits
    <3> QED BY <3>1, <3>2, <1>3, ChainedStill
  <2>8. count = Cardinality(Flying(config, Put(entry, s, y))) BY <1>3, <1>6, <1>21, FlyingPut DEF IInv
  <2>9. y.owner = entry[s].owner /\ y.owner # None /\ y.life = entry[s].life /\ y.life # "MAPPED" BY <1>6, <1>21, <1>24, <2>2
  <2> QED BY <1>1, <1>2, <1>8, <1>10, <1>21, <2>1, <2>2, <2>6, <2>7, <2>8, <2>9, StepRelease
<1> QED BY <1>12, <1>22, <1>23, <1>24
(* A step of one slot whose partition is given.                            *)
LEMMA StepPart ==
  ASSUME IInv, config' = config, NEW s \in SlotsOf(config), NEW x2, entry' = Put(entry, s, x2),
         \A t \in SlotsOf(config) \ {s} : SameAround(t),
         SlotOK(config, s, x2, Surround(s)', create'[s], close'[s], DoneOf(s)'), AroundType',
         queue' = queue, count' = count, ~Waits(entry[s]), ~Waits(x2), x2.flying = entry[s].flying,
         PartOK(config, part', Put(entry, s, x2), resv'), CreatesOK(config, part', Put(entry, s, x2), create')
  PROVE  IInv'
<1>1. TypeInv /\ SlotsInv /\ config \in Configs /\ entry \in [SlotsOf(config) -> Entries(config)]
  BY DEF IInv, TypeInv
<1>2. TypeInv' /\ SlotsInv' BY <1>1, SlotStep
<1>3. Chained(config, queue, entry) BY DEF IInv, QueueInv, Chained
<1>4. Chained(config, queue, Put(entry, s, x2)) BY <1>1, <1>3, ChainedStill
<1>5. QueueInv' BY <1>4 DEF QueueInv, Chained
<1>6. count' = Cardinality(Flying(config, Put(entry, s, x2))) BY <1>1, FlyingPut DEF IInv
<1> QED BY <1>2, <1>5, <1>6 DEF IInv

(* Drop.                                                                   *)
LEMMA DropStep ==
  ASSUME IInv, config' = config, NEW s \in SlotsOf(config), Drop(s)
  PROVE  IInv'
<1>1. /\ handle[s] = "active" /\ handle' = [handle EXCEPT ![s] = "none"]
      /\ Commit(ReleaseEnqueue(IF entry[s].owner # None THEN Live(Store, s, "CLOSING_ZERO") ELSE Store, s))
      /\ UNCHANGED <<resv, made, file, acc, create, close, closed, done>>
  BY DEF Drop, kernel
<1>3. /\ SlotOK(config, s, entry[s], Surround(s), create[s], close[s], DoneOf(s)) /\ config \in Configs
      /\ entry \in [SlotsOf(config) -> Entries(config)] /\ AroundType /\ entry[s] \in Entries(config)
      /\ s \in DOMAIN entry /\ DoneOf(s) \in SUBSET (0 .. config.gens)
  BY SlotNow
<1>4. PICK v : v = Surround(s) OBVIOUS
<1>5. PICK v2 : v2 = Surround(s)' OBVIOUS
<1>6. PICK x : x = entry[s] OBVIOUS
<1>7. Store = St(Put(entry, s, x), queue, count, part) BY <1>6, StoreIs
<1>8. AroundType' BY <1>1, <1>3 DEF AroundType, AcceptSlots
<1>9. v.h = "active" /\ v2 = [v EXCEPT !.h = "none"]
  <2>1. Moves(v, v2, s) BY <1>3, <1>4, <1>5, <1>8, SurroundMoves
  <2>2. handle'[s] = "none" BY <1>1, <1>3 DEF AroundType
  <2>3. v2.h = "none" /\ v2.file = v.file /\ v2.made = v.made /\ v2.acc = v.acc BY <1>1, <2>1, <2>2 DEF Moves
  <2> QED BY <1>1, <2>1, <2>3 DEF Moves, Around
<1>10. \A t \in SlotsOf(config) \ {s} : SameAround(t) BY <1>1, <1>3 DEF SameAround, AroundType
<1>11. PICK l : l = IF x.owner # None THEN "CLOSING_ZERO" ELSE x.life OBVIOUS
<1>12. x \in Entries(config) /\ l \in Lives BY <1>3, <1>6, <1>11 DEF Entries, Lives
<1>13. PICK x1 : x1 = LifeOf(x, l) OBVIOUS
<1>14. /\ x1 \in Entries(config) /\ x1.flying = x.flying /\ x1.owner = x.owner /\ x1.life = l
       /\ x1.gen = x.gen /\ x1.spent = x.spent
  BY <1>12, <1>13 DEF LifeOf, Entries
<1>15. Commit(ReleaseEnqueue(St(Put(entry, s, x1), queue, count, part), s))
  <2>1. CASE x.owner # None
    <3>1. Live(Store, s, "CLOSING_ZERO") = St(Put(entry, s, x1), queue, count, part)
      BY <1>3, <1>7, <1>11, <1>13, <2>1, LivePut
    <3> QED BY <1>1, <1>6, <2>1, <3>1
  <2>2. CASE x.owner = None
    <3>1. x1 = x BY <1>11, <1>12, <1>13, <2>2 DEF LifeOf, Entries
    <3> QED BY <1>1, <1>6, <1>7, <2>2, <3>1
  <2> QED BY <2>1, <2>2
<1>16. PICK w : w = WordOf(queue, x1) OBVIOUS
<1>17. w \in SlotsOf(config) \cup {None, Zero, Target} BY <1>14, <1>16, WordType
<1>18. PICK x2 : x2 = RetiredOf(config, x1, w) OBVIOUS
<1>19. PICK g : g = GenAfter(config, x) OBVIOUS
<1>20. PICK sp : sp = SpentAfter(config, x) OBVIOUS
<1>21. g \in 0 .. config.gens /\ sp \in BOOLEAN BY <1>3, <1>12, <1>19, <1>20, AfterType
<1>22. GenAfter(config, x1) = g /\ SpentAfter(config, x1) = sp BY <1>19, <1>20, <1>14 DEF GenAfter, SpentAfter
<1>23. x2 = [x EXCEPT !.gen = g, !.spent = sp, !.lease = FALSE, !.phase = "Pending", !.life = l, !.word = w]
  BY <1>12, <1>13, <1>18, <1>21, <1>22 DEF LifeOf, RetiredOf, Advanced, Entries
<1>24. /\ SlotOK(config, s, x2, v2, create[s], close[s], DoneOf(s)) /\ ~Waits(x)
       /\ x.life # "MAPPED" /\ (x.owner = None \/ x.life # "FREE")
  <2>1. CASE s \in OutboundOf(config)
    <3>1. SlotOK(config, s, x2, v2, create[s], close[s], DoneOf(s))
      BY <1>3, <1>4, <1>6, <1>9, <1>11, <1>12, <1>17, <1>19, <1>20, <1>23, <2>1, SlotRetired, ZenonT(60)
    <3>2. ~(s < config.accept) /\ SlotOK(config, s, x, v, create[s], close[s], DoneOf(s))
      BY <1>3, <1>4, <1>6, <2>1, SlotKinds, ConfigType DEF OutboundOf
    <3>3. OutboundOK(x, v, create[s]) BY <3>2 DEF SlotOK
    <3> QED BY <1>9, <3>1, <3>3 DEF OutboundOK, Waits
  <2>2. CASE s \in 0 .. config.accept - 1
    <3>1. s < config.accept /\ SlotOK(config, s, x, v, create[s], close[s], DoneOf(s))
      BY <1>3, <1>4, <1>6, <2>2, ConfigType
    <3>2. AcceptOK(config, x, v, create[s], DoneOf(s)) /\ RetireOK(config, s, x, v, close[s]) BY <3>1 DEF SlotOK
    <3>3. x.owner = None /\ x.lease /\ x.phase = "Ready" /\ x.life = "FREE" BY <1>9, <3>2 DEF AcceptOK, RetireOK
    <3>4. l = x.life BY <1>11, <3>3
    <3>5. x2 = [x EXCEPT !.gen = g, !.spent = sp, !.lease = FALSE, !.phase = "Pending", !.word = w]
      BY <1>12, <1>23, <3>4 DEF Entries
    <3>6. SlotOK(config, s, x2, v2, create[s], close[s], DoneOf(s))
      BY <1>3, <1>9, <1>17, <1>19, <1>20, <2>2, <3>1, <3>5, AcceptRetired
    <3> QED BY <3>3, <3>6 DEF Waits
  <2> QED BY <2>1, <2>2, SlotSide
<1>25. SlotOK(config, s, x2, Surround(s)', create'[s], close'[s], DoneOf(s)') BY <1>1, <1>5, <1>24 DEF DoneOf
<1>26. Steady(entry[s], x1) BY <1>6, <1>11, <1>14, <1>24 DEF Steady
<1> QED BY <1>1, <1>6, <1>8, <1>10, <1>14, <1>15, <1>16, <1>18, <1>24, <1>25, <1>26, StepRetire

(* Accepted.                                                               *)
LEMMA AcceptedStep ==
  ASSUME IInv, config' = config, NEW s \in SlotsOf(config), NEW b \in BOOLEAN, Accepted(s, b)
  PROVE  IInv'
<1>1. /\ s \in acc /\ acc' = acc \ {s}
      /\ UNCHANGED <<resv, made, file, create, close, closed, done>>
  BY DEF Accepted
<1>2. \/ /\ CanClaim(entry[s]) /\ Commit(Claimed(Store, s)) /\ handle' = [handle EXCEPT ![s] = "active"]
      \/ Commit(Abandoned(Store, s)) /\ handle' = handle
  BY DEF Accepted
<1>3. /\ SlotOK(config, s, entry[s], Surround(s), create[s], close[s], DoneOf(s)) /\ config \in Configs
      /\ entry \in [SlotsOf(config) -> Entries(config)] /\ AroundType /\ entry[s] \in Entries(config)
      /\ s \in DOMAIN entry /\ DoneOf(s) \in SUBSET (0 .. config.gens)
  BY SlotNow
<1>4. PICK v : v = Surround(s) OBVIOUS
<1>5. PICK v2 : v2 = Surround(s)' OBVIOUS
<1>6. PICK x : x = entry[s] OBVIOUS
<1>7. Store = St(Put(entry, s, x), queue, count, part) BY <1>6, StoreIs
<1>8. s \in 0 .. config.accept - 1 BY <1>1, <1>3, SlotsAre DEF AroundType
<1>9. AroundType' BY <1>1, <1>2, <1>3 DEF AroundType, AcceptSlots
<1>10. Moves(v, v2, s) BY <1>3, <1>4, <1>5, <1>9, SurroundMoves
<1>11. v.acc /\ v2.file = v.file /\ v2.made = v.made /\ v2.acc = FALSE BY <1>1, <1>10 DEF Moves
<1>12. \A t \in SlotsOf(config) \ {s} : SameAround(t) BY <1>1, <1>2, <1>3 DEF SameAround, AroundType
<1>13. /\ SlotOK(config, s, x, v, create[s], close[s], DoneOf(s)) /\ x \in Entries(config)
       /\ x.phase \in {"Ready", "InFlight"} /\ ~x.lease /\ x.life = "FREE"
  <2>1. SlotOK(config, s, x, v, create[s], close[s], DoneOf(s)) /\ s < config.accept BY <1>3, <1>4, <1>6, <1>8, ConfigType
  <2> QED BY <1>3, <1>6, <1>11, <2>1 DEF SlotOK, RetireOK, AcceptOK
<1>14. ~Waits(entry[s]) BY <1>6, <1>13 DEF Waits
<1>15. CASE CanClaim(entry[s]) /\ Commit(Claimed(Store, s)) /\ handle' = [handle EXCEPT ![s] = "active"]
  <2>1. PICK x2 : x2 = ClaimOf(x) OBVIOUS
  <2>2. Commit(St(Put(entry, s, x2), queue, count, part)) BY <1>3, <1>7, <1>15, <2>1, ClaimedPut
  <2>3. entry' = Put(entry, s, x2) /\ queue' = queue /\ count' = count /\ part' = part BY <2>2, CommitIs
  <2>4. v2 = [v EXCEPT !.h = "active", !.acc = FALSE]
    <3>1. handle'[s] = "active" BY <1>3, <1>15 DEF AroundType
    <3>2. v2.h = "active" BY <1>10, <3>1 DEF Moves
    <3> QED BY <1>10, <1>11, <3>2 DEF Moves, Around
  <2>5. SlotOK(config, s, x2, v2, create[s], close[s], DoneOf(s))
    BY <1>3, <1>6, <1>8, <1>11, <1>13, <1>15, <2>1, <2>4, AcceptClaimed DEF ClaimOf
  <2>6. SlotOK(config, s, x2, Surround(s)', create'[s], close'[s], DoneOf(s)') BY <1>1, <1>5, <2>5 DEF DoneOf
  <2>7. x2.owner = x.owner /\ x2.life = x.life /\ x2.flying = x.flying /\ x2.phase = "Ready"
    BY <1>13, <2>1 DEF ClaimOf, Entries
  <2>8. Steady(entry[s], x2) /\ ~Waits(x2) BY <1>6, <2>7 DEF Steady, Waits
  <2> QED BY <1>1, <1>6, <1>9, <1>12, <1>14, <2>3, <2>6, <2>7, <2>8, StepStill
<1>16. CASE Commit(Abandoned(Store, s)) /\ handle' = handle
  <2>1. v2 = [v EXCEPT !.acc = FALSE]
    <3>1. v2.h = v.h BY <1>10, <1>16 DEF Moves
    <3> QED BY <1>10, <1>11, <3>1 DEF Moves, Around
  <2>2. Store.e[s] = x BY <1>6 DEF Store
  <2>3. CASE x.spent
    <3>1. PICK no : no = FALSE OBVIOUS
    <3>2. PICK x2 : x2 = StatusOf(x, "Quiescent", no) OBVIOUS
    <3>3. Abandoned(Store, s) = Status(Store, s, "Quiescent", no) BY <2>2, <2>3, <3>1 DEF Abandoned
    <3>4. Status(Store, s, "Quiescent", no) = St(Put(entry, s, x2), queue, count, part) BY <1>3, <1>7, <3>2, StatusPut
    <3>5. Commit(St(Put(entry, s, x2), queue, count, part)) BY <1>16, <3>3, <3>4
    <3>6. entry' = Put(entry, s, x2) /\ queue' = queue /\ count' = count /\ part' = part BY <3>5, CommitIs
    <3>7. x2 = [x EXCEPT !.phase = "Quiescent", !.lease = FALSE] BY <3>1, <3>2 DEF StatusOf
    <3>8. SlotOK(config, s, x2, v2, create[s], close[s], DoneOf(s))
      BY <1>3, <1>8, <1>11, <1>13, <2>1, <2>3, <3>7, AcceptQuarantined
    <3>9. SlotOK(config, s, x2, Surround(s)', create'[s], close'[s], DoneOf(s)') BY <1>1, <1>5, <3>8 DEF DoneOf
    <3>10. x2.owner = x.owner /\ x2.life = x.life /\ x2.flying = x.flying /\ x2.phase = "Quiescent"
      BY <1>13, <3>7 DEF Entries
    <3>11. Steady(entry[s], x2) /\ ~Waits(x2) BY <1>6, <3>10 DEF Steady, Waits
    <3> QED BY <1>1, <1>6, <1>9, <1>12, <1>14, <3>6, <3>9, <3>10, <3>11, StepStill
  <2>4. CASE ~x.spent
    <3>1. Commit(ReleaseEnqueue(St(Put(entry, s, x), queue, count, part), s))
      BY <1>7, <1>16, <2>2, <2>4 DEF Abandoned
    <3>2. PICK w : w = WordOf(queue, x) OBVIOUS
    <3>3. w \in SlotsOf(config) \cup {None, Zero, Target} BY <1>13, <3>2, WordType
    <3>4. PICK x2 : x2 = RetiredOf(config, x, w) OBVIOUS
    <3>5. PICK g : g = GenAfter(config, x) OBVIOUS
    <3>6. PICK sp : sp = SpentAfter(config, x) OBVIOUS
    <3>7. g \in 0 .. config.gens /\ sp \in BOOLEAN BY <1>3, <1>13, <3>5, <3>6, AfterType
    <3>8. x2 = [x EXCEPT !.gen = g, !.spent = sp, !.lease = FALSE, !.phase = "Pending", !.word = w]
      BY <1>13, <3>4, <3>5, <3>6, <3>7 DEF RetiredOf, Advanced, Entries
    <3>9. SlotOK(config, s, x2, v2, create[s], close[s], DoneOf(s))
      BY <1>3, <1>8, <1>11, <1>13, <2>1, <2>4, <3>3, <3>5, <3>6, <3>8, AcceptAbandoned
    <3>10. SlotOK(config, s, x2, Surround(s)', create'[s], close'[s], DoneOf(s)') BY <1>1, <1>5, <3>9 DEF DoneOf
    <3>11. Steady(entry[s], x) /\ x.flying = entry[s].flying BY <1>6 DEF Steady
    <3> QED BY <1>1, <1>9, <1>12, <1>13, <1>14, <3>1, <3>2, <3>4, <3>10, <3>11, StepRetire
  <2> QED BY <2>3, <2>4
<1> QED BY <1>2, <1>15, <1>16
(* LocalOf: the slot is found again by its route and index.                *)
LEMMA LocalIs ==
  ASSUME IInv, NEW s \in OutboundOf(config), entry[s].owner # None
  PROVE  /\ entry[s].owner \in config.routes /\ LocalOf(s) \in Nat
         /\ At(part.routes[entry[s].owner], part.routes[entry[s].owner].start + LocalOf(s) + 1)
         /\ part.mapping[part.routes[entry[s].owner].start + LocalOf(s) + 1] = s
<1>1. config \in Configs /\ Kinds(config, entry) BY KindsHold DEF IInv, TypeInv
<1>2. PartShape(config, part) /\ Tiled(config, part) /\ Owned(config, part, entry) BY DEF IInv, PartOK
<1>3. PICK r : r = entry[s].owner OBVIOUS
<1>4. PICK l : l = part.routes[r] OBVIOUS
<1>5. r \in config.routes /\ \E i \in 1 .. part.mapped : part.mapping[i] = s /\ At(l, i)
  BY <1>1, <1>2, <1>3, <1>4, PlaceOf
<1>6. PICK i \in 1 .. part.mapped : part.mapping[i] = s /\ At(l, i) BY <1>5
<1>7. l \in Leases /\ l.st # "none" /\ i \in l.start + 1 .. l.start + l.len
  <2>1. l \in Leases BY <1>1, <1>2, <1>4, <1>5, MappingType
  <2> QED BY <1>6, <2>1 DEF At
<1>8. l.start \in Nat /\ l.len \in Nat BY <1>7, LeaseType
<1>9. i \in Int BY <1>7, <1>8
<1>10. i - l.start - 1 \in 0 .. l.len - 1 /\ l.start + (i - l.start - 1) + 1 = i BY <1>7, <1>8, <1>9
<1>11. \E k \in 0 .. l.len - 1 : LocalSlot(part, r, k) = s BY <1>4, <1>6, <1>10 DEF LocalSlot
<1>12. PICK k : k = LocalOf(s) OBVIOUS
<1>13. k = CHOOSE j \in 0 .. l.len - 1 : LocalSlot(part, r, j) = s BY <1>3, <1>4, <1>12 DEF LocalOf
<1>14. k \in 0 .. l.len - 1 /\ LocalSlot(part, r, k) = s BY <1>11, <1>13
<1>15. part.mapping[l.start + k + 1] = s BY <1>4, <1>14 DEF LocalSlot
<1>16. k \in Nat /\ At(l, l.start + k + 1) BY <1>7, <1>8, <1>14 DEF At
<1> QED BY <1>3, <1>4, <1>5, <1>12, <1>15, <1>16

(* Begin.                                                                  *)
LEMMA BeginStep ==
  ASSUME IInv, config' = config, NEW s \in SlotsOf(config), Begin(s)
  PROVE  IInv'
<1>1. /\ handle[s] = "unopened" /\ handle' = [handle EXCEPT ![s] = "creating"]
      /\ Commit(Live(Store, s, "CREATING_ONE"))
      /\ create' = [create EXCEPT ![s] = <<entry[s].owner, LocalOf(s)>>]
      /\ UNCHANGED <<resv, made, file, acc, close, closed, done>>
  BY DEF Begin
<1>2. s \in OutboundOf(config) /\ OutboundOK(entry[s], Surround(s), create[s]) BY <1>1, OutboundSlot
<1>3. /\ SlotOK(config, s, entry[s], Surround(s), create[s], close[s], DoneOf(s)) /\ config \in Configs
      /\ entry \in [SlotsOf(config) -> Entries(config)] /\ AroundType /\ entry[s] \in Entries(config)
      /\ s \in DOMAIN entry
  BY SlotNow
<1>4. PICK v : v = Surround(s) OBVIOUS
<1>5. PICK v2 : v2 = Surround(s)' OBVIOUS
<1>6. PICK x : x = entry[s] OBVIOUS
<1>7. PICK k : k = LocalOf(s) OBVIOUS
<1>8. PICK x2 : x2 = LifeOf(x, "CREATING_ONE") OBVIOUS
<1>9. v.h = "unopened"
  BY <1>1, <1>4 DEF Surround
<1>10. /\ x.life = "UNOPENED_ONE" /\ x.owner # None /\ x.phase \notin {"Pending", "InFlight"} /\ x \in Entries(config)
  <2>1. OutboundOK(x, v, create[s]) BY <1>2, <1>4, <1>6
  <2> QED BY <1>3, <1>6, <1>9, <2>1 DEF OutboundOK
<1>11. /\ x.owner \in config.routes /\ k \in Nat /\ At(part.routes[x.owner], part.routes[x.owner].start + k + 1)
       /\ part.mapping[part.routes[x.owner].start + k + 1] = s
  BY <1>2, <1>6, <1>7, <1>10, LocalIs
<1>12. create'[s] = <<x.owner, k>> /\ \A t \in SlotsOf(config) \ {s} : create'[t] = create[t]
  BY <1>1, <1>3, <1>6, <1>7 DEF AroundType
<1>13. AroundType'
  <2>1. <<x.owner, k>> \in Int \X Nat BY <1>3, <1>11, ConfigType
  <2>2. create' \in [SlotsOf(config) -> {<<>>} \cup (Int \X Nat)] BY <1>1, <1>3, <1>6, <1>7, <2>1 DEF AroundType
  <2>3. handle' \in [SlotsOf(config) -> {"none", "unopened", "creating", "reserved", "active"}] BY <1>1, <1>3 DEF AroundType
  <2> QED BY <1>1, <1>3, <2>2, <2>3 DEF AroundType, AcceptSlots
<1>14. entry' = Put(entry, s, x2) /\ queue' = queue /\ count' = count /\ part' = part
  <2>1. Store = St(Put(entry, s, x), queue, count, part) BY <1>6, StoreIs
  <2>2. Live(Store, s, "CREATING_ONE") = St(Put(entry, s, x2), queue, count, part) BY <1>3, <1>8, <2>1, LivePut
  <2>3. Commit(St(Put(entry, s, x2), queue, count, part)) BY <1>1, <2>2
  <2> QED BY <2>3, CommitIs
<1>15. v2 = [v EXCEPT !.h = "creating"]
  <2>1. Moves(v, v2, s) BY <1>3, <1>4, <1>5, <1>13, SurroundMoves
  <2>2. handle'[s] = "creating" BY <1>1, <1>3 DEF AroundType
  <2>3. v2.h = "creating" /\ v2.file = v.file /\ v2.made = v.made /\ v2.acc = v.acc BY <1>1, <2>1, <2>2 DEF Moves
  <2> QED BY <2>1, <2>3 DEF Moves, Around
<1>16. SlotOK(config, s, x2, v2, create'[s], close[s], DoneOf(s))
  <2>1. create'[s] # <<>> BY <1>12
  <2>2. PICK cr2 : cr2 = create'[s] OBVIOUS
  <2>3. SlotOK(config, s, x2, v2, cr2, close[s], DoneOf(s))
    BY <1>2, <1>3, <1>4, <1>6, <1>8, <1>9, <1>15, <2>1, <2>2, SlotBegun DEF LifeOf
  <2> QED BY <2>2, <2>3
<1>17. SlotOK(config, s, x2, Surround(s)', create'[s], close'[s], DoneOf(s)') BY <1>1, <1>5, <1>16 DEF DoneOf
<1>18. \A t \in SlotsOf(config) \ {s} : SameAround(t) BY <1>1, <1>3, <1>12 DEF SameAround, AroundType
<1>19. x2.owner = x.owner /\ x2.life = "CREATING_ONE" /\ x2.flying = x.flying /\ x2.phase = x.phase
  BY <1>8, <1>10 DEF LifeOf, Entries
<1>20. ~Waits(entry[s]) /\ ~Waits(x2) BY <1>6, <1>10, <1>19 DEF Waits
<1>21. PartOK(config, part', Put(entry, s, x2), resv')
  <2>1. PartOK(config, part, entry, resv) BY DEF IInv
  <2> QED BY <1>1, <1>3, <1>6, <1>10, <1>14, <1>19, <2>1, PartPut
<1>22. CreatesOK(config, part', Put(entry, s, x2), create')
  <2>1. PICK e2 : e2 = Put(entry, s, x2) OBVIOUS
  <2>2. e2[s] = x2 /\ \A t \in SlotsOf(config) \ {s} : e2[t] = entry[t] BY <1>3, <2>1 DEF Put
  <2>3. PICK cr2 : cr2 = create' OBVIOUS
  <2>4. CreatesOK(config, part, entry, create) BY DEF IInv
  <2>5. ASSUME NEW t \in SlotsOf(config), cr2[t] # <<>>
        PROVE  /\ cr2[t] = <<e2[t].owner, cr2[t][2]>> /\ e2[t].owner \in config.routes
               /\ cr2[t][2] \in Nat /\ At(part.routes[e2[t].owner], part.routes[e2[t].owner].start + cr2[t][2] + 1)
               /\ part.mapping[part.routes[e2[t].owner].start + cr2[t][2] + 1] = t
    <3>1. CASE t = s
      <4>1. cr2[t] = <<x.owner, k>> /\ cr2[t][2] = k /\ e2[t].owner = x.owner BY <1>12, <1>19, <2>2, <2>3, <3>1
      <4> QED BY <1>11, <3>1, <4>1
    <3>2. CASE t # s
      <4>1. cr2[t] = create[t] /\ e2[t] = entry[t] BY <1>12, <2>2, <2>3, <3>2
      <4> QED BY <2>4, <2>5, <4>1 DEF CreatesOK
    <3> QED BY <3>1, <3>2
  <2>6. CreatesOK(config, part, e2, cr2) BY <2>5 DEF CreatesOK
  <2> QED BY <1>14, <2>1, <2>3, <2>6
<1> QED BY <1>6, <1>13, <1>14, <1>17, <1>18, <1>19, <1>20, <1>21, <1>22, StepPart
-----------------------------------------------------------------------------
(* The partition.                                                          *)

LEMMA PartNow ==
  ASSUME IInv
  PROVE  /\ config \in Configs /\ TypeInv /\ SlotsInv /\ Kinds(config, entry) /\ PartOK(config, part, entry, resv)
         /\ PartShape(config, part) /\ Tiled(config, part) /\ Owned(config, part, entry) /\ Freed(config, part, entry)
         /\ Retiring(config, part, entry, resv) /\ OutboundOf(config) \subseteq SlotsOf(config)
         /\ entry \in [SlotsOf(config) -> Entries(config)] /\ AroundType
         /\ CreatesOK(config, part, entry, create)
BY KindsHold, SlotKinds DEF IInv, PartOK, TypeInv

(* TryReserve.                                                             *)
LEMMA TryReserveStep ==
  ASSUME IInv, config' = config, TryReserve
  PROVE  IInv'
<1>1. PICK s : s = part.mapping[part.allocated + 1] OBVIOUS
<1>2. /\ Available(part) > 0 /\ handle' = [handle EXCEPT ![s] = "reserved"]
      /\ Commit([Live(Claimed(Store, s), s, "STANDALONE") EXCEPT !.p.allocated = @ + 1])
      /\ UNCHANGED <<resv, made, file, acc, create, close, closed, done>>
  BY <1>1 DEF TryReserve, kernel
<1>3. part.allocated < config.outbound /\ part.allocated \in Nat
  BY <1>2, PartNow, MappingType DEF Available
<1>4. s \in OutboundOf(config) /\ entry[s].life = "FREE" /\ s \in SlotsOf(config)
  <2>1. part.allocated + 1 \in 1 .. config.outbound /\ part.allocated + 1 \in part.allocated + 1 .. config.outbound
    BY <1>3, PartNow, MappingType
  <2> QED BY <1>1, <2>1, PartNow, MappingType DEF Freed
<1>5. /\ SlotOK(config, s, entry[s], Surround(s), create[s], close[s], DoneOf(s)) /\ config \in Configs
      /\ entry \in [SlotsOf(config) -> Entries(config)] /\ AroundType /\ entry[s] \in Entries(config)
      /\ s \in DOMAIN entry
  BY <1>4, SlotNow
<1>6. PICK v : v = Surround(s) OBVIOUS
<1>7. PICK v2 : v2 = Surround(s)' OBVIOUS
<1>8. PICK x : x = entry[s] OBVIOUS
<1>9. PICK y : y = ClaimOf(x) OBVIOUS
<1>10. PICK x2 : x2 = LifeOf(y, "STANDALONE") OBVIOUS
<1>11. PICK p2 : p2 = [part EXCEPT !.allocated = @ + 1] OBVIOUS
<1>12. entry' = Put(entry, s, x2) /\ queue' = queue /\ count' = count /\ part' = p2
  <2>1. Store = St(Put(entry, s, x), queue, count, part) BY <1>4, <1>8, StoreIs
  <2>2. Claimed(Store, s) = St(Put(entry, s, y), queue, count, part) BY <1>5, <1>9, <2>1, ClaimedPut
  <2>3. Live(Claimed(Store, s), s, "STANDALONE") = St(Put(entry, s, x2), queue, count, part) BY <1>5, <1>10, <2>2, LivePut
  <2>4. PICK e2 : e2 = Put(entry, s, x2) OBVIOUS
  <2>5. Commit([St(e2, queue, count, part) EXCEPT !.p.allocated = @ + 1]) BY <1>2, <2>3, <2>4
  <2>6. [St(e2, queue, count, part) EXCEPT !.p.allocated = @ + 1] = St(e2, queue, count, p2) BY <1>11 DEF St
  <2>7. Commit(St(e2, queue, count, p2)) BY <2>5, <2>6
  <2> QED BY <2>4, <2>7, CommitIs
<1>13. AroundType' BY <1>2, <1>4, <1>5 DEF AroundType, AcceptSlots
<1>14. v2 = [v EXCEPT !.h = "reserved"]
  <2>1. Moves(v, v2, s) BY <1>4, <1>5, <1>6, <1>7, <1>13, SurroundMoves
  <2>2. handle'[s] = "reserved" BY <1>2, <1>4, <1>5 DEF AroundType
  <2>3. v2.h = "reserved" /\ v2.file = v.file /\ v2.made = v.made /\ v2.acc = v.acc BY <1>2, <2>1, <2>2 DEF Moves
  <2> QED BY <2>1, <2>3 DEF Moves, Around
<1>15. x2 = [x EXCEPT !.word = Zero, !.phase = "Ready", !.lease = TRUE, !.life = "STANDALONE"]
  BY <1>5, <1>8, <1>9, <1>10 DEF ClaimOf, LifeOf, Entries
<1>16. SlotOK(config, s, x2, v2, create[s], close[s], DoneOf(s)) BY <1>4, <1>5, <1>6, <1>8, <1>14, <1>15, SlotReserved
<1>17. SlotOK(config, s, x2, Surround(s)', create'[s], close'[s], DoneOf(s)') BY <1>2, <1>7, <1>16 DEF DoneOf
<1>18. \A t \in SlotsOf(config) \ {s} : SameAround(t) BY <1>2, <1>5 DEF SameAround, AroundType
<1>19. /\ x2.owner = x.owner /\ x2.life = "STANDALONE" /\ x2.flying = x.flying /\ x2.phase = "Ready" /\ x.life = "FREE"
  BY <1>4, <1>5, <1>8, <1>15 DEF Entries
<1>20. ~Waits(entry[s]) /\ ~Waits(x2)
  <2>1. OutboundOK(entry[s], Surround(s), create[s])
    BY <1>4, <1>5, SlotKinds, ConfigType DEF SlotOK, OutboundOf
  <2> QED BY <1>4, <1>19, <2>1 DEF OutboundOK, Waits
<1>21. PICK e2 : e2 = Put(entry, s, x2) OBVIOUS
<1>22. e2[s] = x2 /\ \A t \in SlotsOf(config) \ {s} : e2[t] = entry[t] BY <1>4, <1>5, <1>21 DEF Put
<1>23. PartOK(config, p2, e2, resv)
  <2>1. SameOwners(config, entry, e2) BY <1>8, <1>19, <1>22, PartNow DEF SameOwners
  <2>2. SameMapped(config, entry, e2) BY <1>8, <1>19, <1>22, PartNow DEF SameMapped
  <2>3. \A t \in OutboundOf(config) \ {s} : e2[t].life = "FREE" <=> entry[t].life = "FREE" BY <1>22, PartNow
  <2>4. e2[s].life # "FREE" BY <1>19, <1>22
  <2> QED BY <1>1, <1>3, <1>5, <1>11, <2>1, <2>2, <2>3, <2>4, PartNow, PartTaken
<1>24. CreatesOK(config, p2, e2, create)
  <2>1. p2.routes = part.routes /\ p2.mapping = part.mapping
    <3>1. part \in Parts(config) BY PartNow DEF PartShape
    <3> QED BY <1>11, <3>1 DEF Parts
  <2>2. \A r \in config.routes : Keeps(part, p2, r) BY <2>1, PartNow, KeepsPlaces
  <2>3. \A t \in SlotsOf(config) : e2[t].owner = entry[t].owner BY <1>8, <1>19, <1>22
  <2>4. \A t \in SlotsOf(config) : create[t] # <<>> => entry[t].owner \in config.routes BY PartNow DEF CreatesOK
  <2> QED BY <2>2, <2>3, <2>4, PartNow, CreatesMove
<1>25. PartOK(config, part', Put(entry, s, x2), resv') /\ CreatesOK(config, part', Put(entry, s, x2), create')
  BY <1>2, <1>12, <1>21, <1>23, <1>24
<1> QED BY <1>4, <1>8, <1>12, <1>13, <1>17, <1>18, <1>19, <1>20, <1>25, StepPart

(* Acquire.                                                                *)
LEMMA AcquireStep ==
  ASSUME IInv, config' = config, NEW r \in config.routes, NEW k \in 0 .. config.outbound - 1, Acquire(r, k)
  PROVE  IInv'
<1>1. PICK s : s = LocalSlot(part, r, k) OBVIOUS
<1>2. /\ r \in resv /\ k < part.routes[r].len /\ ~entry[s].spent /\ entry[s].life = "MAPPED"
      /\ Commit(Live(Claimed(Store, s), s, "UNOPENED_ONE")) /\ handle' = [handle EXCEPT ![s] = "unopened"]
      /\ UNCHANGED <<resv, made, file, acc, create, close, closed, done>>
  BY <1>1 DEF Acquire, kernel
<1>3. s \in OutboundOf(config) /\ entry[s].owner = r /\ s \in SlotsOf(config)
  <2>1. PICK l : l = part.routes[r] OBVIOUS
  <2>2. PICK i : i = l.start + k + 1 OBVIOUS
  <2>3. l \in Leases /\ l.st = "live" BY <1>2, <2>1, PartNow, MappingType DEF Retiring
  <2>4. l.start \in Nat /\ l.len \in Nat /\ k \in Int /\ k >= 0 BY <2>3, LeaseType, PartNow, ConfigType
  <2>5. i \in Int /\ At(l, i) BY <1>2, <2>1, <2>2, <2>3, <2>4 DEF At
  <2>6. i \in 1 .. part.mapped BY <2>1, <2>5, PartNow DEF Tiled
  <2>7. entry[part.mapping[i]].owner = r BY <2>1, <2>5, <2>6, PartNow DEF Owned
  <2>8. i \in 1 .. config.outbound BY <2>6, PartNow, MappingType
  <2>9. part.mapping[i] = s BY <1>1, <2>1, <2>2 DEF LocalSlot
  <2> QED BY <2>7, <2>8, <2>9, PartNow, MappingType
<1>5. /\ SlotOK(config, s, entry[s], Surround(s), create[s], close[s], DoneOf(s)) /\ config \in Configs
      /\ entry \in [SlotsOf(config) -> Entries(config)] /\ AroundType /\ entry[s] \in Entries(config)
      /\ s \in DOMAIN entry
  BY <1>3, SlotNow
<1>6. PICK v : v = Surround(s) OBVIOUS
<1>7. PICK v2 : v2 = Surround(s)' OBVIOUS
<1>8. PICK x : x = entry[s] OBVIOUS
<1>9. PICK y : y = ClaimOf(x) OBVIOUS
<1>10. PICK x2 : x2 = LifeOf(y, "UNOPENED_ONE") OBVIOUS
<1>12. entry' = Put(entry, s, x2) /\ queue' = queue /\ count' = count /\ part' = part
  <2>1. Store = St(Put(entry, s, x), queue, count, part) BY <1>3, <1>8, StoreIs
  <2>2. Claimed(Store, s) = St(Put(entry, s, y), queue, count, part) BY <1>5, <1>9, <2>1, ClaimedPut
  <2>3. Live(Claimed(Store, s), s, "UNOPENED_ONE") = St(Put(entry, s, x2), queue, count, part) BY <1>5, <1>10, <2>2, LivePut
  <2>4. Commit(St(Put(entry, s, x2), queue, count, part)) BY <1>2, <2>3
  <2> QED BY <2>4, CommitIs
<1>13. AroundType' BY <1>2, <1>3, <1>5 DEF AroundType, AcceptSlots
<1>14. v2 = [v EXCEPT !.h = "unopened"]
  <2>1. Moves(v, v2, s) BY <1>3, <1>5, <1>6, <1>7, <1>13, SurroundMoves
  <2>2. handle'[s] = "unopened" BY <1>2, <1>3, <1>5 DEF AroundType
  <2>3. v2.h = "unopened" /\ v2.file = v.file /\ v2.made = v.made /\ v2.acc = v.acc BY <1>2, <2>1, <2>2 DEF Moves
  <2> QED BY <2>1, <2>3 DEF Moves, Around
<1>15. x2 = [x EXCEPT !.word = Zero, !.phase = "Ready", !.lease = TRUE, !.life = "UNOPENED_ONE"]
  BY <1>5, <1>8, <1>9, <1>10 DEF ClaimOf, LifeOf, Entries
<1>16. SlotOK(config, s, x2, v2, create[s], close[s], DoneOf(s))
  BY <1>2, <1>3, <1>5, <1>6, <1>8, <1>14, <1>15, SlotAcquired
<1>17. SlotOK(config, s, x2, Surround(s)', create'[s], close'[s], DoneOf(s)') BY <1>2, <1>7, <1>16 DEF DoneOf
<1>18. \A t \in SlotsOf(config) \ {s} : SameAround(t) BY <1>2, <1>5 DEF SameAround, AroundType
<1>19. /\ x2.owner = x.owner /\ x2.life = "UNOPENED_ONE" /\ x2.flying = x.flying /\ x2.phase = "Ready" /\ x.life = "MAPPED"
  BY <1>2, <1>5, <1>8, <1>15 DEF Entries
<1>20. ~Waits(entry[s]) /\ ~Waits(x2)
  <2>1. OutboundOK(entry[s], Surround(s), create[s])
    BY <1>3, <1>5, SlotKinds, ConfigType DEF SlotOK, OutboundOf
  <2> QED BY <1>2, <1>19, <2>1 DEF OutboundOK, Waits
<1>21. PICK e2 : e2 = Put(entry, s, x2) OBVIOUS
<1>22. e2[s] = x2 /\ \A t \in SlotsOf(config) \ {s} : e2[t] = entry[t] BY <1>3, <1>5, <1>21 DEF Put
<1>23. PartOK(config, part, e2, resv)
  <2>1. SameOwners(config, entry, e2) BY <1>8, <1>19, <1>22, PartNow DEF SameOwners
  <2>2. SameFree(config, entry, e2) BY <1>8, <1>19, <1>22, PartNow DEF SameFree
  <2>3. \A t \in OutboundOf(config) \ {s} : e2[t].life = "MAPPED" <=> entry[t].life = "MAPPED" BY <1>22, PartNow
  <2> QED BY <1>2, <1>3, <2>1, <2>2, <2>3, PartNow, PartAcquired
<1>24. CreatesOK(config, part, e2, create)
  <2>1. \A q : Keeps(part, part, q) BY DEF Keeps
  <2>2. \A t \in SlotsOf(config) : e2[t].owner = entry[t].owner BY <1>8, <1>19, <1>22
  <2> QED BY <2>1, <2>2, PartNow, CreatesMove
<1>25. PartOK(config, part', Put(entry, s, x2), resv') /\ CreatesOK(config, part', Put(entry, s, x2), create')
  BY <1>2, <1>12, <1>21, <1>23, <1>24
<1> QED BY <1>3, <1>8, <1>12, <1>13, <1>17, <1>18, <1>19, <1>20, <1>25, StepPart
(* A step that touches many slots and nothing that the queue reads.        *)
LEMMA StepMany ==
  ASSUME IInv, config' = config, queue' = queue, count' = count, TypeInv', SlotsInv',
         \A t \in SlotsOf(config) : /\ entry'[t].phase = entry[t].phase /\ entry'[t].flying = entry[t].flying
                                    /\ entry'[t].word = entry[t].word,
         PartOK(config, part', entry', resv'), CreatesOK(config, part', entry', create')
  PROVE  IInv'
<1>1. config \in Configs BY DEF IInv, TypeInv
<1>2. PICK e2 : e2 = entry' OBVIOUS
<1>3. SameWaits(config, entry, e2) BY <1>2 DEF SameWaits, Waits
<1>4. Chained(config, queue, entry) BY DEF IInv, QueueInv, Chained
<1>5. Chained(config, queue, e2) BY <1>1, <1>3, <1>4, ChainedSame
<1>6. QueueInv' BY <1>2, <1>5 DEF QueueInv, Chained
<1>7. Flying(config, e2) = Flying(config, entry) BY <1>1, <1>2, FlyingSame
<1>8. count' = Cardinality(Flying(config, entry')) BY <1>2, <1>7 DEF IInv
<1> QED BY <1>6, <1>8 DEF IInv

LEMMA StillAround ==
  ASSUME IInv, config' = config, UNCHANGED <<handle, made, file, acc, create, close, done>>
  PROVE  AroundType' /\ \A t \in SlotsOf(config) : SameAround(t)
<1>1. AroundType BY PartNow
<1> QED BY <1>1 DEF AroundType, SameAround, AcceptSlots

(* Reserve.                                                                *)
LEMMA ReserveStep ==
  ASSUME IInv, config' = config, NEW r \in config.routes, NEW n \in config.lens, Reserve(r, n)
  PROVE  IInv'
<1>1. PICK p2 : p2 = Assign(part, r, n) OBVIOUS
<1>2. PICK X : X = Extent(p2, r) OBVIOUS
<1>3. PICK e2 : e2 = [s \in Slots |-> IF s \in X THEN [entry[s] EXCEPT !.life = "MAPPED", !.owner = r] ELSE entry[s]] OBVIOUS
<1>4. /\ part.routes[r].st = "none" /\ n <= Available(part) /\ Commit([Store EXCEPT !.p = p2, !.e = e2])
      /\ resv' = resv \cup {r} /\ UNCHANGED <<handle, made, file, acc, create, close, closed, done>>
  BY <1>1, <1>2, <1>3 DEF Reserve, kernel
<1>5. entry' = e2 /\ queue' = queue /\ count' = count /\ part' = p2 BY <1>4 DEF Commit, Store
<1>6. config \in Configs /\ n \in Nat \ {0} /\ part.allocated + n <= config.outbound
  <2>1. config \in Configs /\ n \in Nat \ {0} BY PartNow, ConfigType
  <2> QED BY <1>4, <2>1, PartNow, MappingType DEF Available
<1>7. e2 = [s \in SlotsOf(config) |-> IF s \in X THEN [entry[s] EXCEPT !.life = "MAPPED", !.owner = r] ELSE entry[s]]
  BY <1>3, <1>6, SlotsAre
<1>8. \A s \in SlotsOf(config) : entry[s] \in Entries(config) BY PartNow
<1>9. \A s \in SlotsOf(config) :
        /\ e2[s] = IF s \in X THEN [entry[s] EXCEPT !.life = "MAPPED", !.owner = r] ELSE entry[s]
        /\ e2[s] \in Entries(config) /\ e2[s].phase = entry[s].phase /\ e2[s].flying = entry[s].flying
        /\ e2[s].word = entry[s].word /\ (s \in X => e2[s].life = "MAPPED" /\ e2[s].owner = r)
  BY <1>7, <1>8, ZenonT(60) DEF Entries, Lives
<1>10. /\ PartOK(config, p2, e2, resv \cup {r})
       /\ \A s \in X : s \in OutboundOf(config) /\ entry[s].life = "FREE"
       /\ \A q \in config.routes : Keeps(part, p2, q)
  <2>1. \A s \in OutboundOf(config) : IF s \in X THEN e2[s].life = "MAPPED" /\ e2[s].owner = r
                                      ELSE e2[s].life = entry[s].life /\ e2[s].owner = entry[s].owner
    BY <1>9, PartNow
  <2>2. Maps(config, entry, e2, Extent(p2, r), r) BY <1>2, <2>1 DEF Maps
  <2>3. PartOK(config, part, entry, resv) /\ Kinds(config, entry) BY PartNow
  <2>5. Fits(config, part, n) BY <1>6 DEF Fits
  <2>4. /\ PartOK(config, p2, e2, resv \cup {r})
        /\ \A s \in Extent(p2, r) : s \in OutboundOf(config) /\ entry[s].life = "FREE"
        /\ \A q \in config.routes : Keeps(part, p2, q)
    BY <1>1, <1>4, <1>6, <2>2, <2>3, <2>5, PartAssigned
  <2> QED BY <1>2, <2>4
<1>11. AroundType' /\ \A t \in SlotsOf(config) : SameAround(t) BY <1>4, StillAround
<1>12. e2 \in [SlotsOf(config) -> Entries(config)] BY <1>7, <1>9
<1>13. TypeInv' BY <1>5, <1>6, <1>11, <1>12 DEF TypeInv
<1>14. ASSUME NEW t \in SlotsOf(config) PROVE SlotOK(config, t, e2[t], Surround(t)', create'[t], close'[t], DoneOf(t)')
  <2>1. SlotOK(config, t, entry[t], Surround(t)', create'[t], close'[t], DoneOf(t)') BY <1>11, PartNow, SlotKept
  <2>2. CASE t \in X
    <3>1. t \in OutboundOf(config) /\ entry[t].life = "FREE" BY <1>10, <2>2
    <3>2. PICK x : x = entry[t] OBVIOUS
    <3>3. PICK x2 : x2 = e2[t] OBVIOUS
    <3>4. x2 = [x EXCEPT !.life = "MAPPED", !.owner = r] BY <1>9, <2>2, <3>2, <3>3
    <3>5. PICK v : v = Surround(t)' OBVIOUS
    <3>6. PICK cr : cr = create'[t] OBVIOUS
    <3>7. PICK cl : cl = close'[t] OBVIOUS
    <3>8. PICK dn : dn = DoneOf(t)' OBVIOUS
    <3>9. SlotOK(config, t, x2, v, cr, cl, dn) BY <1>6, <2>1, <3>1, <3>2, <3>4, <3>5, <3>6, <3>7, <3>8, SlotMapped
    <3> QED BY <3>3, <3>5, <3>6, <3>7, <3>8, <3>9
  <2>3. CASE t \notin X
    BY <1>9, <2>1, <2>3
  <2> QED BY <2>2, <2>3
<1>15. SlotsInv' BY <1>5, <1>14 DEF SlotsInv
<1>16. CreatesOK(config, p2, e2, create)
  <2>1. ASSUME NEW t \in SlotsOf(config), create[t] # <<>>
        PROVE  e2[t].owner = entry[t].owner /\ entry[t].owner \in config.routes
    <3>1. OutboundOK(entry[t], Surround(t), create[t]) BY <2>1, OutboundSlot
    <3>2. entry[t].life # "FREE" BY <2>1, <3>1 DEF OutboundOK
    <3>3. t \notin X BY <1>10, <3>2
    <3>4. entry[t].owner \in config.routes BY <2>1, PartNow DEF CreatesOK
    <3> QED BY <1>9, <3>3, <3>4
  <2> QED BY <1>10, <2>1, PartNow, CreatesMove
<1>17. PartOK(config, part', entry', resv') /\ CreatesOK(config, part', entry', create') BY <1>4, <1>5, <1>10, <1>16
<1> QED BY <1>5, <1>9, <1>13, <1>15, <1>17, StepMany

(* RetireRoute.                                                            *)
LEMMA RetireRouteStep ==
  ASSUME IInv, config' = config, NEW r \in config.routes, RetireRoute(r)
  PROVE  IInv'
<1>1. PICK left : left = Cardinality(UnmappedOf(config, entry, r)) OBVIOUS
<1>2. left = Cardinality(Unmapped(Store, r))
  <2>1. {s \in Extent(part, r) : entry[s].life # "MAPPED"} = UnmappedOf(config, entry, r) BY PartNow, UnmappedIs
  <2>2. Unmapped(Store, r) = {s \in Extent(part, r) : entry[s].life # "MAPPED"} BY DEF Unmapped, Store
  <2> QED BY <1>1, <2>1, <2>2
<1>3. PICK p2 : p2 = [part EXCEPT !.routes[r] =
                        [st |-> "retired", start |-> @.start, len |-> @.len, remaining |-> left]] OBVIOUS
<1>4. /\ r \in resv /\ resv' = resv \ {r}
      /\ Commit(IF left = 0 THEN ReclaimRoute(Store, r)
                ELSE [Store EXCEPT !.p.routes[r] =
                        [st |-> "retired", start |-> @.start, len |-> @.len, remaining |-> left]])
      /\ UNCHANGED <<handle, made, file, acc, create, close, closed, done>>
  BY <1>2 DEF RetireRoute, kernel
<1>5. AroundType' /\ \A t \in SlotsOf(config) : SameAround(t) BY <1>4, StillAround
<1>6. \A t \in SlotsOf(config) : SlotOK(config, t, entry[t], Surround(t)', create'[t], close'[t], DoneOf(t)')
  BY <1>5, PartNow, SlotKept
<1>7. CASE left # 0
  <2>1. Commit([Store EXCEPT !.p.routes[r] =
                  [st |-> "retired", start |-> @.start, len |-> @.len, remaining |-> left]])
    BY <1>4, <1>7
  <2>2. [Store EXCEPT !.p.routes[r] = [st |-> "retired", start |-> @.start, len |-> @.len, remaining |-> left]]
          = [Store EXCEPT !.p = p2]
    BY <1>3 DEF Store
  <2>3. entry' = entry /\ queue' = queue /\ count' = count /\ part' = p2 BY <2>1, <2>2 DEF Commit, Store
  <2>4. PartOK(config, p2, entry, resv \ {r}) /\ \A q \in config.routes : Keeps(part, p2, q)
    BY <1>1, <1>3, <1>4, <1>7, PartNow, PartRetired
  <2>5. TypeInv' BY <1>5, <2>3, PartNow DEF TypeInv
  <2>6. SlotsInv' BY <1>6, <2>3 DEF SlotsInv
  <2>7. CreatesOK(config, p2, entry, create)
    <3>1. \A t \in SlotsOf(config) : create[t] # <<>> => entry[t].owner \in config.routes BY PartNow DEF CreatesOK
    <3> QED BY <2>4, <3>1, PartNow, CreatesMove
  <2>8. PartOK(config, part', entry', resv') /\ CreatesOK(config, part', entry', create') BY <1>4, <2>3, <2>4, <2>7
  <2> QED BY <2>3, <2>5, <2>6, <2>8, StepMany
<1>8. CASE left = 0
  <2>1. UnmappedOf(config, entry, r) = {}
    BY <1>1, <1>8, PartNow, UnmappedFinite, FS_EmptySet
  <2>2. PICK e2 : e2 = FreeAll(config, entry, r) OBVIOUS
  <2>3. part.routes[r].st = "live" BY <1>4, PartNow DEF Retiring
  <2>4. OthersWait(config, part, entry, r) BY PartNow DEF Retiring, OthersWait
  <2>5. /\ e2 \in [SlotsOf(config) -> Entries(config)]
        /\ \E p3 : /\ ReclaimRoute(St(entry, queue, count, part), r) = St(e2, queue, count, p3)
                   /\ PartOK(config, p3, e2, OthersLive(config, part, r))
                   /\ \A k \in config.routes : k # r => Keeps(part, p3, k)
    <3>1. part.routes[r].st # "none" BY <2>3
    <3>2. /\ config \in Configs /\ entry \in [SlotsOf(config) -> Entries(config)] /\ PartShape(config, part)
          /\ Tiled(config, part) /\ Owned(config, part, entry) /\ Freed(config, part, entry) /\ Kinds(config, entry)
      BY PartNow
    <3> QED BY <2>2, <2>4, <3>1, <3>2, ReclaimIs
  <2>6. PICK p3 : /\ ReclaimRoute(St(entry, queue, count, part), r) = St(e2, queue, count, p3)
                  /\ PartOK(config, p3, e2, OthersLive(config, part, r))
                  /\ \A k \in config.routes : k # r => Keeps(part, p3, k)
    BY <2>5
  <2>7. Store = St(entry, queue, count, part) BY DEF Store, St
  <2>8. Commit(St(e2, queue, count, p3)) BY <1>4, <1>8, <2>6, <2>7
  <2>9. entry' = e2 /\ queue' = queue /\ count' = count /\ part' = p3 BY <2>8, CommitIs
  <2>10. OthersLive(config, part, r) = resv \ {r} BY PartNow DEF OthersLive, Retiring
  <2>11. PICK G : G = {t \in OutboundOf(config) : entry[t].owner = r} OBVIOUS
  <2>12. Swept(config, entry, e2, G)
    <3>1. \A t \in G : entry[t].life = "MAPPED" BY <2>1, <2>11 DEF UnmappedOf
    <3>2. \A t \in SlotsOf(config) : e2[t] = IF t \in G THEN FreeEntry(entry[t]) ELSE entry[t]
      BY <2>2, <2>11 DEF FreeAll
    <3> QED BY <3>1, <3>2 DEF Swept
  <2>13. TypeInv' /\ SlotsInv'
    <3>1. G \in SUBSET OutboundOf(config) BY <2>11
    <3> QED BY <1>5, <1>6, <2>5, <2>9, <2>12, <3>1, PartNow, SlotsSwept
  <2>14. \A t \in SlotsOf(config) : /\ e2[t].phase = entry[t].phase /\ e2[t].flying = entry[t].flying
                                    /\ e2[t].word = entry[t].word
    <3>1. \A t \in SlotsOf(config) : e2[t] = entry[t] \/ e2[t] = FreeEntry(entry[t]) BY <2>12 DEF Swept
    <3>2. \A t \in SlotsOf(config) : entry[t] \in Entries(config) BY PartNow
    <3> QED BY <3>1, <3>2, PartNow, FreeEntryIs
  <2>15. CreatesOK(config, p3, e2, create)
    <3>1. ASSUME NEW t \in SlotsOf(config), create[t] # <<>>
          PROVE  e2[t].owner = entry[t].owner /\ Keeps(part, p3, entry[t].owner)
      <4>1. t \in OutboundOf(config) /\ OutboundOK(entry[t], Surround(t), create[t]) BY <3>1, OutboundSlot
      <4>2. entry[t].life # "MAPPED" BY <3>1, <4>1 DEF OutboundOK
      <4>3. t \notin G BY <2>12, <4>2 DEF Swept
      <4>4. entry[t].owner \in config.routes /\ entry[t].owner # r BY <2>11, <3>1, <4>1, <4>3, PartNow DEF CreatesOK
      <4>5. e2[t] = entry[t] BY <2>12, <4>3 DEF Swept
      <4> QED BY <2>6, <4>4, <4>5
    <3> QED BY <3>1, PartNow, CreatesMove
  <2>16. PartOK(config, part', entry', resv') /\ CreatesOK(config, part', entry', create')
    BY <1>4, <2>6, <2>9, <2>10, <2>15
  <2> QED BY <2>9, <2>13, <2>14, <2>16, StepMany
<1> QED BY <1>7, <1>8
(* CompleteCreate.                                                         *)
LEMMA CompleteCreateStep ==
  ASSUME IInv, config' = config, NEW s \in SlotsOf(config), NEW ok \in BOOLEAN, CompleteCreate(s, ok)
  PROVE  IInv'
<1>1. LocalSlot(part, create[s][1], create[s][2]) = s /\ create[s] # <<>>
  <2>1. create[s] # <<>> BY DEF CompleteCreate
  <2>2. /\ create[s] = <<entry[s].owner, create[s][2]>>
        /\ part.mapping[part.routes[entry[s].owner].start + create[s][2] + 1] = s
    BY <2>1, PartNow DEF CreatesOK
  <2>3. create[s][1] = entry[s].owner BY <2>2
  <2> QED BY <2>1, <2>2, <2>3 DEF LocalSlot
<1>2. /\ create' = [create EXCEPT ![s] = <<>>]
      /\ Commit(CASE ok /\ entry[s].life = "CREATING_ONE" -> Live(Store, s, "OPEN_TWO")
                  [] ok /\ entry[s].life # "CREATING_ONE" -> Enqueue(Live(Store, s, "CLOSING_ZERO"), s)
                  [] ~ok /\ entry[s].life = "CREATING_ONE" -> Live(Store, s, "FAILED_ONE")
                  [] OTHER -> ReleaseSlot(Store, s))
      /\ made' = (IF ok /\ entry[s].life = "CREATING_ONE" THEN made \cup {s} ELSE made)
      /\ file' = (IF ok THEN file \cup {s} ELSE file)
      /\ UNCHANGED <<resv, handle, acc, close, closed, done>>
  BY <1>1 DEF CompleteCreate
<1>3. s \in OutboundOf(config) /\ OutboundOK(entry[s], Surround(s), create[s]) BY <1>1, OutboundSlot
<1>4. /\ SlotOK(config, s, entry[s], Surround(s), create[s], close[s], DoneOf(s)) /\ config \in Configs
      /\ entry \in [SlotsOf(config) -> Entries(config)] /\ AroundType /\ entry[s] \in Entries(config)
      /\ s \in DOMAIN entry
  BY SlotNow
<1>5. PICK v : v = Surround(s) OBVIOUS
<1>6. PICK v2 : v2 = Surround(s)' OBVIOUS
<1>7. PICK x : x = entry[s] OBVIOUS
<1>8. Store = St(Put(entry, s, x), queue, count, part) BY <1>7, StoreIs
<1>9. AroundType'
  <2>1. create' \in [SlotsOf(config) -> {<<>>} \cup (Int \X Nat)] BY <1>2, <1>4 DEF AroundType
  <2>2. made' \subseteq OutboundOf(config) /\ file' \subseteq SlotsOf(config) BY <1>2, <1>3, <1>4 DEF AroundType
  <2> QED BY <1>2, <1>4, <2>1, <2>2 DEF AroundType, AcceptSlots
<1>10. Moves(v, v2, s) BY <1>4, <1>5, <1>6, <1>9, SurroundMoves
<1>11. v2.h = v.h /\ v2.acc = v.acc BY <1>2, <1>10 DEF Moves
<1>12. create'[s] = <<>> /\ \A t \in SlotsOf(config) \ {s} : create'[t] = create[t] BY <1>2, <1>4 DEF AroundType
<1>13. \A t \in SlotsOf(config) \ {s} : SameAround(t) BY <1>2, <1>4, <1>12 DEF SameAround, AroundType
<1>14. /\ OutboundOK(x, v, create[s]) /\ x \in Entries(config) /\ x.life \in {"CREATING_ONE", "CREATING_ZERO"}
       /\ x.owner # None /\ x.phase \notin {"Pending", "InFlight"}
  <2>1. OutboundOK(x, v, create[s]) BY <1>3, <1>5, <1>7
  <2> QED BY <1>1, <1>4, <1>7, <2>1 DEF OutboundOK
<1>15. CASE x.life = "CREATING_ONE"
  <2>1. PICK l : l = IF ok THEN "OPEN_TWO" ELSE "FAILED_ONE" OBVIOUS
  <2>2. PICK x2 : x2 = LifeOf(x, l) OBVIOUS
  <2>3. Live(Store, s, l) = St(Put(entry, s, x2), queue, count, part) BY <1>4, <1>8, <2>2, LivePut
  <2>4. Commit(Live(Store, s, l)) BY <1>2, <1>7, <1>15, <2>1
  <2>5. entry' = Put(entry, s, x2) /\ queue' = queue /\ count' = count /\ part' = part BY <2>3, <2>4, CommitIs
  <2>6. x2.owner = x.owner /\ x2.flying = x.flying /\ x2.phase = x.phase /\ x2.word = x.word /\ x2.life = l
    BY <1>14, <2>2 DEF LifeOf, Entries
  <2>7. SlotOK(config, s, x2, v2, <<>>, close[s], DoneOf(s))
    <3>1. CASE ok
      <4>1. v2.made = TRUE /\ v2.file = TRUE BY <1>2, <1>7, <1>10, <1>15, <3>1 DEF Moves
      <4>2. v2 = [v EXCEPT !.made = TRUE, !.file = TRUE] BY <1>10, <1>11, <4>1 DEF Moves, Around
      <4>3. x2 = [x EXCEPT !.life = "OPEN_TWO"] BY <2>1, <2>2, <3>1 DEF LifeOf
      <4> QED BY <1>3, <1>4, <1>5, <1>7, <1>15, <4>2, <4>3, SlotCreated
    <3>2. CASE ~ok
      <4>1. v2.made = v.made /\ v2.file = v.file BY <1>2, <1>7, <1>10, <1>15, <3>2 DEF Moves
      <4>2. v2 = v BY <1>10, <1>11, <4>1 DEF Moves, Around
      <4>3. x2 = [x EXCEPT !.life = "FAILED_ONE"] BY <2>1, <2>2, <3>2 DEF LifeOf
      <4> QED BY <1>3, <1>4, <1>5, <1>7, <1>15, <4>2, <4>3, SlotFailed
    <3> QED BY <3>1, <3>2
  <2>8. SlotOK(config, s, x2, Surround(s)', create'[s], close'[s], DoneOf(s)') BY <1>2, <1>6, <1>12, <2>7 DEF DoneOf
  <2>9. entry[s].life \notin {"FREE", "MAPPED"} /\ x2.life \notin {"FREE", "MAPPED"} BY <1>7, <1>15, <2>1, <2>6
  <2> QED BY <1>2, <1>7, <1>9, <1>12, <1>13, <2>5, <2>6, <2>8, <2>9, StepLive
<1>16. CASE x.life = "CREATING_ZERO"
  <2>1. v2.made = v.made BY <1>2, <1>7, <1>10, <1>16 DEF Moves
  <2>2. CASE ok
    <3>1. v2.file = TRUE BY <1>2, <1>10, <2>2 DEF Moves
    <3>2. v2 = [v EXCEPT !.file = TRUE] BY <1>10, <1>11, <2>1, <3>1 DEF Moves, Around
    <3>3. PICK x1 : x1 = LifeOf(x, "CLOSING_ZERO") OBVIOUS
    <3>4. Live(Store, s, "CLOSING_ZERO") = St(Put(entry, s, x1), queue, count, part) BY <1>4, <1>8, <3>3, LivePut
    <3>5. Commit(Enqueue(St(Put(entry, s, x1), queue, count, part), s)) BY <1>2, <1>7, <1>16, <2>2, <3>4
    <3>6. x1 \in Entries(config) /\ x1.flying = x.flying /\ x1.owner = x.owner /\ x1.life = "CLOSING_ZERO"
      BY <1>14, <3>3 DEF LifeOf, Entries, Lives
    <3>7. PICK w : w = WordOf(queue, x1) OBVIOUS
    <3>8. w \in SlotsOf(config) \cup {None, Zero, Target} BY <3>6, <3>7, WordType
    <3>9. PICK x2 : x2 = QueuedOf(x1, w) OBVIOUS
    <3>10. x2 = [x EXCEPT !.life = "CLOSING_ZERO", !.phase = "Pending", !.word = w]
      BY <1>14, <3>3, <3>9 DEF LifeOf, QueuedOf, Entries
    <3>11. SlotOK(config, s, x2, v2, <<>>, close[s], DoneOf(s))
      BY <1>3, <1>4, <1>5, <1>7, <1>16, <3>2, <3>8, <3>10, SlotUnwanted
    <3>12. SlotOK(config, s, x2, Surround(s)', create'[s], close'[s], DoneOf(s)') BY <1>2, <1>6, <1>12, <3>11 DEF DoneOf
    <3>13. Steady(entry[s], x1) BY <1>7, <1>16, <3>6 DEF Steady
    <3>14. ~Waits(entry[s]) BY <1>7, <1>14 DEF Waits
    <3> QED BY <1>2, <1>7, <1>9, <1>12, <1>13, <3>5, <3>6, <3>7, <3>9, <3>12, <3>13, <3>14, StepEnqueue
  <2>3. CASE ~ok
    <3>1. v2.file = v.file BY <1>2, <1>10, <2>3 DEF Moves
    <3>2. v2 = v BY <1>10, <1>11, <2>1, <3>1 DEF Moves, Around
    <3>3. Commit(ReleaseSlot(St(Put(entry, s, x), queue, count, part), s)) BY <1>2, <1>7, <1>8, <1>16, <2>3
    <3>4. PICK x2 : x2 = LifeOf(x, "MAPPED") OBVIOUS
    <3>5. SlotOK(config, s, x2, v2, <<>>, close[s], DoneOf(s))
      BY <1>3, <1>4, <1>5, <1>7, <1>16, <3>2, <3>4, SlotRefused DEF LifeOf
    <3>6. SlotOK(config, s, LifeOf(x, "MAPPED"), Surround(s)', create'[s], close'[s], DoneOf(s)')
      BY <1>2, <1>6, <1>12, <3>4, <3>5 DEF DoneOf
    <3>7. Put(entry, s, x) = entry BY <1>4, <1>7 DEF Put
    <3>8. Chained(config, queue, Put(entry, s, x)) BY <3>7 DEF IInv, QueueInv, Chained
    <3>9. count = Cardinality(Flying(config, Put(entry, s, x))) BY <3>7 DEF IInv
    <3> QED BY <1>2, <1>3, <1>7, <1>9, <1>12, <1>13, <1>14, <1>16, <3>3, <3>6, <3>8, <3>9, StepRelease
  <2> QED BY <2>2, <2>3
<1> QED BY <1>14, <1>15, <1>16
-----------------------------------------------------------------------------
(* Retirement.                                                             *)

(* The queue without the slot s.                                           *)
Takes(q, s) == \A y : ~Waits(y) => Chained(config, q, Put(entry, s, y))

(* Queue::front: the chain that drains, and the other one for what comes.  *)
LEMMA FrontedIs ==
  ASSUME IInv, NEW k, k = Side(queue),
         NEW q1, q1 = [heads |-> queue.heads, active |-> 3 - k, draining |-> k]
  PROVE  Fronted(Store) = St(entry, q1, count, part)
<1>1. PICK ch \in [1 .. 2 -> Seq(SlotsOf(config))] : ChainsOK(config, queue, entry, ch) BY DEF IInv, QueueInv
<1>2. queue \in Queues(config) BY <1>1 DEF ChainsOK
<1>3. /\ queue.heads \in [1 .. 2 -> SlotsOf(config) \cup {None}] /\ queue.active \in 1 .. 2
      /\ queue.draining \in {1, 2, None}
  BY <1>2 DEF Queues
<1>4. Fronted(Store) = St(entry, q1, count, part)
  <2>1. CASE queue.draining = None
    <3>1. k = queue.active BY <2>1 DEF Side
    <3>2. Fronted(Store) = [Store EXCEPT !.q.draining = queue.active, !.q.active = 3 - @] BY <2>1 DEF Fronted, Store
    <3>3. [queue EXCEPT !.draining = queue.active, !.active = 3 - @] = q1
      <4>1. PICK z : z = [queue EXCEPT !.draining = queue.active, !.active = 3 - @] OBVIOUS
      <4>2. 3 - queue.active \in 1 .. 2 /\ queue.active \in {1, 2, None} BY <1>3
      <4>3. z \in Queues(config) BY <1>2, <4>1, <4>2 DEF Queues
      <4>4. z.heads = queue.heads /\ z.active = 3 - k /\ z.draining = k BY <1>2, <3>1, <4>1 DEF Queues
      <4>5. z = [heads |-> z.heads, active |-> z.active, draining |-> z.draining] BY <4>3 DEF Queues
      <4> QED BY <4>1, <4>4, <4>5
    <3>4. [Store EXCEPT !.q.draining = queue.active, !.q.active = 3 - @]
            = [Store EXCEPT !.q = [queue EXCEPT !.draining = queue.active, !.active = 3 - @]]
      BY DEF Store
    <3> QED BY <3>2, <3>3, <3>4 DEF Store, St
  <2>2. CASE queue.draining # None
    <3>1. k = queue.draining /\ queue.active = 3 - k
      <4>1. k = queue.draining BY <2>2 DEF Side
      <4>2. queue.draining = 3 - queue.active BY <1>1, <2>2 DEF ChainsOK
      <4> QED BY <1>3, <4>1, <4>2
    <3>2. queue = q1 BY <1>2, <3>1 DEF Queues
    <3> QED BY <2>2, <3>2 DEF Fronted, Store, St
  <2> QED BY <2>1, <2>2
<1> QED BY <1>4

LEMMA PeekStep ==
  ASSUME IInv, config' = config, Peek
  PROVE  IInv'
<1>1. PICK ch \in [1 .. 2 -> Seq(SlotsOf(config))] : ChainsOK(config, queue, entry, ch) BY DEF IInv, QueueInv
<1>2. PICK k : k = Side(queue) OBVIOUS
<1>3. PICK q1 : q1 = [heads |-> queue.heads, active |-> 3 - k, draining |-> k] OBVIOUS
<1>4. Fronted(Store) = St(entry, q1, count, part) BY <1>2, <1>3, FrontedIs
<1>5. /\ entry' = entry /\ queue' = q1 /\ count' = count /\ part' = part
      /\ UNCHANGED <<resv, handle, made, file, acc, create, close, closed, done>>
  BY <1>4 DEF Peek, Commit, St, program, kernel
<1>6. queue \in Queues(config) BY <1>1 DEF ChainsOK
<1>7. queue.heads \in [1 .. 2 -> SlotsOf(config) \cup {None}] /\ k \in 1 .. 2 /\ queue.heads[k] # None
  BY <1>2, <1>6 DEF Queues, Side, Peek, HeadOf
<1>8. q1 \in Queues(config) /\ q1.heads = queue.heads /\ q1.active = 3 - k /\ q1.draining = k
  <2>1. 3 - k \in 1 .. 2 /\ k \in {1, 2, None} BY <1>7
  <2> QED BY <1>3, <1>7, <2>1 DEF Queues
<1>9. ChainsOK(config, q1, entry, ch)
  <2>1. \A j \in 1 .. 2 : Linked(q1, entry, ch, j) BY <1>1, <1>8 DEF ChainsOK, Linked
  <2>2. Len(ch[k]) > 0
    <3>1. Linked(queue, entry, ch, k) BY <1>1, <1>7 DEF ChainsOK
    <3>2. Len(ch[k]) # 0 BY <1>7, <3>1 DEF Linked
    <3>3. Len(ch[k]) \in Nat BY <1>1, <1>7
    <3> QED BY <3>2, <3>3
  <2>3. k # None /\ k = 3 - (3 - k) BY <1>7 DEF None
  <2>4. IF q1.draining = None THEN Len(ch[3 - q1.active]) = 0
        ELSE q1.draining = 3 - q1.active /\ Len(ch[q1.draining]) > 0
    BY <1>8, <2>2, <2>3
  <2> QED BY <1>1, <1>8, <2>1, <2>4 DEF ChainsOK
<1>10. QueueInv' BY <1>1, <1>5, <1>9 DEF QueueInv
<1>11. TypeInv' /\ SlotsInv' BY <1>5 DEF IInv, TypeInv, SlotsInv, AroundType, AcceptSlots, Surround, DoneOf
<1> QED BY <1>5, <1>10, <1>11 DEF IInv

(* View::pending: the head waits, and leaves its chain.                    *)
LEMMA PopIs ==
  ASSUME IInv, HasPending, NEW s, s = HeadOf(queue), NEW k, k = Side(queue)
  PROVE  /\ s \in SlotsOf(config) /\ Waits(entry[s]) /\ k \in 1 .. 2
         /\ \E q2 : Pop(Fronted(Store), s, k) = St(entry, q2, count, part) /\ Takes(q2, s)
<1>1. PICK ch \in [1 .. 2 -> Seq(SlotsOf(config))] : ChainsOK(config, queue, entry, ch) BY DEF IInv, QueueInv
<1>2. config \in Configs /\ entry \in [SlotsOf(config) -> Entries(config)] BY PartNow
<1>3. queue \in Queues(config) BY <1>1 DEF ChainsOK
<1>4. /\ queue.heads \in [1 .. 2 -> SlotsOf(config) \cup {None}] /\ queue.active \in 1 .. 2
      /\ queue.draining \in {1, 2, None}
  BY <1>3 DEF Queues
<1>5. k \in 1 .. 2 BY <1>4 DEF Side
<1>6. s = queue.heads[k] /\ s # None BY DEF HeadOf, HasPending
<1>7. s \in SlotsOf(config) BY <1>4, <1>5, <1>6
<1>8. Linked(queue, entry, ch, k) BY <1>1, <1>5 DEF ChainsOK
<1>9. PICK w : w = entry[s].word OBVIOUS
<1>10. PICK n : n = Len(ch[k]) OBVIOUS
<1>11. n \in Nat /\ n >= 1 /\ ch[k][1] = s /\ \A i \in 1 .. n : ch[k][i] \in SlotsOf(config)
  <2>1. ch[k] \in Seq(SlotsOf(config)) BY <1>5
  <2>2. n \in Nat /\ \A i \in 1 .. n : ch[k][i] \in SlotsOf(config) BY <1>10, <2>1
  <2>3. n # 0 /\ ch[k][1] = s BY <1>6, <1>8, <1>10 DEF Linked
  <2> QED BY <2>2, <2>3
<1>12. w \in SlotsOf(config) \cup {None}
  <2>1. w = IF 1 < n THEN ch[k][2] ELSE None
    <3>1. 1 \in 1 .. n BY <1>11
    <3>2. entry[ch[k][1]].word = IF 1 < n THEN ch[k][1 + 1] ELSE None BY <1>8, <1>10, <3>1 DEF Linked
    <3> QED BY <1>9, <1>11, <3>2
  <2> QED BY <1>11, <2>1
<1>13. Waits(entry[s])
  <2>1. InChains(ch, s)
    <3>1. 1 \in 1 .. Len(ch[k]) BY <1>10, <1>11
    <3> QED BY <1>5, <1>11, <3>1 DEF InChains
  <2> QED BY <1>1, <1>7, <2>1 DEF ChainsOK
<1>14. w # Zero BY <1>2, <1>12, NoLinks DEF None, Zero
<1>15. PICK q2 : q2 = [heads |-> [queue.heads EXCEPT ![k] = w], active |-> 3 - k,
                       draining |-> IF w = None THEN None ELSE k] OBVIOUS
<1>16. q2 \in Queues(config)
  <2>1. [queue.heads EXCEPT ![k] = w] \in [1 .. 2 -> SlotsOf(config) \cup {None}] BY <1>4, <1>12
  <2>2. 3 - k \in 1 .. 2 /\ (IF w = None THEN None ELSE k) \in {1, 2, None} BY <1>5
  <2> QED BY <1>15, <2>1, <2>2 DEF Queues
<1>17. PICK q1 : q1 = [heads |-> queue.heads, active |-> 3 - k, draining |-> k] OBVIOUS
<1>18. Fronted(Store) = St(entry, q1, count, part) BY <1>17, FrontedIs
<1>19. Pop(St(entry, q1, count, part), s, k) = St(entry, q2, count, part)
  <2>1. St(entry, q1, count, part).e[s].word = w BY <1>9 DEF St
  <2>2. PICK d : d = St(entry, q1, count, part) OBVIOUS
  <2>3. Pop(d, s, k) = [d EXCEPT !.q.heads[k] = w, !.q.draining = IF w = None THEN None ELSE @]
    BY <1>14, <2>1, <2>2 DEF Pop
  <2>4. [q1 EXCEPT !.heads[k] = w, !.draining = IF w = None THEN None ELSE @] = q2
    <3>1. PICK z : z = [q1 EXCEPT !.heads[k] = w, !.draining = IF w = None THEN None ELSE @] OBVIOUS
    <3>2. q1 \in Queues(config) /\ q1.heads = queue.heads /\ q1.active = 3 - k /\ q1.draining = k
      <4>1. 3 - k \in 1 .. 2 /\ k \in {1, 2, None} BY <1>5
      <4> QED BY <1>4, <1>17, <4>1 DEF Queues
    <3>3. z = [q1 EXCEPT !.heads = [queue.heads EXCEPT ![k] = w], !.draining = IF w = None THEN None ELSE k]
      BY <3>1, <3>2
    <3>4. [queue.heads EXCEPT ![k] = w] \in [1 .. 2 -> SlotsOf(config) \cup {None}] BY <1>4, <1>12
    <3>5. PICK h : h = [queue.heads EXCEPT ![k] = w] OBVIOUS
    <3>6. PICK dr : dr = IF w = None THEN None ELSE k OBVIOUS
    <3>7. dr \in {1, 2, None} BY <1>5, <3>6
    <3>8. z = [q1 EXCEPT !.heads = h, !.draining = dr] BY <3>3, <3>5, <3>6
    <3>9. z \in Queues(config) /\ z.heads = h /\ z.active = 3 - k /\ z.draining = dr BY <3>2, <3>4, <3>5, <3>7, <3>8 DEF Queues
    <3>10. z = [heads |-> z.heads, active |-> z.active, draining |-> z.draining] BY <3>9 DEF Queues
    <3> QED BY <1>15, <3>1, <3>5, <3>6, <3>9, <3>10
  <2>5. [d EXCEPT !.q.heads[k] = w, !.q.draining = IF w = None THEN None ELSE @]
          = [d EXCEPT !.q = [q1 EXCEPT !.heads[k] = w, !.draining = IF w = None THEN None ELSE @]]
    BY <2>2 DEF St
  <2> QED BY <2>2, <2>3, <2>4, <2>5 DEF St
<1>20. Takes(q2, s)
  <2>1. SUFFICES ASSUME NEW y, ~Waits(y) PROVE Chained(config, q2, Put(entry, s, y)) BY DEF Takes
  <2>2. PICK e2 : e2 = Put(entry, s, y) OBVIOUS
  <2>3. e2[s] = y /\ \A t \in SlotsOf(config) \ {s} : e2[t] = entry[t] BY <1>2, <1>7, <2>2 DEF Put
  <2>4. ~Waits(e2[s]) BY <2>1, <2>3
  <2>5. OthersSame(config, s, entry, e2) BY <2>3 DEF OthersSame
  <2>6. PopsTo(config, queue, entry, s, k, q2) BY <1>9, <1>15, <1>16 DEF PopsTo
  <2>7. \E ch2 \in [1 .. 2 -> Seq(SlotsOf(config))] : ChainsOK(config, q2, e2, ch2)
    BY <1>1, <1>2, <1>6, <2>4, <2>5, <2>6, ChainsPop
  <2> QED BY <2>2, <2>7 DEF Chained
<1> QED BY <1>5, <1>7, <1>13, <1>18, <1>19, <1>20
(* consume and settle.                                                     *)
Landed(x) == [x EXCEPT !.flying = FALSE]
SettleOf(x) == StatusOf(x, IF x.lease THEN "Quiescent" ELSE "Ready", x.lease)

LEMMA ConsumePut ==
  ASSUME NEW e, NEW s \in DOMAIN e, NEW x, NEW q, NEW n, NEW p
  PROVE  Consume(St(Put(e, s, x), q, n, p), s) = St(Put(e, s, Landed(x)), q, n - 1, p)
<1>1. PICK d : d = St(Put(e, s, x), q, n, p) OBVIOUS
<1>2. PICK e2 : e2 = Put(e, s, Landed(x)) OBVIOUS
<1>3. PICK m : m = n - 1 OBVIOUS
<1>4. [d EXCEPT !.e[s].flying = FALSE] = St(e2, q, n, p)
  <2>1. PICK no : no = FALSE OBVIOUS
  <2>2. PICK y : y = [x EXCEPT !.flying = no] OBVIOUS
  <2>3. [St(Put(e, s, x), q, n, p) EXCEPT !.e[s].flying = no] = St(Put(e, s, y), q, n, p) BY <2>2 DEF St, Put
  <2>4. y = Landed(x) BY <2>1, <2>2 DEF Landed
  <2>5. [d EXCEPT !.e[s].flying = FALSE] = [d EXCEPT !.e[s].flying = no] BY <2>1
  <2> QED BY <1>1, <1>2, <2>3, <2>4, <2>5
<1>5. Consume(d, s) = [[d EXCEPT !.e[s].flying = FALSE] EXCEPT !.n = @ - 1] BY DEF Consume
<1>6. [St(e2, q, n, p) EXCEPT !.n = @ - 1] = St(e2, q, m, p) BY <1>3 DEF St
<1> QED BY <1>1, <1>2, <1>3, <1>4, <1>5, <1>6

LEMMA SettledPut ==
  ASSUME NEW c \in Configs, NEW e, NEW s \in DOMAIN e, NEW x \in Entries(c), NEW q, NEW n, NEW p
  PROVE  Settled(St(Put(e, s, x), q, n, p), s) = St(Put(e, s, SettleOf(x)), q, n, p)
<1>1. PICK d : d = St(Put(e, s, x), q, n, p) OBVIOUS
<1>2. d.e[s] = x BY <1>1 DEF St, Put
<1>3. PICK ls : ls = x.lease OBVIOUS
<1>4. PICK ph : ph = IF x.lease THEN "Quiescent" ELSE "Ready" OBVIOUS
<1>5. ls \in BOOLEAN BY <1>3 DEF Entries
<1>6. Settled(d, s) = Status(d, s, ph, ls)
  <2>1. CASE ls
    <3>1. ls = TRUE BY <1>5, <2>1
    <3> QED BY <1>2, <1>3, <1>4, <2>1, <3>1 DEF Settled
  <2>2. CASE ~ls
    <3>1. ls = FALSE BY <1>5, <2>2, Falsity
    <3> QED BY <1>2, <1>3, <1>4, <2>2, <3>1 DEF Settled
  <2> QED BY <2>1, <2>2
<1>7. Status(d, s, ph, ls) = St(Put(e, s, StatusOf(x, ph, ls)), q, n, p) BY <1>1, StatusPut
<1> QED BY <1>1, <1>3, <1>4, <1>6, <1>7 DEF SettleOf

Settles(c, x, y) ==
    /\ y \in Entries(c) /\ y.owner = x.owner /\ y.life = x.life /\ y.spent = x.spent /\ ~y.flying
    /\ y.flying = FALSE /\ ~Waits(y)
    /\ y = [x EXCEPT !.flying = FALSE, !.phase = (IF x.lease THEN "Quiescent" ELSE "Ready")]
    /\ ~x.lease => y = [x EXCEPT !.flying = FALSE, !.phase = "Ready", !.lease = FALSE]

LEMMA SettleIs ==
  ASSUME NEW c \in Configs, NEW x \in Entries(c), NEW y, y = SettleOf(Landed(x))
  PROVE  Settles(c, x, y)
<1>1. PICK ls \in BOOLEAN : ls = x.lease BY DEF Entries
<1>2. PICK ph : ph = IF x.lease THEN "Quiescent" ELSE "Ready" OBVIOUS
<1>3. Landed(x) \in Entries(c) /\ Landed(x).lease = ls BY <1>1 DEF Landed, Entries
<1>4. y = [x EXCEPT !.flying = FALSE, !.phase = ph, !.lease = ls]
  BY <1>1, <1>2, <1>3 DEF SettleOf, StatusOf, Landed, Entries
<1>5. ph \in {"Ready", "Quiescent"} BY <1>2
<1>6. /\ y \in Entries(c) /\ y.owner = x.owner /\ y.life = x.life /\ y.spent = x.spent /\ ~y.flying
      /\ y.flying = FALSE /\ y.phase = ph
  BY <1>1, <1>4, <1>5 DEF Entries
<1>7. y = [x EXCEPT !.flying = FALSE, !.phase = ph] BY <1>1, <1>4 DEF Entries
<1>8. ASSUME ~x.lease PROVE y = [x EXCEPT !.flying = FALSE, !.phase = "Ready", !.lease = FALSE]
  <2>1. ls = FALSE /\ ph = "Ready" BY <1>1, <1>2, <1>8, Falsity
  <2> QED BY <1>4, <2>1
<1> QED BY <1>2, <1>5, <1>6, <1>7, <1>8 DEF Waits, Settles

(* A close of an outbound slot has taken effect.                           *)
LEMMA StepSettled ==
  ASSUME IInv, config' = config, NEW s \in OutboundOf(config), NEW x, x = entry[s],
         Ends(x, close[s]),
         NEW y, y = SettleOf(Landed(x)), NEW q2, NEW n2, Takes(q2, s),
         n2 = Cardinality(Flying(config, Put(entry, s, y))),
         NEW d, d = St(Put(entry, s, y), q2, n2, part),
         Commit(IF x.owner = None THEN Reuse(d, s) ELSE CloseDone(d, s)),
         resv' = resv, \A t \in SlotsOf(config) \ {s} : SameAround(t),
         NEW v, v = Surround(s), NEW v2, v2 = Surround(s)', v2 = [v EXCEPT !.file = FALSE],
         create'[s] = create[s], close'[s] = NoClose, DoneOf(s)' = DoneOf(s), AroundType'
  PROVE  IInv'
<1>1. /\ SlotOK(config, s, x, v, create[s], close[s], DoneOf(s)) /\ config \in Configs
      /\ entry \in [SlotsOf(config) -> Entries(config)] /\ x \in Entries(config)
      /\ s \in DOMAIN entry /\ s \in SlotsOf(config)
  <2>1. s \in SlotsOf(config) BY PartNow
  <2> QED BY <2>1, SlotNow
<1>2. OutboundOK(x, v, create[s]) /\ RetireOK(config, s, x, v, close[s])
  BY <1>1, SlotKinds, ConfigType DEF SlotOK, OutboundOf
<1> x.phase \in {"Pending", "InFlight"} /\ (x.flying => close[s].st = "done") BY DEF Ends
<1>3. create[s] = <<>> /\ x.life \in {"STANDALONE", "CLOSING_ONE", "CLOSING_ZERO"} BY <1>2 DEF OutboundOK
<1>4. x.owner = None <=> x.life = "STANDALONE" BY <1>2, <1>3 DEF OutboundOK
<1>5. x.life \in {"STANDALONE", "CLOSING_ZERO"} => ~x.lease
  <2>1. x.life \in {"STANDALONE", "CLOSING_ZERO"} => v.h = "none"
    BY <1>1, <1>2 DEF OutboundOK, SlotOK, Around
  <2> QED BY <1>2, <2>1 DEF RetireOK
<1>6. /\ y \in Entries(config) /\ y.owner = x.owner /\ y.life = x.life /\ y.spent = x.spent
      /\ y.flying = FALSE /\ ~Waits(y)
      /\ y = [x EXCEPT !.flying = FALSE, !.phase = (IF x.lease THEN "Quiescent" ELSE "Ready")]
      /\ ~x.lease => y = [x EXCEPT !.flying = FALSE, !.phase = "Ready", !.lease = FALSE]
  <2>1. Settles(config, x, y) BY <1>1, SettleIs
  <2> QED BY <2>1 DEF Settles
<1>7. d.e[s] = y BY <1>1 DEF St, Put
<1>8. ASSUME NEW x2, x2.flying = FALSE, ~Waits(x2)
      PROVE  Chained(config, q2, Put(entry, s, x2)) /\ n2 = Cardinality(Flying(config, Put(entry, s, x2)))
  <2>1. Chained(config, q2, Put(entry, s, x2)) BY <1>8 DEF Takes
  <2>2. PICK e1 : e1 = Put(entry, s, y) OBVIOUS
  <2>3. PICK e2 : e2 = Put(entry, s, x2) OBVIOUS
  <2>4. \A t \in SlotsOf(config) : e2[t].flying = e1[t].flying BY <1>1, <1>6, <1>8, <2>2, <2>3 DEF Put
  <2>5. Flying(config, e2) = Flying(config, e1) BY <1>1, <2>4, FlyingSame
  <2> QED BY <2>1, <2>2, <2>3, <2>5
<1>9. CASE x.owner = None /\ x.spent
  <2>1. Commit(d) BY <1>6, <1>7, <1>9 DEF Reuse
  <2>2. entry' = Put(entry, s, y) /\ queue' = q2 /\ count' = n2 /\ part' = part BY <2>1, CommitIs
  <2>3. y = [x EXCEPT !.flying = FALSE, !.phase = "Ready", !.lease = FALSE] BY <1>4, <1>5, <1>6, <1>9
  <2>4. SlotOK(config, s, y, v2, create[s], NoClose, DoneOf(s))
    <3>1. x.owner = None BY <1>9
    <3>2. x.spent BY <1>9
    <3>3. Ends(x, close[s]) OBVIOUS
    <3>4. SlotOK(config, s, x, v, create[s], close[s], DoneOf(s)) /\ config \in Configs BY <1>1
    <3> QED BY <2>3, <3>1, <3>2, <3>3, <3>4, SlotStandaloneSpent, ZenonT(120)
  <2>5. SlotOK(config, s, y, Surround(s)', create'[s], close'[s], DoneOf(s)') BY <2>4
  <2>6. Steady(entry[s], y) BY <1>6 DEF Steady
  <2>7. Chained(config, queue', Put(entry, s, y)) /\ count' = Cardinality(Flying(config, Put(entry, s, y)))
    BY <1>6, <1>8, <2>2
  <2> QED BY <1>1, <2>2, <2>5, <2>6, <2>7, StepOne
<1>10. CASE x.owner = None /\ ~x.spent
  <2>1. PICK x2 : x2 = LifeOf(y, "FREE") OBVIOUS
  <2>2. Reuse(d, s) = FreeStandalone(d, s) BY <1>6, <1>7, <1>10 DEF Reuse
  <2>3. FreeStandalone(d, s) = St(Put(entry, s, x2), q2, n2, ReleaseOne(part, s)) BY <1>1, <2>1, FreeStandalonePut
  <2>4. Commit(St(Put(entry, s, x2), q2, n2, ReleaseOne(part, s))) BY <1>10, <2>2, <2>3
  <2>5. entry' = Put(entry, s, x2) /\ queue' = q2 /\ count' = n2 /\ part' = ReleaseOne(part, s) BY <2>4, CommitIs
  <2>6. y = [x EXCEPT !.flying = FALSE, !.phase = "Ready", !.lease = FALSE] BY <1>4, <1>5, <1>6, <1>10
  <2>7. x2 = [x EXCEPT !.flying = FALSE, !.phase = "Ready", !.lease = FALSE, !.life = "FREE"]
    BY <1>1, <2>1, <2>6 DEF LifeOf, Entries
  <2>8. SlotOK(config, s, x2, v2, create[s], NoClose, DoneOf(s)) BY <1>1, <1>10, <2>7, SlotStandaloneFreed
  <2>9. SlotOK(config, s, x2, Surround(s)', create'[s], close'[s], DoneOf(s)') BY <2>8
  <2>10. x2.life = "FREE" /\ x2.owner = x.owner /\ x2.flying = FALSE /\ x2.phase = "Ready" BY <1>1, <2>7 DEF Entries
  <2>11. Chained(config, queue', Put(entry, s, x2)) /\ count' = Cardinality(Flying(config, Put(entry, s, x2)))
    <3>1. ~Waits(x2) BY <2>10 DEF Waits
    <3> QED BY <1>8, <2>5, <2>10, <3>1
  <2>12. entry[s].life = "STANDALONE" BY <1>4, <1>10
  <2> QED BY <1>1, <2>5, <2>9, <2>10, <2>11, <2>12, StepFree
<1>11. CASE x.owner # None /\ x.life = "CLOSING_ZERO"
  <2>1. CloseDone(d, s) = ReleaseSlot(d, s) BY <1>6, <1>7, <1>11 DEF CloseDone
  <2>2. Commit(ReleaseSlot(St(Put(entry, s, y), q2, n2, part), s)) BY <1>11, <2>1
  <2>3. PICK x2 : x2 = LifeOf(y, "MAPPED") OBVIOUS
  <2>4. y = [x EXCEPT !.flying = FALSE, !.phase = "Ready", !.lease = FALSE] BY <1>5, <1>6, <1>11
  <2>5. x2 = [x EXCEPT !.flying = FALSE, !.phase = "Ready", !.lease = FALSE, !.life = "MAPPED"]
    BY <1>1, <2>3, <2>4 DEF LifeOf, Entries
  <2>6. SlotOK(config, s, x2, v2, create[s], NoClose, DoneOf(s)) BY <1>1, <1>11, <2>5, SlotClosedLast
  <2>7. SlotOK(config, s, LifeOf(y, "MAPPED"), Surround(s)', create'[s], close'[s], DoneOf(s)') BY <2>3, <2>6
  <2>8. Chained(config, q2, Put(entry, s, y)) BY <1>6, <1>8
  <2>9. y.owner = entry[s].owner /\ y.owner # None /\ y.life = entry[s].life /\ y.life # "MAPPED" BY <1>6, <1>11
  <2> QED BY <1>3, <1>6, <2>2, <2>7, <2>8, <2>9, StepRelease
<1>12. CASE x.owner # None /\ x.life # "CLOSING_ZERO"
  <2>1. PICK x2 : x2 = LifeOf(y, "CLOSED_ONE") OBVIOUS
  <2>2. CloseDone(d, s) = Live(d, s, "CLOSED_ONE") BY <1>6, <1>7, <1>12 DEF CloseDone
  <2>3. Live(d, s, "CLOSED_ONE") = St(Put(entry, s, x2), q2, n2, part) BY <1>1, <2>1, LivePut
  <2>4. Commit(St(Put(entry, s, x2), q2, n2, part)) BY <1>12, <2>2, <2>3
  <2>5. entry' = Put(entry, s, x2) /\ queue' = q2 /\ count' = n2 /\ part' = part BY <2>4, CommitIs
  <2>6. PICK ph : ph = IF x.lease THEN "Quiescent" ELSE "Ready" OBVIOUS
  <2>7. x2 = [x EXCEPT !.flying = FALSE, !.phase = ph, !.life = "CLOSED_ONE"]
    <3>1. y = [x EXCEPT !.flying = FALSE, !.phase = ph] BY <1>6, <2>6
    <3> QED BY <1>1, <2>1, <3>1 DEF LifeOf, Entries
  <2>8. SlotOK(config, s, x2, v2, create[s], NoClose, DoneOf(s))
    BY <1>1, <1>12, <2>6, <2>7, SlotClosedFirst
  <2>9. SlotOK(config, s, x2, Surround(s)', create'[s], close'[s], DoneOf(s)') BY <2>8
  <2>10. x2.life = "CLOSED_ONE" /\ x2.owner = x.owner /\ x2.flying = FALSE /\ x2.phase = ph BY <1>1, <2>7 DEF Entries
  <2>11. ~Waits(x2) BY <2>6, <2>10 DEF Waits
  <2>12. Chained(config, queue', Put(entry, s, x2)) /\ count' = Cardinality(Flying(config, Put(entry, s, x2)))
    BY <1>8, <2>5, <2>10, <2>11
  <2>13. Steady(entry[s], x2) BY <1>3, <2>10 DEF Steady
  <2> QED BY <1>1, <2>5, <2>9, <2>12, <2>13, StepOne
<1> QED BY <1>9, <1>10, <1>11, <1>12
-----------------------------------------------------------------------------
(* The echo of a close.                                                    *)

(* What is known when an echo arrives.                                     *)
EchoFor(s, x, z, cl, m) ==
    /\ SlotOK(config, s, x, Surround(s), create[s], cl, DoneOf(s)) /\ config \in Configs
    /\ x \in Entries(config) /\ x.flying /\ x.flying = TRUE /\ cl.gen = x.sub /\ ~Waits(x)
    /\ cl.standalone <=> s \in OutboundOf(config) /\ x.owner = None
    /\ cl.st = "failed" => x.phase = "InFlight"
    /\ z \in Entries(config) /\ z.flying = FALSE /\ z.phase = x.phase /\ z.owner = x.owner /\ z.life = x.life
    /\ z.word = x.word
    /\ IsCurrent(z, cl.gen) <=> x.phase = "InFlight"
    /\ Consume(Store, s) = St(Put(entry, s, z), queue, m, part)
    /\ \A y : y.flying = FALSE => m = Cardinality(Flying(config, Put(entry, s, y)))

LEMMA EchoIs ==
  ASSUME IInv, NEW s \in SlotsOf(config), NEW x, x = entry[s], NEW cl, cl = close[s], cl.st \in {"done", "failed"},
         NEW z, z = Landed(x), NEW m, m = count - 1
  PROVE  EchoFor(s, x, z, cl, m)
<1>1. /\ SlotOK(config, s, x, Surround(s), create[s], cl, DoneOf(s)) /\ config \in Configs
      /\ entry \in [SlotsOf(config) -> Entries(config)] /\ x \in Entries(config) /\ s \in DOMAIN entry
  BY SlotNow
<1>2. RetireOK(config, s, x, Surround(s), cl) BY <1>1 DEF SlotOK
<1>3. x.flying /\ x.flying = TRUE
  <2>1. cl # NoClose BY DEF NoClose
  <2>2. x.flying \in BOOLEAN BY <1>1 DEF Entries
  <2> QED BY <1>2, <2>1, <2>2 DEF RetireOK
<1>4. cl.gen = x.sub /\ (cl.st = "failed" => x.phase = "InFlight") /\ (x.phase = "InFlight" => x.sub = Epoch(x))
  BY <1>2, <1>3 DEF RetireOK
<1>5. cl.standalone <=> s \in OutboundOf(config) /\ x.owner = None
  <2>1. cl.standalone = (s >= config.accept /\ x.owner = None) BY <1>2, <1>3 DEF RetireOK
  <2>2. s \in OutboundOf(config) <=> s >= config.accept BY <1>1, SlotKinds
  <2> QED BY <2>1, <2>2
<1>6. /\ z \in Entries(config) /\ z.flying = FALSE /\ z.phase = x.phase /\ z.owner = x.owner /\ z.life = x.life
      /\ z.gen = x.gen /\ z.spent = x.spent /\ z.lease = x.lease /\ z.word = x.word
  BY <1>1 DEF Landed, Entries
<1>7. Epoch(z) = Epoch(x) BY <1>6 DEF Epoch, RetiredGen
<1>8. IsCurrent(z, cl.gen) <=> x.phase = "InFlight" BY <1>4, <1>6, <1>7 DEF IsCurrent
<1>9. Consume(Store, s) = St(Put(entry, s, z), queue, m, part)
  <2>1. Store = St(Put(entry, s, x), queue, count, part) BY StoreIs
  <2> QED BY <1>1, <2>1, ConsumePut
<1>10. ASSUME NEW y, y.flying = FALSE PROVE m = Cardinality(Flying(config, Put(entry, s, y)))
  <2>1. ~y.flying BY <1>10
  <2> QED BY <1>1, <1>3, <2>1, FlyingPut DEF IInv
<1>11. ~Waits(x) BY <1>3 DEF Waits
<1> QED BY <1>1, <1>3, <1>4, <1>5, <1>6, <1>8, <1>9, <1>10, <1>11 DEF EchoFor

PendingOf(x) == [x EXCEPT !.phase = "Pending"]

LEMMA PendingPut ==
  ASSUME NEW e, NEW s \in DOMAIN e, NEW x, NEW q, NEW n, NEW p
  PROVE  [St(Put(e, s, x), q, n, p) EXCEPT !.e[s].phase = "Pending"] = St(Put(e, s, PendingOf(x)), q, n, p)
BY DEF St, Put, PendingOf

(* Queue after an echo.                                                    *)
LEMMA PromotePut ==
  ASSUME NEW c \in Configs, NEW e, NEW s \in DOMAIN e, NEW x \in Entries(c), x.phase = "Pending",
         NEW q, NEW n, NEW p
  PROVE  Promote(St(Put(e, s, x), q, n, p), s) =
           St(Put(e, s, WordTo(x, WordOf(q, x))), Headed(q, s, x.flying), n, p)
<1>1. PICK d : d = St(Put(e, s, x), q, n, p) OBVIOUS
<1>2. d.e[s] = x BY <1>1 DEF St, Put
<1>3. Promote(d, s) = Queue(d, s) BY <1>2 DEF Promote
<1> QED BY <1>1, <1>3, QueuePut

LEMMA EchoRetryStep ==
  ASSUME IInv, config' = config, NEW s \in SlotsOf(config), EchoRetry(s)
  PROVE  IInv'
<1>1. PICK x : x = entry[s] OBVIOUS
<1>2. PICK cl : cl = close[s] OBVIOUS
<1>3. PICK z : z = Landed(x) OBVIOUS
<1>4. PICK m : m = count - 1 OBVIOUS
<1>5. PICK d : d = Consume(Store, s) OBVIOUS
<1>6. /\ cl.st = "failed" /\ close' = [close EXCEPT ![s] = NoClose]
      /\ Commit(Promote(IF IsCurrent(d.e[s], cl.gen) THEN [d EXCEPT !.e[s].phase = "Pending"] ELSE d, s))
      /\ UNCHANGED <<resv, handle, made, file, acc, create, closed, done>>
  BY <1>2, <1>5 DEF EchoRetry, program
<1>7. EchoFor(s, x, z, cl, m) BY <1>1, <1>2, <1>3, <1>4, <1>6, EchoIs
<1>8. /\ entry \in [SlotsOf(config) -> Entries(config)] /\ s \in DOMAIN entry /\ AroundType
      /\ DoneOf(s) \in SUBSET (0 .. config.gens)
  BY SlotNow
<1>9. d = St(Put(entry, s, z), queue, m, part) BY <1>5, <1>7 DEF EchoFor
<1>10. d.e[s] = z BY <1>8, <1>9 DEF St, Put
<1>11. IsCurrent(d.e[s], cl.gen) BY <1>6, <1>7, <1>10 DEF EchoFor
<1>12. PICK y : y = PendingOf(z) OBVIOUS
<1>13. y \in Entries(config) /\ y.flying = FALSE /\ y.phase = "Pending" /\ y.owner = x.owner /\ y.life = x.life
  BY <1>7, <1>12 DEF EchoFor, PendingOf, Entries
<1>14. [d EXCEPT !.e[s].phase = "Pending"] = St(Put(entry, s, y), queue, m, part) BY <1>8, <1>9, <1>12, PendingPut
<1>15. PICK x2 : x2 = WordTo(y, WordOf(queue, y)) OBVIOUS
<1>16. Commit(St(Put(entry, s, x2), Headed(queue, s, y.flying), m, part))
  <2>1. config \in Configs BY <1>7 DEF EchoFor
  <2>2. PICK f : f = [d EXCEPT !.e[s].phase = "Pending"] OBVIOUS
  <2>3. Commit(Promote(f, s)) BY <1>6, <1>11, <2>2
  <2>4. f = St(Put(entry, s, y), queue, m, part) BY <1>14, <2>2
  <2>5. Promote(St(Put(entry, s, y), queue, m, part), s)
          = St(Put(entry, s, WordTo(y, WordOf(queue, y))), Headed(queue, s, y.flying), m, part)
    BY <1>8, <1>13, <2>1, PromotePut
  <2> QED BY <1>15, <2>3, <2>4, <2>5
<1>17. entry' = Put(entry, s, x2) /\ queue' = Headed(queue, s, y.flying) /\ count' = m /\ part' = part
  BY <1>16, CommitIs
<1>18. PICK w : w = WordOf(queue, y) OBVIOUS
<1>19. w \in SlotsOf(config) \cup {None, Zero, Target} BY <1>13, <1>18, WordType
<1>20. x2 = [x EXCEPT !.flying = FALSE, !.phase = "Pending", !.word = w]
  BY <1>3, <1>7, <1>12, <1>15, <1>18 DEF EchoFor, Landed, PendingOf, WordTo, Entries
<1>21. x2.flying = FALSE /\ x2.phase = "Pending" /\ x2.word = w /\ x2.owner = x.owner /\ x2.life = x.life
  BY <1>7, <1>20 DEF EchoFor, Entries
<1>22. SlotOK(config, s, x2, Surround(s), create[s], NoClose, DoneOf(s))
  <2>1. x.flying /\ config \in Configs BY <1>7 DEF EchoFor
  <2>2. SlotOK(config, s, x, Surround(s), create[s], cl, DoneOf(s)) BY <1>7 DEF EchoFor
  <2> QED BY <1>6, <1>8, <1>19, <1>20, <2>1, <2>2, SlotSide, SlotResubmits, AcceptResubmits
<1>23. SlotOK(config, s, x2, Surround(s)', create'[s], close'[s], DoneOf(s)')
  <2>1. close'[s] = NoClose BY <1>6, <1>8 DEF AroundType
  <2> QED BY <1>6, <1>22, <2>1 DEF DoneOf, Surround
<1>24. AroundType' BY <1>6, <1>8 DEF AroundType, AcceptSlots
<1>25. \A t \in SlotsOf(config) \ {s} : SameAround(t) BY <1>6, <1>8 DEF SameAround, AroundType
<1>26. Steady(entry[s], x2) BY <1>1, <1>21 DEF Steady
<1>27. count' = Cardinality(Flying(config, Put(entry, s, x2))) BY <1>7, <1>17, <1>21 DEF EchoFor
<1>28. ~Waits(entry[s]) BY <1>1, <1>7 DEF EchoFor
<1>29. x2.flying = y.flying /\ x2.word = WordOf(queue, y) /\ create'[s] = create[s] BY <1>6, <1>13, <1>18, <1>21
<1> QED BY <1>6, <1>13, <1>17, <1>21, <1>23, <1>24, <1>25, <1>26, <1>27, <1>28, <1>29, StepQueued

-----------------------------------------------------------------------------
(* The close of the slot at the head.                                      *)

SentOf(x, g, k) == [x EXCEPT !.sub = g, !.flying = TRUE, !.side = k, !.phase = "InFlight"]

Sent(d, s, g, k) ==
    [d EXCEPT !.n = @ + 1, !.e[s].sub = g, !.e[s].flying = TRUE, !.e[s].side = k, !.e[s].phase = "InFlight"]

LEMMA SentPut ==
  ASSUME NEW c \in Configs, NEW e, NEW s \in DOMAIN e, NEW x \in Entries(c), NEW q, NEW n, NEW p, NEW g, NEW k,
         NEW d, d = St(Put(e, s, x), q, n, p), NEW m, m = n + 1
  PROVE  Sent(d, s, g, k) = St(Put(e, s, SentOf(x, g, k)), q, m, p)
<1>1. PICK y1 : y1 = [x EXCEPT !.sub = g] OBVIOUS
<1>2. PICK yes : yes = TRUE OBVIOUS
<1>3. PICK y2 : y2 = [y1 EXCEPT !.flying = yes] OBVIOUS
<1>4. PICK y3 : y3 = [y2 EXCEPT !.side = k] OBVIOUS
<1>5. PICK y4 : y4 = [y3 EXCEPT !.phase = "InFlight"] OBVIOUS
<1>6. PICK d0 : d0 = St(Put(e, s, x), q, m, p) OBVIOUS
<1>7. PICK d1 : d1 = St(Put(e, s, y1), q, m, p) OBVIOUS
<1>8. PICK d2 : d2 = St(Put(e, s, y2), q, m, p) OBVIOUS
<1>9. PICK d3 : d3 = St(Put(e, s, y3), q, m, p) OBVIOUS
<1>10. [d EXCEPT !.n = @ + 1] = d0 BY <1>6 DEF St
<1>11. [d0 EXCEPT !.e[s].sub = g] = d1
  <2>1. [St(Put(e, s, x), q, m, p) EXCEPT !.e[s].sub = g] = St(Put(e, s, y1), q, m, p) BY <1>1 DEF St, Put
  <2> QED BY <1>6, <1>7, <2>1
<1>12. [d1 EXCEPT !.e[s].flying = yes] = d2
  <2>1. [St(Put(e, s, y1), q, m, p) EXCEPT !.e[s].flying = yes] = St(Put(e, s, y2), q, m, p) BY <1>3 DEF St, Put
  <2> QED BY <1>7, <1>8, <2>1
<1>13. [d2 EXCEPT !.e[s].side = k] = d3
  <2>1. [St(Put(e, s, y2), q, m, p) EXCEPT !.e[s].side = k] = St(Put(e, s, y3), q, m, p) BY <1>4 DEF St, Put
  <2> QED BY <1>8, <1>9, <2>1
<1>14. [d3 EXCEPT !.e[s].phase = "InFlight"] = St(Put(e, s, y4), q, m, p)
  <2>1. [St(Put(e, s, y3), q, m, p) EXCEPT !.e[s].phase = "InFlight"] = St(Put(e, s, y4), q, m, p)
    BY <1>5 DEF St, Put
  <2> QED BY <1>9, <2>1
<1>15. Sent(d, s, g, k)
         = [[[[[d EXCEPT !.n = @ + 1] EXCEPT !.e[s].sub = g] EXCEPT !.e[s].flying = yes] EXCEPT !.e[s].side = k]
             EXCEPT !.e[s].phase = "InFlight"]
  BY <1>2 DEF Sent
<1>16. y4 = SentOf(x, g, k) BY <1>1, <1>2, <1>3, <1>4, <1>5 DEF SentOf, Entries
<1> QED BY <1>10, <1>11, <1>12, <1>13, <1>14, <1>15, <1>16

(* Submit.                                                                 *)
LEMMA SubmitStep ==
  ASSUME IInv, config' = config, Submit
  PROVE  IInv'
<1>1. PICK s : s = HeadOf(queue) OBVIOUS
<1>2. PICK k : k = Side(queue) OBVIOUS
<1>3. PICK x : x = entry[s] OBVIOUS
<1>4. PICK g : g = Epoch(x) OBVIOUS
<1>5. PICK d : d = Pop(Fronted(Store), s, k) OBVIOUS
<1>6. PICK sa : sa = Standalone(s) OBVIOUS
<1>7. /\ ~config.sync /\ HasPending
      /\ Commit(Sent(d, s, g, k))
      /\ close' = [close EXCEPT ![s] = [st |-> "sent", gen |-> g, side |-> k, standalone |-> sa]]
      /\ UNCHANGED <<resv, handle, made, file, acc, create, closed, done>>
  BY <1>1, <1>2, <1>3, <1>4, <1>5, <1>6 DEF Submit, program, Sent
<1>8. /\ s \in SlotsOf(config) /\ Waits(entry[s]) /\ k \in 1 .. 2
      /\ \E q2 : Pop(Fronted(Store), s, k) = St(entry, q2, count, part) /\ Takes(q2, s)
  BY <1>1, <1>2, <1>7, PopIs
<1>9. PICK q2 : d = St(entry, q2, count, part) /\ Takes(q2, s) BY <1>5, <1>8
<1>10. /\ SlotOK(config, s, x, Surround(s), create[s], close[s], DoneOf(s)) /\ config \in Configs
       /\ entry \in [SlotsOf(config) -> Entries(config)] /\ x \in Entries(config) /\ s \in DOMAIN entry
       /\ AroundType /\ DoneOf(s) \in SUBSET (0 .. config.gens)
  BY <1>3, <1>8, SlotNow
<1>11. PICK m : m = count + 1 OBVIOUS
<1>12. PICK x2 : x2 = SentOf(x, g, k) OBVIOUS
<1>13. d = St(Put(entry, s, x), q2, count, part)
  <2>1. Put(entry, s, x) = entry BY <1>3, <1>8, <1>10 DEF Put
  <2> QED BY <1>9, <2>1
<1>14. Commit(St(Put(entry, s, x2), q2, m, part))
  <2>1. Sent(d, s, g, k) = St(Put(entry, s, x2), q2, m, part)
    BY <1>10, <1>11, <1>12, <1>13, SentPut
  <2> QED BY <1>7, <2>1
<1>15. entry' = Put(entry, s, x2) /\ queue' = q2 /\ count' = m /\ part' = part BY <1>14, CommitIs
<1>16. Waits(x) BY <1>3, <1>8
<1>17. g \in 0 .. config.gens
  <2>1. RetireOK(config, s, x, Surround(s), close[s]) BY <1>10 DEF SlotOK
  <2>2. x.phase \in {"Pending", "InFlight"} BY <1>16 DEF Waits
  <2> QED BY <1>4, <1>10, <2>1, <2>2, EpochType
<1>18. x2 = [x EXCEPT !.sub = g, !.flying = TRUE, !.side = k, !.phase = "InFlight"] BY <1>12 DEF SentOf
<1>19. k \in 0 .. 2 BY <1>8
<1>20. x2.flying = TRUE /\ x2.phase = "InFlight" /\ x2.owner = x.owner /\ x2.life = x.life
  BY <1>10, <1>17, <1>18, <1>19 DEF Entries
<1>21. PICK cl2 : cl2 = [st |-> "sent", gen |-> g, side |-> k, standalone |-> sa] OBVIOUS
<1>22. sa = (s \in OutboundOf(config) /\ x.owner = None) BY <1>3, <1>6, <1>10, SlotsAre DEF Standalone
<1>23. SlotOK(config, s, x2, Surround(s), create[s], cl2, DoneOf(s))
  <2>1. CASE s \in OutboundOf(config)
    <3>1. sa = (x.owner = None) BY <1>22, <2>1
    <3>2. cl2 = [st |-> "sent", gen |-> g, side |-> k, standalone |-> x.owner = None] BY <1>21, <3>1
    <3> QED BY <1>4, <1>7, <1>10, <1>16, <1>17, <1>18, <1>19, <2>1, <3>2, SlotSubmitted
  <2>2. CASE s \in 0 .. config.accept - 1
    <3>1. s \notin OutboundOf(config) BY <1>10, <2>2, ConfigType DEF OutboundOf
    <3>2. sa = FALSE BY <1>22, <3>1
    <3>3. cl2 = [st |-> "sent", gen |-> g, side |-> k, standalone |-> FALSE] BY <1>21, <3>2
    <3> QED BY <1>4, <1>7, <1>10, <1>16, <1>17, <1>18, <1>19, <2>2, <3>3, AcceptSubmitted
  <2> QED BY <1>8, <2>1, <2>2, SlotSide
<1>24. SlotOK(config, s, x2, Surround(s)', create'[s], close'[s], DoneOf(s)')
  <2>1. close'[s] = cl2 BY <1>7, <1>8, <1>10, <1>21 DEF AroundType
  <2> QED BY <1>7, <1>23, <2>1 DEF DoneOf, Surround
<1>25. AroundType' BY <1>7, <1>10 DEF AroundType, AcceptSlots
<1>26. \A t \in SlotsOf(config) \ {s} : SameAround(t) BY <1>7, <1>10 DEF SameAround, AroundType
<1>27. Steady(entry[s], x2) BY <1>3, <1>20 DEF Steady
<1>28. count' = Cardinality(Flying(config, Put(entry, s, x2)))
  <2>1. x2.flying BY <1>20
  <2>2. ~entry[s].flying BY <1>8 DEF Waits
  <2> QED BY <1>8, <1>10, <1>11, <1>15, <2>1, <2>2, FlyingPut DEF IInv
<1>29. Chained(config, queue', Put(entry, s, x2))
  <2>1. ~Waits(x2) BY <1>20 DEF Waits
  <2> QED BY <1>9, <1>15, <2>1 DEF Takes
<1>30. create'[s] = create[s] /\ resv' = resv BY <1>7
<1> QED BY <1>8, <1>15, <1>24, <1>25, <1>26, <1>27, <1>28, <1>29, <1>30, StepOne

(* CloseNow.                                                               *)
LEMMA CloseNowStep ==
  ASSUME IInv, config' = config, CloseNow
  PROVE  IInv'
<1>1. PICK s : s = HeadOf(queue) OBVIOUS
<1>2. PICK k : k = Side(queue) OBVIOUS
<1>3. PICK x : x = entry[s] OBVIOUS
<1>4. PICK d : d = Settled(Pop(Fronted(Store), s, k), s) OBVIOUS
<1>5. /\ config.sync /\ HasPending
      /\ Commit(IF Standalone(s) THEN Reuse(d, s) ELSE CloseDone(d, s))
      /\ file' = file \ {s}
      /\ UNCHANGED <<resv, handle, made, acc, create, close, closed, done>>
  BY <1>1, <1>2, <1>4 DEF CloseNow, program
<1>6. /\ s \in SlotsOf(config) /\ Waits(entry[s]) /\ k \in 1 .. 2
      /\ \E q2 : Pop(Fronted(Store), s, k) = St(entry, q2, count, part) /\ Takes(q2, s)
  BY <1>1, <1>2, <1>5, PopIs
<1>7. PICK q2 : Pop(Fronted(Store), s, k) = St(entry, q2, count, part) /\ Takes(q2, s) BY <1>6
<1>8. /\ SlotOK(config, s, x, Surround(s), create[s], close[s], DoneOf(s)) /\ config \in Configs
      /\ entry \in [SlotsOf(config) -> Entries(config)] /\ x \in Entries(config) /\ s \in DOMAIN entry
      /\ AroundType /\ DoneOf(s) \in SUBSET (0 .. config.gens)
  BY <1>3, <1>6, SlotNow
<1>9. x.phase = "Pending" /\ ~x.flying BY <1>3, <1>6 DEF Waits
<1>10. x.flying = FALSE BY <1>8, <1>9, Falsity DEF Entries
<1>11. Landed(x) = x BY <1>8, <1>10 DEF Landed, Entries
<1>12. PICK y : y = SettleOf(x) OBVIOUS
<1>13. d = St(Put(entry, s, y), q2, count, part)
  <2>1. Put(entry, s, x) = entry BY <1>3, <1>6, <1>8 DEF Put
  <2>2. Settled(St(Put(entry, s, x), q2, count, part), s) = St(Put(entry, s, SettleOf(x)), q2, count, part)
    BY <1>8, SettledPut
  <2> QED BY <1>4, <1>7, <1>12, <2>1, <2>2
<1>14. Settles(config, x, y) BY <1>8, <1>11, <1>12, SettleIs
<1>15. count = Cardinality(Flying(config, Put(entry, s, y)))
  <2>1. y.flying = entry[s].flying BY <1>3, <1>10, <1>14 DEF Settles
  <2> QED BY <1>6, <1>8, <2>1, FlyingPut DEF IInv
<1>16. AroundType' BY <1>5, <1>8 DEF AroundType, AcceptSlots
<1>17. \A t \in SlotsOf(config) \ {s} : SameAround(t) BY <1>5 DEF SameAround
<1>18. PICK v : v = Surround(s) OBVIOUS
<1>19. PICK v2 : v2 = Surround(s)' OBVIOUS
<1>20. v2 = [v EXCEPT !.file = FALSE]
  <2>1. Moves(v, v2, s) BY <1>6, <1>8, <1>16, <1>18, <1>19, SurroundMoves
  <2>2. v2.h = v.h /\ v2.file = FALSE /\ v2.made = v.made /\ v2.acc = v.acc BY <1>5, <2>1 DEF Moves
  <2> QED BY <2>1, <2>2 DEF Moves, Around
<1>21. close[s] = NoClose
  <2>1. RetireOK(config, s, x, Surround(s), close[s]) BY <1>8 DEF SlotOK
  <2> QED BY <1>9, <2>1 DEF RetireOK
<1>22. close'[s] = NoClose /\ create'[s] = create[s] /\ resv' = resv /\ DoneOf(s)' = DoneOf(s)
  BY <1>5, <1>21 DEF DoneOf
<1>23. Standalone(s) <=> s \in OutboundOf(config) /\ x.owner = None BY <1>3, <1>8, SlotsAre DEF Standalone
<1>24. CASE s \in OutboundOf(config)
  <2>1. Ends(x, close[s]) BY <1>9 DEF Ends
  <2>2. Commit(IF x.owner = None THEN Reuse(d, s) ELSE CloseDone(d, s)) BY <1>5, <1>23, <1>24
  <2>3. y = SettleOf(Landed(x)) BY <1>11, <1>12
  <2>4. Takes(q2, s) BY <1>7
  <2> QED BY <1>3, <1>13, <1>15, <1>16, <1>17, <1>18, <1>19, <1>20, <1>22, <1>24, <2>1, <2>2, <2>3, <2>4, StepSettled
<1>25. CASE s \in 0 .. config.accept - 1
  <2>1. s \notin OutboundOf(config) /\ s < config.accept BY <1>8, <1>25, ConfigType DEF OutboundOf
  <2>2. AcceptOK(config, x, v, create[s], DoneOf(s)) BY <1>8, <1>18, <2>1 DEF SlotOK
  <2>3. x.owner = None /\ ~x.lease BY <1>9, <2>2 DEF AcceptOK
  <2>4. y = [x EXCEPT !.phase = "Ready", !.lease = FALSE]
    <3>1. x.lease = FALSE BY <1>8, <2>3, Falsity DEF Entries
    <3> QED BY <1>12, <2>3, <3>1 DEF SettleOf, StatusOf
  <2>5. d.e[s] = y BY <1>8, <1>13 DEF St, Put
  <2>6. y.owner = None /\ Steady(entry[s], y) /\ ~Waits(y) BY <1>3, <1>14, <2>3 DEF Settles, Steady
  <2>7. Commit(d) BY <1>5, <1>23, <2>1, <2>5, <2>6 DEF CloseDone
  <2>8. entry' = Put(entry, s, y) /\ queue' = q2 /\ count' = count /\ part' = part BY <1>13, <2>7, CommitIs
  <2>9. SlotOK(config, s, y, v2, create[s], close[s], DoneOf(s))
    <3>1. Waits(x) BY <1>3, <1>6
    <3> QED BY <1>8, <1>18, <1>20, <1>25, <2>4, <3>1, AcceptClosedNow
  <2>10. SlotOK(config, s, y, Surround(s)', create'[s], close'[s], DoneOf(s)') BY <1>19, <1>21, <1>22, <2>9
  <2>11. Chained(config, queue', Put(entry, s, y)) BY <1>7, <2>6, <2>8 DEF Takes
  <2>12. count' = Cardinality(Flying(config, Put(entry, s, y))) BY <1>15, <2>8
  <2> QED BY <1>6, <1>16, <1>17, <1>22, <2>6, <2>8, <2>10, <2>11, <2>12, StepOne
<1> QED BY <1>6, <1>24, <1>25, SlotSide

(* EchoComplete on an outbound slot.                                       *)
LEMMA EchoOutbound ==
  ASSUME IInv, config' = config, NEW s \in SlotsOf(config), s \in OutboundOf(config), EchoComplete(s)
  PROVE  IInv'
<1>1. PICK x : x = entry[s] OBVIOUS
<1>2. PICK cl : cl = close[s] OBVIOUS
<1>3. PICK z : z = Landed(x) OBVIOUS
<1>4. PICK m : m = count - 1 OBVIOUS
<1>5. PICK d : d = Consume(Store, s) OBVIOUS
<1>6. cl.st = "done" BY <1>2 DEF EchoComplete
<1>7. EchoFor(s, x, z, cl, m) BY <1>1, <1>2, <1>3, <1>4, <1>6, EchoIs
<1>8. /\ entry \in [SlotsOf(config) -> Entries(config)] /\ s \in DOMAIN entry /\ AroundType /\ config \in Configs
      /\ DoneOf(s) \in SUBSET (0 .. config.gens)
  BY SlotNow
<1>9. s \notin AcceptSlots BY <1>8, ConfigType DEF OutboundOf, AcceptSlots
<1>10. PICK f : f = Settled(d, s) OBVIOUS
<1>11. /\ close' = [close EXCEPT ![s] = NoClose]
       /\ Commit(IF cl.standalone THEN Reuse(f, s)
                 ELSE CloseDone(Promote(IF IsCurrent(d.e[s], cl.gen) THEN f ELSE d, s), s))
       /\ UNCHANGED <<resv, handle, made, file, acc, create, done>>
  BY <1>2, <1>5, <1>9, <1>10 DEF EchoComplete, program
<1>12. d = St(Put(entry, s, z), queue, m, part) BY <1>5, <1>7 DEF EchoFor
<1>13. d.e[s] = z BY <1>8, <1>12 DEF St, Put
<1>14. PICK y : y = SettleOf(z) OBVIOUS
<1>15. z \in Entries(config) /\ x \in Entries(config) /\ x.flying BY <1>7 DEF EchoFor
<1>16. f = St(Put(entry, s, y), queue, m, part)
  BY <1>8, <1>10, <1>12, <1>14, <1>15, SettledPut
<1>17. f.e[s] = y BY <1>8, <1>16 DEF St, Put
<1>18. Settles(config, x, y) BY <1>3, <1>8, <1>14, <1>15, SettleIs
<1>19. PICK v : v = Surround(s) OBVIOUS
<1>20. SlotOK(config, s, x, v, create[s], cl, DoneOf(s)) BY <1>7, <1>19 DEF EchoFor
<1>21. OutboundOK(x, v, create[s]) /\ RetireOK(config, s, x, v, cl)
  BY <1>8, <1>20, SlotKinds, ConfigType DEF SlotOK, OutboundOf
<1>22. x.phase = "InFlight" BY <1>15, <1>21 DEF OutboundOK
<1>23. IsCurrent(d.e[s], cl.gen) BY <1>7, <1>13, <1>22 DEF EchoFor
<1>24. Promote(f, s) = f
  <2>1. y.phase # "Pending" BY <1>18 DEF Settles, Waits
  <2> QED BY <1>17, <2>1 DEF Promote
<1>25. cl.standalone <=> x.owner = None BY <1>7 DEF EchoFor
<1>26. Commit(IF x.owner = None THEN Reuse(f, s) ELSE CloseDone(f, s)) BY <1>11, <1>23, <1>24, <1>25
<1>27. ~v.file BY <1>6, <1>21, <1>22 DEF RetireOK, OutboundOK
<1>28. PICK v2 : v2 = Surround(s)' OBVIOUS
<1>29. v2 = [v EXCEPT !.file = FALSE]
  <2>1. v2 = v BY <1>11, <1>19, <1>28 DEF Surround
  <2>2. v \in Around BY <1>20 DEF SlotOK
  <2>3. v.file = FALSE BY <1>27, <2>2, Falsity DEF Around
  <2> QED BY <2>1, <2>2, <2>3 DEF Around
<1>30. AroundType' BY <1>8, <1>11 DEF AroundType, AcceptSlots
<1>31. \A t \in SlotsOf(config) \ {s} : SameAround(t) BY <1>8, <1>11 DEF SameAround, AroundType
<1>32. close'[s] = NoClose /\ create'[s] = create[s] /\ resv' = resv /\ DoneOf(s)' = DoneOf(s)
  BY <1>8, <1>11 DEF DoneOf, AroundType
<1>33. m = Cardinality(Flying(config, Put(entry, s, y)))
  <2>1. y.flying = FALSE BY <1>18 DEF Settles
  <2> QED BY <1>7, <2>1 DEF EchoFor
<1>34. Ends(x, close[s]) BY <1>2, <1>6, <1>22 DEF Ends
<1>35. Takes(queue, s)
  <2>1. SUFFICES ASSUME NEW u, ~Waits(u) PROVE Chained(config, queue, Put(entry, s, u)) BY DEF Takes
  <2>2. Chained(config, queue, entry) BY DEF IInv, QueueInv, Chained
  <2>3. ~Waits(entry[s]) BY <1>1, <1>7 DEF EchoFor
  <2> QED BY <1>8, <2>1, <2>2, <2>3, ChainedStill
<1>36. y = SettleOf(Landed(x)) BY <1>3, <1>14
<1> QED BY <1>1, <1>16, <1>19, <1>26, <1>28, <1>29, <1>30, <1>31, <1>32, <1>33, <1>34, <1>35, <1>36, StepSettled

(* EchoComplete on an accept slot.                                         *)
LEMMA EchoAccept ==
  ASSUME IInv, config' = config, NEW s \in SlotsOf(config), s \in 0 .. config.accept - 1, EchoComplete(s)
  PROVE  IInv'
<1>1. PICK x : x = entry[s] OBVIOUS
<1>2. PICK cl : cl = close[s] OBVIOUS
<1>3. PICK z : z = Landed(x) OBVIOUS
<1>4. PICK m : m = count - 1 OBVIOUS
<1>5. PICK d : d = Consume(Store, s) OBVIOUS
<1>6. cl.st = "done" BY <1>2 DEF EchoComplete
<1>7. EchoFor(s, x, z, cl, m) BY <1>1, <1>2, <1>3, <1>4, <1>6, EchoIs
<1>8. /\ entry \in [SlotsOf(config) -> Entries(config)] /\ s \in DOMAIN entry /\ AroundType /\ config \in Configs
      /\ DoneOf(s) \in SUBSET (0 .. config.gens)
  BY SlotNow
<1>9. s \in AcceptSlots /\ s \notin OutboundOf(config) /\ s < config.accept
  BY <1>8, ConfigType DEF OutboundOf, AcceptSlots
<1>10. PICK f : f = Settled(d, s) OBVIOUS
<1>11. ~cl.standalone BY <1>7, <1>9 DEF EchoFor
<1>12. /\ close' = [close EXCEPT ![s] = NoClose]
       /\ Commit(Promote(IF IsCurrent(d.e[s], cl.gen) THEN f ELSE d, s))
       /\ done' = done \cup {<<s, cl.gen>>}
       /\ UNCHANGED <<resv, handle, made, file, acc, create>>
  BY <1>2, <1>5, <1>9, <1>10, <1>11 DEF EchoComplete, program
<1>13. d = St(Put(entry, s, z), queue, m, part) BY <1>5, <1>7 DEF EchoFor
<1>14. d.e[s] = z BY <1>8, <1>13 DEF St, Put
<1>15. /\ z \in Entries(config) /\ x \in Entries(config) /\ x.flying /\ cl.gen = x.sub /\ ~Waits(x)
       /\ z.flying = FALSE /\ z.phase = x.phase /\ z.owner = x.owner /\ z.life = x.life /\ z.word = x.word
       /\ SlotOK(config, s, x, Surround(s), create[s], cl, DoneOf(s))
  BY <1>7 DEF EchoFor
<1>16. PICK dn : dn = DoneOf(s) \cup {x.sub} OBVIOUS
<1>17. DoneOf(s)' = dn
  <2>1. x.sub \in 0 .. config.gens BY <1>15 DEF Entries
  <2> QED BY <1>12, <1>15, <1>16, <2>1 DEF DoneOf
<1>18. AroundType'
  <2>1. x.sub \in 0 .. config.gens BY <1>15 DEF Entries
  <2>2. done' \subseteq SlotsOf(config) \X (0 .. config.gens) BY <1>8, <1>12, <1>15, <2>1 DEF AroundType
  <2> QED BY <1>8, <1>12, <2>2 DEF AroundType, AcceptSlots
<1>19. \A t \in SlotsOf(config) \ {s} : SameAround(t) BY <1>8, <1>12 DEF SameAround, AroundType
<1>20. close'[s] = NoClose /\ create'[s] = create[s] /\ resv' = resv BY <1>8, <1>12 DEF AroundType
<1>21. Surround(s)' = Surround(s) BY <1>12 DEF Surround
<1>22. ASSUME NEW x2, SlotOK(config, s, x2, Surround(s), create[s], NoClose, dn)
       PROVE  SlotOK(config, s, x2, Surround(s)', create'[s], close'[s], DoneOf(s)')
  BY <1>17, <1>20, <1>21, <1>22
<1>23. AcceptOK(config, x, Surround(s), create[s], DoneOf(s)) BY <1>9, <1>15 DEF SlotOK
<1>24. ~Waits(entry[s]) BY <1>1, <1>15
<1>25. Chained(config, queue, entry) BY DEF IInv, QueueInv, Chained
<1>26. CASE x.phase = "InFlight"
  <2>1. PICK y : y = SettleOf(z) OBVIOUS
  <2>2. f = St(Put(entry, s, y), queue, m, part) BY <1>8, <1>10, <1>13, <1>15, <2>1, SettledPut
  <2>3. f.e[s] = y BY <1>8, <2>2 DEF St, Put
  <2>4. Settles(config, x, y) BY <1>3, <1>8, <1>15, <2>1, SettleIs
  <2>5. ~x.lease BY <1>23, <1>26 DEF AcceptOK
  <2>6. y = [x EXCEPT !.flying = FALSE, !.phase = "Ready", !.lease = FALSE] BY <2>4, <2>5 DEF Settles
  <2>7. Promote(f, s) = f
    <3>1. y.phase # "Pending" BY <2>4 DEF Settles, Waits
    <3> QED BY <2>3, <3>1 DEF Promote
  <2>8. IsCurrent(d.e[s], cl.gen) BY <1>7, <1>14, <1>26 DEF EchoFor
  <2>9. Commit(f) BY <1>12, <2>7, <2>8
  <2>10. entry' = Put(entry, s, y) /\ queue' = queue /\ count' = m /\ part' = part BY <2>2, <2>9, CommitIs
  <2>11. SlotOK(config, s, y, Surround(s), create[s], NoClose, dn)
    BY <1>6, <1>8, <1>15, <1>16, <1>26, <2>6, AcceptSettled
  <2>12. SlotOK(config, s, y, Surround(s)', create'[s], close'[s], DoneOf(s)') BY <1>22, <2>11
  <2>13. Steady(entry[s], y) /\ ~Waits(y) /\ y.flying = FALSE BY <1>1, <2>4 DEF Steady, Settles
  <2>14. Chained(config, queue', Put(entry, s, y)) BY <1>8, <1>24, <1>25, <2>10, <2>13, ChainedStill
  <2>15. count' = Cardinality(Flying(config, Put(entry, s, y))) BY <1>7, <2>10, <2>13 DEF EchoFor
  <2> QED BY <1>18, <1>19, <1>20, <2>10, <2>12, <2>13, <2>14, <2>15, StepOne
<1>27. ASSUME x.phase # "InFlight" PROVE ~IsCurrent(d.e[s], cl.gen) BY <1>7, <1>14, <1>27 DEF EchoFor
<1>28. CASE x.phase = "Pending"
  <2>1. Commit(Promote(d, s))
    <3>1. ~IsCurrent(d.e[s], cl.gen) BY <1>27, <1>28
    <3> QED BY <1>12, <3>1
  <2>2. PICK w : w = WordOf(queue, z) OBVIOUS
  <2>3. PICK x2 : x2 = WordTo(z, WordOf(queue, z)) OBVIOUS
  <2>4. z.phase = "Pending" BY <1>15, <1>28
  <2>5. Promote(St(Put(entry, s, z), queue, m, part), s)
          = St(Put(entry, s, WordTo(z, WordOf(queue, z))), Headed(queue, s, z.flying), m, part)
    BY <1>8, <1>15, <2>4, PromotePut
  <2>6. Commit(St(Put(entry, s, x2), Headed(queue, s, z.flying), m, part)) BY <1>13, <2>1, <2>3, <2>5
  <2>7. entry' = Put(entry, s, x2) /\ queue' = Headed(queue, s, z.flying) /\ count' = m /\ part' = part
    BY <2>6, CommitIs
  <2>8. w \in SlotsOf(config) \cup {None, Zero, Target} BY <1>15, <2>2, WordType
  <2>9. x2 = [x EXCEPT !.flying = FALSE, !.word = w] BY <1>3, <1>15, <2>2, <2>3 DEF WordTo, Landed, Entries
  <2>10. x2.flying = FALSE /\ x2.phase = "Pending" /\ x2.word = w /\ x2.owner = x.owner /\ x2.life = x.life
    BY <1>15, <1>28, <2>9 DEF Entries
  <2>11. SlotOK(config, s, x2, Surround(s), create[s], NoClose, dn)
    BY <1>6, <1>8, <1>15, <1>16, <1>28, <2>8, <2>9, AcceptPromoted
  <2>12. SlotOK(config, s, x2, Surround(s)', create'[s], close'[s], DoneOf(s)') BY <1>22, <2>11
  <2>13. Steady(entry[s], x2) BY <1>1, <2>10 DEF Steady
  <2>14. count' = Cardinality(Flying(config, Put(entry, s, x2))) BY <1>7, <2>7, <2>10 DEF EchoFor
  <2>15. x2.flying = z.flying /\ x2.word = WordOf(queue, z) BY <1>15, <2>2, <2>10
  <2> QED BY <1>15, <1>18, <1>19, <1>20, <1>24, <2>7, <2>10, <2>12, <2>13, <2>14, <2>15, StepQueued
<1>29. CASE x.phase \notin {"Pending", "InFlight"}
  <2>1. Promote(d, s) = d BY <1>14, <1>15, <1>29 DEF Promote
  <2>2. Commit(d)
    <3>1. ~IsCurrent(d.e[s], cl.gen) BY <1>27, <1>29
    <3> QED BY <1>12, <2>1, <3>1
  <2>3. entry' = Put(entry, s, z) /\ queue' = queue /\ count' = m /\ part' = part BY <1>13, <2>2, CommitIs
  <2>4. z = [x EXCEPT !.flying = FALSE] BY <1>3 DEF Landed
  <2>5. SlotOK(config, s, z, Surround(s), create[s], NoClose, dn)
    BY <1>6, <1>8, <1>15, <1>16, <1>29, <2>4, AcceptEchoed
  <2>6. SlotOK(config, s, z, Surround(s)', create'[s], close'[s], DoneOf(s)') BY <1>22, <2>5
  <2>7. Steady(entry[s], z) /\ ~Waits(z) BY <1>1, <1>15, <1>29 DEF Steady, Waits
  <2>8. Chained(config, queue', Put(entry, s, z)) BY <1>8, <1>24, <1>25, <2>3, <2>7, ChainedStill
  <2>9. count' = Cardinality(Flying(config, Put(entry, s, z))) BY <1>7, <1>15, <2>3 DEF EchoFor
  <2> QED BY <1>18, <1>19, <1>20, <2>3, <2>6, <2>7, <2>8, <2>9, StepOne
<1> QED BY <1>26, <1>28, <1>29

LEMMA EchoCompleteStep ==
  ASSUME IInv, config' = config, NEW s \in SlotsOf(config), EchoComplete(s)
  PROVE  IInv'
BY SlotSide, EchoOutbound, EchoAccept

-----------------------------------------------------------------------------
(* The specification.                                                      *)

NewEntry ==
    [gen |-> 0, spent |-> FALSE, phase |-> "Ready", lease |-> FALSE, life |-> "FREE", owner |-> None,
     flying |-> FALSE, side |-> 0, sub |-> 0, word |-> Zero]

LEMMA SlotNew ==
  ASSUME NEW c \in Configs, NEW s \in SlotsOf(c), NEW v \in Around,
         v.h = "none", ~v.made, ~v.file, ~v.acc
  PROVE  SlotOK(c, s, NewEntry, v, <<>>, NoClose, {}) /\ NewEntry \in Entries(c)
<1> USE ConfigType
<1>1. PICK x : x = NewEntry OBVIOUS
<1>2. x \in Entries(c) BY <1>1 DEF NewEntry, Entries, Lives
<1>3. /\ x.gen = 0 /\ ~x.spent /\ x.phase = "Ready" /\ ~x.lease /\ x.life = "FREE" /\ x.owner = None
      /\ ~x.flying
  BY <1>1 DEF NewEntry
<1>5. RetireOK(c, s, x, v, NoClose) BY <1>3 DEF RetireOK, NoClose
<1>6. AcceptOK(c, x, v, <<>>, {}) BY <1>3 DEF AcceptOK
<1>7. OutboundOK(x, v, <<>>) BY <1>3 DEF OutboundOK
<1> QED BY <1>1, <1>2, <1>5, <1>6, <1>7 DEF SlotOK

LEMMA ChainsNew ==
  ASSUME NEW c \in Configs, NEW e, \A s \in SlotsOf(c) : ~Waits(e[s]),
         NEW q, q = [heads |-> <<None, None>>, active |-> 1, draining |-> None]
  PROVE  Chained(c, q, e)
<1>1. PICK ch : ch = [k \in 1 .. 2 |-> <<>>] OBVIOUS
<1>2. ch \in [1 .. 2 -> Seq(SlotsOf(c))] BY <1>1
<1>3. \A k \in 1 .. 2 : Len(ch[k]) = 0 BY <1>1
<1>4. q.heads = <<None, None>> /\ q.active = 1 /\ q.draining = None OBVIOUS
<1>5. \A k \in 1 .. 2 : q.heads[k] = None BY <1>4
<1>6. q \in Queues(c) BY DEF Queues
<1>7. \A k \in 1 .. 2 : Linked(q, e, ch, k) BY <1>3, <1>5 DEF Linked
<1>8. \A k, l \in 1 .. 2 : \A i \in 1 .. Len(ch[k]), j \in 1 .. Len(ch[l]) :
        ch[k][i] = ch[l][j] => k = l /\ i = j
  BY <1>3
<1>9. \A s \in SlotsOf(c) : Waits(e[s]) <=> InChains(ch, s) BY <1>3 DEF InChains
<1>10. IF q.draining = None THEN Len(ch[3 - q.active]) = 0
       ELSE q.draining = 3 - q.active /\ Len(ch[q.draining]) > 0
  BY <1>3, <1>4
<1>11. ChainsOK(c, q, e, ch) BY <1>2, <1>6, <1>7, <1>8, <1>9, <1>10 DEF ChainsOK
<1> QED BY <1>2, <1>11 DEF Chained

LEMMA PartNew ==
  ASSUME NEW c \in Configs, NEW e, \A s \in OutboundOf(c) : e[s].life = "FREE" /\ e[s].owner = None,
         NEW p, p = NewPartition([k \in 1 .. c.outbound |-> c.accept + k - 1], c.routes)
  PROVE  PartOK(c, p, e, {})
<1> USE ConfigType
<1>1. PICK m : m = [k \in 1 .. c.outbound |-> c.accept + k - 1] OBVIOUS
<1>2. p.mapping = m /\ p.mapped = 0 /\ p.allocated = 0 /\ p.routes = [r \in c.routes |-> NoLease]
  BY <1>1 DEF NewPartition
<1>3. m \in [1 .. c.outbound -> OutboundOf(c)] BY <1>1 DEF OutboundOf
<1>4. NoLease \in Leases /\ NoLease.st = "none" BY DEF NoLease, Leases
<1>5. p \in Parts(c)
  <2>1. p = [mapping |-> m, mapped |-> 0, allocated |-> 0, routes |-> [r \in c.routes |-> NoLease]]
    BY <1>1 DEF NewPartition
  <2>2. PICK rt : rt = [r \in c.routes |-> NoLease] OBVIOUS
  <2>3. rt \in [c.routes -> Leases] BY <1>4, <2>2
  <2>4. p = [mapping |-> m, mapped |-> 0, allocated |-> 0, routes |-> rt] BY <2>1, <2>2
  <2>5. 0 \in Int OBVIOUS
  <2>6. PICK o : o = 0 OBVIOUS
  <2>7. p = [mapping |-> m, mapped |-> o, allocated |-> o, routes |-> rt] BY <2>4, <2>6
  <2>8. o \in Int BY <2>5, <2>6
  <2>9. PICK M : M = [1 .. c.outbound -> OutboundOf(c)] OBVIOUS
  <2>10. PICK R : R = [c.routes -> Leases] OBVIOUS
  <2>11. m \in M /\ rt \in R BY <1>3, <2>3, <2>9, <2>10
  <2>12. p \in [mapping : M, mapped : Int, allocated : Int, routes : R] BY <2>7, <2>8, <2>11
  <2> QED BY <2>9, <2>10, <2>12 DEF Parts
<1>6. PartShape(c, p) BY <1>2, <1>5 DEF PartShape
<1>7. \A r \in c.routes : p.routes[r].st = "none" BY <1>2, <1>4
<1>8. 1 .. p.mapped = {} /\ p.allocated + 1 = 1 /\ \A r \in c.routes : \A i : ~At(p.routes[r], i)
  <2>1. 1 .. p.mapped = {} /\ p.allocated + 1 = 1
    <3>1. p.mapped = 0 /\ p.allocated = 0 BY <1>2
    <3>2. 1 .. 0 = {} OBVIOUS
    <3>3. 1 .. p.mapped = {} BY <3>1, <3>2
    <3>4. p.allocated + 1 = 1 BY <3>1
    <3> QED BY <3>3, <3>4
  <2>2. \A r \in c.routes : \A i : ~At(p.routes[r], i) BY <1>7 DEF At
  <2> QED BY <2>1, <2>2
<1>9. Tiled(c, p) /\ Owned(c, p, e)
  <2>1. Tiled(c, p) BY <1>8 DEF Tiled
  <2>2. Owned(c, p, e) BY <1>8 DEF Owned
  <2> QED BY <2>1, <2>2
<1>10. Freed(c, p, e)
  <2>1. \A i \in 1 .. c.outbound : m[i] = c.accept + i - 1 BY <1>1
  <2>2. \A i \in 1 .. c.outbound : e[m[i]].life = "FREE" BY <1>3
  <2>3. \A i, j \in 1 .. c.outbound : m[i] = m[j] => i = j BY <2>1
  <2>4. ASSUME NEW s \in OutboundOf(c) PROVE \E i \in 1 .. c.outbound : m[i] = s
    <3>1. s - c.accept + 1 \in 1 .. c.outbound /\ s \in Int BY DEF OutboundOf
    <3>2. m[s - c.accept + 1] = s BY <2>1, <3>1
    <3> QED BY <3>1, <3>2
  <2>5. p.allocated + 1 = 1 /\ p.mapping = m BY <1>2
  <2> QED BY <2>2, <2>3, <2>4, <2>5 DEF Freed
<1>11. Retiring(c, p, e, {}) BY <1>7 DEF Retiring
<1> QED BY <1>6, <1>8, <1>9, <1>10, <1>11 DEF PartOK

LEMMA Initially == Init => IInv
<1>1. SUFFICES ASSUME Init PROVE IInv OBVIOUS
<1>2. config \in Configs BY <1>1 DEF Init
<1>3. Slots = SlotsOf(config) BY <1>2, SlotsAre
<1>4. entry = [s \in SlotsOf(config) |-> NewEntry] BY <1>1, <1>3 DEF Init, NewEntry
<1>5. /\ handle = [s \in SlotsOf(config) |-> "none"] /\ create = [s \in SlotsOf(config) |-> <<>>]
      /\ close = [s \in SlotsOf(config) |-> NoClose]
      /\ resv = {} /\ made = {} /\ file = {} /\ acc = {} /\ done = {} /\ count = 0
  BY <1>1, <1>3 DEF Init
<1>6. ASSUME NEW s \in SlotsOf(config)
      PROVE  /\ SlotOK(config, s, entry[s], Surround(s), create[s], close[s], DoneOf(s))
             /\ NewEntry \in Entries(config)
  <2>1. /\ Surround(s) \in Around /\ Surround(s).h = "none"
        /\ ~Surround(s).made /\ ~Surround(s).file /\ ~Surround(s).acc
    <3>1. PICK v : v = Surround(s) OBVIOUS
    <3>2. v = [h |-> handle[s], made |-> s \in made, file |-> s \in file, acc |-> s \in acc] BY <3>1 DEF Surround
    <3>3. v.h = "none" BY <1>5, <3>2
    <3>4. v.made = FALSE /\ v.file = FALSE /\ v.acc = FALSE
      <4>1. v.made = (s \in made) /\ v.file = (s \in file) /\ v.acc = (s \in acc) BY <3>2
      <4>2. s \notin made /\ s \notin file /\ s \notin acc BY <1>5
      <4> QED BY <4>1, <4>2, TruthOf
    <3>5. v = [h |-> v.h, made |-> v.made, file |-> v.file, acc |-> v.acc] BY <3>2
    <3>6. v \in Around BY <3>3, <3>4, <3>5 DEF Around
    <3> QED BY <3>1, <3>3, <3>4, <3>6
  <2>2. DoneOf(s) = {} BY <1>5 DEF DoneOf
  <2>3. entry[s] = NewEntry /\ create[s] = <<>> /\ close[s] = NoClose BY <1>4, <1>5
  <2> QED BY <1>2, <2>1, <2>2, <2>3, SlotNew
<1>7. TypeInv
  <2>1. entry \in [SlotsOf(config) -> Entries(config)] BY <1>4, <1>6
  <2>2. AroundType BY <1>5 DEF AroundType
  <2> QED BY <1>2, <2>1, <2>2 DEF TypeInv
<1>8. SlotsInv BY <1>6 DEF SlotsInv
<1>9. \A s \in SlotsOf(config) : entry[s].phase = "Ready" /\ ~entry[s].flying
                                /\ entry[s].life = "FREE" /\ entry[s].owner = None
  BY <1>4 DEF NewEntry
<1>10. QueueInv
  <2>1. \A s \in SlotsOf(config) : ~Waits(entry[s]) BY <1>9 DEF Waits
  <2>2. queue = [heads |-> <<None, None>>, active |-> 1, draining |-> None] BY <1>1 DEF Init
  <2>3. Chained(config, queue, entry) BY <1>2, <2>1, <2>2, ChainsNew
  <2> QED BY <2>3 DEF QueueInv, Chained
<1>11. count = Cardinality(Flying(config, entry))
  <2>1. Flying(config, entry) = {} BY <1>9 DEF Flying
  <2> QED BY <1>5, <2>1, FS_EmptySet
<1>12. PartOK(config, part, entry, resv)
  <2>1. part = NewPartition([k \in 1 .. config.outbound |-> config.accept + k - 1], config.routes) BY <1>1 DEF Init
  <2>2. \A s \in OutboundOf(config) : entry[s].life = "FREE" /\ entry[s].owner = None BY <1>2, <1>9, SlotKinds
  <2> QED BY <1>2, <1>5, <2>1, <2>2, PartNew
<1>13. CreatesOK(config, part, entry, create) BY <1>5 DEF CreatesOK
<1> QED BY <1>7, <1>8, <1>10, <1>11, <1>12, <1>13 DEF IInv

LEMMA Stepwise == IInv /\ [Next]_vars => IInv'
<1>1. SUFFICES ASSUME IInv, [Next]_vars PROVE IInv' OBVIOUS
<1>2. config \in Configs BY <1>1, PartNow
<1>3. Slots = SlotsOf(config) BY <1>2, SlotsAre
<1>4. CASE UNCHANGED vars
  BY <1>1, <1>4 DEF vars, IInv, TypeInv, SlotsInv, QueueInv, AroundType, AcceptSlots, Surround, DoneOf
<1>5. CASE Next
  <2>1. config' = config BY <1>5 DEF Next
  <2>2. CASE Submit BY <1>1, <2>1, <2>2, SubmitStep
  <2>3. CASE CloseNow BY <1>1, <2>1, <2>3, CloseNowStep
  <2>4. CASE TryReserve BY <1>1, <2>1, <2>4, TryReserveStep
  <2>5. ASSUME NEW r \in config.routes, RetireRoute(r) PROVE IInv' BY <1>1, <2>1, <2>5, RetireRouteStep
  <2>6. ASSUME NEW r \in config.routes, NEW n \in config.lens, Reserve(r, n) PROVE IInv'
    BY <1>1, <2>1, <2>6, ReserveStep
  <2>7. ASSUME NEW r \in config.routes, NEW k \in 0 .. config.outbound - 1, Acquire(r, k) PROVE IInv'
    BY <1>1, <2>1, <2>7, AcquireStep
  <2>8. ASSUME NEW s \in SlotsOf(config), CancelReserved(s) PROVE IInv' BY <1>1, <2>1, <2>8, CancelReservedStep
  <2>9. ASSUME NEW s \in SlotsOf(config), Install(s) PROVE IInv' BY <1>1, <2>1, <2>9, InstallStep
  <2>10. ASSUME NEW s \in SlotsOf(config), Begin(s) PROVE IInv' BY <1>1, <2>1, <2>10, BeginStep
  <2>11. ASSUME NEW s \in SlotsOf(config), Activate(s) PROVE IInv' BY <1>1, <2>1, <2>11, ActivateStep
  <2>12. ASSUME NEW s \in SlotsOf(config), Discard(s) PROVE IInv' BY <1>1, <2>1, <2>12, DiscardStep
  <2>13. ASSUME NEW s \in SlotsOf(config), DropCreating(s) PROVE IInv' BY <1>1, <2>1, <2>13, DropCreatingStep
  <2>14. ASSUME NEW s \in SlotsOf(config), Drop(s) PROVE IInv' BY <1>1, <2>1, <2>14, DropStep
  <2>15. ASSUME NEW s \in SlotsOf(config), KernelAccept(s) PROVE IInv' BY <1>1, <2>1, <2>15, KernelAcceptStep
  <2>16. ASSUME NEW s \in SlotsOf(config), EchoComplete(s) PROVE IInv' BY <1>1, <2>1, <2>16, EchoCompleteStep
  <2>17. ASSUME NEW s \in SlotsOf(config), EchoRetry(s) PROVE IInv' BY <1>1, <2>1, <2>17, EchoRetryStep
  <2>18. ASSUME NEW s \in SlotsOf(config), NEW b \in BOOLEAN, CompleteCreate(s, b) PROVE IInv'
    BY <1>1, <2>1, <2>18, CompleteCreateStep
  <2>19. ASSUME NEW s \in SlotsOf(config), NEW b \in BOOLEAN, Accepted(s, b) PROVE IInv'
    BY <1>1, <2>1, <2>19, AcceptedStep
  <2>20. ASSUME NEW s \in SlotsOf(config), NEW b \in BOOLEAN, KernelClose(s, b) PROVE IInv'
    BY <1>1, <2>1, <2>20, KernelCloseStep
  <2>21. ASSUME NEW s \in SlotsOf(config), NEW g \in 0 .. config.gens, SetTarget(s, g) PROVE IInv'
    BY <1>1, <2>1, <2>21, SetTargetStep
  <2>22. CASE Peek BY <1>1, <2>1, <2>22, PeekStep
  <2> QED BY <1>3, <1>5, <2>2, <2>3, <2>4, <2>5, <2>6, <2>7, <2>8, <2>9, <2>10, <2>11, <2>12, <2>13, <2>14, <2>15,
             <2>16, <2>17, <2>18, <2>19, <2>20, <2>21, <2>22 DEF Next
<1> QED BY <1>1, <1>4, <1>5

(* Whatever the program and the kernel do, every slot is in a state its    *)
(* handle, its file, its creation and its close agree with, the chains     *)
(* hold the pending slots, the echoes are counted and the partition is     *)
(* whole.                                                                  *)
THEOREM InvariantHolds == Spec => []IInv
<1>1. Init => IInv BY Initially
<1>2. IInv /\ [Next]_vars => IInv' BY Stepwise
<1> QED BY <1>1, <1>2, PTL DEF Spec

-----------------------------------------------------------------------------
(* What the runs check, from the invariant.                                *)

LEMMA FilesFrom == IInv => FilesAreOwned
<1>1. SUFFICES ASSUME IInv, NEW s \in Slots
               PROVE  /\ handle[s] = "active" \/ s \in acc =>
                           /\ s \in file
                           /\ close[s].st \in {"none", "done"}
                           /\ handle[s] = "active" => entry[s].lease /\ entry[s].phase = "Ready"
                      /\ s \in file =>
                           \/ handle[s] = "active" \/ s \in made \/ s \in acc
                           \/ entry[s].phase = "Pending"
                           \/ close[s].st \in {"sent", "failed"}
                           \/ s \in AcceptSlots /\ entry[s].spent /\ entry[s].phase = "Quiescent"
  BY DEF FilesAreOwned
<1>2. config \in Configs BY <1>1, PartNow
<1>3. s \in SlotsOf(config) /\ AcceptSlots = 0 .. config.accept - 1 BY <1>1, <1>2, SlotsAre
<1>4. PICK x : x = entry[s] OBVIOUS
<1>5. PICK v : v = Surround(s) OBVIOUS
<1>6. PICK cl : cl = close[s] OBVIOUS
<1>7. SlotOK(config, s, x, v, create[s], cl, DoneOf(s)) /\ x \in Entries(config) /\ v \in Around
  BY <1>1, <1>3, <1>4, <1>5, <1>6, SlotNow DEF SlotOK
<1>8. v.h = handle[s] /\ (v.made <=> s \in made) /\ (v.file <=> s \in file) /\ (v.acc <=> s \in acc)
  BY <1>5 DEF Surround
<1>9. RetireOK(config, s, x, v, cl) BY <1>7 DEF SlotOK
<1>10. cl.st \in {"none", "sent", "done", "failed"} BY <1>9 DEF RetireOK, NoClose
<1>11. s \in OutboundOf(config) \/ s \in 0 .. config.accept - 1 BY <1>1, <1>3, SlotSide
<1>12. CASE s \in OutboundOf(config)
  <2>1. OutboundOK(x, v, create[s]) BY <1>2, <1>7, <1>12, ConfigType DEF SlotOK, OutboundOf
  <2>2. v.h = "active" => v.file /\ cl.st \in {"none", "done"} /\ x.lease /\ x.phase = "Ready"
    BY <1>7, <1>9, <1>10, <2>1 DEF RetireOK, OutboundOK
  <2>3. ~v.acc BY <2>1 DEF OutboundOK
  <2>4. v.file => v.h = "active" \/ v.made \/ x.phase = "Pending" \/ cl.st \in {"sent", "failed"}
    BY <1>7, <1>9, <1>10, <2>1 DEF RetireOK, OutboundOK
  <2> QED BY <1>4, <1>6, <1>8, <2>2, <2>3, <2>4
<1>13. CASE s \in 0 .. config.accept - 1
  <2>1. AcceptOK(config, x, v, create[s], DoneOf(s)) BY <1>2, <1>7, <1>13, ConfigType DEF SlotOK
  <2>2. v.h = "active" => v.file /\ cl.st \in {"none", "done"} /\ x.lease /\ x.phase = "Ready"
    BY <1>7, <1>9, <1>10, <2>1 DEF RetireOK, AcceptOK
  <2>3. v.acc => v.file /\ cl.st \in {"none", "done"} BY <1>7, <1>9, <1>10, <2>1 DEF RetireOK, AcceptOK
  <2>4. x.phase \in {"Ready", "Pending", "InFlight", "Quiescent"} BY <1>7 DEF Entries
  <2>5. v.file => \/ v.h = "active" \/ v.acc \/ x.phase = "Pending" \/ cl.st \in {"sent", "failed"}
                  \/ x.spent /\ x.phase = "Quiescent"
    BY <1>7, <1>9, <1>10, <2>1, <2>4 DEF RetireOK, AcceptOK
  <2> QED BY <1>3, <1>4, <1>6, <1>8, <1>13, <2>2, <2>3, <2>5
<1> QED BY <1>11, <1>12, <1>13

(* A chain without repetitions is no longer than the slots are many.       *)
LEMMA ChainLength ==
  ASSUME NEW c \in Configs, NEW a \in Seq(SlotsOf(c)), \A i, j \in 1 .. Len(a) : a[i] = a[j] => i = j
  PROVE  a \in BoundedSeq(SlotsOf(c), Cardinality(SlotsOf(c)))
<1>1. Len(a) \in Nat /\ a \in [1 .. Len(a) -> SlotsOf(c)] BY LenProperties, SMTT(30)
<1>2. PICK n \in Nat : n = Len(a) BY <1>1
<1>3. PICK T : T = SlotsOf(c) OBVIOUS
<1>4. a \in Injection(1 .. n, T) BY <1>1, <1>2, <1>3 DEF Injection, IsInjective
<1>5. IsFiniteSet(T) /\ Cardinality(T) \in Nat BY <1>3, SlotsFinite, FS_CardinalityType
<1>6. Cardinality(1 .. n) <= Cardinality(T) BY <1>4, <1>5, FS_Injection
<1>7. Cardinality(1 .. n) = n BY FS_Interval
<1>8. n \in 0 .. Cardinality(T) BY <1>5, <1>6, <1>7
<1> QED BY <1>1, <1>2, <1>3, <1>8 DEF BoundedSeq, SeqOf

(* The chains, as the runs state them.                                     *)
LEMMA ChainsFrom ==
  ASSUME IInv
  PROVE  \E a, b \in BoundedSeq(Slots, Cardinality(Slots)) :
           /\ IsChain(a, 1) /\ IsChain(b, 2)
           /\ IsInjective(a \o b)
           /\ ToSet(a \o b) = {s \in Slots : entry[s].phase = "Pending" /\ ~entry[s].flying}
           /\ HasPending <=> a \o b # <<>>
<1>1. config \in Configs BY PartNow
<1>2. Slots = SlotsOf(config) BY <1>1, SlotsAre
<1>3. PICK ch \in [1 .. 2 -> Seq(SlotsOf(config))] : ChainsOK(config, queue, entry, ch) BY DEF IInv, QueueInv
<1>4. PICK a : a = ch[1] OBVIOUS
<1>5. PICK b : b = ch[2] OBVIOUS
<1>6. PICK S : S = SlotsOf(config) OBVIOUS
<1>7. a \in Seq(S) /\ b \in Seq(S) BY <1>3, <1>4, <1>5, <1>6
<1>8. /\ Len(a) \in Nat /\ a \in [1 .. Len(a) -> S] /\ DOMAIN a = 1 .. Len(a)
      /\ Len(b) \in Nat /\ b \in [1 .. Len(b) -> S] /\ DOMAIN b = 1 .. Len(b)
  BY <1>7, LenProperties, SMTT(30)
<1>9. PICK m \in Nat : m = Len(a) BY <1>8, ZenonT(60)
<1>10. PICK n \in Nat : n = Len(b) BY <1>8
<1>11. PICK ab : ab = a \o b OBVIOUS
<1>12. /\ ab \in Seq(S) /\ Len(ab) = m + n
       /\ \A i \in 1 .. m + n : ab[i] = IF i <= m THEN a[i] ELSE b[i - m]
  BY <1>7, <1>9, <1>10, <1>11, ConcatProperties
<1>13. DOMAIN ab = 1 .. m + n BY <1>12, LenProperties
<1>14. /\ \A i, j \in 1 .. m : a[i] = a[j] => i = j
       /\ \A i, j \in 1 .. n : b[i] = b[j] => i = j
       /\ \A i \in 1 .. m, j \in 1 .. n : a[i] # b[j]
  <2>1. \A k, l \in 1 .. 2 : \A i \in 1 .. Len(ch[k]), j \in 1 .. Len(ch[l]) :
          ch[k][i] = ch[l][j] => k = l /\ i = j
    BY <1>3 DEF ChainsOK
  <2> QED BY <1>4, <1>5, <1>9, <1>10, <2>1
<1>15. a \in BoundedSeq(S, Cardinality(S)) /\ b \in BoundedSeq(S, Cardinality(S))
  BY <1>1, <1>6, <1>7, <1>9, <1>10, <1>14, ChainLength
<1>16. IsChain(a, 1) /\ IsChain(b, 2)
  <2>1. Linked(queue, entry, ch, 1) /\ Linked(queue, entry, ch, 2) BY <1>3 DEF ChainsOK
  <2>2. a = <<>> <=> Len(a) = 0 BY <1>7, EmptySeq
  <2>3. b = <<>> <=> Len(b) = 0 BY <1>7, EmptySeq
  <2> QED BY <1>4, <1>5, <1>8, <2>1, <2>2, <2>3 DEF Linked, IsChain
<1>17. IsInjective(ab)
  <2>1. SUFFICES ASSUME NEW i \in 1 .. m + n, NEW j \in 1 .. m + n, ab[i] = ab[j] PROVE i = j
    BY <1>13 DEF IsInjective
  <2>2. CASE i <= m /\ j <= m BY <1>12, <1>14, <2>1, <2>2
  <2>3. CASE i > m /\ j > m
    <3>1. i - m \in 1 .. n /\ j - m \in 1 .. n BY <2>3
    <3>2. ab[i] = b[i - m] /\ ab[j] = b[j - m] BY <1>12, <2>3
    <3>3. i - m = j - m BY <1>14, <2>1, <3>1, <3>2
    <3> QED BY <3>3
  <2>4. CASE i <= m /\ j > m
    <3>1. i \in 1 .. m /\ j - m \in 1 .. n BY <2>4
    <3>2. ab[i] = a[i] /\ ab[j] = b[j - m] BY <1>12, <2>4
    <3> QED BY <1>14, <2>1, <3>1, <3>2
  <2>5. CASE i > m /\ j <= m
    <3>1. j \in 1 .. m /\ i - m \in 1 .. n BY <2>5
    <3>2. ab[j] = a[j] /\ ab[i] = b[i - m] BY <1>12, <2>5
    <3> QED BY <1>14, <2>1, <3>1, <3>2
  <2> QED BY <2>2, <2>3, <2>4, <2>5
<1>18. \A s \in S : Waits(entry[s]) <=> (\E i \in 1 .. m : a[i] = s) \/ (\E i \in 1 .. n : b[i] = s)
  <2>1. \A s \in S : Waits(entry[s]) <=> InChains(ch, s) BY <1>3, <1>6 DEF ChainsOK
  <2>2. ASSUME NEW s PROVE InChains(ch, s) <=> (\E i \in 1 .. m : a[i] = s) \/ (\E i \in 1 .. n : b[i] = s)
    <3>1. \A k \in 1 .. 2 : k = 1 \/ k = 2 OBVIOUS
    <3> QED BY <1>4, <1>5, <1>9, <1>10, <3>1 DEF InChains
  <2> QED BY <2>1, <2>2
<1>19. ToSet(ab) = {s \in S : Waits(entry[s])}
  <2>1. ASSUME NEW s \in ToSet(ab) PROVE s \in S /\ Waits(entry[s])
    <3>1. PICK i \in 1 .. m + n : ab[i] = s BY <1>13, <2>1 DEF ToSet
    <3>2. CASE i <= m BY <1>8, <1>9, <1>12, <1>18, <3>1, <3>2
    <3>3. CASE i > m
      <4>1. i - m \in 1 .. n /\ b[i - m] = s BY <1>12, <3>1, <3>3
      <4> QED BY <1>8, <1>10, <1>18, <4>1
    <3> QED BY <3>2, <3>3
  <2>2. ASSUME NEW s \in S, Waits(entry[s]) PROVE s \in ToSet(ab)
    <3>1. CASE \E i \in 1 .. m : a[i] = s
      <4>1. PICK i \in 1 .. m : a[i] = s BY <3>1
      <4>2. i \in 1 .. m + n /\ ab[i] = s BY <1>12, <4>1
      <4> QED BY <1>13, <4>2 DEF ToSet
    <3>2. CASE \E i \in 1 .. n : b[i] = s
      <4>1. PICK i \in 1 .. n : b[i] = s BY <3>2
      <4>2. i + m \in 1 .. m + n /\ ~(i + m <= m) /\ (i + m) - m = i BY <4>1
      <4>3. ab[i + m] = s BY <1>12, <4>1, <4>2
      <4> QED BY <1>13, <4>2, <4>3 DEF ToSet
    <3> QED BY <1>18, <2>2, <3>1, <3>2
  <2> QED BY <2>1, <2>2
<1>20. HasPending <=> ab # <<>>
  <2>1. ab = <<>> <=> m + n = 0 BY <1>12, EmptySeq
  <2>2. queue \in Queues(config) BY <1>3 DEF ChainsOK
  <2>3. /\ \A k \in 1 .. 2 : Linked(queue, entry, ch, k)
        /\ IF queue.draining = None THEN Len(ch[3 - queue.active]) = 0
           ELSE queue.draining = 3 - queue.active /\ Len(ch[queue.draining]) > 0
    BY <1>3 DEF ChainsOK
  <2>4. PICK k \in 1 .. 2 : k = Side(queue)
    <3>1. queue.active \in 1 .. 2 /\ queue.draining \in {1, 2, None} BY <2>2 DEF Queues
    <3> QED BY <3>1 DEF Side
  <2>5. m + n = 0 <=> Len(ch[k]) = 0
    <3>1. queue.active = 1 \/ queue.active = 2 BY <2>2 DEF Queues
    <3>2. CASE queue.draining = None BY <1>4, <1>5, <1>9, <1>10, <2>3, <2>4, <3>1, <3>2 DEF Side
    <3>3. CASE queue.draining # None BY <1>4, <1>5, <1>9, <1>10, <2>3, <2>4, <3>1, <3>3 DEF Side
    <3> QED BY <3>2, <3>3
  <2>6. HeadOf(queue) = IF Len(ch[k]) = 0 THEN None ELSE ch[k][1] BY <2>3, <2>4 DEF HeadOf, Linked
  <2>7. ASSUME Len(ch[k]) # 0 PROVE ch[k][1] \in SlotsOf(config) /\ entry[ch[k][1]].phase = "Pending"
    <3>1. ch[k] \in Seq(SlotsOf(config)) BY <1>3
    <3>2. 1 \in 1 .. Len(ch[k]) BY <2>7, <3>1, LenProperties
    <3>3. ch[k][1] \in SlotsOf(config) BY <3>1, <3>2, ElementOfSeq
    <3>4. InChains(ch, ch[k][1]) BY <3>2 DEF InChains
    <3> QED BY <1>3, <3>3, <3>4 DEF ChainsOK, Waits
  <2>8. None \notin SlotsOf(config) BY <1>1, NoLinks
  <2> QED BY <2>1, <2>5, <2>6, <2>7, <2>8 DEF HasPending
<1>21. {s \in S : Waits(entry[s])} = {s \in Slots : entry[s].phase = "Pending" /\ ~entry[s].flying}
  BY <1>2, <1>6 DEF Waits
<1> QED BY <1>2, <1>6, <1>11, <1>15, <1>16, <1>17, <1>19, <1>20, <1>21

LEMMA RetirementsFrom == IInv => RetirementsAreExact
<1>1. SUFFICES ASSUME IInv PROVE RetirementsAreExact OBVIOUS
<1>2. config \in Configs BY <1>1, PartNow
<1>3. Slots = SlotsOf(config) /\ OutboundSlots = OutboundOf(config) /\ AcceptSlots = 0 .. config.accept - 1
  BY <1>2, SlotsAre
<1>4. \E a, b \in BoundedSeq(Slots, Cardinality(Slots)) :
           /\ IsChain(a, 1) /\ IsChain(b, 2)
           /\ IsInjective(a \o b)
           /\ ToSet(a \o b) = {s \in Slots : entry[s].phase = "Pending" /\ ~entry[s].flying}
           /\ HasPending <=> a \o b # <<>>
  BY <1>1, ChainsFrom
<1>5. count = Cardinality({s \in Slots : entry[s].flying}) BY <1>1, <1>3 DEF IInv, Flying
<1>6. ASSUME NEW s \in Slots PROVE IF close[s].st = "none" THEN ~entry[s].flying ELSE Binds(s)
  <2>1. PICK x : x = entry[s] OBVIOUS
  <2>2. PICK cl : cl = close[s] OBVIOUS
  <2>3. RetireOK(config, s, x, Surround(s), cl) /\ x \in Entries(config)
    BY <1>1, <1>3, <1>6, <2>1, <2>2, SlotNow DEF SlotOK
  <2>4. CASE cl.st = "none" BY <2>1, <2>2, <2>3, <2>4 DEF RetireOK
  <2>5. CASE cl.st # "none"
    <3>1. x.flying BY <2>3, <2>5 DEF RetireOK, NoClose
    <3>2. /\ cl.gen = x.sub /\ cl.side = x.side
          /\ cl.standalone = (s >= config.accept /\ x.owner = None)
      BY <2>3, <3>1 DEF RetireOK
    <3>3. s \in OutboundSlots <=> s >= config.accept BY <1>2, <1>3, <1>6, SlotKinds
    <3>4. Standalone(s) = cl.standalone BY <2>1, <3>2, <3>3 DEF Standalone
    <3> QED BY <2>1, <2>2, <2>5, <3>1, <3>2, <3>4 DEF Binds
  <2> QED BY <2>4, <2>5
<1>7. ASSUME NEW s \in AcceptSlots, close[s].st # "none" PROVE <<s, close[s].gen>> \notin done
  <2>1. PICK x : x = entry[s] OBVIOUS
  <2>2. PICK cl : cl = close[s] OBVIOUS
  <2>3. s \in SlotsOf(config) /\ s < config.accept BY <1>2, <1>3, <1>7, ConfigType DEF SlotsOf
  <2>4. SlotOK(config, s, x, Surround(s), create[s], cl, DoneOf(s)) /\ x \in Entries(config)
    BY <1>1, <2>1, <2>2, <2>3, SlotNow
  <2>5. RetireOK(config, s, x, Surround(s), cl) /\ AcceptOK(config, x, Surround(s), create[s], DoneOf(s))
    BY <2>3, <2>4 DEF SlotOK
  <2>6. x.flying BY <1>7, <2>2, <2>5 DEF RetireOK, NoClose
  <2>7. cl.gen = x.sub /\ x.sub \notin DoneOf(s) BY <2>5, <2>6 DEF RetireOK, AcceptOK
  <2>8. x.sub \in 0 .. config.gens BY <2>4 DEF Entries
  <2> QED BY <2>2, <2>7, <2>8 DEF DoneOf
<1> QED BY <1>4, <1>5, <1>6, <1>7 DEF RetirementsAreExact

LEMMA TypesFrom == IInv => TypeOK
<1>1. SUFFICES ASSUME IInv PROVE TypeOK OBVIOUS
<1>2. config \in Configs /\ entry \in [SlotsOf(config) -> Entries(config)] /\ AroundType /\ PartShape(config, part)
  BY <1>1, PartNow
<1>3. Slots = SlotsOf(config) /\ OutboundSlots = OutboundOf(config) BY <1>2, SlotsAre
<1>4. queue \in Queues(config) BY <1>1 DEF IInv, QueueInv, ChainsOK
<1>5. queue.heads \in [1 .. 2 -> Slots \cup {None}] /\ queue.active \in 1 .. 2 /\ queue.draining \in {1, 2, None}
  BY <1>3, <1>4 DEF Queues
<1>6. count \in 0 .. Cardinality(Slots)
  <2>1. PICK f : f = Cardinality(Flying(config, entry)) OBVIOUS
  <2>2. PICK n : n = Cardinality(SlotsOf(config)) OBVIOUS
  <2>3. f \in Nat /\ f <= n BY <1>2, <2>1, <2>2, FlyingFinite
  <2>4. n \in Nat BY <1>2, <2>2, SlotsFinite, ConfigType
  <2>5. count = f BY <1>1, <2>1 DEF IInv
  <2> QED BY <1>3, <2>2, <2>3, <2>4, <2>5
<1>7. part.mapped \in 0 .. part.allocated /\ part.allocated \in 0 .. config.outbound BY <1>2 DEF PartShape
<1>8. resv \subseteq config.routes BY <1>1, PartNow DEF Retiring
<1>9. entry \in [Slots -> [gen : 0 .. config.gens, spent : BOOLEAN,
                           phase : {"Ready", "Pending", "InFlight", "Quiescent"},
                           lease : BOOLEAN, life : Lives, owner : config.routes \cup {None},
                           flying : BOOLEAN, side : 0 .. 2, sub : 0 .. config.gens,
                           word : Slots \cup {None, Zero, Target}]]
  BY <1>2, <1>3, Zenon DEF Entries
<1> QED BY <1>2, <1>3, <1>5, <1>6, <1>7, <1>8, <1>9 DEF TypeOK, AroundType

(* The intervals of the routes.                                            *)
PlacesOf(p, r) == p.routes[r].start + 1 .. p.routes[r].start + p.routes[r].len

LEMMA PlacesTile ==
  ASSUME NEW c \in Configs, NEW p, PartShape(c, p), Tiled(c, p),
         NEW L, L = {r \in c.routes : p.routes[r].st # "none"}
  PROVE  /\ UNION {PlacesOf(p, r) : r \in L} = 1 .. p.mapped
         /\ \A r, q \in L : r # q => PlacesOf(p, r) \cap PlacesOf(p, q) = {}
<1>1. ASSUME NEW r \in L, NEW i PROVE i \in PlacesOf(p, r) <=> At(p.routes[r], i)
  BY <1>1 DEF PlacesOf, At
<1>2. ASSUME NEW r \in L, NEW i \in PlacesOf(p, r) PROVE i \in Int
  <2>1. p.routes[r] \in Leases BY <1>2, MappingType
  <2>2. p.routes[r].start \in Nat /\ p.routes[r].len \in Nat BY <1>2, <2>1, LeaseType
  <2> QED BY <1>2, <2>2 DEF PlacesOf
<1>3. ASSUME NEW i \in UNION {PlacesOf(p, r) : r \in L} PROVE i \in 1 .. p.mapped
  <2>1. PICK r \in L : i \in PlacesOf(p, r) BY <1>3
  <2> QED BY <1>1, <1>2, <2>1 DEF Tiled
<1>4. ASSUME NEW i \in 1 .. p.mapped PROVE i \in UNION {PlacesOf(p, r) : r \in L}
  <2>1. PICK r \in c.routes : At(p.routes[r], i) BY <1>4 DEF Tiled
  <2>2. r \in L BY <2>1 DEF At
  <2> QED BY <1>1, <2>1, <2>2
<1>5. ASSUME NEW r \in L, NEW q \in L, r # q, NEW i \in PlacesOf(p, r), i \in PlacesOf(p, q) PROVE FALSE
  <2>1. At(p.routes[r], i) /\ At(p.routes[q], i) /\ i \in Int BY <1>1, <1>2, <1>5
  <2> QED BY <1>5, <2>1 DEF Tiled
<1> QED BY <1>3, <1>4, <1>5

(* The free suffix.                                                        *)
FreeOf(c, e) == {s \in OutboundOf(c) : e[s].life = "FREE"}
FreeSeq(p) == SubSeq(p.mapping, p.allocated + 1, Len(p.mapping))

LEMMA FreeSuffix ==
  ASSUME NEW c \in Configs, NEW p, NEW e, PartShape(c, p), Freed(c, p, e),
         NEW f, f = FreeSeq(p)
  PROVE  ToSet(f) = FreeOf(c, e) /\ IsInjective(f)
<1>1. PICK m : m = p.mapping OBVIOUS
<1>2. PICK a : a = p.allocated OBVIOUS
<1>3. PICK n : n = c.outbound OBVIOUS
<1>4. a \in Nat /\ n \in Nat /\ a <= n /\ Len(m) = n /\ \A i \in 1 .. n : m[i] \in OutboundOf(c)
  BY <1>1, <1>2, <1>3, MappingType
<1>5. f = SubSeq(m, a + 1, n) BY <1>1, <1>2, <1>4 DEF FreeSeq
<1>6. \A i \in a + 1 .. n : m[i] \in OutboundOf(c) BY <1>4
<1>7. a + 1 \in Int /\ n \in Int BY <1>4
<1>8. /\ f \in Seq(OutboundOf(c))
      /\ Len(f) = IF a + 1 <= n THEN n - (a + 1) + 1 ELSE 0
      /\ \A i \in 1 .. n - (a + 1) + 1 : f[i] = m[(a + 1) + i - 1]
  <2>1. PICK k : k = a + 1 OBVIOUS
  <2>2. k \in Int /\ n \in Int /\ f = SubSeq(m, k, n) BY <1>5, <1>7, <2>1
  <2>3. PICK S : S = OutboundOf(c) OBVIOUS
  <2>4. \A i \in k .. n : m[i] \in S BY <1>6, <2>1, <2>3
  <2>5. /\ SubSeq(m, k, n) \in Seq(S)
        /\ Len(SubSeq(m, k, n)) = IF k <= n THEN n - k + 1 ELSE 0
        /\ \A i \in 1 .. n - k + 1 : SubSeq(m, k, n)[i] = m[k + i - 1]
    BY <2>2, <2>4, SubSeqProperties
  <2> QED BY <2>1, <2>2, <2>3, <2>5
<1>9. DOMAIN f = 1 .. n - a
  <2>1. Len(f) = n - a BY <1>4, <1>8
  <2> QED BY <1>8, <2>1, LenProperties
<1>10. \A i \in 1 .. n - a : f[i] = m[a + i]
  <2>1. \A i \in 1 .. n - a : i \in 1 .. n - (a + 1) + 1 /\ (a + 1) + i - 1 = a + i BY <1>4
  <2> QED BY <1>8, <2>1
<1>11. /\ \A i \in a + 1 .. n : e[m[i]].life = "FREE"
       /\ \A i, j \in a + 1 .. n : m[i] = m[j] => i = j
       /\ \A s \in OutboundOf(c) : e[s].life = "FREE" => \E i \in a + 1 .. n : m[i] = s
  BY <1>1, <1>2, <1>3 DEF Freed
<1>12. ASSUME NEW s \in ToSet(f) PROVE s \in OutboundOf(c) /\ e[s].life = "FREE"
  <2>1. PICK i \in 1 .. n - a : f[i] = s BY <1>9, <1>12 DEF ToSet
  <2>2. a + i \in a + 1 .. n /\ m[a + i] = s
    <3>1. a + i \in a + 1 .. n BY <1>4
    <3>2. m[a + i] = f[i] BY <1>10
    <3> QED BY <2>1, <3>1, <3>2
  <2> QED BY <1>6, <1>11, <2>2
<1>13. ASSUME NEW s \in OutboundOf(c), e[s].life = "FREE" PROVE s \in ToSet(f)
  <2>1. PICK i \in a + 1 .. n : m[i] = s BY <1>11, <1>13
  <2>2. i - a \in 1 .. n - a /\ a + (i - a) = i BY <1>4, <2>1
  <2>3. f[i - a] = s BY <1>10, <2>1, <2>2
  <2> QED BY <1>9, <2>2, <2>3 DEF ToSet
<1>14. IsInjective(f)
  <2>1. SUFFICES ASSUME NEW i \in 1 .. n - a, NEW j \in 1 .. n - a, f[i] = f[j] PROVE i = j
    BY <1>9 DEF IsInjective
  <2>2. a + i \in a + 1 .. n /\ a + j \in a + 1 .. n /\ m[a + i] = m[a + j]
    <3>1. a + i \in a + 1 .. n /\ a + j \in a + 1 .. n BY <1>4
    <3>2. m[a + i] = f[i] /\ m[a + j] = f[j] BY <1>10
    <3> QED BY <2>1, <3>1, <3>2
  <2>3. a + i = a + j BY <1>11, <2>2
  <2> QED BY <1>4, <2>3
<1> QED BY <1>12, <1>13, <1>14 DEF FreeOf

LEMMA PartitionFrom == IInv => PartitionIsExact
<1>1. SUFFICES ASSUME IInv PROVE PartitionIsExact OBVIOUS
<1> DEFINE L == {r \in config.routes : part.routes[r].st # "none"}
<1> DEFINE Of(life) == {s \in OutboundSlots : entry[s].life = life}
<1> DEFINE f == SubSeq(part.mapping, part.allocated + 1, Len(part.mapping))
<1>2. /\ config \in Configs /\ Kinds(config, entry) /\ PartShape(config, part) /\ Tiled(config, part)
      /\ Owned(config, part, entry) /\ Freed(config, part, entry) /\ Retiring(config, part, entry, resv)
      /\ CreatesOK(config, part, entry, create) /\ OutboundOf(config) \subseteq SlotsOf(config)
  BY <1>1, PartNow
<1>3. Slots = SlotsOf(config) /\ OutboundSlots = OutboundOf(config) BY <1>2, SlotsAre
<1>4. TypeOK BY <1>1, TypesFrom
<1>5. /\ UNION {PlacesOf(part, r) : r \in L} = 1 .. part.mapped
      /\ \A r, q \in L : r # q => PlacesOf(part, r) \cap PlacesOf(part, q) = {}
  BY <1>2, PlacesTile
<1>6. \A r \in config.routes : Extent(part, r) = {s \in OutboundSlots : entry[s].owner = r}
  BY <1>2, <1>3, ExtentIs
<1>7. ToSet(f) = Of("FREE") /\ IsInjective(f)
  <2>1. PICK g : g = FreeSeq(part) OBVIOUS
  <2>2. ToSet(g) = FreeOf(config, entry) /\ IsInjective(g) BY <1>2, <2>1, FreeSuffix
  <2>3. FreeOf(config, entry) = Of("FREE") BY <1>3 DEF FreeOf
  <2> QED BY <2>1, <2>2, <2>3 DEF FreeSeq
<1>8. ASSUME NEW s \in Of("FREE")
      PROVE  /\ entry[s].phase = "Ready" /\ ~entry[s].lease /\ ~entry[s].spent
             /\ s \notin file /\ ~entry[s].flying
  <2>1. PICK x : x = entry[s] OBVIOUS
  <2>2. PICK v : v = Surround(s) OBVIOUS
  <2>3. s \in OutboundOf(config) /\ s \in SlotsOf(config) /\ x.life = "FREE" BY <1>2, <1>3, <1>8, <2>1
  <2>4. /\ SlotOK(config, s, x, v, create[s], close[s], DoneOf(s)) /\ x \in Entries(config)
    BY <1>1, <2>1, <2>2, <2>3, SlotNow
  <2>5. OutboundOK(x, v, create[s]) /\ RetireOK(config, s, x, v, close[s])
    BY <1>2, <2>3, <2>4, ConfigType DEF SlotOK, OutboundOf
  <2>6. v.file <=> s \in file BY <2>2 DEF Surround
  <2>7. v.h = "none" /\ ~x.spent BY <2>3, <2>5 DEF OutboundOK
  <2>8. x.phase = "Ready" BY <2>3, <2>4, <2>5 DEF OutboundOK, Entries
  <2>9. ~x.lease /\ ~x.flying /\ ~v.file BY <2>3, <2>5, <2>7, <2>8 DEF OutboundOK, RetireOK
  <2> QED BY <2>1, <2>6, <2>7, <2>8, <2>9
<1>9. part.allocated - part.mapped = Cardinality(Of("STANDALONE")) BY <1>2, <1>3, StandaloneCount
<1>10. ASSUME NEW r \in L, part.routes[r].st = "retired"
       PROVE  part.routes[r].remaining = Cardinality(Unmapped(Store, r))
  <2>1. r \in config.routes BY <1>10
  <2>2. Unmapped(Store, r) = {s \in Extent(part, r) : entry[s].life # "MAPPED"} BY DEF Unmapped, Store
  <2>3. Unmapped(Store, r) = UnmappedOf(config, entry, r) BY <1>2, <2>1, <2>2, UnmappedIs
  <2> QED BY <1>2, <1>10, <2>1, <2>3 DEF Retiring
<1>11. ASSUME NEW s \in Slots, create[s] # <<>> PROVE LocalSlot(part, create[s][1], create[s][2]) = s
  <2>1. /\ create[s] = <<entry[s].owner, create[s][2]>>
        /\ part.mapping[part.routes[entry[s].owner].start + create[s][2] + 1] = s
    BY <1>2, <1>3, <1>11 DEF CreatesOK
  <2>2. create[s][1] = entry[s].owner BY <2>1
  <2> QED BY <2>1, <2>2 DEF LocalSlot
<1> HIDE DEF Of, f
<1> QED BY <1>4, <1>5, <1>6, <1>7, <1>8, <1>9, <1>10, <1>11 DEF PartitionIsExact, PlacesOf, Of, f

(* Every retirement is queued once or in flight once, the queue shows what *)
(* it holds, every close finds its retirement and no accepted close is     *)
(* reported twice, for every domain.                                       *)
THEOREM RetirementsStayExact == Spec => []RetirementsAreExact
BY InvariantHolds, RetirementsFrom, PTL

(* No descriptor is closed under its owner and none is leaked.             *)
THEOREM FilesStayOwned == Spec => []FilesAreOwned
BY InvariantHolds, FilesFrom, PTL

(* The routes, the standalone slots and the free slots share the mapping   *)
(* out, across reservations, reclaims and compactions of any size.         *)
THEOREM PartitionStaysExact == Spec => []PartitionIsExact
BY InvariantHolds, PartitionFrom, PTL
=============================================================================
