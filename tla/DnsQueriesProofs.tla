-------------------------- MODULE DnsQueriesProofs --------------------------
(***************************************************************************)
(* The query ledger of the DNS resolver for every configuration: its books *)
(* are exact, no late or repeated answer and no late failure reaches a     *)
(* transmission it does not belong to, identities never run out, and a     *)
(* poll after the deadline ends a query.                                   *)
(***************************************************************************)
EXTENDS DnsQueries, FiniteSetTheorems, NaturalsInduction, WellFoundedInduction, TLAPS

Attempts == [srv : Servers, att : Nat, stream : Servers \cup {0}, cookie : BOOLEAN,
             hops : Nat, dl : Nat]

TableShape(t) ==
    t \in [free : [0 .. 1 -> SUBSET Ids], front : 0 .. 1, epoch : 0 .. config.epochMax,
           udp : [Ids -> Branches \cup {None}], tcp : [StreamIds -> Branches \cup {None}],
           streams : Int, gen : 0 .. config.epochMax, retired : 0 .. config.epochMax,
           cached : [Servers -> 0 .. config.epochMax]]

Shape(d) ==
    /\ d = [row |-> d.row, pending |-> d.pending, live |-> d.live, ids |-> d.ids]
    /\ d.row = [b \in Branches |-> d.row[b]]
    /\ d.pending \subseteq (Servers \cup {0}) \X Branches
    /\ d.live \in [Servers -> Int]
    /\ TableShape(d.ids)

(* The state around the ledger, as a value: what a row's meaning rests on. *)
Env == [slot |-> slot, lanes |-> lanes, wire |-> wire, link |-> link, reqs |-> frames \cup asked]

(* The books of a ledger d for the branches of S, with an attempt in hand  *)
(* that needs a stream of server x (0: none, or none of a stream).         *)
QueuesOf(d, S) ==
    \A p \in Servers \cup {0}, b \in Branches :
        <<p, b>> \in d.pending <=> /\ b \in S /\ d.row[b].st = "pending"
                                   /\ d.row[b].try.stream = p

StreamingIn(d, S, s) == {b \in S : d.row[b].st \in Active /\ d.row[b].try.stream = s}
LiveOf(d, S, x) ==
    \A s \in Servers : d.live[s] = Cardinality(StreamingIn(d, S, s)) + (IF x = s THEN 1 ELSE 0)

LeasedIn(d, S, kind) == {b \in S : d.row[b].st = "waiting" /\ d.row[b].lease.kind = kind}
PlanesOf(t) ==
    /\ t.free[0] \cap t.free[1] = {}
    /\ \A i \in Ids : t.udp[i] = None <=> i \in t.free[0] \cup t.free[1]
IdsOf(d, S) ==
    /\ PlanesOf(d.ids)
    /\ \A i \in Ids, b \in Branches :
         d.ids.udp[i] = b <=> b \in LeasedIn(d, S, "udp") /\ d.row[b].lease.id = i
    /\ \A i \in StreamIds, b \in Branches :
         d.ids.tcp[i] = b <=> b \in LeasedIn(d, S, "tcp") /\ d.row[b].lease.id = i
    /\ d.ids.streams = Cardinality(LeasedIn(d, S, "tcp"))

(* An attempt of branch b belongs to a running query and keeps within its  *)
(* hard deadline.                                                          *)
Fits(a, b, e) ==
    /\ a \in Attempts
    /\ e.slot[LaneOf(b)].st = "query" /\ e.slot[LaneOf(b)].hard \in Nat
    /\ a.dl <= e.slot[LaneOf(b)].hard

RowOK(r, b, e) ==
    /\ r.st \in Active \cup {"final"}
    /\ r.st \in Active => Fits(r.try, b, e)
    /\ r.st = "waiting" =>
         \/ /\ r.lease.kind = "udp" /\ r.try.stream = 0
            /\ r.lease.id \in Ids /\ r.lease.epoch \in Nat /\ r.lease.gen \in Nat
         \/ /\ r.lease.kind = "tcp" /\ r.try.stream # 0
            /\ r.lease.id \in StreamIds

(* What a datagram on the wire means to a branch that waits for a datagram *)
(* with its id: it is the one, or of an earlier epoch and generation.      *)
UdpOK(r, t, e) ==
    r.st = "waiting" /\ r.lease.kind = "udp" =>
      /\ r.lease.epoch <= t.epoch /\ r.lease.gen <= t.gen
      /\ \A m \in e.wire : m.id = r.lease.id =>
           \/ m.serial = r.serial /\ m.epoch = r.lease.epoch /\ m.gen = r.lease.gen
           \/ m.epoch < r.lease.epoch /\ m.gen < r.lease.gen

(* The identities a connection has used.                                   *)
Used(k) == {(k.start + i) % config.streamIds : i \in 0 .. k.issued - 1}

(* A branch of a held lane that waits for a stream waits on the connection *)
(* there is, under an identity that only its own request has.              *)
TcpOK(r, b, e) ==
    r.st = "waiting" /\ r.lease.kind = "tcp" /\ e.lanes[LaneOf(b)] # "cancelled" =>
      /\ e.link.st # "none" /\ e.link.srv = r.try.stream
      /\ e.link.st = "open" => r.lease.id \in Used(e.link)
      /\ e.link.st = "retiring" => b >= e.link.next
      /\ \A f \in e.reqs : f.id = r.lease.id => f.serial = r.serial

RowsOK(d, S, e) ==
    \A b \in S : RowOK(d.row[b], b, e) /\ UdpOK(d.row[b], d.ids, e) /\ TcpOK(d.row[b], b, e)

(* The identities of an epoch are used once, and generations grow from one *)
(* epoch to the next.                                                      *)
WireOK(t, e) ==
    /\ t.retired <= t.gen
    /\ \A s \in Servers : t.cached[s] # 0 => t.retired < t.cached[s] /\ t.cached[s] <= t.gen
    /\ \A m \in e.wire :
         /\ m.epoch <= t.epoch /\ m.gen <= t.gen
         /\ m.epoch = t.epoch => m.id \notin t.free[t.front]
         /\ m.epoch < t.epoch => m.gen <= t.retired

Good(d, S, x, e) ==
    /\ Shape(d) /\ QueuesOf(d, S) /\ LiveOf(d, S, x) /\ IdsOf(d, S)
    /\ RowsOK(d, S, e) /\ WireOK(d.ids, e)

Messages == [id : Ids, epoch : Nat, gen : Nat, srv : Servers, hops : Nat, fam : 0 .. 1,
             serial : Nat]

(* The rest of the state.                                                  *)
LinkInv ==
    /\ link.st \in {"none", "open", "retiring"}
    /\ link.st # "open" => asked = {}
    /\ link.st = "open" =>
         /\ link = [st |-> "open", srv |-> link.srv, start |-> link.start, issued |-> link.issued]
         /\ link.srv \in Servers /\ link.start \in StreamIds
         /\ link.issued \in 0 .. config.streamIds
         /\ \A f \in frames \cup asked : f.id \in Used(link)
    /\ link.st = "retiring" =>
         /\ link = [st |-> "retiring", srv |-> link.srv, mode |-> link.mode, next |-> link.next]
         /\ link.srv \in Servers /\ link.next \in Nat

NetInv ==
    /\ config \in Configs
    /\ now \in 0 .. config.maxTime
    /\ lanes \in [Lanes -> {"free", "held", "cancelled"}]
    /\ slot = [l \in Lanes |-> slot[l]]
    /\ \A l \in Lanes : slot[l].st \in {"idle", "query", "complete"}
    /\ serial \in 0 .. config.maxSubmits
    /\ wire \subseteq Messages /\ sends \subseteq wire
    /\ frames \subseteq [id : StreamIds, serial : Nat]
    /\ asked \subseteq [id : StreamIds, serial : Nat]

IInv == NetInv /\ LinkInv /\ Good(led, Branches, 0, Env)
-----------------------------------------------------------------------------
(* The branches.                                                           *)

LEMMA ConfigFacts ==
  ASSUME config \in Configs
  PROVE  /\ config.lanes \in Nat \ {0} /\ config.families \in 1 .. 2
         /\ IsFiniteSet(config.ids) /\ Cardinality(config.ids) > config.lanes * config.families
         /\ config.streamIds \in Nat \ {0} /\ config.servers \in Nat \ {0}
         /\ config.attempts \in Nat \ {0} /\ config.timeout \in Nat \ {0}
         /\ config.total \in Nat /\ config.total >= config.timeout
         /\ config.epochMax \in Nat /\ config.maxHops \in Nat /\ config.maxTime \in Nat
         /\ config.maxSubmits \in Nat
  BY ConfigAssumption

(* A branch has a lane and a family.                                       *)
LEMMA BranchFacts ==
  ASSUME config \in Configs, NEW b \in Branches
  PROVE  /\ b \in Nat /\ b # None /\ LaneOf(b) \in Lanes /\ b % 2 \in Families
         /\ b = 2 * LaneOf(b) + (b % 2) /\ b < 2 * config.lanes /\ b \in Row(LaneOf(b))
<1>1. PICK l \in Lanes, f \in Families : b = 2 * l + f
  BY DEF Branches
<1>2. l \in Nat /\ f \in 0 .. 1 /\ l < config.lanes /\ config.lanes \in Nat
  BY <1>1, ConfigFacts DEF Lanes, Families
<1>3. b \div 2 = l /\ b % 2 = f /\ b \in Nat /\ b < 2 * config.lanes
  BY <1>1, <1>2
<1> QED BY <1>1, <1>3, NoneAssumption DEF LaneOf, Row

(* The branches of a lane.                                                 *)
LEMMA RowFacts ==
  ASSUME config \in Configs, NEW l \in Lanes
  PROVE  /\ Row(l) \subseteq Branches
         /\ \A b \in Row(l) : LaneOf(b) = l
         /\ \A b \in Branches : LaneOf(b) = l => b \in Row(l)
         /\ 0 \in Families /\ 2 * l \in Branches
         /\ 1 \in Families => 2 * l + 1 \in Branches
         /\ Row(l) = IF 1 \in Families THEN {2 * l, 2 * l + 1} ELSE {2 * l}
<1>1. l \in Nat /\ config.families \in 1 .. 2 /\ Families = 0 .. config.families - 1
  BY ConfigFacts DEF Lanes, Families
<1>2. 0 \in Families /\ \A f \in Families : f \in 0 .. 1
  BY <1>1
<1>3. \A f \in Families : 2 * l + f \in Branches
  BY DEF Branches
<1>4. Row(l) \subseteq Branches
  BY <1>3 DEF Row
<1>5. ASSUME NEW b \in Row(l) PROVE LaneOf(b) = l
  <2>1. PICK f \in Families : b = 2 * l + f
    BY DEF Row
  <2>2. f = 0 \/ f = 1
    BY <1>2
  <2>3. b \div 2 = l
    BY <1>1, <2>1, <2>2
  <2> QED BY <2>3 DEF LaneOf
<1>6. \A b \in Branches : LaneOf(b) = l => b \in Row(l)
  BY BranchFacts
<1>7. 2 * l + 0 = 2 * l
  BY <1>1
<1>8. Row(l) = IF 1 \in Families THEN {2 * l, 2 * l + 1} ELSE {2 * l}
  BY <1>2, <1>7 DEF Row
<1> QED BY <1>2, <1>3, <1>4, <1>5, <1>6, <1>7, <1>8

(* There are finitely many branches, and fewer than datagram ids.          *)
LEMMA BranchesAreFew ==
  ASSUME config \in Configs
  PROVE  /\ IsFiniteSet(Branches) /\ Cardinality(Branches) \in Nat
         /\ Cardinality(Branches) < Cardinality(Ids)
<1> DEFINE n == config.lanes * config.families
           f == [b \in Branches |-> LaneOf(b) * config.families + (b % 2)]
<1>0. config.lanes \in Nat \ {0} /\ config.families \in {1, 2} /\ n \in Nat
  BY ConfigFacts
<1>1. ASSUME NEW b \in Branches PROVE f[b] \in 0 .. n - 1
  <2>1. LaneOf(b) \in 0 .. config.lanes - 1 /\ b % 2 \in 0 .. config.families - 1
    BY BranchFacts DEF Lanes, Families
  <2>2. CASE config.families = 1
    BY <1>0, <2>1, <2>2
  <2>3. CASE config.families = 2
    BY <1>0, <2>1, <2>3
  <2> QED BY <1>0, <2>2, <2>3
<1>2. ASSUME NEW b \in Branches, NEW c \in Branches, f[b] = f[c] PROVE b = c
  <2>1. /\ LaneOf(b) \in Nat /\ b % 2 \in 0 .. config.families - 1
        /\ LaneOf(c) \in Nat /\ c % 2 \in 0 .. config.families - 1
        /\ b = 2 * LaneOf(b) + (b % 2) /\ c = 2 * LaneOf(c) + (c % 2)
    BY <1>0, BranchFacts DEF Lanes, Families
  <2>2. LaneOf(b) * config.families + (b % 2) = LaneOf(c) * config.families + (c % 2)
    BY <1>2
  <2>3. \A p, q \in Nat, x, y \in 0 .. 1 : 2 * p + x = 2 * q + y => p = q /\ x = y
    OBVIOUS
  <2>4. CASE config.families = 1
    <3>1. b % 2 = 0 /\ c % 2 = 0
      BY <2>1, <2>4
    <3>2. LaneOf(b) = LaneOf(c)
      BY <2>1, <2>2, <2>4, <3>1
    <3> QED BY <2>1, <3>1, <3>2
  <2>5. CASE config.families = 2
    <3>1. LaneOf(b) = LaneOf(c) /\ b % 2 = c % 2
      BY <2>1, <2>2, <2>5
    <3> QED BY <2>1, <3>1
  <2> QED BY <1>0, <2>4, <2>5
<1>3. f \in Injection(Branches, 0 .. n - 1)
  BY <1>1, <1>2 DEF Injection, IsInjective
<1>4. IsFiniteSet(0 .. n - 1) /\ Cardinality(0 .. n - 1) = n
  <2>1. n # 0
    BY <1>0
  <2> HIDE DEF n
  <2>2. \A k \in Nat : k # 0 => k - 1 \in Int /\ ~(0 > k - 1) /\ (k - 1) - 0 + 1 = k
    OBVIOUS
  <2> QED BY <1>0, <2>1, <2>2, FS_Interval
<1>5. IsFiniteSet(Branches) /\ Cardinality(Branches) <= n
  <2> HIDE DEF f
  <2> QED BY <1>3, <1>4, FS_Injection
<1>6. Cardinality(Branches) \in Nat
  BY <1>5, FS_CardinalityType
<1>7. Cardinality(Ids) > n /\ Cardinality(Ids) \in Nat
  BY ConfigFacts, FS_CardinalityType DEF Ids
<1> HIDE DEF n
<1> QED BY <1>0, <1>5, <1>6, <1>7

LEMMA BranchSets ==
  ASSUME config \in Configs, NEW S \in SUBSET Branches
  PROVE  IsFiniteSet(S) /\ Cardinality(S) \in Nat
<1>1. IsFiniteSet(S)
  BY BranchesAreFew, FS_Subset
<1> QED BY <1>1, FS_CardinalityType

(* Counting without and with one branch.                                   *)
LEMMA CountOne ==
  ASSUME config \in Configs, NEW S \in SUBSET Branches, NEW b \in Branches
  PROVE  /\ b \in S => Cardinality(S) = Cardinality(S \ {b}) + 1
         /\ b \notin S => Cardinality(S \cup {b}) = Cardinality(S) + 1
<1>1. IsFiniteSet(S) /\ Cardinality(S) \in Nat
  BY BranchSets
<1>2. b \in S => Cardinality(S \ {b}) = Cardinality(S) - 1
  BY <1>1, FS_RemoveElement
<1>3. b \notin S => Cardinality(S \cup {b}) = Cardinality(S) + 1
  BY <1>1, FS_AddElement
<1> QED BY <1>1, <1>2, <1>3
-----------------------------------------------------------------------------
(* The books, part by part: taking one branch out and putting it back.     *)

LEMMA LiveDetach ==
  ASSUME config \in Configs, NEW d, NEW d2, NEW b \in Branches,
         LiveOf(d, Branches, 0), d.row[b].st \in Active,
         \A c \in Branches \ {b} : d2.row[c] = d.row[c], d2.live = d.live
  PROVE  LiveOf(d2, Branches \ {b}, d.row[b].try.stream)
<1> SUFFICES ASSUME NEW s \in Servers
             PROVE  d2.live[s] = Cardinality(StreamingIn(d2, Branches \ {b}, s))
                                   + (IF d.row[b].try.stream = s THEN 1 ELSE 0)
  BY DEF LiveOf
<1> DEFINE A == StreamingIn(d, Branches, s)
           B == StreamingIn(d2, Branches \ {b}, s)
<1>1. A \subseteq Branches /\ B = A \ {b} /\ (b \in A <=> d.row[b].try.stream = s)
  BY DEF StreamingIn
<1>2. d.live[s] = Cardinality(A) + 0 /\ Cardinality(A) \in Nat /\ Cardinality(B) \in Nat
  <2>1. s # 0
    BY ConfigFacts DEF Servers
  <2>2. A \in SUBSET Branches /\ B \in SUBSET Branches
    BY <1>1
  <2> HIDE DEF B
  <2> QED BY <1>1, <2>1, <2>2, BranchSets DEF LiveOf
<1> HIDE DEF A, B
<1>3. CASE d.row[b].try.stream = s
  <2>1. Cardinality(A) = Cardinality(B) + 1
    BY <1>1, <1>3, CountOne
  <2> QED BY <1>2, <1>3, <2>1 DEF B
<1>4. CASE d.row[b].try.stream # s
  <2>1. A = B
    BY <1>1, <1>4
  <2> QED BY <1>2, <1>4, <2>1 DEF B
<1> QED BY <1>3, <1>4

LEMMA LiveAttach ==
  ASSUME config \in Configs, NEW d, NEW d2, NEW b \in Branches, NEW x,
         LiveOf(d, Branches \ {b}, x), d2.row[b].st \in Active, d2.row[b].try.stream = x,
         \A c \in Branches \ {b} : d2.row[c] = d.row[c], d2.live = d.live
  PROVE  LiveOf(d2, Branches, 0)
<1> SUFFICES ASSUME NEW s \in Servers
             PROVE  d2.live[s] = Cardinality(StreamingIn(d2, Branches, s))
                                   + (IF 0 = s THEN 1 ELSE 0)
  BY DEF LiveOf
<1> DEFINE A == StreamingIn(d2, Branches, s)
           B == StreamingIn(d, Branches \ {b}, s)
<1>1. A \subseteq Branches /\ B = A \ {b} /\ (b \in A <=> x = s)
  BY DEF StreamingIn
<1>2. /\ d.live[s] = Cardinality(B) + (IF x = s THEN 1 ELSE 0)
      /\ Cardinality(A) \in Nat /\ Cardinality(B) \in Nat
  <2>1. A \in SUBSET Branches /\ B \in SUBSET Branches
    BY <1>1
  <2> QED BY <2>1, BranchSets DEF LiveOf
<1>3. s # 0
  BY ConfigFacts DEF Servers
<1> HIDE DEF A, B
<1>4. CASE x = s
  <2>1. Cardinality(A) = Cardinality(B) + 1
    BY <1>1, <1>4, CountOne
  <2> QED BY <1>2, <1>3, <1>4, <2>1 DEF A
<1>5. CASE x # s
  <2>1. A = B
    BY <1>1, <1>5
  <2> QED BY <1>2, <1>3, <1>5, <2>1 DEF A
<1> QED BY <1>4, <1>5

(* A branch that is final counts nowhere.                                  *)
LEMMA LiveIdle ==
  ASSUME config \in Configs, NEW d, NEW d2, NEW b \in Branches,
         \A c \in Branches \ {b} : d2.row[c] = d.row[c], d2.live = d.live
  PROVE  /\ LiveOf(d, Branches \ {b}, 0) /\ d2.row[b].st = "final" => LiveOf(d2, Branches, 0)
         /\ LiveOf(d, Branches, 0) /\ d.row[b].st = "final" => LiveOf(d2, Branches \ {b}, 0)
<1>1. d2.row[b].st = "final" =>
        \A s \in Servers : StreamingIn(d2, Branches, s) = StreamingIn(d, Branches \ {b}, s)
  BY DEF StreamingIn, Active
<1>2. d.row[b].st = "final" =>
        \A s \in Servers : StreamingIn(d2, Branches \ {b}, s) = StreamingIn(d, Branches, s)
  BY DEF StreamingIn, Active
<1> QED BY <1>1, <1>2 DEF LiveOf

(* The stream an attempt in hand counts on is given up, taken, moved.      *)
LEMMA LiveMove ==
  ASSUME config \in Configs, NEW d, NEW d2, NEW S \in SUBSET Branches,
         NEW x \in Servers \cup {0}, NEW y \in Servers \cup {0},
         LiveOf(d, S, x), d.live \in [Servers -> Int], d2.row = d.row,
         \A s \in Servers : d2.live[s] = d.live[s] - (IF x = s THEN 1 ELSE 0)
                                                   + (IF y = s THEN 1 ELSE 0)
  PROVE  LiveOf(d2, S, y)
<1> SUFFICES ASSUME NEW s \in Servers
             PROVE  d2.live[s] = Cardinality(StreamingIn(d2, S, s)) + (IF y = s THEN 1 ELSE 0)
  BY DEF LiveOf
<1> DEFINE A == StreamingIn(d, S, s)
<1>1. StreamingIn(d2, S, s) = A /\ A \in SUBSET Branches
  BY DEF StreamingIn
<1>2. Cardinality(A) \in Nat /\ d.live[s] = Cardinality(A) + (IF x = s THEN 1 ELSE 0)
  BY <1>1, BranchSets DEF LiveOf
<1> HIDE DEF A
<1>3. \A n \in Nat, v, i, j \in Int : v = n + i => v - i + j = n + j
  OBVIOUS
<1>4. d.live[s] \in Int
  OBVIOUS
<1> QED BY <1>1, <1>2, <1>3, <1>4

(* Queues.                                                                 *)
LEMMA QueueDetach ==
  ASSUME config \in Configs, NEW d, NEW d2, NEW b \in Branches,
         QueuesOf(d, Branches), \A c \in Branches \ {b} : d2.row[c] = d.row[c],
         \/ d.row[b].st # "pending" /\ d2.pending = d.pending
         \/ d2.pending = d.pending \ {<<d.row[b].try.stream, b>>}
  PROVE  QueuesOf(d2, Branches \ {b})
<1> SUFFICES ASSUME NEW p \in Servers \cup {0}, NEW c \in Branches
             PROVE  <<p, c>> \in d2.pending <=> /\ c \in Branches \ {b} /\ d2.row[c].st = "pending"
                                                /\ d2.row[c].try.stream = p
  BY DEF QueuesOf
<1>1. <<p, c>> \in d.pending <=> d.row[c].st = "pending" /\ d.row[c].try.stream = p
  BY DEF QueuesOf
<1>2. CASE c = b
  <2>1. CASE d.row[b].st # "pending" /\ d2.pending = d.pending
    BY <1>1, <1>2, <2>1
  <2>2. CASE d2.pending = d.pending \ {<<d.row[b].try.stream, b>>}
    BY <1>1, <1>2, <2>2
  <2> QED BY <2>1, <2>2
<1>3. CASE c # b
  <2>1. <<p, c>> \in d2.pending <=> <<p, c>> \in d.pending
    BY <1>3
  <2> QED BY <1>1, <1>3, <2>1
<1> QED BY <1>2, <1>3

LEMMA QueueAttach ==
  ASSUME config \in Configs, NEW d, NEW d2, NEW b \in Branches,
         QueuesOf(d, Branches \ {b}), \A c \in Branches \ {b} : d2.row[c] = d.row[c],
         \/ d2.row[b].st # "pending" /\ d2.pending = d.pending
         \/ /\ d2.row[b].st = "pending"
            /\ d2.pending = d.pending \cup {<<d2.row[b].try.stream, b>>}
  PROVE  QueuesOf(d2, Branches)
<1> SUFFICES ASSUME NEW p \in Servers \cup {0}, NEW c \in Branches
             PROVE  <<p, c>> \in d2.pending <=> /\ c \in Branches /\ d2.row[c].st = "pending"
                                                /\ d2.row[c].try.stream = p
  BY DEF QueuesOf
<1>1. <<p, c>> \in d.pending <=> /\ c \in Branches \ {b} /\ d.row[c].st = "pending"
                                 /\ d.row[c].try.stream = p
  BY DEF QueuesOf
<1>2. CASE c = b
  <2>1. <<p, c>> \notin d.pending
    BY <1>1, <1>2
  <2> QED BY <1>2, <2>1
<1>3. CASE c # b
  <2>1. <<p, c>> \in d2.pending <=> <<p, c>> \in d.pending
    BY <1>3
  <2> QED BY <1>1, <1>3, <2>1
<1> QED BY <1>2, <1>3

(* Identities.                                                             *)
LEMMA IdsIdle ==
  ASSUME config \in Configs, NEW d, NEW d2, NEW b \in Branches,
         \A c \in Branches \ {b} : d2.row[c] = d.row[c], d2.ids = d.ids
  PROVE  /\ IdsOf(d, Branches \ {b}) /\ d2.row[b].st # "waiting" => IdsOf(d2, Branches)
         /\ IdsOf(d, Branches) /\ d.row[b].st # "waiting" => IdsOf(d2, Branches \ {b})
<1> DEFINE S == Branches \ {b}
<1>1. ASSUME IdsOf(d, S), d2.row[b].st # "waiting" PROVE IdsOf(d2, Branches)
  <2>1. /\ LeasedIn(d2, Branches, "udp") = LeasedIn(d, S, "udp")
        /\ LeasedIn(d2, Branches, "tcp") = LeasedIn(d, S, "tcp")
        /\ b \notin LeasedIn(d, S, "udp") /\ b \notin LeasedIn(d, S, "tcp")
    BY <1>1 DEF LeasedIn
  <2>2. \A c \in Branches : c # b => d2.row[c].lease = d.row[c].lease
    OBVIOUS
  <2> HIDE DEF S
  <2> QED BY <1>1, <2>1, <2>2 DEF IdsOf
<1>2. ASSUME IdsOf(d, Branches), d.row[b].st # "waiting" PROVE IdsOf(d2, S)
  <2>1. /\ LeasedIn(d2, S, "udp") = LeasedIn(d, Branches, "udp")
        /\ LeasedIn(d2, S, "tcp") = LeasedIn(d, Branches, "tcp")
        /\ b \notin LeasedIn(d2, S, "udp") /\ b \notin LeasedIn(d2, S, "tcp")
    BY <1>2 DEF LeasedIn
  <2>2. \A c \in Branches : c # b => d2.row[c].lease = d.row[c].lease
    OBVIOUS
  <2> HIDE DEF S
  <2> QED BY <1>2, <2>1, <2>2 DEF IdsOf
<1> QED BY <1>1, <1>2
-----------------------------------------------------------------------------
(* Branches leave the books and come back to them.                         *)

(* The rows keep their meaning while the table's counters grow.            *)
LEMMA RowsKept ==
  ASSUME NEW d, NEW d2, NEW e, NEW S, RowsOK(d, S, e), \A c \in S : d2.row[c] = d.row[c],
         d.ids.epoch \in Nat, d.ids.gen \in Nat, d2.ids.epoch \in Nat, d2.ids.gen \in Nat,
         d.ids.epoch <= d2.ids.epoch, d.ids.gen <= d2.ids.gen
  PROVE  RowsOK(d2, S, e)
<1> SUFFICES ASSUME NEW c \in S
             PROVE  RowOK(d2.row[c], c, e) /\ UdpOK(d2.row[c], d2.ids, e) /\ TcpOK(d2.row[c], c, e)
  BY DEF RowsOK
<1>1. RowOK(d2.row[c], c, e) /\ UdpOK(d2.row[c], d.ids, e) /\ TcpOK(d2.row[c], c, e)
  BY DEF RowsOK
<1>2. UdpOK(d2.row[c], d2.ids, e)
  <2> SUFFICES ASSUME d2.row[c].st = "waiting", d2.row[c].lease.kind = "udp"
               PROVE  /\ d2.row[c].lease.epoch <= d2.ids.epoch
                      /\ d2.row[c].lease.gen <= d2.ids.gen
    BY <1>1 DEF UdpOK
  <2>1. d2.row[c].lease.epoch \in Nat /\ d2.row[c].lease.gen \in Nat
    BY <1>1 DEF RowOK
  <2>2. d2.row[c].lease.epoch <= d.ids.epoch /\ d2.row[c].lease.gen <= d.ids.gen
    BY <1>1 DEF UdpOK
  <2> QED BY <2>1, <2>2
<1> QED BY <1>1, <1>2

LEMMA TableFacts ==
  ASSUME config \in Configs, NEW t, TableShape(t)
  PROVE  /\ t = [free |-> t.free, front |-> t.front, epoch |-> t.epoch, udp |-> t.udp,
                 tcp |-> t.tcp, streams |-> t.streams, gen |-> t.gen, retired |-> t.retired,
                 cached |-> t.cached]
         /\ t.free \in [0 .. 1 -> SUBSET Ids] /\ t.front \in 0 .. 1
         /\ t.epoch \in Nat /\ t.epoch <= config.epochMax
         /\ t.udp \in [Ids -> Branches \cup {None}] /\ t.tcp \in [StreamIds -> Branches \cup {None}]
         /\ t.streams \in Int /\ t.gen \in Nat /\ t.gen <= config.epochMax
         /\ t.retired \in Nat /\ t.retired <= config.epochMax
         /\ t.cached \in [Servers -> 0 .. config.epochMax]
  BY ConfigFacts DEF TableShape

LEMMA TableBack ==
  ASSUME config \in Configs, NEW t,
         t = [free |-> t.free, front |-> t.front, epoch |-> t.epoch, udp |-> t.udp,
              tcp |-> t.tcp, streams |-> t.streams, gen |-> t.gen, retired |-> t.retired,
              cached |-> t.cached],
         t.free \in [0 .. 1 -> SUBSET Ids], t.front \in 0 .. 1,
         t.epoch \in 0 .. config.epochMax, t.udp \in [Ids -> Branches \cup {None}],
         t.tcp \in [StreamIds -> Branches \cup {None}], t.streams \in Int,
         t.gen \in 0 .. config.epochMax, t.retired \in 0 .. config.epochMax,
         t.cached \in [Servers -> 0 .. config.epochMax]
  PROVE  TableShape(t)
  BY DEF TableShape

(* Release of the lease of a waiting branch.                               *)
LEMMA ReleaseUdp ==
  ASSUME config \in Configs, NEW t, TableShape(t), PlanesOf(t), NEW lease,
         lease.kind = "udp", lease.id \in Ids, t.udp[lease.id] # None
  PROVE  LET u == Release(t, lease)
             back == IF lease.epoch = t.epoch THEN 1 - t.front ELSE t.front
         IN  /\ TableShape(u) /\ PlanesOf(u)
             /\ u.udp = [t.udp EXCEPT ![lease.id] = None]
             /\ u.free = [t.free EXCEPT ![back] = t.free[back] \cup {lease.id}]
             /\ u.tcp = t.tcp /\ u.streams = t.streams /\ u.front = t.front
             /\ u.epoch = t.epoch /\ u.gen = t.gen /\ u.retired = t.retired
             /\ u.cached = t.cached
<1> DEFINE u == Release(t, lease)
           back == IF lease.epoch = t.epoch THEN 1 - t.front ELSE t.front
           i == lease.id
<1>1. /\ t = [free |-> t.free, front |-> t.front, epoch |-> t.epoch, udp |-> t.udp,
              tcp |-> t.tcp, streams |-> t.streams, gen |-> t.gen, retired |-> t.retired,
              cached |-> t.cached]
      /\ t.free \in [0 .. 1 -> SUBSET Ids] /\ t.front \in 0 .. 1
      /\ t.udp \in [Ids -> Branches \cup {None}]
  BY TableFacts
<1>2. u = [free |-> [t.free EXCEPT ![back] = t.free[back] \cup {i}], front |-> t.front,
           epoch |-> t.epoch, udp |-> [t.udp EXCEPT ![i] = None],
           tcp |-> t.tcp, streams |-> t.streams, gen |-> t.gen, retired |-> t.retired,
           cached |-> t.cached]
  BY <1>1 DEF Release
<1>3. back \in 0 .. 1
  BY <1>1
<1> HIDE DEF u, back
<1>4. /\ u.udp = [t.udp EXCEPT ![i] = None]
      /\ u.free = [t.free EXCEPT ![back] = t.free[back] \cup {i}]
      /\ u.tcp = t.tcp /\ u.streams = t.streams /\ u.front = t.front
      /\ u.epoch = t.epoch /\ u.gen = t.gen /\ u.retired = t.retired /\ u.cached = t.cached
  BY <1>2
<1>5. u.free \in [0 .. 1 -> SUBSET Ids] /\ u.udp \in [Ids -> Branches \cup {None}]
  BY <1>1, <1>3, <1>4
<1>6. TableShape(u)
  <2>1. t.epoch \in 0 .. config.epochMax /\ t.gen \in 0 .. config.epochMax
        /\ t.retired \in 0 .. config.epochMax /\ t.streams \in Int
        /\ t.tcp \in [StreamIds -> Branches \cup {None}]
        /\ t.cached \in [Servers -> 0 .. config.epochMax]
    BY DEF TableShape
  <2>2. u = [free |-> u.free, front |-> u.front, epoch |-> u.epoch, udp |-> u.udp,
             tcp |-> u.tcp, streams |-> u.streams, gen |-> u.gen, retired |-> u.retired,
             cached |-> u.cached]
    BY <1>2, <1>4
  <2> QED BY <1>1, <1>4, <1>5, <2>1, <2>2, TableBack
<1>7. PlanesOf(u)
  <2>1. i \notin t.free[0] /\ i \notin t.free[1] /\ t.free[0] \cap t.free[1] = {}
    BY DEF PlanesOf
  <2>2. u.free[back] = t.free[back] \cup {i} /\ u.free[1 - back] = t.free[1 - back]
    BY <1>1, <1>3, <1>4
  <2>3. back = 0 \/ back = 1
    BY <1>3
  <2>4. u.free[0] \cap u.free[1] = {} /\ u.free[0] \cup u.free[1] = t.free[0] \cup t.free[1] \cup {i}
    BY <2>1, <2>2, <2>3
  <2>5. ASSUME NEW j \in Ids PROVE u.udp[j] = None <=> j \in u.free[0] \cup u.free[1]
    <3>1. CASE j = i
      BY <1>1, <1>4, <2>4, <3>1
    <3>2. CASE j # i
      <4>1. u.udp[j] = t.udp[j]
        BY <1>1, <1>4, <3>2
      <4> QED BY <2>4, <3>2, <4>1 DEF PlanesOf
    <3> QED BY <3>1, <3>2
  <2> QED BY <2>4, <2>5 DEF PlanesOf
<1> QED BY <1>4, <1>6, <1>7 DEF u, back

LEMMA ReleaseTcp ==
  ASSUME config \in Configs, NEW t, TableShape(t), PlanesOf(t), NEW lease,
         lease.kind = "tcp", lease.id \in StreamIds, t.tcp[lease.id] # None
  PROVE  LET u == Release(t, lease)
         IN  /\ TableShape(u) /\ PlanesOf(u)
             /\ u.tcp = [t.tcp EXCEPT ![lease.id] = None] /\ u.streams = t.streams - 1
             /\ u.free = t.free /\ u.udp = t.udp /\ u.front = t.front
             /\ u.epoch = t.epoch /\ u.gen = t.gen /\ u.retired = t.retired
             /\ u.cached = t.cached
<1> DEFINE u == Release(t, lease)
<1>1. /\ t = [free |-> t.free, front |-> t.front, epoch |-> t.epoch, udp |-> t.udp,
              tcp |-> t.tcp, streams |-> t.streams, gen |-> t.gen, retired |-> t.retired,
              cached |-> t.cached]
      /\ t.tcp \in [StreamIds -> Branches \cup {None}] /\ t.streams \in Int
  BY TableFacts
<1>2. u = [free |-> t.free, front |-> t.front,
           epoch |-> t.epoch, udp |-> t.udp, tcp |-> [t.tcp EXCEPT ![lease.id] = None],
           streams |-> t.streams - 1, gen |-> t.gen, retired |-> t.retired,
           cached |-> t.cached]
  BY <1>1 DEF Release, ClearTcp
<1> HIDE DEF u
<1>3. /\ u.tcp = [t.tcp EXCEPT ![lease.id] = None] /\ u.streams = t.streams - 1
      /\ u.free = t.free /\ u.udp = t.udp /\ u.front = t.front
      /\ u.epoch = t.epoch /\ u.gen = t.gen /\ u.retired = t.retired /\ u.cached = t.cached
  BY <1>2
<1>4. u.tcp \in [StreamIds -> Branches \cup {None}] /\ u.streams \in Int
  BY <1>1, <1>3
<1>5. TableShape(u)
  <2>1. t.epoch \in 0 .. config.epochMax /\ t.gen \in 0 .. config.epochMax
        /\ t.retired \in 0 .. config.epochMax /\ t.free \in [0 .. 1 -> SUBSET Ids]
        /\ t.front \in 0 .. 1 /\ t.udp \in [Ids -> Branches \cup {None}]
        /\ t.cached \in [Servers -> 0 .. config.epochMax]
    BY DEF TableShape
  <2>2. u = [free |-> u.free, front |-> u.front, epoch |-> u.epoch, udp |-> u.udp,
             tcp |-> u.tcp, streams |-> u.streams, gen |-> u.gen, retired |-> u.retired,
             cached |-> u.cached]
    BY <1>2, <1>3
  <2> QED BY <1>3, <1>4, <2>1, <2>2, TableBack
<1>6. PlanesOf(u)
  BY <1>3 DEF PlanesOf
<1> QED BY <1>3, <1>5, <1>6 DEF u

(* The rows with another one for b.                                        *)
LEMMA RowUpdate ==
  ASSUME NEW r, r = [c \in Branches |-> r[c]], NEW b \in Branches, NEW v
  PROVE  LET q == [r EXCEPT ![b] = v]
         IN  /\ q = [c \in Branches |-> q[c]] /\ q[b] = v
             /\ \A c \in Branches \ {b} : q[c] = r[c]
  OBVIOUS

(* The row of a branch that is out of the books does not matter.           *)
LEMMA RowElsewhere ==
  ASSUME config \in Configs, NEW d, NEW e, NEW b \in Branches, NEW x,
         Good(d, Branches \ {b}, x, e)
  PROVE  LET d2 == [d EXCEPT !.row[b] = Final]
         IN  /\ Good(d2, Branches \ {b}, x, e) /\ d2.row[b] = Final
             /\ \A c \in Branches \ {b} : d2.row[c] = d.row[c]
<1> DEFINE S == Branches \ {b}
           d2 == [d EXCEPT !.row[b] = Final]
           v == Final
<1>1. Shape(d)
  BY DEF Good
<1>2. d2 = [row |-> [d.row EXCEPT ![b] = v], pending |-> d.pending, live |-> d.live,
            ids |-> d.ids]
  BY <1>1 DEF Shape
<1> HIDE DEF d2
<1>3. /\ d2.row = [d.row EXCEPT ![b] = v] /\ d2.pending = d.pending
      /\ d2.live = d.live /\ d2.ids = d.ids
  BY <1>2
<1>4. d2.row = [c \in Branches |-> d2.row[c]] /\ d2.row[b] = v /\ \A c \in S : d2.row[c] = d.row[c]
  BY <1>1, <1>3, RowUpdate DEF Shape
<1>5. Shape(d2)
  BY <1>1, <1>2, <1>3, <1>4 DEF Shape
<1>6. QueuesOf(d2, S)
  <2>1. QueuesOf(d, S) /\ \A c \in Branches : c \in S => d2.row[c] = d.row[c]
    BY <1>4 DEF Good
  <2> SUFFICES ASSUME NEW p \in Servers \cup {0}, NEW c \in Branches
               PROVE  <<p, c>> \in d2.pending <=> /\ c \in S /\ d2.row[c].st = "pending"
                                                  /\ d2.row[c].try.stream = p
    BY DEF QueuesOf
  <2>2. <<p, c>> \in d.pending <=> /\ c \in S /\ d.row[c].st = "pending"
                                   /\ d.row[c].try.stream = p
    BY <2>1 DEF QueuesOf
  <2> QED BY <1>3, <2>1, <2>2
<1>7. LiveOf(d2, S, x)
  <2>1. \A s \in Servers : StreamingIn(d2, S, s) = StreamingIn(d, S, s)
    BY <1>4 DEF StreamingIn
  <2> HIDE DEF S
  <2> QED BY <1>3, <2>1 DEF Good, LiveOf, S
<1>8. IdsOf(d2, S)
  <2>1. /\ LeasedIn(d2, S, "udp") = LeasedIn(d, S, "udp")
        /\ LeasedIn(d2, S, "tcp") = LeasedIn(d, S, "tcp")
        /\ b \notin LeasedIn(d, S, "udp") /\ b \notin LeasedIn(d, S, "tcp")
    BY <1>4 DEF LeasedIn
  <2>2. \A c \in Branches : c # b => d2.row[c].lease = d.row[c].lease
    BY <1>4
  <2>3. IdsOf(d, S)
    BY DEF Good
  <2> HIDE DEF S
  <2> QED BY <1>3, <2>1, <2>2, <2>3 DEF IdsOf
<1>9. RowsOK(d2, S, e) /\ WireOK(d2.ids, e)
  BY <1>3, <1>4 DEF Good, RowsOK
<1> QED BY <1>3, <1>4, <1>5, <1>6, <1>7, <1>8, <1>9 DEF Good, d2

(* A final branch counts nowhere.                                          *)
LEMMA CloseFinal ==
  ASSUME config \in Configs, NEW d, NEW e, NEW b \in Branches,
         Good(d, Branches \ {b}, 0, e), d.row[b].st = "final"
  PROVE  Good(d, Branches, 0, e)
<1>1. Shape(d) /\ WireOK(d.ids, e)
  BY DEF Good
<1>2. QueuesOf(d, Branches)
  BY QueueAttach DEF Good
<1>3. LiveOf(d, Branches, 0)
  BY LiveIdle DEF Good
<1>4. IdsOf(d, Branches)
  BY IdsIdle DEF Good
<1>5. RowsOK(d, Branches, e)
  <2>1. RowOK(d.row[b], b, e) /\ UdpOK(d.row[b], d.ids, e) /\ TcpOK(d.row[b], b, e)
    BY DEF RowOK, UdpOK, TcpOK, Active
  <2> QED BY <2>1 DEF RowsOK, Good
<1> QED BY <1>1, <1>2, <1>3, <1>4, <1>5 DEF Good

LEMMA OpenFinal ==
  ASSUME config \in Configs, NEW d, NEW e, NEW b \in Branches,
         Good(d, Branches, 0, e), d.row[b].st = "final"
  PROVE  Good(d, Branches \ {b}, 0, e)
<1>1. Shape(d) /\ WireOK(d.ids, e)
  BY DEF Good
<1>2. QueuesOf(d, Branches \ {b})
  BY QueueDetach DEF Good
<1>3. LiveOf(d, Branches \ {b}, 0)
  BY LiveIdle DEF Good
<1>4. IdsOf(d, Branches \ {b})
  BY IdsIdle DEF Good
<1>5. RowsOK(d, Branches \ {b}, e)
  BY DEF RowsOK, Good
<1> QED BY <1>1, <1>2, <1>3, <1>4, <1>5 DEF Good

(* A pending branch is taken from its queue.                               *)
LEMMA DetachPending ==
  ASSUME config \in Configs, NEW d, NEW e, NEW b \in Branches,
         Good(d, Branches, 0, e), d.row[b].st = "pending"
  PROVE  LET a == d.row[b].try
             u == Unregister(d, b, a)
         IN  /\ Fits(a, b, e) /\ Good(u, Branches \ {b}, a.stream, e)
             /\ u.row = d.row /\ u.ids = d.ids /\ u.live = d.live
             /\ u.pending = d.pending \ {<<a.stream, b>>}
<1> DEFINE a == d.row[b].try
           u == Unregister(d, b, a)
           S == Branches \ {b}
<1>1. Shape(d) /\ RowOK(d.row[b], b, e)
  BY DEF Good, RowsOK
<1>2. Fits(a, b, e)
  BY <1>1 DEF RowOK, Active
<1>3. u = [row |-> d.row, pending |-> d.pending \ {<<a.stream, b>>}, live |-> d.live, ids |-> d.ids]
  BY <1>1 DEF Shape, Unregister
<1> HIDE DEF u
<1>4. /\ u.row = d.row /\ u.pending = d.pending \ {<<a.stream, b>>}
      /\ u.live = d.live /\ u.ids = d.ids
  BY <1>3
<1>5. Shape(u)
  BY <1>1, <1>3, <1>4 DEF Shape
<1>6. QueuesOf(u, S)
  BY <1>4, QueueDetach DEF Good
<1>7. LiveOf(u, S, a.stream)
  BY <1>4, LiveDetach DEF Good, Active
<1>8. IdsOf(u, S)
  BY <1>4, IdsIdle DEF Good
<1>9. RowsOK(u, S, e) /\ WireOK(u.ids, e)
  BY <1>4 DEF Good, RowsOK
<1> QED BY <1>2, <1>4, <1>5, <1>6, <1>7, <1>8, <1>9 DEF Good, u

(* A waiting branch gives its lease back.                                  *)
LEMMA DetachWaiting ==
  ASSUME config \in Configs, NEW d, NEW e, NEW b \in Branches,
         Good(d, Branches, 0, e), d.row[b].st = "waiting"
  PROVE  LET a == d.row[b].try
             u == Accept(d, b)
         IN  /\ Fits(a, b, e) /\ Good(u, Branches \ {b}, a.stream, e)
             /\ u.row[b] = Final /\ \A c \in Branches \ {b} : u.row[c] = d.row[c]
             /\ u.ids.gen = d.ids.gen /\ u.ids.retired = d.ids.retired
<1> DEFINE a == d.row[b].try
           u == Accept(d, b)
           S == Branches \ {b}
           t == d.ids
           lease == d.row[b].lease
<1>1. Shape(d) /\ TableShape(t) /\ PlanesOf(t) /\ WireOK(t, e)
  BY DEF Good, Shape, IdsOf
<1>2. RowOK(d.row[b], b, e) /\ UdpOK(d.row[b], t, e) /\ Fits(a, b, e)
  BY DEF Good, RowsOK, RowOK, Active
<1>3. u = [row |-> [d.row EXCEPT ![b] = Final], pending |-> d.pending, live |-> d.live,
           ids |-> Release(t, lease)]
  <2>1. d = [row |-> d.row, pending |-> d.pending, live |-> d.live, ids |-> d.ids]
    BY <1>1 DEF Shape
  <2>2. u = [[d EXCEPT !.ids = Release(t, lease)] EXCEPT !.row[b] = Final]
    BY DEF Accept
  <2> QED BY <2>1, <2>2
<1> HIDE DEF u
<1>4. /\ u.row = [d.row EXCEPT ![b] = Final] /\ u.pending = d.pending
      /\ u.live = d.live /\ u.ids = Release(t, lease)
  BY <1>3
<1>5. u.row = [c \in Branches |-> u.row[c]] /\ u.row[b] = Final /\ \A c \in S : u.row[c] = d.row[c]
  BY <1>1, <1>4, RowUpdate DEF Shape
<1>6. QueuesOf(u, S)
  BY <1>4, <1>5, QueueDetach DEF Good
<1>7. LiveOf(u, S, a.stream)
  BY <1>4, <1>5, LiveDetach DEF Good, Active
<1>8. /\ LeasedIn(u, S, "udp") = LeasedIn(d, Branches, "udp") \ {b}
      /\ LeasedIn(u, S, "tcp") = LeasedIn(d, Branches, "tcp") \ {b}
  BY <1>5 DEF LeasedIn
<1>9. \A c \in Branches : c # b => u.row[c].lease = d.row[c].lease
  BY <1>5
<1>10. IdsOf(d, Branches)
  BY DEF Good
<1>11. b \in LeasedIn(d, Branches, lease.kind)
  BY DEF LeasedIn
<1>12. /\ TableShape(u.ids) /\ IdsOf(u, S) /\ WireOK(u.ids, e)
       /\ u.ids.gen = t.gen /\ u.ids.retired = t.retired /\ u.ids.epoch = t.epoch
  <2>1. CASE lease.kind = "udp"
    <3>1. lease.id \in Ids /\ lease.epoch \in Nat
      BY <1>2, <2>1 DEF RowOK
    <3>2. t.udp[lease.id] = b /\ b # None
      BY <1>10, <1>11, <2>1, <3>1, BranchFacts DEF IdsOf
    <3> DEFINE v == u.ids
               back == IF lease.epoch = t.epoch THEN 1 - t.front ELSE t.front
    <3>3. /\ TableShape(v) /\ PlanesOf(v)
          /\ v.udp = [t.udp EXCEPT ![lease.id] = None]
          /\ v.free = [t.free EXCEPT ![back] = t.free[back] \cup {lease.id}]
          /\ v.tcp = t.tcp /\ v.streams = t.streams /\ v.front = t.front
          /\ v.epoch = t.epoch /\ v.gen = t.gen /\ v.retired = t.retired
          /\ v.cached = t.cached
      BY <1>1, <1>4, <2>1, <3>1, <3>2, ReleaseUdp
    <3> HIDE DEF v
    <3>4. t.udp \in [Ids -> Branches \cup {None}] /\ t.free \in [0 .. 1 -> SUBSET Ids]
          /\ t.front \in 0 .. 1 /\ t.epoch \in Nat
      BY <1>1, TableFacts
    <3>5. ASSUME NEW i \in Ids, NEW c \in Branches
          PROVE  v.udp[i] = c <=> c \in LeasedIn(u, S, "udp") /\ u.row[c].lease.id = i
      <4>1. t.udp[i] = c <=> c \in LeasedIn(d, Branches, "udp") /\ d.row[c].lease.id = i
        BY <1>10 DEF IdsOf
      <4>2. t.udp[i] = b => i = lease.id
        BY <1>10 DEF IdsOf
      <4>3. c # None
        BY BranchFacts
      <4>4. CASE c = b
        BY <1>8, <3>2, <3>3, <3>4, <4>2, <4>4
      <4>5. CASE c # b
        <5>1. v.udp[i] = c <=> t.udp[i] = c
          BY <3>2, <3>3, <3>4, <4>3, <4>5
        <5> QED BY <1>8, <1>9, <4>1, <4>5, <5>1
      <4> QED BY <4>4, <4>5
    <3>6. LeasedIn(u, S, "tcp") = LeasedIn(d, Branches, "tcp")
      BY <1>8, <2>1 DEF LeasedIn
    <3>7. IdsOf(u, S)
      <4>1. b \notin LeasedIn(d, Branches, "tcp")
        BY <2>1 DEF LeasedIn
      <4>2. \A i \in StreamIds, c \in Branches :
              v.tcp[i] = c <=> c \in LeasedIn(u, S, "tcp") /\ u.row[c].lease.id = i
        BY <1>9, <1>10, <3>3, <3>6, <4>1 DEF IdsOf
      <4>3. v.streams = Cardinality(LeasedIn(u, S, "tcp"))
        BY <1>10, <3>3, <3>6 DEF IdsOf
      <4> QED BY <3>3, <3>5, <4>2, <4>3 DEF IdsOf, v
    <3>8. WireOK(v, e)
      <4>1. ASSUME NEW m \in e.wire, m.epoch = v.epoch PROVE m.id \notin v.free[v.front]
        <5>1. m.id \notin t.free[t.front]
          BY <1>1, <3>3, <4>1 DEF WireOK
        <5>2. CASE lease.epoch = t.epoch
          BY <3>3, <3>4, <5>1, <5>2
        <5>3. CASE lease.epoch # t.epoch
          <6>1. lease.epoch < t.epoch
            BY <1>2, <2>1, <3>1, <3>4, <5>3 DEF UdpOK
          <6>2. m.id # lease.id
            BY <1>2, <2>1, <3>1, <3>3, <3>4, <4>1, <6>1 DEF UdpOK
          <6>3. \/ v.free[v.front] = t.free[t.front]
                \/ v.free[v.front] = t.free[t.front] \cup {lease.id}
            <7> DEFINE f == t.free
                       k == t.front
                       i == lease.id
                       g == v.free
            <7>1. f \in [0 .. 1 -> SUBSET Ids] /\ k \in 0 .. 1 /\ back = k /\ v.front = k
                  /\ g = [f EXCEPT ![back] = f[back] \cup {i}]
              BY <3>3, <3>4, <5>3
            <7> HIDE DEF f, k, i, g, back
            <7>2. g[k] = f[k] \cup {i}
              BY <7>1
            <7> QED BY <7>1, <7>2 DEF f, k, i, g
          <6> QED BY <5>1, <6>2, <6>3
        <5> QED BY <5>2, <5>3
      <4> QED BY <1>1, <3>3, <4>1 DEF WireOK
    <3> QED BY <3>3, <3>7, <3>8 DEF v
  <2>2. CASE lease.kind = "tcp"
    <3>1. lease.id \in StreamIds
      BY <1>2, <2>2 DEF RowOK
    <3>2. t.tcp[lease.id] = b /\ b # None
      BY <1>10, <1>11, <2>2, <3>1, BranchFacts DEF IdsOf
    <3> DEFINE v == u.ids
    <3>3. /\ TableShape(v) /\ PlanesOf(v)
          /\ v.tcp = [t.tcp EXCEPT ![lease.id] = None] /\ v.streams = t.streams - 1
          /\ v.free = t.free /\ v.udp = t.udp /\ v.front = t.front
          /\ v.epoch = t.epoch /\ v.gen = t.gen /\ v.retired = t.retired
          /\ v.cached = t.cached
      BY <1>1, <1>4, <2>2, <3>1, <3>2, ReleaseTcp
    <3> HIDE DEF v
    <3>4. t.tcp \in [StreamIds -> Branches \cup {None}]
      BY <1>1, TableFacts
    <3>5. ASSUME NEW i \in StreamIds, NEW c \in Branches
          PROVE  v.tcp[i] = c <=> c \in LeasedIn(u, S, "tcp") /\ u.row[c].lease.id = i
      <4>1. t.tcp[i] = c <=> c \in LeasedIn(d, Branches, "tcp") /\ d.row[c].lease.id = i
        BY <1>10 DEF IdsOf
      <4>2. t.tcp[i] = b => i = lease.id
        BY <1>10 DEF IdsOf
      <4>3. c # None
        BY BranchFacts
      <4>4. CASE c = b
        BY <1>8, <3>2, <3>3, <3>4, <4>2, <4>4
      <4>5. CASE c # b
        <5>1. v.tcp[i] = c <=> t.tcp[i] = c
          BY <3>2, <3>3, <3>4, <4>3, <4>5
        <5> QED BY <1>8, <1>9, <4>1, <4>5, <5>1
      <4> QED BY <4>4, <4>5
    <3>6. LeasedIn(u, S, "udp") = LeasedIn(d, Branches, "udp") /\ b \notin LeasedIn(d, Branches, "udp")
      BY <1>8, <2>2 DEF LeasedIn
    <3>7. IdsOf(u, S)
      <4>1. \A i \in Ids, c \in Branches :
              v.udp[i] = c <=> c \in LeasedIn(u, S, "udp") /\ u.row[c].lease.id = i
        BY <1>9, <1>10, <3>3, <3>6 DEF IdsOf
      <4>2. v.streams = Cardinality(LeasedIn(u, S, "tcp"))
        <5> DEFINE A == LeasedIn(d, Branches, "tcp")
                   B == LeasedIn(u, S, "tcp")
        <5>1. A \in SUBSET Branches /\ B = A \ {b} /\ b \in A
          BY <1>8, <1>11, <2>2 DEF LeasedIn
        <5>2. Cardinality(B) \in Nat
          BY <5>1, BranchSets
        <5> HIDE DEF A, B
        <5>3. Cardinality(A) = Cardinality(B) + 1
          BY <5>1, CountOne
        <5>4. t.streams = Cardinality(A)
          BY <1>10 DEF IdsOf, A
        <5> QED BY <3>3, <5>2, <5>3, <5>4 DEF B
      <4> QED BY <3>3, <3>5, <4>1, <4>2 DEF IdsOf, v
    <3>8. WireOK(v, e)
      BY <1>1, <3>3 DEF WireOK
    <3> QED BY <3>3, <3>7, <3>8 DEF v
  <2> QED BY <1>2, <2>1, <2>2 DEF RowOK
<1>13. RowsOK(u, S, e)
  <2>1. RowsOK(d, S, e) /\ t.epoch \in Nat /\ t.gen \in Nat
    BY <1>1, TableFacts DEF Good, RowsOK
  <2> QED BY <1>5, <1>12, <2>1, RowsKept
<1>14. Shape(u)
  BY <1>1, <1>3, <1>4, <1>5, <1>12 DEF Shape
<1> QED BY <1>2, <1>4, <1>5, <1>6, <1>7, <1>12, <1>13, <1>14 DEF Good, u
-----------------------------------------------------------------------------
(* What becomes of an attempt in hand.                                     *)

InHand(d, b, a, e) == Good(d, Branches \ {b}, a.stream, e) /\ Fits(a, b, e)

(* Ledger d2 is d with branch b moved on: no longer waiting.               *)
Moved(d, d2, b) ==
    /\ d2.row[b].st # "waiting"
    /\ \A c \in Branches \ {b} : d2.row[c] = d.row[c]

LEMMA AttemptFacts ==
  ASSUME config \in Configs, NEW a \in Attempts
  PROVE  /\ a = [srv |-> a.srv, att |-> a.att, stream |-> a.stream, cookie |-> a.cookie,
                 hops |-> a.hops, dl |-> a.dl]
         /\ a.srv \in Servers /\ a.att \in Nat /\ a.stream \in Servers \cup {0}
         /\ a.cookie \in BOOLEAN /\ a.hops \in Nat /\ a.dl \in Nat
  BY DEF Attempts

LEMMA ServerFacts ==
  ASSUME config \in Configs
  PROVE  0 \notin Servers /\ 1 \in Servers /\ \A s \in Servers : NextServer(s) \in Servers
<1>1. config.servers \in Nat /\ config.servers > 0
  BY ConfigFacts
<1>2. ASSUME NEW s \in Servers PROVE NextServer(s) \in Servers
  <2>1. s \in Nat
    BY <1>1 DEF Servers
  <2>2. s % config.servers \in 0 .. config.servers - 1
    BY <1>1, <2>1
  <2> QED BY <1>1, <2>2 DEF Servers, NextServer
<1> QED BY <1>1, <1>2 DEF Servers

LEMMA LiveStep ==
  ASSUME config \in Configs, NEW d, NEW e, NEW S \in SUBSET Branches,
         NEW x \in Servers \cup {0}, NEW y \in Servers \cup {0}, Good(d, S, x, e),
         NEW L \in [Servers -> Int],
         \A s \in Servers : L[s] = d.live[s] - (IF x = s THEN 1 ELSE 0)
                                             + (IF y = s THEN 1 ELSE 0)
  PROVE  LET d2 == [d EXCEPT !.live = L]
         IN  Good(d2, S, y, e) /\ d2.row = d.row /\ d2.ids = d.ids
<1> DEFINE d2 == [d EXCEPT !.live = L]
<1>1. Shape(d)
  BY DEF Good
<1>2. d2 = [row |-> d.row, pending |-> d.pending, live |-> L, ids |-> d.ids]
  BY <1>1 DEF Shape
<1> HIDE DEF d2
<1>3. d2.row = d.row /\ d2.pending = d.pending /\ d2.live = L /\ d2.ids = d.ids
  BY <1>2
<1>4. Shape(d2)
  BY <1>1, <1>2, <1>3 DEF Shape
<1>5. QueuesOf(d2, S) /\ RowsOK(d2, S, e) /\ WireOK(d2.ids, e)
  BY <1>3 DEF Good, QueuesOf, RowsOK
<1>6. LiveOf(d2, S, y)
  <2>1. d.live \in [Servers -> Int] /\ LiveOf(d, S, x)
    BY <1>1 DEF Shape, Good
  <2> QED BY <1>3, <2>1, LiveMove
<1>7. IdsOf(d2, S)
  <2>1. IdsOf(d, S)
    BY DEF Good
  <2> QED BY <1>3, <2>1 DEF IdsOf, LeasedIn
<1> QED BY <1>3, <1>4, <1>5, <1>6, <1>7 DEF Good, d2

LEMMA LiveChanges ==
  ASSUME config \in Configs, NEW f \in [Servers -> Int]
  PROVE  /\ \A p \in Servers :
              /\ [f EXCEPT ![p] = @ - 1] \in [Servers -> Int]
              /\ [f EXCEPT ![p] = @ + 1] \in [Servers -> Int]
              /\ \A s \in Servers :
                   /\ [f EXCEPT ![p] = @ - 1][s] = f[s] - (IF p = s THEN 1 ELSE 0)
                                                        + (IF 0 = s THEN 1 ELSE 0)
                   /\ [f EXCEPT ![p] = @ + 1][s] = f[s] - (IF 0 = s THEN 1 ELSE 0)
                                                        + (IF p = s THEN 1 ELSE 0)
<1>1. \A s \in Servers : s # 0 /\ f[s] \in Int
  BY ServerFacts
<1> QED BY <1>1

LEMMA ReleaseGood ==
  ASSUME config \in Configs, NEW d, NEW e, NEW S \in SUBSET Branches, NEW a \in Attempts,
         Good(d, S, a.stream, e)
  PROVE  LET u == ReleaseLive(d, a)
         IN  Good(u, S, 0, e) /\ u.row = d.row /\ u.ids = d.ids
<1>1. a.stream \in Servers \cup {0}
  BY AttemptFacts
<1>2. CASE a.stream = 0
  BY <1>2 DEF ReleaseLive
<1>3. CASE a.stream # 0
  <2> DEFINE L == [d.live EXCEPT ![a.stream] = @ - 1]
  <2>1. a.stream \in Servers /\ d.live \in [Servers -> Int]
    BY <1>1, <1>3 DEF Good, Shape
  <2>2. ReleaseLive(d, a) = [d EXCEPT !.live = L]
    BY <1>3 DEF ReleaseLive
  <2>3. L \in [Servers -> Int] /\ \A s \in Servers :
          L[s] = d.live[s] - (IF a.stream = s THEN 1 ELSE 0) + (IF 0 = s THEN 1 ELSE 0)
    BY <2>1, LiveChanges
  <2> HIDE DEF L
  <2> QED BY <1>1, <2>2, <2>3, LiveStep
<1> QED BY <1>2, <1>3

LEMMA RaiseGood ==
  ASSUME config \in Configs, NEW d, NEW e, NEW S \in SUBSET Branches, NEW p \in Servers,
         Good(d, S, 0, e)
  PROVE  LET u == [d EXCEPT !.live[p] = @ + 1]
         IN  Good(u, S, p, e) /\ u.row = d.row /\ u.ids = d.ids
<1> DEFINE L == [d.live EXCEPT ![p] = @ + 1]
<1>1. d.live \in [Servers -> Int]
  BY DEF Good, Shape
<1>2. [d EXCEPT !.live[p] = @ + 1] = [d EXCEPT !.live = L]
  OBVIOUS
<1>3. L \in [Servers -> Int] /\ \A s \in Servers :
        L[s] = d.live[s] - (IF 0 = s THEN 1 ELSE 0) + (IF p = s THEN 1 ELSE 0)
  BY <1>1, LiveChanges
<1> HIDE DEF L
<1> QED BY <1>2, <1>3, LiveStep

LEMMA TransferGood ==
  ASSUME config \in Configs, NEW d, NEW e, NEW S \in SUBSET Branches, NEW a \in Attempts,
         NEW p \in Servers, Good(d, S, a.stream, e)
  PROVE  LET u == Transfer(d, a, p)
         IN  /\ Good(u, S, IF a.stream = 0 THEN 0 ELSE p, e)
             /\ u.row = d.row /\ u.ids = d.ids
<1>1. a.stream \in Servers \cup {0}
  BY AttemptFacts
<1>2. CASE a.stream = 0
  BY <1>2 DEF Transfer
<1>3. CASE a.stream # 0
  <2>1. LET v == ReleaseLive(d, a)
        IN  Good(v, S, 0, e) /\ v.row = d.row /\ v.ids = d.ids
    BY ReleaseGood
  <2> QED BY <1>3, <2>1, RaiseGood DEF Transfer
<1> QED BY <1>2, <1>3

LEMMA CacheGood ==
  ASSUME config \in Configs, NEW d, NEW e, NEW S \in SUBSET Branches, NEW x,
         NEW p \in Servers, NEW gen \in Nat, gen <= d.ids.gen, Good(d, S, x, e)
  PROVE  LET u == [d EXCEPT !.ids = Cache(@, p, gen)]
         IN  Good(u, S, x, e) /\ u.row = d.row
<1> DEFINE t == d.ids
           v == Cache(t, p, gen)
           u == [d EXCEPT !.ids = v]
<1>1. Shape(d) /\ TableShape(t) /\ WireOK(t, e) /\ IdsOf(d, S)
  BY DEF Good, Shape
<1>2. u = [row |-> d.row, pending |-> d.pending, live |-> d.live, ids |-> v]
  BY <1>1 DEF Shape
<1>3. /\ t = [free |-> t.free, front |-> t.front, epoch |-> t.epoch, udp |-> t.udp,
              tcp |-> t.tcp, streams |-> t.streams, gen |-> t.gen, retired |-> t.retired,
              cached |-> t.cached]
      /\ t.gen \in Nat /\ t.gen <= config.epochMax /\ t.retired \in Nat /\ t.epoch \in Nat
      /\ t.cached \in [Servers -> 0 .. config.epochMax]
  BY <1>1, TableFacts
<1>4. CASE ~Cacheable(t, gen)
  <2>1. v = t
    BY <1>4 DEF Cache
  <2>2. u = d
    BY <1>1, <1>2, <2>1 DEF Shape
  <2> QED BY <2>2
<1>5. CASE Cacheable(t, gen)
  <2>0. gen > t.retired
    BY <1>5 DEF Cacheable
  <2>1. v = [free |-> t.free, front |-> t.front, epoch |-> t.epoch, udp |-> t.udp,
             tcp |-> t.tcp, streams |-> t.streams, gen |-> t.gen, retired |-> t.retired,
             cached |-> [t.cached EXCEPT ![p] = gen]]
    BY <1>3, <1>5 DEF Cache
  <2> HIDE DEF v
  <2>2. /\ v.free = t.free /\ v.front = t.front /\ v.epoch = t.epoch /\ v.udp = t.udp
        /\ v.tcp = t.tcp /\ v.streams = t.streams /\ v.gen = t.gen /\ v.retired = t.retired
        /\ v.cached = [t.cached EXCEPT ![p] = gen]
    BY <2>1
  <2>3. gen \in 0 .. config.epochMax
    BY <1>3, ConfigFacts
  <2>4. v.cached \in [Servers -> 0 .. config.epochMax]
    BY <1>3, <2>2, <2>3
  <2>5. TableShape(v)
    <3>1. t.epoch \in 0 .. config.epochMax /\ t.gen \in 0 .. config.epochMax
          /\ t.retired \in 0 .. config.epochMax /\ t.free \in [0 .. 1 -> SUBSET Ids]
          /\ t.front \in 0 .. 1 /\ t.udp \in [Ids -> Branches \cup {None}]
          /\ t.tcp \in [StreamIds -> Branches \cup {None}] /\ t.streams \in Int
      BY <1>1 DEF TableShape
    <3>2. v = [free |-> v.free, front |-> v.front, epoch |-> v.epoch, udp |-> v.udp,
               tcp |-> v.tcp, streams |-> v.streams, gen |-> v.gen, retired |-> v.retired,
               cached |-> v.cached]
      BY <2>1, <2>2
    <3> QED BY <2>2, <2>4, <3>1, <3>2, TableBack
  <2>6. WireOK(v, e)
    <3>1. ASSUME NEW s \in Servers, v.cached[s] # 0
          PROVE  v.retired < v.cached[s] /\ v.cached[s] <= v.gen
      <4>1. CASE s = p
        BY <1>3, <2>0, <2>2, <4>1
      <4>2. CASE s # p
        BY <1>1, <1>3, <2>2, <3>1, <4>2 DEF WireOK
      <4> QED BY <4>1, <4>2
    <3> QED BY <1>1, <2>2, <3>1 DEF WireOK
  <2> HIDE DEF u
  <2>7. u.row = d.row /\ u.pending = d.pending /\ u.live = d.live /\ u.ids = v
    BY <1>2
  <2>8. Shape(u)
    BY <1>1, <1>2, <2>5, <2>7 DEF Shape
  <2>9. QueuesOf(u, S) /\ LiveOf(u, S, x)
    BY <2>7 DEF Good, QueuesOf, LiveOf, StreamingIn
  <2>10. IdsOf(u, S)
    BY <1>1, <2>2, <2>7 DEF IdsOf, LeasedIn, PlanesOf
  <2>11. RowsOK(u, S, e)
    <3>1. RowsOK(d, S, e)
      BY DEF Good
    <3> QED BY <1>3, <2>2, <2>7, <3>1, RowsKept
  <2> QED BY <2>6, <2>7, <2>8, <2>9, <2>10, <2>11 DEF Good, u, v
<1> QED BY <1>4, <1>5

(* A branch is queued.                                                     *)
LEMMA AttachPending ==
  ASSUME config \in Configs, NEW d, NEW e, NEW b \in Branches, NEW a, InHand(d, b, a, e)
  PROVE  LET u == SetPending(d, b, a)
         IN  /\ Good(u, Branches, 0, e) /\ u.row[b] = [st |-> "pending", try |-> a]
             /\ \A c \in Branches \ {b} : u.row[c] = d.row[c]
<1> DEFINE u == SetPending(d, b, a)
           r == [st |-> "pending", try |-> a]
           S == Branches \ {b}
<1>1. Shape(d) /\ Good(d, S, a.stream, e) /\ Fits(a, b, e) /\ a \in Attempts
  BY DEF InHand, Good, Fits
<1>2. u = [row |-> [d.row EXCEPT ![b] = r], pending |-> d.pending \cup {<<a.stream, b>>},
           live |-> d.live, ids |-> d.ids]
  <2>1. d = [row |-> d.row, pending |-> d.pending, live |-> d.live, ids |-> d.ids]
    BY <1>1 DEF Shape
  <2>2. u = [[d EXCEPT !.row[b] = r] EXCEPT !.pending = @ \cup {<<a.stream, b>>}]
    BY DEF SetPending
  <2> HIDE DEF u, r
  <2> QED BY <2>1, <2>2
<1> HIDE DEF u
<1>3. /\ u.row = [d.row EXCEPT ![b] = r] /\ u.pending = d.pending \cup {<<a.stream, b>>}
      /\ u.live = d.live /\ u.ids = d.ids
  BY <1>2
<1>4. u.row = [c \in Branches |-> u.row[c]] /\ u.row[b] = r /\ \A c \in S : u.row[c] = d.row[c]
  <2>1. d.row = [c \in Branches |-> d.row[c]]
    BY <1>1 DEF Shape
  <2> HIDE DEF r
  <2> QED BY <1>3, <2>1, RowUpdate
<1>5. u.row[b].st = "pending" /\ u.row[b].try = a
  BY <1>4
<1> HIDE DEF r
<1>6. Shape(u)
  <2>1. a.stream \in Servers \cup {0}
    BY <1>1, AttemptFacts
  <2> QED BY <1>1, <1>2, <1>3, <1>4, <2>1 DEF Shape
<1>7. QueuesOf(u, Branches)
  <2>1. QueuesOf(d, S)
    BY <1>1 DEF Good
  <2> QED BY <1>3, <1>4, <1>5, <2>1, QueueAttach
<1>8. LiveOf(u, Branches, 0)
  <2>1. LiveOf(d, S, a.stream)
    BY <1>1 DEF Good
  <2> QED BY <1>3, <1>4, <1>5, <2>1, LiveAttach DEF Active
<1>9. IdsOf(u, Branches)
  <2>1. IdsOf(d, S)
    BY <1>1 DEF Good
  <2> QED BY <1>3, <1>4, <1>5, <2>1, IdsIdle
<1>10. RowsOK(u, Branches, e)
  <2>1. RowOK(u.row[b], b, e) /\ UdpOK(u.row[b], u.ids, e) /\ TcpOK(u.row[b], b, e)
    BY <1>1, <1>5 DEF RowOK, UdpOK, TcpOK, Active
  <2> QED BY <1>1, <1>3, <1>4, <2>1 DEF RowsOK, Good
<1>11. WireOK(u.ids, e)
  BY <1>1, <1>3 DEF Good
<1> QED BY <1>4, <1>6, <1>7, <1>8, <1>9, <1>10, <1>11 DEF Good, u, r

LEMMA FinalGood ==
  ASSUME config \in Configs, NEW d, NEW e, NEW b \in Branches, Good(d, Branches \ {b}, 0, e)
  PROVE  LET u == [d EXCEPT !.row[b] = Final]
         IN  /\ Good(u, Branches, 0, e) /\ u.row[b] = Final
             /\ \A c \in Branches \ {b} : u.row[c] = d.row[c]
<1> DEFINE u == [d EXCEPT !.row[b] = Final]
<1> HIDE DEF u
<1>1. /\ Good(u, Branches \ {b}, 0, e) /\ u.row[b] = Final
      /\ \A c \in Branches \ {b} : u.row[c] = d.row[c]
  BY RowElsewhere DEF u
<1>2. u.row[b].st = "final"
  BY <1>1 DEF Final
<1> QED BY <1>1, <1>2, CloseFinal DEF u

LEMMA FinishGood ==
  ASSUME config \in Configs, NEW d, NEW e, NEW b \in Branches, NEW a, InHand(d, b, a, e)
  PROVE  LET u == Finish(d, b, a)
         IN  Good(u, Branches, 0, e) /\ u.row[b] = Final /\ Moved(d, u, b)
<1> DEFINE v == ReleaseLive(d, a)
           u == [v EXCEPT !.row[b] = Final]
<1>0. Branches \ {b} \in SUBSET Branches
  OBVIOUS
<1>1. Good(v, Branches \ {b}, 0, e) /\ v.row = d.row
  BY <1>0, ReleaseGood DEF InHand, Fits
<1> HIDE DEF v
<1> HIDE DEF u
<1>2. /\ Good(u, Branches \ {b}, 0, e) /\ u.row[b] = Final
      /\ \A c \in Branches \ {b} : u.row[c] = v.row[c]
  BY <1>1, RowElsewhere DEF u
<1>3. u.row[b].st = "final"
  BY <1>2 DEF Final
<1>4. Good(u, Branches, 0, e)
  BY <1>2, <1>3, CloseFinal
<1> QED BY <1>1, <1>2, <1>3, <1>4 DEF Finish, Moved, u, v

LEMMA ToStreamGood ==
  ASSUME config \in Configs, NEW d, NEW e, NEW b \in Branches, NEW a, InHand(d, b, a, e)
  PROVE  LET u == ToStream(d, b, a) IN Good(u, Branches, 0, e) /\ Moved(d, u, b)
<1>1. CASE a.stream # 0
  BY <1>1, FinishGood DEF ToStream
<1>2. CASE a.stream = 0
  <2> DEFINE v == [d EXCEPT !.live[a.srv] = @ + 1]
             n == [a EXCEPT !.stream = a.srv]
  <2>1. a \in Attempts /\ Branches \ {b} \in SUBSET Branches
    BY DEF InHand, Fits
  <2>2. a = [srv |-> a.srv, att |-> a.att, stream |-> a.stream, cookie |-> a.cookie,
             hops |-> a.hops, dl |-> a.dl] /\ a.srv \in Servers
    BY <2>1, AttemptFacts
  <2>3. n = [srv |-> a.srv, att |-> a.att, stream |-> a.srv, cookie |-> a.cookie,
             hops |-> a.hops, dl |-> a.dl]
    BY <2>2
  <2>4. n \in Attempts /\ n.stream = a.srv /\ n.dl = a.dl
    BY <2>1, <2>2, <2>3 DEF Attempts
  <2>5. Good(v, Branches \ {b}, a.srv, e) /\ v.row = d.row
    BY <1>2, <2>1, <2>2, RaiseGood DEF InHand
  <2> HIDE DEF v, n
  <2>6. InHand(v, b, n, e)
    BY <2>4, <2>5 DEF InHand, Fits
  <2> DEFINE u == SetPending(v, b, n)
  <2>7. /\ Good(u, Branches, 0, e) /\ u.row[b] = [st |-> "pending", try |-> n]
        /\ \A c \in Branches \ {b} : u.row[c] = v.row[c]
    BY <2>6, AttachPending, SMTT(40)
  <2>8. ToStream(d, b, a) = u
    BY <1>2 DEF ToStream, v, n
  <2> HIDE DEF u
  <2>9. Moved(d, u, b)
    BY <2>5, <2>7 DEF Moved
  <2> QED BY <2>7, <2>8, <2>9
<1> QED BY <1>1, <1>2

LEMMA DeadlineFacts ==
  ASSUME config \in Configs, now \in Nat, NEW hard \in Nat
  PROVE  Deadline(hard) \in Nat /\ Deadline(hard) <= hard
<1>1. config.timeout \in Nat
  BY ConfigFacts
<1> QED BY <1>1 DEF Deadline

LEMMA RetryGood ==
  ASSUME config \in Configs, now \in Nat, NEW d, NEW e, NEW b \in Branches, NEW a,
         NEW terminal, InHand(d, b, a, e)
  PROVE  LET hard == e.slot[LaneOf(b)].hard
             u == Retry(d, b, a, hard, terminal)
         IN  Good(u, Branches, 0, e) /\ Moved(d, u, b)
<1> DEFINE hard == e.slot[LaneOf(b)].hard
           over == terminal \/ hard <= now \/ a.att + 1 >= config.attempts
<1>1. CASE over
  BY <1>1, FinishGood DEF Retry
<1>2. CASE ~over
  <2> DEFINE s == NextServer(a.srv)
             v == Transfer(d, a, s)
             n == [a EXCEPT !.att = @ + 1, !.cookie = FALSE, !.srv = s,
                            !.stream = IF @ = 0 THEN 0 ELSE s, !.dl = Deadline(hard)]
  <2>1. a \in Attempts /\ hard \in Nat /\ Branches \ {b} \in SUBSET Branches
    BY DEF InHand, Fits
  <2>2. /\ a = [srv |-> a.srv, att |-> a.att, stream |-> a.stream, cookie |-> a.cookie,
                hops |-> a.hops, dl |-> a.dl]
        /\ a.srv \in Servers /\ a.att \in Nat /\ a.hops \in Nat
    BY <2>1, AttemptFacts
  <2>3. s \in Servers
    BY <2>2, ServerFacts
  <2> HIDE DEF s
  <2>5. n.stream = (IF a.stream = 0 THEN 0 ELSE s) /\ n.dl = Deadline(hard)
    BY <2>1 DEF Attempts
  <2>6. Deadline(hard) \in Nat /\ Deadline(hard) <= hard
    BY <2>1, DeadlineFacts
  <2>7. n \in Attempts
    <3>1. a.att + 1 \in Nat /\ (IF a.stream = 0 THEN 0 ELSE s) \in Servers \cup {0}
      BY <2>2, <2>3
    <3> QED BY <2>1, <2>3, <2>6, <3>1 DEF Attempts
  <2> HIDE DEF n
  <2>8. Good(v, Branches \ {b}, n.stream, e) /\ v.row = d.row
    BY <2>1, <2>3, <2>5, TransferGood DEF InHand
  <2> HIDE DEF v
  <2>9. InHand(v, b, n, e)
    BY <2>5, <2>6, <2>7, <2>8 DEF InHand, Fits
  <2> DEFINE u == SetPending(v, b, n)
  <2>10. /\ Good(u, Branches, 0, e) /\ u.row[b] = [st |-> "pending", try |-> n]
         /\ \A c \in Branches \ {b} : u.row[c] = v.row[c]
    BY <2>9, AttachPending
  <2>11. Retry(d, b, a, hard, terminal) = u
    BY <1>2 DEF Retry, s, v, n
  <2> HIDE DEF u
  <2>12. Moved(d, u, b)
    BY <2>8, <2>10 DEF Moved
  <2> QED BY <2>10, <2>11, <2>12
<1> QED BY <1>1, <1>2

LEMMA ApplyGood ==
  ASSUME config \in Configs, now \in Nat, NEW d, NEW e, NEW b \in Branches, NEW a,
         NEW reply \in Replies, InHand(d, b, a, e)
  PROVE  LET u == Apply(d, b, a, e.slot[LaneOf(b)].hard, reply)
         IN  Good(u, Branches, 0, e) /\ Moved(d, u, b)
<1> DEFINE hard == e.slot[LaneOf(b)].hard
<1>1. CASE reply = "Final"
  BY <1>1, FinishGood DEF Apply
<1>2. CASE reply = "Refused"
  BY <1>2, RetryGood DEF Apply
<1>3. CASE reply = "Truncated"
  BY <1>3, ToStreamGood DEF Apply
<1>4. CASE reply = "Alias"
  <2>1. CASE a.hops + 1 > config.maxHops
    BY <1>4, <2>1, FinishGood DEF Apply
  <2>2. CASE ~(a.hops + 1 > config.maxHops)
    <3> DEFINE n == [a EXCEPT !.hops = @ + 1, !.att = 0, !.cookie = FALSE, !.dl = Deadline(hard)]
    <3>1. a \in Attempts /\ hard \in Nat
      BY DEF InHand, Fits
    <3>2. /\ a = [srv |-> a.srv, att |-> a.att, stream |-> a.stream, cookie |-> a.cookie,
                  hops |-> a.hops, dl |-> a.dl]
          /\ a.srv \in Servers /\ a.stream \in Servers \cup {0} /\ a.hops \in Nat
      BY <3>1, AttemptFacts
    <3>4. Deadline(hard) \in Nat /\ Deadline(hard) <= hard
      BY <3>1, DeadlineFacts
    <3>5. n \in Attempts /\ n.stream = a.stream /\ n.dl = Deadline(hard)
      <4>1. a.hops + 1 \in Nat
        BY <3>2
      <4> QED BY <3>1, <3>4, <4>1 DEF Attempts
    <3> HIDE DEF n
    <3>6. InHand(d, b, n, e)
      BY <3>4, <3>5 DEF InHand, Fits
    <3> DEFINE u == SetPending(d, b, n)
    <3>7. /\ Good(u, Branches, 0, e) /\ u.row[b] = [st |-> "pending", try |-> n]
          /\ \A c \in Branches \ {b} : u.row[c] = d.row[c]
      BY <3>6, AttachPending
    <3>8. Apply(d, b, a, hard, reply) = u
      BY <1>4, <2>2 DEF Apply, n
    <3> HIDE DEF u
    <3>9. Moved(d, u, b)
      BY <3>7 DEF Moved
    <3> QED BY <3>7, <3>8, <3>9
  <2> QED BY <2>1, <2>2
<1> QED BY <1>1, <1>2, <1>3, <1>4 DEF Replies

LEMMA RetryCookieGood ==
  ASSUME config \in Configs, NEW d, NEW e, NEW b \in Branches, NEW a, InHand(d, b, a, e)
  PROVE  LET u == RetryCookie(d, b, a) IN Good(u, Branches, 0, e) /\ Moved(d, u, b)
<1>1. CASE a.cookie
  BY <1>1, ToStreamGood DEF RetryCookie
<1>2. CASE ~a.cookie
  <2> DEFINE n == [a EXCEPT !.cookie = TRUE]
  <2>1. a \in Attempts
    BY DEF InHand, Fits
  <2>3. n \in Attempts /\ n.stream = a.stream /\ n.dl = a.dl
    BY <2>1 DEF Attempts
  <2> HIDE DEF n
  <2>4. InHand(d, b, n, e)
    BY <2>3 DEF InHand, Fits
  <2> DEFINE u == SetPending(d, b, n)
  <2>5. /\ Good(u, Branches, 0, e) /\ u.row[b] = [st |-> "pending", try |-> n]
        /\ \A c \in Branches \ {b} : u.row[c] = d.row[c]
    BY <2>4, AttachPending
  <2>6. RetryCookie(d, b, a) = u
    BY <1>2 DEF RetryCookie, n
  <2> HIDE DEF u
  <2>7. Moved(d, u, b)
    BY <2>5 DEF Moved
  <2> QED BY <2>5, <2>6, <2>7
<1> QED BY <1>1, <1>2

(* Registry::retire.                                                       *)
LEMMA RetireGood ==
  ASSUME config \in Configs, NEW d, NEW e, NEW b \in Branches, Good(d, Branches, 0, e)
  PROVE  LET u == RetireRow(d, b)
         IN  Good(u, Branches, 0, e) /\ u.row[b] = Final /\ Moved(d, u, b)
<1> DEFINE a == d.row[b].try
<1>0. Branches \ {b} \in SUBSET Branches /\ d.row[b].st \in {"pending", "waiting", "final"}
  BY DEF Good, RowsOK, RowOK, Active
<1>1. CASE d.row[b].st = "pending"
  <2> DEFINE v == Unregister(d, b, a)
             w == [v EXCEPT !.row[b] = Final]
             u == ReleaseLive(w, a)
  <2>1. Fits(a, b, e) /\ Good(v, Branches \ {b}, a.stream, e) /\ v.row = d.row
    BY <1>1, DetachPending
  <2>2. v = [row |-> d.row, pending |-> d.pending \ {<<a.stream, b>>}, live |-> d.live, ids |-> d.ids]
    <3>1. d = [row |-> d.row, pending |-> d.pending, live |-> d.live, ids |-> d.ids]
      BY DEF Good, Shape
    <3>2. v = [d EXCEPT !.pending = d.pending \ {<<a.stream, b>>}]
      BY DEF Unregister
    <3> DEFINE s == d.pending \ {<<a.stream, b>>}
    <3> HIDE DEF v, s
    <3>3. v = [row |-> d.row, pending |-> s, live |-> d.live, ids |-> d.ids]
      BY <3>1, <3>2 DEF s
    <3> QED BY <3>3 DEF s
  <2>3. Unregister([d EXCEPT !.row[b] = Final], b, a) = w
    <3>1. d = [row |-> d.row, pending |-> d.pending, live |-> d.live, ids |-> d.ids]
      BY DEF Good, Shape
    <3> QED BY <2>2, <3>1 DEF Unregister
  <2> HIDE DEF v
  <2> HIDE DEF w
  <2>4. /\ Good(w, Branches \ {b}, a.stream, e) /\ w.row[b] = Final
        /\ \A c \in Branches \ {b} : w.row[c] = v.row[c]
    BY <2>1, RowElsewhere DEF w
  <2>5. Good(u, Branches \ {b}, 0, e) /\ u.row = w.row
    BY <1>0, <2>1, <2>4, ReleaseGood DEF Fits
  <2>6. RetireRow(d, b) = u
    BY <1>1, <2>3 DEF RetireRow
  <2> HIDE DEF u
  <2>7. u.row[b].st = "final"
    BY <2>4, <2>5 DEF Final
  <2> QED BY <2>1, <2>4, <2>5, <2>6, <2>7, CloseFinal DEF Moved
<1>2. CASE d.row[b].st = "waiting"
  <2> DEFINE v == Accept(d, b)
             u == ReleaseLive(v, a)
  <2>1. /\ Fits(a, b, e) /\ Good(v, Branches \ {b}, a.stream, e) /\ v.row[b] = Final
        /\ \A c \in Branches \ {b} : v.row[c] = d.row[c]
    BY <1>2, DetachWaiting
  <2> HIDE DEF v
  <2>2. Good(u, Branches \ {b}, 0, e) /\ u.row = v.row
    BY <1>0, <2>1, ReleaseGood DEF Fits
  <2>3. RetireRow(d, b) = u
    BY <1>2 DEF RetireRow, v
  <2> HIDE DEF u
  <2>4. u.row[b].st = "final"
    BY <2>1, <2>2 DEF Final
  <2> QED BY <2>1, <2>2, <2>3, <2>4, CloseFinal DEF Moved
<1>3. CASE d.row[b].st = "final"
  <2> DEFINE u == [d EXCEPT !.row[b] = Final]
  <2>1. /\ Good(u, Branches, 0, e) /\ u.row[b] = Final
        /\ \A c \in Branches \ {b} : u.row[c] = d.row[c]
    <3>1. Good(d, Branches \ {b}, 0, e)
      BY <1>3, OpenFinal
    <3> QED BY <3>1, FinalGood
  <2>2. RetireRow(d, b) = u
    BY <1>3 DEF RetireRow
  <2> HIDE DEF u
  <2>3. u.row[b].st = "final"
    BY <2>1 DEF Final
  <2> QED BY <2>1, <2>2, <2>3 DEF Moved
<1> QED BY <1>0, <1>1, <1>2, <1>3
-----------------------------------------------------------------------------
(* Whole lanes, and the state around the ledger.                           *)

LEMMA FailStreamGood ==
  ASSUME config \in Configs, NEW d, NEW e, NEW b \in Branches, Good(d, Branches, 0, e)
  PROVE  LET u == FailStream(d, b)
         IN  Good(u, Branches, 0, e) /\ \A c \in Branches \ {b} : u.row[c] = d.row[c]
  BY RetireGood DEF FailStream, Moved

Late(hard) == hard <= now

LEMMA ExpireGood ==
  ASSUME config \in Configs, now \in Nat, NEW d, NEW e, NEW b \in Branches,
         Good(d, Branches, 0, e)
  PROVE  LET hard == e.slot[LaneOf(b)].hard
             u == Expire(d, b, hard)
         IN  /\ Good(u, Branches, 0, e) /\ \A c \in Branches \ {b} : u.row[c] = d.row[c]
             /\ Late(hard) => u.row[b].st = "final"
<1> DEFINE r == d.row[b]
           hard == e.slot[LaneOf(b)].hard
           u == Expire(d, b, hard)
<1>0. r.st \in {"pending", "waiting", "final"}
  BY DEF Good, RowsOK, RowOK, Active
<1>1. CASE r.st = "final"
  BY <1>1 DEF Expire, Active
<1>2. CASE r.st # "final"
  <2>1. Fits(r.try, b, e)
    BY <1>0, <1>2 DEF Good, RowsOK, RowOK, Active
  <2>2. hard \in Nat /\ r.try.dl \in Nat /\ r.try.dl <= hard
    BY <2>1, AttemptFacts DEF Fits
  <2>3. CASE r.try.dl > now
    <3>1. u = d
      BY <2>3 DEF Expire
    <3>2. ~Late(hard)
      BY <2>2, <2>3 DEF Late
    <3> QED BY <3>1, <3>2
  <2>4. CASE ~(r.try.dl > now) /\ r.st = "waiting"
    <3> DEFINE v == Accept(d, b)
    <3>1. InHand(v, b, r.try, e) /\ \A c \in Branches \ {b} : v.row[c] = d.row[c]
      BY <2>1, <2>4, DetachWaiting DEF InHand
    <3>2. u = Retry(v, b, r.try, hard, FALSE)
      BY <1>2, <2>4 DEF Expire, Active
    <3> HIDE DEF v, u
    <3>3. Good(u, Branches, 0, e) /\ Moved(v, u, b)
      BY <3>1, <3>2, RetryGood
    <3>4. Late(hard) => u = Finish(v, b, r.try)
      BY <3>2 DEF Retry, Late
    <3>5. Late(hard) => u.row[b].st = "final"
      BY <3>1, <3>4, FinishGood DEF Final
    <3>6. \A c \in Branches \ {b} : u.row[c] = d.row[c]
      BY <3>1, <3>3 DEF Moved
    <3> QED BY <3>3, <3>5, <3>6 DEF u
  <2>5. CASE ~(r.try.dl > now) /\ r.st = "pending"
    <3> DEFINE v == Unregister(d, b, r.try)
    <3>1. InHand(v, b, r.try, e) /\ \A c \in Branches \ {b} : v.row[c] = d.row[c]
      BY <2>1, <2>5, DetachPending DEF InHand
    <3>2. u = Retry(v, b, r.try, hard, FALSE)
      BY <1>2, <2>5 DEF Expire, Active
    <3> HIDE DEF v, u
    <3>3. Good(u, Branches, 0, e) /\ Moved(v, u, b)
      BY <3>1, <3>2, RetryGood
    <3>4. Late(hard) => u = Finish(v, b, r.try)
      BY <3>2 DEF Retry, Late
    <3>5. Late(hard) => u.row[b].st = "final"
      BY <3>1, <3>4, FinishGood DEF Final
    <3>6. \A c \in Branches \ {b} : u.row[c] = d.row[c]
      BY <3>1, <3>3 DEF Moved
    <3> QED BY <3>3, <3>5, <3>6 DEF u
  <2> QED BY <1>0, <1>2, <2>3, <2>4, <2>5
<1> QED BY <1>1, <1>2

(* The branches of a lane, one by one.                                     *)
LEMMA LaneBranches ==
  ASSUME config \in Configs, NEW l \in Lanes
  PROVE  /\ 0 \in Families /\ 2 * l \in Branches /\ LaneOf(2 * l) = l
         /\ 1 \in Families => /\ 2 * l + 1 \in Branches /\ LaneOf(2 * l + 1) = l
                              /\ 2 * l + 1 # 2 * l /\ Row(l) = {2 * l, 2 * l + 1}
         /\ 1 \notin Families => Row(l) = {2 * l}
         /\ Row(l) \subseteq Branches
<1>1. l \in Nat
  BY ConfigFacts DEF Lanes
<1>2. 2 * l + 1 # 2 * l
  BY <1>1
<1>3. 2 * l \in Row(l) /\ (1 \in Families => 2 * l + 1 \in Row(l))
  BY RowFacts
<1> QED BY <1>2, <1>3, RowFacts

LEMMA RetireRowsGood ==
  ASSUME config \in Configs, NEW d, NEW e, NEW l \in Lanes, Good(d, Branches, 0, e)
  PROVE  LET u == RetireRows(d, l)
         IN  Good(u, Branches, 0, e) /\ Over(u, l) /\ \A b \in Row(l) : u.row[b] = Final
<1> DEFINE v == RetireRow(d, 2 * l)
           w == RetireRow(v, 2 * l + 1)
<1>1. Good(v, Branches, 0, e) /\ v.row[2 * l] = Final
  BY LaneBranches, RetireGood
<1> HIDE DEF v
<1>2. CASE 1 \in Families
  <2>0. 2 * l + 1 \in Branches /\ 2 * l \in Branches \ {2 * l + 1}
    BY <1>2, LaneBranches
  <2>1. Good(w, Branches, 0, e) /\ w.row[2 * l + 1] = Final /\ w.row[2 * l] = v.row[2 * l]
    BY <1>1, <2>0, RetireGood DEF Moved
  <2>2. RetireRows(d, l) = w
    BY <1>2, LaneBranches DEF RetireRows, OnRows, v
  <2> HIDE DEF w
  <2>3. \A b \in Row(l) : w.row[b] = Final
    BY <1>1, <1>2, <2>1, LaneBranches
  <2> QED BY <2>1, <2>2, <2>3 DEF Over, Final
<1>3. CASE 1 \notin Families
  <2>1. RetireRows(d, l) = v
    BY <1>3, LaneBranches DEF RetireRows, OnRows, v
  <2>2. \A b \in Row(l) : v.row[b] = Final
    BY <1>1, <1>3, LaneBranches
  <2> QED BY <1>1, <2>1, <2>2 DEF Over, Final
<1> QED BY <1>2, <1>3

LEMMA PolledGood ==
  ASSUME config \in Configs, now \in Nat, NEW l \in Lanes, Good(led, Branches, 0, Env)
  PROVE  /\ Good(Polled(l), Branches, 0, Env)
         /\ Late(slot[l].hard) => Over(Polled(l), l)
<1> DEFINE hard == slot[l].hard
           d1 == FailStream(led, 2 * l)
           d2 == IF 1 \in Families THEN FailStream(d1, 2 * l + 1) ELSE d1
           d3 == Expire(d2, 2 * l, hard)
           d4 == Expire(d3, 2 * l + 1, hard)
<1>0. Env.slot = slot
  BY DEF Env
<1>1. Polled(l) = IF 1 \in Families THEN d4 ELSE d3
  BY LaneBranches DEF Polled, OnRows
<1>2. Good(d1, Branches, 0, Env)
  BY LaneBranches, FailStreamGood
<1> HIDE DEF d1
<1>3. Good(d2, Branches, 0, Env)
  BY <1>2, LaneBranches, FailStreamGood
<1> HIDE DEF d2
<1>4. Good(d3, Branches, 0, Env) /\ (Late(hard) => d3.row[2 * l].st = "final")
  <2>1. hard = Env.slot[LaneOf(2 * l)].hard /\ 2 * l \in Branches
    BY <1>0, LaneBranches
  <2> DEFINE h == Env.slot[LaneOf(2 * l)].hard
  <2>2. LET u == Expire(d2, 2 * l, h)
        IN  Good(u, Branches, 0, Env) /\ (Late(h) => u.row[2 * l].st = "final")
    BY <1>3, <2>1, ExpireGood
  <2> QED BY <2>1, <2>2
<1> HIDE DEF d3
<1>5. CASE 1 \in Families
  <2>1. /\ Good(d4, Branches, 0, Env) /\ d4.row[2 * l] = d3.row[2 * l]
        /\ Late(hard) => d4.row[2 * l + 1].st = "final"
    <3> DEFINE b == 2 * l + 1
               h == Env.slot[LaneOf(b)].hard
    <3>1. hard = h
      BY <1>0, <1>5, LaneBranches
    <3>2. 2 * l \in Branches \ {b} /\ b \in Branches
      BY <1>5, LaneBranches
    <3>3. LET u == Expire(d3, b, h)
          IN  /\ Good(u, Branches, 0, Env) /\ (Late(h) => u.row[b].st = "final")
              /\ \A c \in Branches \ {b} : u.row[c] = d3.row[c]
      <4> HIDE DEF b
      <4> QED BY <1>4, <3>2, ExpireGood
    <3> QED BY <3>1, <3>2, <3>3
  <2> HIDE DEF d4
  <2>2. Row(l) = {2 * l, 2 * l + 1}
    BY <1>5, LaneBranches
  <2> QED BY <1>1, <1>4, <1>5, <2>1, <2>2 DEF Over
<1>6. CASE 1 \notin Families
  <2>1. Row(l) = {2 * l}
    BY <1>6, LaneBranches
  <2> QED BY <1>1, <1>4, <1>6, <2>1 DEF Over
<1> QED BY <1>5, <1>6

LEMMA ReEnv ==
  ASSUME NEW d, NEW S, NEW x, NEW e, NEW e2, Good(d, S, x, e), RowsOK(d, S, e2), WireOK(d.ids, e2)
  PROVE  Good(d, S, x, e2)
  BY DEF Good

(* The slot and the holder of a lane without open branches may change.     *)
LEMMA LaneChanges ==
  ASSUME config \in Configs, NEW d, NEW e, NEW e2, NEW l \in Lanes, Good(d, Branches, 0, e),
         Over(d, l), e2.wire = e.wire, e2.link = e.link, e2.reqs = e.reqs,
         \A m \in Lanes \ {l} : e2.lanes[m] = e.lanes[m] /\ e2.slot[m] = e.slot[m]
  PROVE  Good(d, Branches, 0, e2)
<1>1. RowsOK(d, Branches, e2)
  <2> SUFFICES ASSUME NEW b \in Branches
               PROVE  RowOK(d.row[b], b, e2) /\ UdpOK(d.row[b], d.ids, e2) /\ TcpOK(d.row[b], b, e2)
    BY DEF RowsOK
  <2>1. RowOK(d.row[b], b, e) /\ UdpOK(d.row[b], d.ids, e) /\ TcpOK(d.row[b], b, e)
    BY DEF RowsOK, Good
  <2>2. UdpOK(d.row[b], d.ids, e2)
    BY <2>1 DEF UdpOK
  <2>3. CASE LaneOf(b) = l
    <3>1. d.row[b].st = "final"
      BY <2>3, RowFacts DEF Over
    <3> QED BY <2>2, <3>1 DEF RowOK, TcpOK, Active
  <2>4. CASE LaneOf(b) # l
    <3>1. e2.lanes[LaneOf(b)] = e.lanes[LaneOf(b)] /\ e2.slot[LaneOf(b)] = e.slot[LaneOf(b)]
      BY <2>4, BranchFacts
    <3> QED BY <2>1, <2>2, <3>1 DEF RowOK, TcpOK, Fits
  <2> QED BY <2>3, <2>4
<1>2. WireOK(d.ids, e2)
  BY DEF Good, WireOK
<1> QED BY <1>1, <1>2, ReEnv

LEMMA ConfigFrame ==
  ASSUME config' = config
  PROVE  /\ Branches' = Branches /\ Lanes' = Lanes /\ Ids' = Ids /\ StreamIds' = StreamIds
         /\ Servers' = Servers /\ Families' = Families /\ Messages' = Messages
  BY DEF Branches, Lanes, Ids, StreamIds, Servers, Families, Messages

(* What is shown of the next ledger as a value is true of the next state.  *)
LEMMA GoodNext ==
  ASSUME config' = config, Good(led', Branches, 0, Env')
  PROVE  (Good(led, Branches, 0, Env))'
<1>1. /\ Branches' = Branches /\ Ids' = Ids /\ StreamIds' = StreamIds /\ Servers' = Servers
  BY ConfigFrame
<1>2. (Shape(led))'
  BY <1>1 DEF Good, Shape, TableShape
<1>3. (QueuesOf(led, Branches))'
  BY <1>1 DEF Good, QueuesOf
<1>4. (LiveOf(led, Branches, 0))'
  BY <1>1 DEF Good, LiveOf, StreamingIn
<1>5. (IdsOf(led, Branches))'
  BY <1>1 DEF Good, IdsOf, LeasedIn, PlanesOf
<1>6. (RowsOK(led, Branches, Env))'
  BY <1>1 DEF Good, RowsOK, RowOK, UdpOK, TcpOK, Fits, Attempts, Used, LaneOf
<1>7. (WireOK(led.ids, Env))'
  BY <1>1 DEF Good, WireOK
<1> QED BY <1>2, <1>3, <1>4, <1>5, <1>6, <1>7 DEF Good
-----------------------------------------------------------------------------
(* The steps: lookups.                                                     *)

SlotInv ==
    /\ slot = [l \in Lanes |-> slot[l]]
    /\ \A l \in Lanes : slot[l].st \in {"idle", "query", "complete"}

LEMMA NetKept ==
  ASSUME NetInv, LinkInv, now' \in 0 .. config.maxTime,
         lanes' \in [Lanes -> {"free", "held", "cancelled"}],
         SlotInv', sends' \subseteq sends, UNCHANGED <<config, wire, link, frames, asked, serial>>
  PROVE  NetInv' /\ LinkInv'
<1>1. /\ Lanes' = Lanes /\ Ids' = Ids /\ StreamIds' = StreamIds /\ Servers' = Servers
      /\ Messages' = Messages /\ config' = config
  BY ConfigFrame
<1>2. NetInv'
  BY <1>1 DEF NetInv, SlotInv
<1>3. LinkInv'
  BY <1>1 DEF LinkInv, Used
<1> QED BY <1>2, <1>3

LEMMA SlotSet ==
  ASSUME SlotInv, NEW l \in Lanes, slot'[l].st \in {"idle", "query", "complete"},
         slot' = [slot EXCEPT ![l] = slot'[l]], config' = config
  PROVE  SlotInv' /\ \A m \in Lanes \ {l} : slot'[m] = slot[m]
<1>1. Lanes' = Lanes
  BY ConfigFrame
<1>2. /\ slot' = [m \in Lanes |-> slot'[m]]
      /\ \A m \in Lanes \ {l} : slot'[m] = slot[m]
  BY DEF SlotInv
<1>3. \A m \in Lanes : slot'[m].st \in {"idle", "query", "complete"}
  BY <1>2 DEF SlotInv
<1> QED BY <1>1, <1>2, <1>3 DEF SlotInv

LEMMA VacateFacts ==
  ASSUME IInv, NEW l \in Lanes, Vacate(l)
  PROVE  slot'[l].st \in {"idle", "query", "complete"} /\ slot' = [slot EXCEPT ![l] = slot'[l]]
<1> DEFINE r == [st |-> "idle"]
<1>1. r.st = "idle"
  OBVIOUS
<1>2. slot' = [slot EXCEPT ![l] = r] /\ slot = [m \in Lanes |-> slot[m]]
  BY DEF IInv, NetInv, Vacate
<1> HIDE DEF r
<1>3. slot'[l] = r
  BY <1>2
<1> QED BY <1>1, <1>2, <1>3

LEMMA SlotSame ==
  ASSUME SlotInv, slot' = slot, config' = config
  PROVE  SlotInv'
  BY ConfigFrame DEF SlotInv

(* A ledger is committed and the slot of its lane completed.               *)
(* The state around the ledger after a step, but for the slots.            *)
MidEnv == [slot |-> slot, lanes |-> lanes', wire |-> wire', link |-> link',
           reqs |-> frames' \cup asked']

LEMMA SettleMid ==
  ASSUME IInv, NEW d, NEW l \in Lanes, Good(d, Branches, 0, MidEnv), Settle(d, l), config' = config
  PROVE  Good(led', Branches, 0, Env') /\ SlotInv'
<1>0. config \in Configs /\ SlotInv /\ led' = d
  BY DEF IInv, NetInv, SlotInv, Settle
<1>1. CASE slot' = slot
  <2>1. Env' = MidEnv
    BY <1>1 DEF Env, MidEnv
  <2> QED BY <1>0, <1>1, <2>1, SlotSame
<1>2. CASE slot' # slot
  <2>1. Over(d, l) /\ slot' = [slot EXCEPT ![l] = [st |-> "complete"]]
    BY <1>2 DEF Settle
  <2>2. SlotInv' /\ \A m \in Lanes \ {l} : slot'[m] = slot[m]
    <3> DEFINE r == [st |-> "complete"]
    <3>1. r.st = "complete" /\ slot' = [slot EXCEPT ![l] = r] /\ slot = [m \in Lanes |-> slot[m]]
      BY <1>0, <2>1 DEF SlotInv
    <3> HIDE DEF r
    <3>2. slot'[l] = r
      BY <3>1
    <3>3. slot'[l].st \in {"idle", "query", "complete"} /\ slot' = [slot EXCEPT ![l] = slot'[l]]
      BY <3>1, <3>2
    <3> QED BY <1>0, <3>3, SlotSet
  <2>3. /\ Env'.wire = MidEnv.wire /\ Env'.link = MidEnv.link /\ Env'.reqs = MidEnv.reqs
        /\ \A m \in Lanes \ {l} : /\ Env'.lanes[m] = MidEnv.lanes[m]
                                  /\ Env'.slot[m] = MidEnv.slot[m]
    BY <2>2 DEF Env, MidEnv
  <2>4. Good(d, Branches, 0, Env')
    BY <1>0, <2>1, <2>3, LaneChanges
  <2> QED BY <1>0, <2>2, <2>4
<1> QED BY <1>1, <1>2

LEMMA SettleStep ==
  ASSUME IInv, NEW d, NEW l \in Lanes, Good(d, Branches, 0, Env), Settle(d, l),
         UNCHANGED <<config, lanes, wire, link, frames, asked>>
  PROVE  Good(led', Branches, 0, Env') /\ SlotInv'
<1>1. MidEnv = Env
  BY DEF Env, MidEnv
<1> QED BY <1>1, SettleMid

LEMMA TickStep == ASSUME IInv, Tick, UNCHANGED config PROVE IInv'
<1>1. /\ NetInv /\ LinkInv /\ SlotInv /\ Good(led, Branches, 0, Env)
      /\ config \in Configs /\ now \in Nat /\ config.maxTime \in Nat
  BY ConfigFacts DEF IInv, NetInv, SlotInv
<1>2. now' \in 0 .. config.maxTime
  BY <1>1 DEF Tick
<1>3. UNCHANGED <<lanes, slot, led, sends, wire, link, frames, asked, serial>>
  BY DEF Tick, net
<1>4. SlotInv' /\ Env' = Env /\ lanes' \in [Lanes -> {"free", "held", "cancelled"}]
  BY <1>1, <1>3, SlotSame DEF Env, NetInv
<1>5. NetInv' /\ LinkInv'
  BY <1>1, <1>2, <1>3, <1>4, NetKept
<1> QED BY <1>1, <1>3, <1>4, <1>5, GoodNext DEF IInv

LEMMA ExhaustStep == ASSUME IInv, ExhaustTcp, UNCHANGED config PROVE IInv'
<1>1. NetInv /\ LinkInv /\ SlotInv /\ Good(led, Branches, 0, Env) /\ now \in 0 .. config.maxTime
  BY DEF IInv, NetInv, SlotInv
<1>2. UNCHANGED <<now, lanes, slot, led, sends, wire, link, frames, asked, serial>>
  BY DEF ExhaustTcp, net
<1>3. SlotInv' /\ Env' = Env /\ lanes' \in [Lanes -> {"free", "held", "cancelled"}]
  BY <1>1, <1>2, SlotSame DEF Env, NetInv
<1>4. NetInv' /\ LinkInv'
  BY <1>1, <1>2, <1>3, NetKept
<1> QED BY <1>1, <1>2, <1>3, <1>4, GoodNext DEF IInv

(* A lane without open branches changes hands.                             *)
LEMMA HandOver ==
  ASSUME IInv, NEW l \in Lanes, Good(led', Branches, 0, Env), Over(led', l),
         NEW h \in {"free", "held", "cancelled"}, lanes' = [lanes EXCEPT ![l] = h],
         slot'[l].st \in {"idle", "query", "complete"}, slot' = [slot EXCEPT ![l] = slot'[l]],
         UNCHANGED <<config, now, sends, wire, link, frames, asked, serial>>
  PROVE  IInv'
<1>1. /\ NetInv /\ LinkInv /\ SlotInv /\ config \in Configs /\ now \in 0 .. config.maxTime
      /\ lanes \in [Lanes -> {"free", "held", "cancelled"}]
  BY DEF IInv, NetInv, SlotInv
<1>2. SlotInv' /\ \A m \in Lanes \ {l} : slot'[m] = slot[m]
  BY <1>1, SlotSet
<1>3. /\ lanes' \in [Lanes -> {"free", "held", "cancelled"}]
      /\ \A m \in Lanes \ {l} : lanes'[m] = lanes[m]
  BY <1>1
<1>4. NetInv' /\ LinkInv'
  BY <1>1, <1>2, <1>3, NetKept
<1>5. /\ Env'.wire = Env.wire /\ Env'.link = Env.link /\ Env'.reqs = Env.reqs
      /\ \A m \in Lanes \ {l} : Env'.lanes[m] = Env.lanes[m] /\ Env'.slot[m] = Env.slot[m]
  BY <1>2, <1>3 DEF Env
<1>6. Good(led', Branches, 0, Env')
  BY <1>1, <1>5, LaneChanges
<1> QED BY <1>4, <1>6, GoodNext DEF IInv

(* A lane changes hands, with its branches as they are.                    *)
LEMMA LanesStep ==
  ASSUME IInv, NEW l \in Lanes, NEW h \in {"free", "held", "cancelled"},
         h = "cancelled" \/ lanes[l] # "cancelled", lanes' = [lanes EXCEPT ![l] = h],
         UNCHANGED <<config, now, slot, led, sends, wire, link, frames, asked, serial>>
  PROVE  IInv'
<1>1. /\ NetInv /\ LinkInv /\ SlotInv /\ config \in Configs /\ now \in 0 .. config.maxTime
      /\ lanes \in [Lanes -> {"free", "held", "cancelled"}] /\ Good(led, Branches, 0, Env)
  BY DEF IInv, NetInv, SlotInv
<1>2. /\ lanes' \in [Lanes -> {"free", "held", "cancelled"}]
      /\ \A m \in Lanes : lanes'[m] # "cancelled" => lanes[m] # "cancelled"
  BY <1>1
<1>3. SlotInv'
  BY <1>1, SlotSame
<1>4. NetInv' /\ LinkInv'
  BY <1>1, <1>2, <1>3, NetKept
<1>5. /\ Env'.wire = Env.wire /\ Env'.link = Env.link /\ Env'.reqs = Env.reqs
      /\ Env'.slot = Env.slot
      /\ \A m \in Lanes : Env'.lanes[m] # "cancelled" => Env.lanes[m] # "cancelled"
  BY <1>2 DEF Env
<1> DEFINE e2 == Env'
<1>6. e2.wire = Env.wire /\ e2.link = Env.link /\ e2.reqs = Env.reqs /\ e2.slot = Env.slot
      /\ \A m \in Lanes : e2.lanes[m] # "cancelled" => Env.lanes[m] # "cancelled"
  BY <1>5
<1> HIDE DEF e2
<1>7. RowsOK(led, Branches, e2)
  <2> SUFFICES ASSUME NEW b \in Branches
               PROVE  /\ RowOK(led.row[b], b, e2) /\ UdpOK(led.row[b], led.ids, e2)
                      /\ TcpOK(led.row[b], b, e2)
    BY DEF RowsOK
  <2>1. /\ RowOK(led.row[b], b, Env) /\ UdpOK(led.row[b], led.ids, Env)
        /\ TcpOK(led.row[b], b, Env) /\ LaneOf(b) \in Lanes
    BY <1>1, BranchFacts DEF RowsOK, Good
  <2> QED BY <1>6, <2>1 DEF RowOK, UdpOK, TcpOK, Fits
<1>8. WireOK(led.ids, e2)
  BY <1>1, <1>6 DEF Good, WireOK
<1>9. Good(led, Branches, 0, e2)
  BY <1>1, <1>7, <1>8, ReEnv
<1> QED BY <1>4, <1>9, GoodNext DEF IInv, e2

LEMMA ClaimStep == ASSUME IInv, NEW l \in Lanes, Claim(l), UNCHANGED config PROVE IInv'
<1>0. config \in Configs /\ Good(led, Branches, 0, Env)
  BY DEF IInv, NetInv
<1>1. CASE lanes[l] = "free" /\ UNCHANGED <<slot, led>>
  <2>1. /\ lanes' = [lanes EXCEPT ![l] = "held"]
        /\ UNCHANGED <<now, sends, wire, link, frames, asked, serial>>
    BY DEF Claim, net
  <2> QED BY <1>1, <2>1, LanesStep
<1>2. CASE led' = RetireRows(led, l) /\ Vacate(l)
  <2>1. /\ lanes' = [lanes EXCEPT ![l] = "held"] /\ slot' = [slot EXCEPT ![l] = [st |-> "idle"]]
        /\ UNCHANGED <<now, sends, wire, link, frames, asked, serial>>
    BY <1>2 DEF Claim, Vacate, net
  <2>2. Good(led', Branches, 0, Env) /\ Over(led', l)
    BY <1>0, <1>2, RetireRowsGood
  <2>3. slot'[l].st \in {"idle", "query", "complete"} /\ slot' = [slot EXCEPT ![l] = slot'[l]]
    BY <2>1, VacateFacts DEF Vacate
  <2> QED BY <2>1, <2>2, <2>3, HandOver
<1> QED BY <1>1, <1>2 DEF Claim

LEMMA CancelStep == ASSUME IInv, NEW l \in Lanes, Cancel(l), UNCHANGED config PROVE IInv'
<1>1. /\ lanes' = [lanes EXCEPT ![l] = "cancelled"]
      /\ UNCHANGED <<now, slot, led, sends, wire, link, frames, asked, serial>>
  BY DEF Cancel, net
<1> QED BY <1>1, LanesStep

LEMMA CleanupStep == ASSUME IInv, NEW l \in Lanes, Cleanup(l), UNCHANGED config PROVE IInv'
<1>0. config \in Configs /\ Good(led, Branches, 0, Env)
  BY DEF IInv, NetInv
<1>1. /\ lanes' = [lanes EXCEPT ![l] = "free"] /\ slot' = [slot EXCEPT ![l] = [st |-> "idle"]]
      /\ led' = RetireRows(led, l)
      /\ UNCHANGED <<now, sends, wire, link, frames, asked, serial>>
  BY DEF Cleanup, Vacate, net
<1>2. Good(led', Branches, 0, Env) /\ Over(led', l)
  BY <1>0, <1>1, RetireRowsGood
<1>3. slot'[l].st \in {"idle", "query", "complete"} /\ slot' = [slot EXCEPT ![l] = slot'[l]]
  BY <1>1, VacateFacts DEF Vacate
<1> QED BY <1>1, <1>2, <1>3, HandOver

LEMMA BeginGood ==
  ASSUME config \in Configs, NEW d, NEW e, NEW b \in Branches, NEW a,
         Good(d, Branches, 0, e), d.row[b] = Final, Fits(a, b, e), a.stream = 0
  PROVE  LET u == SetPending(d, b, a)
         IN  Good(u, Branches, 0, e) /\ \A c \in Branches \ {b} : u.row[c] = d.row[c]
<1>1. d.row[b].st = "final"
  BY DEF Final
<1>2. InHand(d, b, a, e)
  BY <1>1, OpenFinal DEF InHand
<1>3. Good(SetPending(d, b, a), Branches, 0, e)
  BY <1>2, AttachPending, Zenon
<1>4. ASSUME NEW c \in Branches \ {b} PROVE SetPending(d, b, a).row[c] = d.row[c]
  <2>1. d = [row |-> d.row, pending |-> d.pending, live |-> d.live, ids |-> d.ids]
    BY DEF Good, Shape
  <2>2. d.row = [x \in Branches |-> d.row[x]]
    BY DEF Good, Shape
  <2>3. SetPending(d, b, a).row = [d.row EXCEPT ![b] = [st |-> "pending", try |-> a]]
    BY <2>1 DEF SetPending
  <2> QED BY <1>4, <2>2, <2>3
<1> QED BY <1>3, <1>4

LEMMA StartStep == ASSUME IInv, NEW l \in Lanes, Start(l), UNCHANGED config PROVE IInv'
<1> DEFINE hard == now + config.total
           a == Initial(hard)
           d == RetireRows(led, l)
           d1 == SetPending(d, 2 * l, a)
           d2 == SetPending(d1, 2 * l + 1, a)
           r == [st |-> "query", hard |-> hard]
<1>0. /\ NetInv /\ LinkInv /\ SlotInv /\ config \in Configs /\ now \in Nat
      /\ now \in 0 .. config.maxTime /\ lanes \in [Lanes -> {"free", "held", "cancelled"}]
      /\ Good(led, Branches, 0, Env)
  BY ConfigFacts DEF IInv, NetInv, SlotInv
<1>1. hard \in Nat /\ r.st = "query" /\ r.hard = hard
  BY <1>0, ConfigFacts
<1>2. /\ slot' = [slot EXCEPT ![l] = r] /\ led' = (IF 1 \in Families THEN d2 ELSE d1)
      /\ UNCHANGED <<now, lanes, sends, wire, link, frames, asked, serial>>
  BY <1>0, LaneBranches DEF Start, OnRows, net
<1>3. a \in Attempts /\ a.stream = 0 /\ a.dl <= hard
  <2>1. Deadline(hard) \in Nat /\ Deadline(hard) <= hard
    BY <1>0, <1>1, DeadlineFacts
  <2>2. 1 \in Servers
    BY <1>0, ServerFacts
  <2> HIDE DEF hard
  <2> QED BY <2>1, <2>2 DEF Initial, Attempts
<1>4. Good(d, Branches, 0, Env) /\ Over(d, l) /\ \A b \in Row(l) : d.row[b] = Final
  BY <1>0, RetireRowsGood
<1> HIDE DEF a, d, hard, r
<1>5. slot'[l] = r
  BY <1>0, <1>2 DEF SlotInv
<1>6. SlotInv' /\ \A m \in Lanes \ {l} : slot'[m] = slot[m]
  <2>1. slot'[l].st \in {"idle", "query", "complete"} /\ slot' = [slot EXCEPT ![l] = slot'[l]]
    BY <1>1, <1>2, <1>5
  <2> QED BY <1>0, <2>1, SlotSet
<1> DEFINE e2 == Env'
<1>7. /\ e2.wire = Env.wire /\ e2.link = Env.link /\ e2.reqs = Env.reqs /\ e2.slot[l] = r
      /\ \A m \in Lanes \ {l} : e2.lanes[m] = Env.lanes[m] /\ e2.slot[m] = Env.slot[m]
  BY <1>2, <1>5, <1>6 DEF Env
<1> HIDE DEF e2
<1>8. Good(d, Branches, 0, e2)
  BY <1>0, <1>4, <1>7, LaneChanges
<1>9. \A b \in Branches : LaneOf(b) = l => Fits(a, b, e2)
  BY <1>1, <1>3, <1>7 DEF Fits
<1>10. /\ Good(d1, Branches, 0, e2)
       /\ \A c \in Branches \ {2 * l} : d1.row[c] = d.row[c]
  <2>1. 2 * l \in Branches /\ d.row[2 * l] = Final /\ Fits(a, 2 * l, e2)
    BY <1>0, <1>4, <1>9, LaneBranches
  <2> DEFINE b == 2 * l
  <2>2. b \in Branches /\ d.row[b] = Final /\ Fits(a, b, e2)
    BY <2>1
  <2> HIDE DEF b
  <2>3. Good(SetPending(d, b, a), Branches, 0, e2)
    BY <1>0, <1>3, <1>8, <2>2, BeginGood, Zenon
  <2>4. ASSUME NEW c \in Branches \ {b} PROVE SetPending(d, b, a).row[c] = d.row[c]
    BY <1>0, <1>3, <1>8, <2>2, BeginGood
  <2> QED BY <2>3, <2>4 DEF b
<1> HIDE DEF d1
<1>11. ASSUME 1 \in Families PROVE Good(d2, Branches, 0, e2)
  <2>1. /\ 2 * l + 1 \in Branches \ {2 * l} /\ d.row[2 * l + 1] = Final
        /\ Fits(a, 2 * l + 1, e2)
    BY <1>0, <1>4, <1>9, <1>11, LaneBranches
  <2>2. d1.row[2 * l + 1] = Final
    BY <1>10, <2>1
  <2> QED BY <1>0, <1>3, <1>10, <2>1, <2>2, BeginGood
<1> HIDE DEF d2
<1>12. Good(led', Branches, 0, e2)
  BY <1>2, <1>10, <1>11
<1>13. NetInv' /\ LinkInv'
  BY <1>0, <1>2, <1>6, NetKept
<1> QED BY <1>12, <1>13, GoodNext DEF IInv, e2

LEMMA PollStep == ASSUME IInv, NEW l \in Lanes, Poll(l), UNCHANGED config PROVE IInv'
<1>0. /\ NetInv /\ LinkInv /\ SlotInv /\ config \in Configs /\ now \in Nat
      /\ now \in 0 .. config.maxTime /\ lanes \in [Lanes -> {"free", "held", "cancelled"}]
      /\ Good(led, Branches, 0, Env) /\ lanes' = lanes
      /\ UNCHANGED <<now, sends, wire, link, frames, asked, serial>>
  BY ConfigFacts DEF IInv, NetInv, SlotInv, Poll, net
<1>1. lanes[l] \in {"free", "held", "cancelled"} /\ lanes' = [lanes EXCEPT ![l] = lanes[l]]
  BY <1>0
<1>2. CASE led' = Polled(l) /\ (IF Over(led', l) THEN Vacate(l) ELSE UNCHANGED slot)
  <2>1. Good(led', Branches, 0, Env)
    BY <1>0, <1>2, PolledGood
  <2>2. CASE Over(led', l)
    <3>1. slot'[l].st \in {"idle", "query", "complete"} /\ slot' = [slot EXCEPT ![l] = slot'[l]]
      BY <1>2, <2>2, VacateFacts
    <3> QED BY <1>0, <1>1, <2>1, <2>2, <3>1, HandOver
  <2>3. CASE slot' = slot
    <3>1. Env' = Env /\ SlotInv'
      BY <1>0, <2>3, SlotSame DEF Env
    <3>2. NetInv' /\ LinkInv'
      BY <1>0, <3>1, NetKept
    <3> QED BY <2>1, <3>1, <3>2, GoodNext DEF IInv
  <2> QED BY <1>2, <2>2, <2>3
<1>3. CASE slot[l].st = "complete" /\ Vacate(l) /\ UNCHANGED led
  <2>1. slot'[l].st \in {"idle", "query", "complete"} /\ slot' = [slot EXCEPT ![l] = slot'[l]]
    BY <1>3, VacateFacts
  <2>2. Over(led', l) /\ Good(led', Branches, 0, Env)
    <3>1. ASSUME NEW b \in Row(l) PROVE led.row[b].st = "final"
      <4>1. b \in Branches /\ LaneOf(b) = l
        BY <1>0, RowFacts
      <4>2. RowOK(led.row[b], b, Env) /\ Env.slot = slot
        BY <1>0, <4>1 DEF Good, RowsOK, Env
      <4> QED BY <1>3, <4>1, <4>2 DEF RowOK, Fits
    <3> QED BY <1>0, <1>3, <3>1 DEF Over
  <2> QED BY <1>0, <1>1, <2>1, <2>2, HandOver
<1> QED BY <1>2, <1>3 DEF Poll
-----------------------------------------------------------------------------
(* The steps: answers and failures.                                        *)

LEMMA SettleInv ==
  ASSUME IInv, NEW d, NEW l \in Lanes, Good(d, Branches, 0, Env), Settle(d, l),
         sends' \subseteq sends,
         UNCHANGED <<config, now, lanes, wire, link, frames, asked, serial>>
  PROVE  IInv'
<1>1. NetInv /\ LinkInv /\ now' \in 0 .. config.maxTime
      /\ lanes' \in [Lanes -> {"free", "held", "cancelled"}]
  BY DEF IInv, NetInv
<1>2. Good(led', Branches, 0, Env') /\ SlotInv'
  BY SettleStep
<1>3. NetInv' /\ LinkInv'
  BY <1>1, <1>2, NetKept
<1> QED BY <1>2, <1>3, GoodNext DEF IInv

(* The row that an event reaches.                                          *)
LEMMA ReachedRow ==
  ASSUME IInv, NEW b \in Branches \cup {None}, NEW id, Reaches(b, id)
  PROVE  /\ b \in Branches /\ LaneOf(b) \in Lanes /\ led.row[b].st = "waiting"
         /\ led.row[b].lease.id = id /\ lanes[LaneOf(b)] # "cancelled"
         /\ InHand(Accept(led, b), b, led.row[b].try, Env)
         /\ \A c \in Branches \ {b} : Accept(led, b).row[c] = led.row[c]
         /\ Env.slot[LaneOf(b)].hard = slot[LaneOf(b)].hard
<1>1. /\ b \in Branches /\ led.row[b].st = "waiting" /\ led.row[b].lease.id = id
      /\ lanes[LaneOf(b)] # "cancelled"
  BY DEF Reaches
<1>2. config \in Configs /\ Good(led, Branches, 0, Env)
  BY DEF IInv, NetInv
<1>3. LaneOf(b) \in Lanes
  BY <1>1, <1>2, BranchFacts
<1>4. /\ InHand(Accept(led, b), b, led.row[b].try, Env)
      /\ \A c \in Branches \ {b} : Accept(led, b).row[c] = led.row[c]
  BY <1>1, <1>2, DetachWaiting DEF InHand
<1>5. Env.slot = slot
  BY DEF Env
<1> QED BY <1>1, <1>3, <1>4, <1>5

LEMMA ReceiveUdpStep ==
  ASSUME IInv, NEW m \in wire, NEW answer \in Answers,
         ReceiveUdp(m, answer), UNCHANGED config
  PROVE  IInv'
<1> DEFINE b == led.ids.udp[m.id]
           l == LaneOf(b)
           r == led.row[b]
           a == r.try
           d == Accept(led, b)
           c == [d EXCEPT !.ids = Cache(@, a.srv, r.lease.gen)]
<1>0. config \in Configs /\ Good(led, Branches, 0, Env) /\ now \in Nat /\ m.id \in Ids
  BY ConfigFacts DEF IInv, NetInv, Messages
<1>1. b \in Branches \cup {None}
  BY <1>0 DEF Good, Shape, TableShape
<1>2. Reaches(b, m.id) /\ r.lease.kind = "udp"
  <2>1. AcceptsUdp(m, b, answer)
    BY DEF ReceiveUdp
  <2> QED BY <2>1 DEF AcceptsUdp
<1>3. sends' = sends /\ UNCHANGED <<now, lanes, wire, link, frames, asked, serial>>
  BY DEF ReceiveUdp, net
<1>4. \/ answer \in Replies /\ Settle(Apply(c, b, a, slot[l].hard, answer), l)
      \/ Settle(RetryCookie(c, b, a), l)
      \/ Settle(ToStream(d, b, a), l)
  BY DEF ReceiveUdp
<1> HIDE DEF b
<1>5. /\ b \in Branches /\ l \in Lanes /\ r.st = "waiting" /\ InHand(d, b, a, Env)
      /\ Env.slot[l].hard = slot[l].hard
  BY <1>1, <1>2, ReachedRow
<1>6. /\ RowOK(r, b, Env) /\ UdpOK(r, led.ids, Env) /\ Fits(a, b, Env)
      /\ d.ids.gen = led.ids.gen
  BY <1>0, <1>5, DetachWaiting DEF Good, RowsOK, InHand
<1>7. a.srv \in Servers /\ r.lease.gen \in Nat /\ r.lease.gen <= d.ids.gen
  BY <1>0, <1>2, <1>5, <1>6, AttemptFacts DEF RowOK, UdpOK, Fits
<1>8. Branches \ {b} \in SUBSET Branches
  OBVIOUS
<1> HIDE DEF d, a, l, r
<1>9. InHand(c, b, a, Env)
  <2>1. Good(c, Branches \ {b}, a.stream, Env)
    BY <1>0, <1>5, <1>7, <1>8, CacheGood DEF InHand
  <2> QED BY <1>5, <2>1 DEF InHand
<1> HIDE DEF c
<1>10. CASE answer \in Replies /\ Settle(Apply(c, b, a, slot[l].hard, answer), l)
  <2>1. Good(Apply(c, b, a, Env.slot[LaneOf(b)].hard, answer), Branches, 0, Env)
    BY <1>0, <1>5, <1>9, <1>10, ApplyGood
  <2>2. Good(Apply(c, b, a, slot[l].hard, answer), Branches, 0, Env)
    BY <1>5, <2>1 DEF l
  <2> QED BY <1>3, <1>5, <1>10, <2>2, SettleInv
<1>11. CASE Settle(RetryCookie(c, b, a), l)
  <2>1. Good(RetryCookie(c, b, a), Branches, 0, Env)
    BY <1>0, <1>5, <1>9, RetryCookieGood
  <2> QED BY <1>3, <1>5, <1>11, <2>1, SettleInv
<1>12. CASE Settle(ToStream(d, b, a), l)
  <2>1. Good(ToStream(d, b, a), Branches, 0, Env)
    BY <1>0, <1>5, ToStreamGood
  <2> QED BY <1>3, <1>5, <1>12, <2>1, SettleInv
<1> QED BY <1>4, <1>10, <1>11, <1>12

LEMMA SettleSendStep ==
  ASSUME IInv, NEW m \in sends, NEW outcome, SettleSend(m, outcome), UNCHANGED config
  PROVE  IInv'
<1> DEFINE b == led.ids.udp[m.id]
           l == LaneOf(b)
           a == led.row[b].try
           d == Accept(led, b)
           u == Retry(d, b, a, slot[l].hard, outcome = "Terminal")
<1>0. /\ config \in Configs /\ Good(led, Branches, 0, Env) /\ now \in Nat /\ m.id \in Ids
      /\ NetInv /\ LinkInv /\ SlotInv /\ now \in 0 .. config.maxTime
      /\ lanes \in [Lanes -> {"free", "held", "cancelled"}]
  BY ConfigFacts DEF IInv, NetInv, Messages, SlotInv
<1>1. b \in Branches \cup {None}
  BY <1>0 DEF Good, Shape, TableShape
<1>2. sends' \subseteq sends /\ UNCHANGED <<now, lanes, wire, link, frames, asked, serial>>
  BY DEF SettleSend
<1>3. \/ AcceptsSettlement(m, b) /\ Settle(u, l)
      \/ UNCHANGED <<slot, led>>
  BY DEF SettleSend
<1> HIDE DEF b
<1>4. CASE AcceptsSettlement(m, b) /\ Settle(u, l)
  <2>1. Reaches(b, m.id)
    BY <1>4 DEF AcceptsSettlement
  <2>2. /\ b \in Branches /\ l \in Lanes /\ InHand(d, b, a, Env)
        /\ Env.slot[l].hard = slot[l].hard
    BY <1>1, <2>1, ReachedRow
  <2> DEFINE t == outcome = "Terminal"
  <2> HIDE DEF d, a, t
  <2>3. Good(Retry(d, b, a, Env.slot[LaneOf(b)].hard, t), Branches, 0, Env)
    BY <1>0, <2>2, RetryGood
  <2>4. Good(u, Branches, 0, Env)
    BY <2>2, <2>3 DEF t
  <2> HIDE DEF u, l
  <2> QED BY <1>2, <1>4, <2>2, <2>4, SettleInv
<1>5. CASE UNCHANGED <<slot, led>>
  <2>1. SlotInv' /\ Env' = Env
    BY <1>0, <1>2, <1>5, SlotSame DEF Env
  <2>2. NetInv' /\ LinkInv'
    BY <1>0, <1>2, <2>1, NetKept
  <2> QED BY <1>0, <1>5, <2>1, <2>2, GoodNext DEF IInv
<1> QED BY <1>3, <1>4, <1>5

LEMMA ReceiveStreamStep ==
  ASSUME IInv, NEW f \in asked, NEW answer \in Replies \cup {"Malformed"},
         ReceiveStream(f, answer), UNCHANGED config
  PROVE  IInv'
<1> DEFINE b == led.ids.tcp[f.id]
           l == LaneOf(b)
           a == led.row[b].try
           d == Accept(led, b)
<1>0. /\ config \in Configs /\ Good(led, Branches, 0, Env) /\ now \in Nat /\ f.id \in StreamIds
  BY ConfigFacts DEF IInv, NetInv
<1>1. b \in Branches \cup {None}
  BY <1>0 DEF Good, Shape, TableShape
<1>2. Reaches(b, f.id)
  BY DEF ReceiveStream, AcceptsStream
<1>3. sends' = sends /\ UNCHANGED <<now, lanes, wire, link, frames, asked, serial>>
  BY DEF ReceiveStream, net
<1>4. \/ Settle(Retry(d, b, a, slot[l].hard, FALSE), l)
      \/ answer \in Replies /\ Settle(Apply(d, b, a, slot[l].hard, answer), l)
  BY DEF ReceiveStream
<1> HIDE DEF b
<1>5. /\ b \in Branches /\ l \in Lanes /\ InHand(d, b, a, Env)
      /\ Env.slot[l].hard = slot[l].hard
  BY <1>1, <1>2, ReachedRow
<1> HIDE DEF d, a
<1>6. CASE Settle(Retry(d, b, a, slot[l].hard, FALSE), l)
  <2>1. Good(Retry(d, b, a, Env.slot[LaneOf(b)].hard, FALSE), Branches, 0, Env)
    BY <1>0, <1>5, RetryGood
  <2>2. Good(Retry(d, b, a, slot[l].hard, FALSE), Branches, 0, Env)
    BY <1>5, <2>1
  <2> HIDE DEF l
  <2> QED BY <1>3, <1>5, <1>6, <2>2, SettleInv
<1>7. CASE answer \in Replies /\ Settle(Apply(d, b, a, slot[l].hard, answer), l)
  <2>1. Good(Apply(d, b, a, Env.slot[LaneOf(b)].hard, answer), Branches, 0, Env)
    BY <1>0, <1>5, <1>7, ApplyGood
  <2>2. Good(Apply(d, b, a, slot[l].hard, answer), Branches, 0, Env)
    BY <1>5, <2>1
  <2> HIDE DEF l
  <2> QED BY <1>3, <1>5, <1>7, <2>2, SettleInv
<1> QED BY <1>4, <1>6, <1>7
-----------------------------------------------------------------------------
(* The steps: the stream connection.                                       *)

LEMMA LinkShapes ==
  ASSUME IInv
  PROVE  /\ link.st \in {"none", "open", "retiring"}
         /\ link.st = "open" =>
              /\ link = [st |-> "open", srv |-> link.srv, start |-> link.start, issued |-> link.issued]
              /\ link.srv \in Servers /\ link.start \in StreamIds
              /\ link.issued \in 0 .. config.streamIds
         /\ link.st = "retiring" =>
              /\ link = [st |-> "retiring", srv |-> link.srv, mode |-> link.mode, next |-> link.next]
              /\ link.srv \in Servers /\ link.next \in Nat
  BY DEF IInv, LinkInv

(* The rest of NetInv does not depend on the connection.                   *)
LEMMA NetRest ==
  ASSUME NetInv, UNCHANGED <<config, now, lanes, slot, wire, serial>>, sends' \subseteq sends,
         frames' \subseteq [id : StreamIds, serial : Nat],
         asked' \subseteq [id : StreamIds, serial : Nat]
  PROVE  NetInv'
<1>1. /\ Lanes' = Lanes /\ Ids' = Ids /\ StreamIds' = StreamIds /\ Servers' = Servers
      /\ Messages' = Messages /\ config' = config
  BY ConfigFrame
<1> QED BY <1>1 DEF NetInv

(* The connection and its requests change, and no datagram.                *)
LEMMA LinkChanges ==
  ASSUME config \in Configs, NEW d, NEW e, NEW e2, Good(d, Branches, 0, e),
         e2.wire = e.wire, e2.slot = e.slot,
         \A b \in Branches : TcpOK(d.row[b], b, e2)
  PROVE  Good(d, Branches, 0, e2)
<1>1. RowsOK(d, Branches, e2)
  <2> SUFFICES ASSUME NEW b \in Branches
               PROVE  RowOK(d.row[b], b, e2) /\ UdpOK(d.row[b], d.ids, e2) /\ TcpOK(d.row[b], b, e2)
    BY DEF RowsOK
  <2>1. RowOK(d.row[b], b, e) /\ UdpOK(d.row[b], d.ids, e)
    BY DEF RowsOK, Good
  <2> QED BY <2>1 DEF RowOK, UdpOK, Fits
<1>2. WireOK(d.ids, e2)
  BY DEF Good, WireOK
<1> QED BY <1>1, <1>2, ReEnv

LEMMA ConnectStep ==
  ASSUME IInv, NEW s \in Servers, NEW start \in StreamIds, Connect(s, start), UNCHANGED config
  PROVE  IInv'
<1>0. config \in Configs /\ Good(led, Branches, 0, Env) /\ NetInv /\ asked = {}
      /\ config.streamIds \in Nat
  BY ConfigFacts DEF IInv, NetInv, LinkInv, Connect
<1>1. /\ link.st = "none" /\ frames = {}
      /\ UNCHANGED <<now, lanes, slot, led, sends, wire, frames, asked, serial>>
  BY DEF Connect
<1> DEFINE k == [st |-> "open", srv |-> s, start |-> start, issued |-> 0]
<1>2. link' = k
  BY DEF Connect
<1>3. /\ k.st = "open" /\ k.srv = s /\ k.start = start /\ k.issued = 0
      /\ k = [st |-> "open", srv |-> k.srv, start |-> k.start, issued |-> k.issued]
  OBVIOUS
<1> HIDE DEF k
<1>4. NetInv'
  BY <1>0, <1>1, NetRest
<1>5. LinkInv'
  <2>1. Servers' = Servers /\ StreamIds' = StreamIds
    BY ConfigFrame
  <2> QED BY <1>0, <1>1, <1>2, <1>3, <2>1 DEF LinkInv
<1> DEFINE e2 == Env'
<1>6. e2.wire = Env.wire /\ e2.slot = Env.slot /\ e2.lanes = lanes /\ Env.lanes = lanes
      /\ Env.link = link
  BY <1>1 DEF Env
<1> HIDE DEF e2
<1>7. ASSUME NEW b \in Branches PROVE TcpOK(led.row[b], b, e2)
  <2>1. TcpOK(led.row[b], b, Env)
    BY <1>0 DEF Good, RowsOK
  <2> QED BY <1>1, <1>6, <2>1 DEF TcpOK
<1>8. Good(led, Branches, 0, e2)
  BY <1>0, <1>6, <1>7, LinkChanges
<1> QED BY <1>1, <1>4, <1>5, <1>8, GoodNext DEF IInv, e2

LEMMA CloseStep ==
  ASSUME IInv, NEW mode, NEW terminal, Close(mode, terminal), UNCHANGED config
  PROVE  IInv'
<1>0. /\ config \in Configs /\ Good(led, Branches, 0, Env) /\ NetInv
      /\ link.st = "open" /\ link.srv \in Servers /\ frames \subseteq [id : StreamIds, serial : Nat]
  BY LinkShapes DEF IInv, NetInv, Close
<1>1. asked' = {} /\ UNCHANGED <<now, lanes, slot, led, sends, wire, frames, serial>>
  BY DEF Close
<1> DEFINE k == [st |-> "retiring", srv |-> link.srv, mode |-> mode, next |-> 0]
<1>2. link' = k
  BY DEF Close
<1>3. /\ k.st = "retiring" /\ k.srv = link.srv /\ k.next = 0
      /\ k = [st |-> "retiring", srv |-> k.srv, mode |-> k.mode, next |-> k.next]
  OBVIOUS
<1> HIDE DEF k
<1>4. NetInv'
  BY <1>0, <1>1, NetRest
<1>5. LinkInv'
  <2>1. Servers' = Servers /\ StreamIds' = StreamIds
    BY ConfigFrame
  <2> QED BY <1>0, <1>1, <1>2, <1>3, <2>1 DEF LinkInv
<1> DEFINE e2 == Env'
<1>6. /\ e2.wire = Env.wire /\ e2.slot = Env.slot /\ e2.lanes = Env.lanes /\ Env.link = link
      /\ e2.link = k /\ e2.reqs \subseteq Env.reqs
  BY <1>1, <1>2 DEF Env
<1> HIDE DEF e2
<1>7. ASSUME NEW b \in Branches PROVE TcpOK(led.row[b], b, e2)
  <2>1. TcpOK(led.row[b], b, Env) /\ b \in Nat
    BY <1>0, BranchFacts DEF Good, RowsOK
  <2> QED BY <1>0, <1>3, <1>6, <2>1 DEF TcpOK
<1>8. Good(led, Branches, 0, e2)
  BY <1>0, <1>6, <1>7, LinkChanges
<1> QED BY <1>1, <1>4, <1>5, <1>8, GoodNext DEF IInv, e2

LEMMA DisconnectStep == ASSUME IInv, Disconnect, UNCHANGED config PROVE IInv'
<1>0. /\ config \in Configs /\ Good(led, Branches, 0, Env) /\ NetInv /\ LinkInv
      /\ link.st = "retiring" /\ asked = {}
      /\ frames \subseteq [id : StreamIds, serial : Nat]
  BY DEF IInv, NetInv, LinkInv, Disconnect
<1>1. UNCHANGED <<now, lanes, slot, led, sends, wire, frames, asked, serial>>
  BY DEF Disconnect
<1>2. link'.st = "none"
  BY DEF Disconnect, NoLink
<1>4. NetInv'
  BY <1>0, <1>1, NetRest
<1>5. LinkInv'
  BY <1>0, <1>1, <1>2 DEF LinkInv
<1> DEFINE e2 == Env'
<1>6. /\ e2.wire = Env.wire /\ e2.slot = Env.slot /\ e2.lanes = Env.lanes /\ Env.link = link
  BY <1>1 DEF Env
<1> HIDE DEF e2
<1>7. ASSUME NEW b \in Branches PROVE TcpOK(led.row[b], b, e2)
  <2> SUFFICES ASSUME led.row[b].st = "waiting", led.row[b].lease.kind = "tcp",
                      Env.lanes[LaneOf(b)] # "cancelled"
               PROVE  FALSE
    BY <1>6 DEF TcpOK
  <2>1. b >= link.next
    <3>1. TcpOK(led.row[b], b, Env)
      BY <1>0 DEF Good, RowsOK
    <3> QED BY <1>0, <1>6, <3>1 DEF TcpOK
  <2>2. b \in Nat /\ b < 2 * config.lanes /\ config.lanes \in Nat
    BY <1>0, BranchFacts, ConfigFacts
  <2>3. link.next # Limit
    BY <2>1, <2>2 DEF Limit
  <2>4. led.ids.streams # 0
    <3> DEFINE A == LeasedIn(led, Branches, "tcp")
    <3>1. b \in A /\ A \in SUBSET Branches
      BY DEF LeasedIn
    <3>2. IsFiniteSet(A) /\ led.ids.streams = Cardinality(A)
      BY <1>0, <3>1, BranchSets DEF Good, IdsOf
    <3> HIDE DEF A
    <3>3. Cardinality(A) = Cardinality(A \ {b}) + 1 /\ Cardinality(A \ {b}) \in Nat
      BY <1>0, <3>1, CountOne, BranchSets
    <3> QED BY <3>2, <3>3
  <2> QED BY <2>3, <2>4 DEF Disconnect
<1>8. Good(led, Branches, 0, e2)
  BY <1>0, <1>6, <1>7, LinkChanges
<1> QED BY <1>1, <1>4, <1>5, <1>8, GoodNext DEF IInv, e2

LEMMA TransmitStep == ASSUME IInv, NEW f \in frames, Transmit(f), UNCHANGED config PROVE IInv'
<1>0. /\ config \in Configs /\ Good(led, Branches, 0, Env) /\ NetInv /\ LinkInv
      /\ frames \subseteq [id : StreamIds, serial : Nat]
      /\ asked \subseteq [id : StreamIds, serial : Nat]
  BY DEF IInv, NetInv
<1>1. /\ link.st = "open" /\ frames' = frames \ {f} /\ asked' = asked \cup {f}
      /\ UNCHANGED <<now, lanes, slot, led, sends, wire, link, serial>>
  BY DEF Transmit
<1>2. frames' \cup asked' = frames \cup asked
  BY <1>1
<1>3. NetInv'
  <2>1. /\ frames' \subseteq [id : StreamIds, serial : Nat]
        /\ asked' \subseteq [id : StreamIds, serial : Nat] /\ sends' \subseteq sends
    BY <1>0, <1>1
  <2> QED BY <1>0, <1>1, <2>1, NetRest
<1>4. LinkInv'
  <2>1. Servers' = Servers /\ StreamIds' = StreamIds
    BY ConfigFrame
  <2> QED BY <1>0, <1>1, <1>2, <2>1 DEF LinkInv, Used
<1>5. Env' = Env
  BY <1>1, <1>2 DEF Env
<1> QED BY <1>0, <1>1, <1>3, <1>4, <1>5, GoodNext DEF IInv

(* NetInv of the next state, part by part.                                 *)
LEMMA NetNext ==
  ASSUME NetInv, SlotInv', UNCHANGED <<config, now, lanes>>, serial' \in 0 .. config.maxSubmits,
         wire' \subseteq Messages, sends' \subseteq wire',
         frames' \subseteq [id : StreamIds, serial : Nat],
         asked' \subseteq [id : StreamIds, serial : Nat]
  PROVE  NetInv'
<1>1. /\ Lanes' = Lanes /\ Ids' = Ids /\ StreamIds' = StreamIds /\ Servers' = Servers
      /\ Messages' = Messages /\ config' = config
  BY ConfigFrame
<1> QED BY <1>1 DEF NetInv, SlotInv

LEMMA UndoStreamStep ==
  ASSUME IInv, NEW f \in frames, UndoStream(f), UNCHANGED config
  PROVE  IInv'
<1> DEFINE b == led.ids.tcp[f.id]
           a == led.row[b].try
           d == Accept(led, b)
<1>0. /\ config \in Configs /\ Good(led, Branches, 0, Env) /\ f.id \in StreamIds
      /\ NetInv /\ LinkInv /\ frames \subseteq [id : StreamIds, serial : Nat] /\ asked = {}
  BY DEF IInv, NetInv, LinkInv, UndoStream
<1>1. b \in Branches \cup {None}
  BY <1>0 DEF Good, Shape, TableShape
<1>2. /\ link.st # "open" /\ frames' \subseteq frames
      /\ UNCHANGED <<now, lanes, slot, sends, wire, link, asked, serial>>
      /\ \/ Reaches(b, f.id) /\ led' = SetPending(d, b, a)
         \/ led' = led
  BY DEF UndoStream
<1> HIDE DEF b
<1>3. Good(led', Branches, 0, Env)
  <2>1. CASE Reaches(b, f.id) /\ led' = SetPending(d, b, a)
    <3>1. b \in Branches /\ InHand(d, b, a, Env)
      BY <1>1, <2>1, ReachedRow
    <3> HIDE DEF d, a
    <3> QED BY <1>0, <2>1, <3>1, AttachPending
  <2> QED BY <1>0, <1>2, <2>1
<1>4. NetInv'
  <2>1. frames' \subseteq [id : StreamIds, serial : Nat] /\ asked' \subseteq [id : StreamIds, serial : Nat]
        /\ sends' \subseteq sends
    BY <1>0, <1>2
  <2> QED BY <1>0, <1>2, <2>1, NetRest
<1>5. LinkInv'
  <2>1. Servers' = Servers /\ StreamIds' = StreamIds
    BY ConfigFrame
  <2> QED BY <1>0, <1>2, <2>1 DEF LinkInv
<1> DEFINE e2 == Env'
           v == led'
<1>6. /\ e2.wire = Env.wire /\ e2.slot = Env.slot /\ e2.lanes = Env.lanes /\ e2.link = Env.link
      /\ e2.reqs \subseteq Env.reqs
  BY <1>2 DEF Env
<1> HIDE DEF e2, v
<1>7. Good(v, Branches, 0, Env)
  BY <1>3 DEF v
<1>8. ASSUME NEW c \in Branches PROVE TcpOK(v.row[c], c, e2)
  <2>1. TcpOK(v.row[c], c, Env)
    BY <1>7 DEF Good, RowsOK
  <2> QED BY <1>6, <2>1 DEF TcpOK
<1>9. Good(v, Branches, 0, e2)
  BY <1>0, <1>6, <1>7, <1>8, LinkChanges
<1> QED BY <1>4, <1>5, <1>9, GoodNext DEF IInv, e2, v

(* The retirement passes a branch that does not wait on the connection.    *)
LEMMA Passed ==
  ASSUME config \in Configs, NEW v, NEW e, NEW e2, Good(v, Branches, 0, e),
         e2.wire = e.wire, e2.slot = e.slot, e2.lanes = e.lanes, e2.reqs = e.reqs,
         e.link.st = "retiring", e2.link.st = "retiring", e2.link.srv = e.link.srv,
         e.link.next \in Nat, e2.link.next = e.link.next + 1,
         e.link.next \in Branches =>
           \/ v.row[e.link.next].st # "waiting"
           \/ e.lanes[LaneOf(e.link.next)] = "cancelled"
           \/ v.row[e.link.next].try.stream # e.link.srv
  PROVE  Good(v, Branches, 0, e2)
<1>1. ASSUME NEW c \in Branches PROVE TcpOK(v.row[c], c, e2)
  <2>1. TcpOK(v.row[c], c, e)
    BY DEF Good, RowsOK
  <2>2. c \in Nat
    BY BranchFacts
  <2> DEFINE n == e.link.next
             n2 == e2.link.next
  <2>3. n \in Nat /\ n2 = n + 1
    OBVIOUS
  <2>4. n \in Nat /\ n2 = n + 1 /\ c >= n /\ c # n => c >= n2
    <3> HIDE DEF n, n2
    <3> QED BY <2>2
  <2>5. v.row[c].st = "waiting" /\ v.row[c].lease.kind = "tcp" /\ e.lanes[LaneOf(c)] # "cancelled"
          => c >= n /\ c # n
    BY <2>1 DEF TcpOK
  <2> QED BY <2>1, <2>3, <2>4, <2>5 DEF TcpOK
<1> QED BY <1>1, LinkChanges

LEMMA RetireStreamStep == ASSUME IInv, RetireStream, UNCHANGED config PROVE IInv'
<1> DEFINE b == link.next
           l == LaneOf(b)
           a == led.row[b].try
           d == Accept(led, b)
           k == [link EXCEPT !.next = @ + 1]
           w == b \in Branches /\ lanes[l] # "cancelled" /\ led.row[b].st = "waiting"
           hit == w /\ a.stream = link.srv
<1>0. /\ config \in Configs /\ Good(led, Branches, 0, Env) /\ now \in Nat
      /\ NetInv /\ LinkInv /\ SlotInv /\ link.st = "retiring" /\ asked = {}
  BY ConfigFacts DEF IInv, NetInv, LinkInv, SlotInv, RetireStream
<1>1. link' = k /\ UNCHANGED <<now, lanes, sends, wire, frames, asked, serial>>
  BY DEF RetireStream
<1>2. \/ ~hit /\ UNCHANGED <<slot, led>>
      \/ hit /\ led' = SetPending(d, b, a) /\ UNCHANGED slot
      \/ hit /\ Settle(Retry(d, b, a, slot[l].hard, failed), l)
  BY DEF RetireStream
<1>3. /\ k.st = "retiring" /\ k.srv = link.srv /\ k.next = b + 1 /\ b \in Nat /\ link.srv \in Servers
      /\ k = [st |-> "retiring", srv |-> k.srv, mode |-> k.mode, next |-> k.next]
  BY <1>0, LinkShapes
<1> HIDE DEF k
<1>4. LinkInv'
  <2>1. Servers' = Servers /\ StreamIds' = StreamIds /\ k.next \in Nat
    BY <1>3, ConfigFrame
  <2> QED BY <1>0, <1>1, <1>3, <2>1 DEF LinkInv
<1>5. /\ MidEnv.wire = Env.wire /\ MidEnv.slot = Env.slot /\ MidEnv.lanes = Env.lanes
      /\ MidEnv.reqs = Env.reqs /\ MidEnv.link = k /\ Env.link = link /\ Env.lanes = lanes
  BY <1>1 DEF Env, MidEnv
<1>6. ASSUME NEW v, Good(v, Branches, 0, Env),
             b \in Branches => \/ v.row[b].st # "waiting" \/ lanes[l] = "cancelled"
                               \/ v.row[b].try.stream # link.srv
      PROVE  Good(v, Branches, 0, MidEnv)
  BY <1>0, <1>3, <1>5, <1>6, Passed
<1>7. ASSUME hit
      PROVE  /\ b \in Branches /\ l \in Lanes /\ InHand(d, b, a, Env)
             /\ Env.slot[LaneOf(b)].hard = slot[l].hard
  <2>1. b \in Branches /\ led.row[b].st = "waiting" /\ l \in Lanes
    BY <1>0, <1>7, BranchFacts
  <2>2. InHand(d, b, a, Env)
    BY <1>0, <2>1, DetachWaiting DEF InHand
  <2> QED BY <2>1, <2>2 DEF Env
<1>8. Good(led', Branches, 0, Env') /\ SlotInv'
  <2>1. CASE ~hit /\ UNCHANGED <<slot, led>>
    <3>1. Good(led, Branches, 0, MidEnv)
      BY <1>0, <1>6, <2>1
    <3>2. Env' = MidEnv
      BY <2>1 DEF Env, MidEnv
    <3> QED BY <1>0, <2>1, <3>1, <3>2, SlotSame
  <2>2. CASE hit /\ led' = SetPending(d, b, a) /\ UNCHANGED slot
    <3>1. b \in Branches /\ InHand(d, b, a, Env)
      BY <1>7, <2>2
    <3> DEFINE u == SetPending(d, b, a)
    <3>2. Good(u, Branches, 0, Env) /\ u.row[b].st = "pending"
      <4> HIDE DEF b, d, a
      <4>1. Good(u, Branches, 0, Env) /\ u.row[b] = [st |-> "pending", try |-> a]
        BY <1>0, <3>1, AttachPending
      <4> QED BY <4>1
    <3> HIDE DEF u
    <3>3. Good(u, Branches, 0, MidEnv)
      BY <1>6, <3>2
    <3>4. Env' = MidEnv
      BY <2>2 DEF Env, MidEnv
    <3> QED BY <1>0, <2>2, <3>3, <3>4, SlotSame DEF u
  <2>3. CASE hit /\ Settle(Retry(d, b, a, slot[l].hard, failed), l)
    <3>1. b \in Branches /\ InHand(d, b, a, Env) /\ l \in Lanes
          /\ Env.slot[LaneOf(b)].hard = slot[l].hard
      BY <1>7, <2>3
    <3> DEFINE u == Retry(d, b, a, slot[l].hard, failed)
    <3>2. Good(u, Branches, 0, Env) /\ u.row[b].st # "waiting"
      <4> HIDE DEF b, d, a
      <4>1. Good(Retry(d, b, a, Env.slot[LaneOf(b)].hard, failed), Branches, 0, Env)
            /\ Moved(d, Retry(d, b, a, Env.slot[LaneOf(b)].hard, failed), b)
        BY <1>0, <3>1, RetryGood
      <4> QED BY <3>1, <4>1 DEF Moved
    <3>3. Settle(u, l)
      BY <2>3
    <3> HIDE DEF u, l
    <3>4. Good(u, Branches, 0, MidEnv)
      BY <1>6, <3>2
    <3> QED BY <3>1, <3>3, <3>4, SettleMid
  <2> QED BY <1>2, <2>1, <2>2, <2>3
<1>9. NetInv'
  <2>1. /\ serial' \in 0 .. config.maxSubmits /\ wire' \subseteq Messages /\ sends' \subseteq wire'
        /\ frames' \subseteq [id : StreamIds, serial : Nat]
        /\ asked' \subseteq [id : StreamIds, serial : Nat]
    BY <1>0, <1>1 DEF NetInv
  <2> QED BY <1>0, <1>1, <1>8, <2>1, NetNext
<1> QED BY <1>4, <1>8, <1>9, GoodNext DEF IInv
-----------------------------------------------------------------------------
(* Identities for datagrams.                                               *)

LEMMA NatLeast ==
  ASSUME NEW T \in SUBSET Nat, T # {}
  PROVE  \E x \in T : \A y \in T : x <= y
<1> DEFINE R == {ss \in Nat \X Nat : ss[1] < ss[2]}
<1>1. IsWellFoundedOn(R, Nat)
  BY NatLessThanWellFounded DEF OpToRel
<1> HIDE DEF R
<1>2. PICK x \in T : \A y \in T : ~(<<y, x>> \in R)
  BY <1>1, WFMin
<1>3. ASSUME NEW y \in T PROVE x <= y
  <2>1. <<y, x>> \notin R
    BY <1>2
  <2>2. y \in Nat /\ x \in Nat
    OBVIOUS
  <2> QED BY <2>1, <2>2 DEF R
<1> QED BY <1>3

(* The branch that a claim takes is in hand.                               *)
LEMMA FrontFacts ==
  ASSUME IInv, NEW p \in Servers \cup {0}, Plane(p) # {}
  PROVE  LET b == Front(p)
             a == led.row[b].try
         IN  /\ b \in Branches /\ LaneOf(b) \in Lanes /\ a.stream = p
             /\ led.row[b].st = "pending" /\ InHand(Take(p), b, a, Env)
             /\ Take(p).row = led.row /\ Take(p).ids = led.ids
<1> DEFINE b == Front(p)
           a == led.row[b].try
<1>0. config \in Configs /\ Good(led, Branches, 0, Env)
  BY DEF IInv, NetInv
<1>1. b \in Plane(p)
  <2>1. Plane(p) \in SUBSET Nat
    BY <1>0, BranchFacts DEF Plane
  <2>2. \E x \in Plane(p) : \A y \in Plane(p) : x <= y
    BY <2>1, NatLeast
  <2> QED BY <2>2 DEF Front
<1>2. Take(p) = [led EXCEPT !.pending = @ \ {<<p, b>>}]
  BY DEF Take
<1> HIDE DEF b
<1>3. b \in Branches /\ led.row[b].st = "pending" /\ a.stream = p /\ LaneOf(b) \in Lanes
  <2>1. b \in Branches /\ <<p, b>> \in led.pending
    BY <1>1 DEF Plane
  <2> QED BY <1>0, <2>1, BranchFacts DEF Good, QueuesOf
<1>4. Take(p) = Unregister(led, b, a)
  BY <1>2, <1>3 DEF Unregister
<1>5. /\ Fits(a, b, Env) /\ Good(Unregister(led, b, a), Branches \ {b}, a.stream, Env)
      /\ Unregister(led, b, a).row = led.row /\ Unregister(led, b, a).ids = led.ids
  BY <1>0, <1>3, DetachPending
<1>6. InHand(Take(p), b, a, Env) /\ Take(p).row = led.row /\ Take(p).ids = led.ids
  BY <1>4, <1>5 DEF InHand
<1> QED BY <1>3, <1>6 DEF b

LEMMA RotateGood ==
  ASSUME config \in Configs, NEW t, NEW e, TableShape(t), PlanesOf(t), WireOK(t, e),
         e.wire \subseteq Messages, t.epoch < config.epochMax
  PROVE  LET r == TryRotate(t)
         IN  /\ TableShape(r) /\ PlanesOf(r) /\ WireOK(r, e)
             /\ r.front = 1 - t.front /\ r.free = t.free /\ r.udp = t.udp /\ r.tcp = t.tcp
             /\ r.streams = t.streams /\ r.epoch = t.epoch + 1 /\ r.gen = t.gen
<1> DEFINE r == TryRotate(t)
           z == [s \in Servers |-> 0]
<1>1. /\ t = [free |-> t.free, front |-> t.front, epoch |-> t.epoch, udp |-> t.udp,
              tcp |-> t.tcp, streams |-> t.streams, gen |-> t.gen, retired |-> t.retired,
              cached |-> t.cached]
      /\ t.free \in [0 .. 1 -> SUBSET Ids] /\ t.front \in 0 .. 1 /\ t.epoch \in Nat
      /\ t.udp \in [Ids -> Branches \cup {None}] /\ t.tcp \in [StreamIds -> Branches \cup {None}]
      /\ t.streams \in Int /\ t.gen \in Nat /\ t.gen <= config.epochMax
      /\ t.cached \in [Servers -> 0 .. config.epochMax]
  BY TableFacts
<1>2. config.epochMax \in Nat
  BY ConfigFacts
<1>3. DOMAIN t.cached = Servers
  BY <1>1
<1>4. ClearCookies(t) = [free |-> t.free, front |-> t.front, epoch |-> t.epoch, udp |-> t.udp,
              tcp |-> t.tcp, streams |-> t.streams, gen |-> t.gen, retired |-> t.gen, cached |-> z]
  <2>1. ClearCookies(t) = [[t EXCEPT !.cached = z] EXCEPT !.retired = t.gen]
    BY <1>3 DEF ClearCookies
  <2> HIDE DEF z
  <2> QED BY <1>1, <2>1
<1>5. r = [free |-> t.free, front |-> 1 - t.front, epoch |-> t.epoch + 1, udp |-> t.udp,
           tcp |-> t.tcp, streams |-> t.streams, gen |-> t.gen, retired |-> t.gen, cached |-> z]
  <2> DEFINE c == ClearCookies(t)
             n == t.epoch + 1
             p == 1 - t.front
  <2>1. c = [free |-> t.free, front |-> t.front, epoch |-> t.epoch, udp |-> t.udp,
              tcp |-> t.tcp, streams |-> t.streams, gen |-> t.gen, retired |-> t.gen, cached |-> z]
    BY <1>4
  <2>2. r = [[c EXCEPT !.epoch = c.epoch + 1] EXCEPT !.front = 1 - c.front]
    BY DEF TryRotate
  <2>3. c.epoch = t.epoch /\ c.front = t.front
    BY <2>1
  <2>4. r = [[c EXCEPT !.epoch = n] EXCEPT !.front = p]
    BY <2>2, <2>3
  <2> HIDE DEF z, r, c, n, p
  <2>5. r = [free |-> t.free, front |-> p, epoch |-> n, udp |-> t.udp, tcp |-> t.tcp,
             streams |-> t.streams, gen |-> t.gen, retired |-> t.gen, cached |-> z]
    BY <2>1, <2>4
  <2> QED BY <2>5 DEF n, p
<1>6. z \in [Servers -> 0 .. config.epochMax] /\ \A s \in Servers : z[s] = 0
  BY <1>2
<1> HIDE DEF r, z
<1>7. /\ r.free = t.free /\ r.front = 1 - t.front /\ r.epoch = t.epoch + 1 /\ r.udp = t.udp
      /\ r.tcp = t.tcp /\ r.streams = t.streams /\ r.gen = t.gen /\ r.retired = t.gen
      /\ r.cached = z
  BY <1>5
<1>8. TableShape(r)
  <2>1. r = [free |-> r.free, front |-> r.front, epoch |-> r.epoch, udp |-> r.udp,
             tcp |-> r.tcp, streams |-> r.streams, gen |-> r.gen, retired |-> r.retired,
             cached |-> r.cached]
    BY <1>5, <1>7
  <2>2. /\ r.front \in 0 .. 1 /\ r.epoch \in 0 .. config.epochMax
        /\ r.gen \in 0 .. config.epochMax /\ r.retired \in 0 .. config.epochMax
    BY <1>1, <1>2, <1>7
  <2> QED BY <1>1, <1>6, <1>7, <2>1, <2>2, TableBack
<1>9. PlanesOf(r)
  BY <1>7 DEF PlanesOf
<1>10. WireOK(r, e)
  <2>1. ASSUME NEW m \in e.wire
        PROVE  m.epoch \in Nat /\ m.gen \in Nat /\ m.epoch <= t.epoch /\ m.gen <= t.gen
    BY DEF Messages, WireOK
  <2>2. ASSUME NEW m \in e.wire
        PROVE  m.epoch < r.epoch /\ m.gen <= r.gen /\ m.gen <= r.retired /\ m.epoch # r.epoch
               /\ m.epoch <= r.epoch
    BY <1>1, <1>7, <2>1
  <2>3. r.retired <= r.gen /\ \A s \in Servers : r.cached[s] = 0
    BY <1>1, <1>6, <1>7
  <2> QED BY <2>2, <2>3 DEF WireOK
<1> QED BY <1>7, <1>8, <1>9, <1>10 DEF r

Issue(r, b, id, plane, gen) ==
    [r EXCEPT !.gen = IF gen > @ THEN gen ELSE @, !.free[plane] = @ \ {id}, !.udp[id] = b]

(* An id of the front plane is issued: no datagram on the wire with its id *)
(* is of this epoch, or carries this generation.                           *)
LEMMA IssueGood ==
  ASSUME config \in Configs, NEW r, NEW e, TableShape(r), PlanesOf(r), WireOK(r, e),
         e.wire \subseteq Messages, NEW b \in Branches, NEW id \in r.free[r.front],
         NEW gen \in 0 .. config.epochMax, gen > r.retired
  PROVE  LET u == Issue(r, b, id, r.front, gen)
         IN  /\ TableShape(u) /\ PlanesOf(u) /\ WireOK(u, e) /\ id \in Ids /\ r.udp[id] = None
             /\ u.udp = [r.udp EXCEPT ![id] = b] /\ u.tcp = r.tcp /\ u.streams = r.streams
             /\ u.front = r.front /\ id \notin u.free[u.front]
             /\ u.epoch = r.epoch /\ gen <= u.gen /\ r.gen <= u.gen
             /\ \A m \in e.wire : m.id = id => m.epoch < u.epoch /\ m.gen < gen
<1> DEFINE u == Issue(r, b, id, r.front, gen)
           g == IF gen > r.gen THEN gen ELSE r.gen
           F == [r.free EXCEPT ![r.front] = r.free[r.front] \ {id}]
<1>1. /\ r = [free |-> r.free, front |-> r.front, epoch |-> r.epoch, udp |-> r.udp,
              tcp |-> r.tcp, streams |-> r.streams, gen |-> r.gen, retired |-> r.retired,
              cached |-> r.cached]
      /\ r.free \in [0 .. 1 -> SUBSET Ids] /\ r.front \in 0 .. 1 /\ r.epoch \in Nat
      /\ r.epoch <= config.epochMax
      /\ r.udp \in [Ids -> Branches \cup {None}] /\ r.tcp \in [StreamIds -> Branches \cup {None}]
      /\ r.streams \in Int /\ r.gen \in Nat /\ r.gen <= config.epochMax
      /\ r.retired \in Nat /\ r.retired <= config.epochMax
      /\ r.cached \in [Servers -> 0 .. config.epochMax]
  BY TableFacts
<1>2. config.epochMax \in Nat
  BY ConfigFacts
<1>3. g \in 0 .. config.epochMax /\ gen <= g /\ r.gen <= g
  BY <1>1, <1>2
<1>4. u = [free |-> F, front |-> r.front, epoch |-> r.epoch, udp |-> [r.udp EXCEPT ![id] = b],
           tcp |-> r.tcp, streams |-> r.streams, gen |-> g, retired |-> r.retired,
           cached |-> r.cached]
  <2>1. u = [[[r EXCEPT !.gen = g] EXCEPT !.free = F] EXCEPT !.udp = [r.udp EXCEPT ![id] = b]]
    BY <1>1 DEF Issue
  <2> HIDE DEF u, g, F
  <2> QED BY <1>1, <2>1
<1> HIDE DEF u, g
<1>5. /\ u.free = F /\ u.front = r.front /\ u.epoch = r.epoch /\ u.udp = [r.udp EXCEPT ![id] = b]
      /\ u.tcp = r.tcp /\ u.streams = r.streams /\ u.gen = g /\ u.retired = r.retired
      /\ u.cached = r.cached
  <2> HIDE DEF F
  <2> QED BY <1>4
<1>6. id \in Ids /\ r.udp[id] = None /\ b # None
  BY <1>1, BranchFacts DEF PlanesOf
<1>7. /\ F \in [0 .. 1 -> SUBSET Ids] /\ F[r.front] = r.free[r.front] \ {id}
      /\ \A p \in 0 .. 1 : p # r.front => F[p] = r.free[p]
  BY <1>1
<1> HIDE DEF F
<1>8. TableShape(u)
  <2>1. u = [free |-> u.free, front |-> u.front, epoch |-> u.epoch, udp |-> u.udp,
             tcp |-> u.tcp, streams |-> u.streams, gen |-> u.gen, retired |-> u.retired,
             cached |-> u.cached]
    BY <1>4, <1>5
  <2>2. u.udp \in [Ids -> Branches \cup {None}]
    BY <1>1, <1>5, <1>6
  <2>3. u.epoch \in 0 .. config.epochMax /\ u.retired \in 0 .. config.epochMax
    BY <1>1, <1>2, <1>5
  <2> QED BY <1>1, <1>3, <1>5, <1>7, <2>1, <2>2, <2>3, TableBack
<1>9. PlanesOf(u)
  <2>1. r.front = 0 \/ r.front = 1
    BY <1>1
  <2>2. r.free[0] \cap r.free[1] = {} /\ \A i \in Ids : r.udp[i] = None <=> i \in r.free[0] \cup r.free[1]
    BY DEF PlanesOf
  <2>3. F[0] \cap F[1] = {} /\ F[0] \cup F[1] = (r.free[0] \cup r.free[1]) \ {id}
    <3>1. CASE r.front = 0
      BY <1>7, <2>2, <3>1
    <3>2. CASE r.front = 1
      BY <1>7, <2>2, <3>2
    <3> QED BY <2>1, <3>1, <3>2
  <2>4. ASSUME NEW i \in Ids PROVE u.udp[i] = None <=> i \in F[0] \cup F[1]
    BY <1>1, <1>5, <1>6, <2>2, <2>3
  <2> QED BY <1>5, <2>3, <2>4 DEF PlanesOf
<1>10. ASSUME NEW m \in e.wire
       PROVE  /\ m.epoch \in Nat /\ m.gen \in Nat /\ m.epoch <= r.epoch /\ m.gen <= r.gen
              /\ m.epoch = r.epoch => m.id \notin r.free[r.front]
              /\ m.epoch < r.epoch => m.gen <= r.retired
  BY DEF Messages, WireOK
<1>11. WireOK(u, e)
  <2>1. ASSUME NEW m \in e.wire
        PROVE  /\ m.epoch <= u.epoch /\ m.gen <= u.gen
               /\ m.epoch = u.epoch => m.id \notin u.free[u.front]
               /\ m.epoch < u.epoch => m.gen <= u.retired
    BY <1>1, <1>3, <1>5, <1>7, <1>10
  <2>2. u.retired <= u.gen
    <3>1. r.retired <= r.gen
      BY DEF WireOK
    <3> QED BY <1>1, <1>3, <1>5, <3>1
  <2>3. ASSUME NEW s \in Servers, u.cached[s] # 0
        PROVE  u.retired < u.cached[s] /\ u.cached[s] <= u.gen
    <3>1. r.retired < r.cached[s] /\ r.cached[s] <= r.gen /\ r.cached[s] \in Nat
      BY <1>1, <1>5, <2>3 DEF WireOK
    <3> QED BY <1>1, <1>3, <1>5, <3>1
  <2> QED BY <2>1, <2>2, <2>3 DEF WireOK
<1>12. ASSUME NEW m \in e.wire, m.id = id PROVE m.epoch < u.epoch /\ m.gen < gen
  <2>1. m.epoch # r.epoch
    BY <1>10, <1>12
  <2>2. m.epoch < r.epoch /\ m.gen <= r.retired
    BY <1>1, <1>10, <2>1
  <2> QED BY <1>1, <1>5, <1>10, <2>2
<1>13. id \notin u.free[u.front] /\ gen <= u.gen /\ r.gen <= u.gen
  BY <1>3, <1>5, <1>7
<1> QED BY <1>5, <1>6, <1>8, <1>9, <1>11, <1>12, <1>13 DEF u

(* try_udp: what it leaves of the table, and what it issues.               *)
LEMMA TryUdpFacts ==
  ASSUME config \in Configs, NEW t, NEW e, TableShape(t), PlanesOf(t), WireOK(t, e),
         e.wire \subseteq Messages, NEW b \in Branches, NEW s \in Servers, NEW id \in Offered(t)
  PROVE  LET got == TryUdp(t, b, s, id, config.epochMax)
             u == got.table
             z == got.lease
         IN  /\ TableShape(u) /\ PlanesOf(u) /\ WireOK(u, e)
             /\ t.epoch <= u.epoch /\ t.gen <= u.gen /\ u.tcp = t.tcp /\ u.streams = t.streams
             /\ ~got.ok => u.udp = t.udp
             /\ got.ok =>
                  /\ id \in Ids /\ t.udp[id] = None /\ u.udp = [t.udp EXCEPT ![id] = b]
                  /\ z.kind = "udp" /\ z.id = id /\ z.epoch = u.epoch /\ z.gen \in Nat
                  /\ z.gen <= u.gen /\ id \notin u.free[u.front]
                  /\ \A m \in e.wire : m.id = id => m.epoch < z.epoch /\ m.gen < z.gen
<1> DEFINE max == config.epochMax
           got == TryUdp(t, b, s, id, max)
           plane == IF Rotates(t) THEN 1 - t.front ELSE t.front
           r == IF Rotates(t) THEN TryRotate(t) ELSE t
           gen == IF r.cached[s] # 0 THEN r.cached[s] ELSE r.gen + 1
           v == Issue(r, b, id, plane, gen)
           y == [kind |-> "udp", id |-> id, epoch |-> r.epoch, gen |-> gen]
<1>1. t.epoch \in Nat /\ t.epoch <= max /\ max \in Nat /\ t.gen \in Nat
  BY TableFacts, ConfigFacts
<1>2. /\ Rotates(t) /\ t.epoch = max => got = [ok |-> FALSE, table |-> t]
      /\ ~(Rotates(t) /\ t.epoch = max) /\ gen > max => got = [ok |-> FALSE, table |-> r]
      /\ ~(Rotates(t) /\ t.epoch = max) /\ ~(gen > max) =>
           got = [ok |-> TRUE, table |-> v, lease |-> y]
  BY Zenon DEF TryUdp, Issue
<1>3. /\ Rotates(t) /\ t.epoch = max => ~got.ok /\ got.table = t
      /\ ~(Rotates(t) /\ t.epoch = max) /\ gen > max => ~got.ok /\ got.table = r
      /\ ~(Rotates(t) /\ t.epoch = max) /\ ~(gen > max) =>
           got.ok /\ got.table = v /\ got.lease = y
  <2> DEFINE no == FALSE
             yes == TRUE
  <2>1. ~no /\ yes
    OBVIOUS
  <2>2. /\ Rotates(t) /\ t.epoch = max => got = [ok |-> no, table |-> t]
        /\ ~(Rotates(t) /\ t.epoch = max) /\ gen > max => got = [ok |-> no, table |-> r]
        /\ ~(Rotates(t) /\ t.epoch = max) /\ ~(gen > max) =>
             got = [ok |-> yes, table |-> v, lease |-> y]
    BY <1>2, Zenon
  <2> HIDE DEF got, r, v, y, gen, no, yes
  <2>3. /\ Rotates(t) /\ t.epoch = max => got.ok = no /\ got.table = t
        /\ ~(Rotates(t) /\ t.epoch = max) /\ gen > max => got.ok = no /\ got.table = r
        /\ ~(Rotates(t) /\ t.epoch = max) /\ ~(gen > max) =>
             got.ok = yes /\ got.table = v /\ got.lease = y
    BY <2>2
  <2> QED BY <2>1, <2>3, Zenon
<1>4. ASSUME ~(Rotates(t) /\ t.epoch = max)
      PROVE  /\ TableShape(r) /\ PlanesOf(r) /\ WireOK(r, e)
             /\ r.front = plane /\ r.free = t.free /\ r.udp = t.udp /\ r.tcp = t.tcp
             /\ r.streams = t.streams /\ t.epoch <= r.epoch /\ r.gen = t.gen
             /\ id \in r.free[r.front]
  <2>1. CASE Rotates(t)
    <3>1. t.epoch < config.epochMax
      BY <1>1, <1>4, <2>1
    <3>2. /\ TableShape(TryRotate(t)) /\ PlanesOf(TryRotate(t)) /\ WireOK(TryRotate(t), e)
          /\ TryRotate(t).front = 1 - t.front /\ TryRotate(t).free = t.free
          /\ TryRotate(t).udp = t.udp /\ TryRotate(t).tcp = t.tcp
          /\ TryRotate(t).streams = t.streams /\ TryRotate(t).epoch = t.epoch + 1
          /\ TryRotate(t).gen = t.gen
      BY <3>1, RotateGood
    <3>3. r = TryRotate(t) /\ plane = 1 - t.front
      BY <2>1
    <3> HIDE DEF r, plane
    <3>4. id \in t.free[plane]
      BY <2>1, <3>3 DEF Offered
    <3> QED BY <1>1, <3>2, <3>3, <3>4
  <2>2. CASE ~Rotates(t)
    <3>1. r = t /\ plane = t.front /\ id \in t.free[t.front]
      BY <2>2 DEF Offered
    <3> HIDE DEF r, plane
    <3> QED BY <1>1, <3>1
  <2> QED BY <2>1, <2>2
<1>5. CASE Rotates(t) /\ t.epoch = max
  <2>1. ~got.ok /\ got.table = t
    BY <1>3, <1>5
  <2> HIDE DEF got, max, r, v, y, gen, plane
  <2> QED BY <1>1, <2>1 DEF got, max
<1>6. CASE ~(Rotates(t) /\ t.epoch = max) /\ gen > max
  <2>1. ~got.ok /\ got.table = r
    BY <1>3, <1>6
  <2>2. /\ TableShape(r) /\ PlanesOf(r) /\ WireOK(r, e) /\ r.udp = t.udp /\ r.tcp = t.tcp
        /\ r.streams = t.streams /\ t.epoch <= r.epoch /\ t.gen <= r.gen
    BY <1>1, <1>4, <1>6
  <2> HIDE DEF got, max, r, v, y, gen, plane
  <2> QED BY <2>1, <2>2 DEF got, max
<1>7. CASE ~(Rotates(t) /\ t.epoch = max) /\ ~(gen > max)
  <2>1. got.ok /\ got.table = v /\ got.lease = y
    BY <1>3, <1>7
  <2>2. gen \in 0 .. config.epochMax /\ gen > r.retired
    <3>1. TableShape(r) /\ WireOK(r, e) /\ ~(gen > max)
      BY <1>4, <1>7
    <3>2. gen = IF r.cached[s] # 0 THEN r.cached[s] ELSE r.gen + 1
      OBVIOUS
    <3> HIDE DEF r, gen
    <3>3. r.gen \in Nat /\ r.retired \in Nat /\ r.cached[s] \in Nat
      BY <3>1, TableFacts
    <3>4. r.retired <= r.gen /\ (r.cached[s] # 0 => r.retired < r.cached[s])
      BY <3>1 DEF WireOK
    <3> QED BY <1>1, <3>1, <3>2, <3>3, <3>4
  <2>3. /\ TableShape(r) /\ PlanesOf(r) /\ WireOK(r, e)
        /\ r.front = plane /\ r.udp = t.udp /\ r.tcp = t.tcp
        /\ r.streams = t.streams /\ t.epoch <= r.epoch /\ r.gen = t.gen
        /\ id \in r.free[r.front]
    BY <1>4, <1>7
  <2>4. v = Issue(r, b, id, r.front, gen)
    BY <2>3
  <2>5. y.kind = "udp" /\ y.id = id /\ y.epoch = r.epoch /\ y.gen = gen
    OBVIOUS
  <2> HIDE DEF got, r, v, y, gen, plane
  <2>6. /\ TableShape(v) /\ PlanesOf(v) /\ WireOK(v, e) /\ id \in Ids /\ r.udp[id] = None
        /\ v.udp = [r.udp EXCEPT ![id] = b] /\ v.tcp = r.tcp /\ v.streams = r.streams
        /\ v.front = r.front /\ id \notin v.free[v.front]
        /\ v.epoch = r.epoch /\ gen <= v.gen /\ r.gen <= v.gen
        /\ \A m \in e.wire : m.id = id => m.epoch < v.epoch /\ m.gen < gen
    BY <2>2, <2>3, <2>4, IssueGood
  <2>7. gen \in Nat
    BY <2>2
  <2> HIDE DEF max
  <2> QED BY <2>1, <2>3, <2>5, <2>6, <2>7 DEF got, max
<1> QED BY <1>5, <1>6, <1>7

(* A table that leases the same ids may take the place of another.         *)
LEMMA TableSwap ==
  ASSUME config \in Configs, NEW d, NEW e, NEW S \in SUBSET Branches, NEW x, Good(d, S, x, e),
         NEW u, TableShape(u), PlanesOf(u), WireOK(u, e), u.udp = d.ids.udp, u.tcp = d.ids.tcp,
         u.streams = d.ids.streams, d.ids.epoch <= u.epoch, d.ids.gen <= u.gen
  PROVE  LET v == [d EXCEPT !.ids = u] IN Good(v, S, x, e) /\ v.row = d.row
<1> DEFINE v == [d EXCEPT !.ids = u]
<1>1. Shape(d) /\ TableShape(d.ids) /\ QueuesOf(d, S) /\ LiveOf(d, S, x) /\ IdsOf(d, S) /\ RowsOK(d, S, e)
  BY DEF Good, Shape
<1>2. v = [row |-> d.row, pending |-> d.pending, live |-> d.live, ids |-> u]
  BY <1>1 DEF Shape
<1> HIDE DEF v
<1>3. v.row = d.row /\ v.pending = d.pending /\ v.live = d.live /\ v.ids = u
  BY <1>2
<1>4. Shape(v)
  BY <1>1, <1>2, <1>3 DEF Shape
<1>5. QueuesOf(v, S)
  BY <1>1, <1>3 DEF QueuesOf
<1>6. LiveOf(v, S, x)
  BY <1>1, <1>3 DEF LiveOf, StreamingIn
<1>7. IdsOf(v, S)
  BY <1>1, <1>3 DEF IdsOf, LeasedIn
<1>8. RowsOK(v, S, e)
  <2>1. /\ d.ids.epoch \in Nat /\ d.ids.gen \in Nat /\ v.ids.epoch \in Nat /\ v.ids.gen \in Nat
        /\ d.ids.epoch <= v.ids.epoch /\ d.ids.gen <= v.ids.gen
    BY <1>1, <1>3, TableFacts
  <2> QED BY <1>1, <1>3, <2>1, RowsKept
<1> QED BY <1>3, <1>4, <1>5, <1>6, <1>7, <1>8 DEF Good, v

(* An id issued and given back at once waits for the next epoch.           *)
LEMMA GivenBack ==
  ASSUME config \in Configs, NEW t, NEW u, NEW e, TableShape(t), TableShape(u), PlanesOf(u),
         WireOK(u, e), NEW b \in Branches, NEW z, z.kind = "udp", z.id \in Ids, z.epoch = u.epoch,
         t.udp[z.id] = None, u.udp = [t.udp EXCEPT ![z.id] = b]
  PROVE  LET w == Release(u, z)
         IN  /\ TableShape(w) /\ PlanesOf(w) /\ WireOK(w, e) /\ w.udp = t.udp /\ w.tcp = u.tcp
             /\ w.streams = u.streams /\ w.epoch = u.epoch /\ w.gen = u.gen
<1> DEFINE w == Release(u, z)
           back == 1 - u.front
<1>1. t.udp \in [Ids -> Branches \cup {None}] /\ b # None /\ u.front \in 0 .. 1
      /\ u.free \in [0 .. 1 -> SUBSET Ids]
  BY TableFacts, BranchFacts
<1>2. u.udp[z.id] # None
  BY <1>1
<1>3. /\ TableShape(w) /\ PlanesOf(w) /\ w.udp = [u.udp EXCEPT ![z.id] = None]
      /\ w.free = [u.free EXCEPT ![back] = u.free[back] \cup {z.id}]
      /\ w.tcp = u.tcp /\ w.streams = u.streams /\ w.front = u.front
      /\ w.epoch = u.epoch /\ w.gen = u.gen /\ w.retired = u.retired /\ w.cached = u.cached
  BY <1>2, ReleaseUdp
<1> HIDE DEF w
<1>4. w.udp = t.udp
  BY <1>1, <1>3
<1>5. w.free[w.front] = u.free[u.front]
  BY <1>1, <1>3
<1>6. WireOK(w, e)
  BY <1>3, <1>5 DEF WireOK
<1> QED BY <1>3, <1>4, <1>6 DEF w

(* A claimed branch waits for an answer.                                   *)
LEMMA AttachWaiting ==
  ASSUME config \in Configs, NEW d, NEW e, NEW e2, NEW b \in Branches, NEW a, InHand(d, b, a, e),
         NEW r, r.st = "waiting", r.try = a, NEW u, TableShape(u), NEW v,
         v = [row |-> [d.row EXCEPT ![b] = r], pending |-> d.pending, live |-> d.live, ids |-> u],
         IdsOf(v, Branches), RowsOK(v, Branches, e2), WireOK(u, e2)
  PROVE  Good(v, Branches, 0, e2)
<1> DEFINE S == Branches \ {b}
<1>1. Good(d, S, a.stream, e) /\ Shape(d)
  BY DEF InHand, Good
<1>2. v.row = [d.row EXCEPT ![b] = r] /\ v.pending = d.pending /\ v.live = d.live /\ v.ids = u
  OBVIOUS
<1>3. v.row = [c \in Branches |-> v.row[c]] /\ v.row[b] = r /\ \A c \in S : v.row[c] = d.row[c]
  <2>1. d.row = [c \in Branches |-> d.row[c]]
    BY <1>1 DEF Shape
  <2> QED BY <1>2, <2>1, RowUpdate
<1>4. Shape(v)
  BY <1>1, <1>2, <1>3 DEF Shape
<1>5. LiveOf(v, Branches, 0)
  <2>1. v.row[b].st \in Active /\ v.row[b].try.stream = a.stream
    BY <1>3 DEF Active
  <2>2. LiveOf(d, S, a.stream)
    BY <1>1 DEF Good
  <2> QED BY <1>2, <1>3, <2>1, <2>2, LiveAttach
<1>6. QueuesOf(v, Branches)
  <2>1. QueuesOf(d, S) /\ v.row[b].st # "pending"
    BY <1>1, <1>3 DEF Good
  <2> QED BY <1>2, <1>3, <2>1, QueueAttach
<1> QED BY <1>2, <1>4, <1>5, <1>6 DEF Good

LEMMA LedgerIds ==
  ASSUME NEW d, Shape(d), NEW u, NEW x, x = [d EXCEPT !.ids = u]
  PROVE  x = [row |-> d.row, pending |-> d.pending, live |-> d.live, ids |-> u]
<1>1. d = [row |-> d.row, pending |-> d.pending, live |-> d.live, ids |-> d.ids]
  BY DEF Shape
<1> QED BY <1>1

(* Table u leases an id of table t to branch b, which no datagram on the   *)
(* wire of e has in this epoch.                                            *)
Leases(t, u, z, b, e) ==
    /\ TableShape(u) /\ PlanesOf(u) /\ WireOK(u, e)
    /\ t.epoch <= u.epoch /\ t.gen <= u.gen /\ u.tcp = t.tcp /\ u.streams = t.streams
    /\ z.kind = "udp" /\ z.id \in Ids /\ z.epoch = u.epoch /\ z.gen \in Nat /\ z.gen <= u.gen
    /\ t.udp[z.id] = None /\ u.udp = [t.udp EXCEPT ![z.id] = b] /\ z.id \notin u.free[u.front]
    /\ \A m \in e.wire : m.id = z.id => m.epoch < z.epoch /\ m.gen < z.gen

Carries(n, z) == n.id = z.id /\ n.epoch = z.epoch /\ n.gen = z.gen /\ n.serial = serial

Puts(e, e2, n) ==
    /\ e2.slot = e.slot /\ e2.lanes = e.lanes /\ e2.link = e.link /\ e2.reqs = e.reqs
    /\ e2.wire = e.wire \cup {n}

LEMMA AttachUdp ==
  ASSUME config \in Configs, NEW d, NEW e, NEW e2, NEW b \in Branches, NEW a, InHand(d, b, a, e),
         a.stream = 0, NEW u, NEW z, Leases(d.ids, u, z, b, e), NEW n, Carries(n, z),
         Puts(e, e2, n)
  PROVE  Good(Waiting([d EXCEPT !.ids = u], b, a, z), Branches, 0, e2)
<1> DEFINE x == [d EXCEPT !.ids = u]
           r == [st |-> "waiting", try |-> a, lease |-> z, serial |-> serial]
           v == Waiting(x, b, a, z)
<1>21. r.st = "waiting" /\ r.try = a /\ r.lease = z /\ r.serial = n.serial
  BY DEF Carries
<1>22. v = [x EXCEPT !.row[b] = r]
  BY DEF Waiting
<1>23. x = [d EXCEPT !.ids = u] /\ Shape(d)
  BY DEF InHand, Good
<1> HIDE DEF x, r, v
<1>24. v = [row |-> [d.row EXCEPT ![b] = r], pending |-> d.pending, live |-> d.live, ids |-> u]
  <2> DEFINE q == [d.row EXCEPT ![b] = r]
  <2>1. x = [row |-> d.row, pending |-> d.pending, live |-> d.live, ids |-> u]
    BY <1>23, LedgerIds
  <2>2. x.row = d.row
    BY <2>1
  <2>3. v = [x EXCEPT !.row = q]
    BY <1>22, <2>2
  <2> HIDE DEF q
  <2>4. v = [row |-> q, pending |-> d.pending, live |-> d.live, ids |-> u]
    BY <2>1, <2>3
  <2> QED BY <2>4 DEF q
<1> SUFFICES Good(v, Branches, 0, e2)
  BY DEF v, x
<1>25. /\ TableShape(u) /\ PlanesOf(u) /\ WireOK(u, e)
      /\ d.ids.epoch <= u.epoch /\ d.ids.gen <= u.gen /\ u.tcp = d.ids.tcp
      /\ u.streams = d.ids.streams
      /\ z.kind = "udp" /\ z.id \in Ids /\ z.epoch = u.epoch /\ z.gen \in Nat /\ z.gen <= u.gen
      /\ d.ids.udp[z.id] = None /\ u.udp = [d.ids.udp EXCEPT ![z.id] = b]
      /\ z.id \notin u.free[u.front]
      /\ \A m \in e.wire : m.id = z.id => m.epoch < z.epoch /\ m.gen < z.gen
  BY DEF Leases
<1>26. n.id = z.id /\ n.epoch = z.epoch /\ n.gen = z.gen
  BY DEF Carries
<1>27. /\ e2.slot = e.slot /\ e2.lanes = e.lanes /\ e2.link = e.link /\ e2.reqs = e.reqs
      /\ e2.wire = e.wire \cup {n}
  BY DEF Puts
<1> USE <1>21, <1>24, <1>25, <1>26, <1>27
<1> DEFINE S == Branches \ {b}
           t == d.ids
<1>1. /\ Good(d, S, 0, e) /\ Shape(d) /\ Fits(a, b, e) /\ TableShape(t)
      /\ IdsOf(d, S) /\ RowsOK(d, S, e)
  BY DEF InHand, Good, Shape
<1>2. v.row = [d.row EXCEPT ![b] = r] /\ v.ids = u
  OBVIOUS
<1>3. v.row[b] = r /\ \A c \in S : v.row[c] = d.row[c]
  <2>1. d.row = [c \in Branches |-> d.row[c]]
    BY <1>1 DEF Shape
  <2> QED BY <1>2, <2>1, RowUpdate
<1>4. b # None /\ t.udp \in [Ids -> Branches \cup {None}] /\ \A c \in Branches : c # None
  BY <1>1, TableFacts, BranchFacts
<1>5. IdsOf(v, Branches)
  <2>1. LeasedIn(v, Branches, "tcp") = LeasedIn(d, S, "tcp")
    BY <1>3 DEF LeasedIn
  <2>2. ASSUME NEW i \in Ids, NEW c \in Branches
        PROVE  u.udp[i] = c <=> c \in LeasedIn(v, Branches, "udp") /\ v.row[c].lease.id = i
    <3>1. CASE c = b
      <4>1. t.udp[i] # b
        BY <1>1 DEF IdsOf, LeasedIn
      <4>2. u.udp[i] = c <=> i = z.id
        BY <1>4, <3>1, <4>1
      <4>3. c \in LeasedIn(v, Branches, "udp") /\ v.row[c].lease.id = z.id
        BY <1>3, <3>1 DEF LeasedIn
      <4> QED BY <4>2, <4>3
    <3>2. CASE c # b
      <4>1. u.udp[i] = c <=> t.udp[i] = c
        BY <1>4, <3>2
      <4>2. t.udp[i] = c <=> c \in LeasedIn(d, S, "udp") /\ d.row[c].lease.id = i
        BY <1>1 DEF IdsOf
      <4>3. v.row[c] = d.row[c] /\ (c \in LeasedIn(d, S, "udp") <=> c \in LeasedIn(v, Branches, "udp"))
        BY <1>3, <3>2 DEF LeasedIn
      <4> QED BY <4>1, <4>2, <4>3
    <3> QED BY <3>1, <3>2
  <2>3. ASSUME NEW i \in StreamIds, NEW c \in Branches
        PROVE  u.tcp[i] = c <=> c \in LeasedIn(v, Branches, "tcp") /\ v.row[c].lease.id = i
    <3>1. t.tcp[i] = c <=> c \in LeasedIn(d, S, "tcp") /\ d.row[c].lease.id = i
      BY <1>1 DEF IdsOf
    <3>2. c \in LeasedIn(d, S, "tcp") => v.row[c] = d.row[c]
      BY <1>3 DEF LeasedIn
    <3> QED BY <2>1, <3>1, <3>2
  <2>4. u.streams = Cardinality(LeasedIn(v, Branches, "tcp"))
    BY <1>1, <2>1 DEF IdsOf
  <2>5. PlanesOf(v.ids)
    BY <1>2
  <2>6. ASSUME NEW i \in Ids, NEW c \in Branches
        PROVE  v.ids.udp[i] = c <=> c \in LeasedIn(v, Branches, "udp") /\ v.row[c].lease.id = i
    BY <1>2, <2>2
  <2>8. ASSUME NEW i \in StreamIds, NEW c \in Branches
        PROVE  v.ids.tcp[i] = c <=> c \in LeasedIn(v, Branches, "tcp") /\ v.row[c].lease.id = i
    BY <1>2, <2>3
  <2>7. v.ids.streams = Cardinality(LeasedIn(v, Branches, "tcp"))
    BY <1>2, <2>4
  <2> QED BY <2>5, <2>6, <2>7, <2>8, Zenon DEF IdsOf
<1>6. RowsOK(v, Branches, e2)
  <2>1. ASSUME NEW c \in S PROVE RowOK(v.row[c], c, e2) /\ UdpOK(v.row[c], u, e2) /\ TcpOK(v.row[c], c, e2)
    <3>1. RowOK(v.row[c], c, e) /\ UdpOK(v.row[c], t, e) /\ TcpOK(v.row[c], c, e)
      BY <1>1, <1>3 DEF RowsOK
    <3>2. RowOK(v.row[c], c, e2)
      BY <3>1 DEF RowOK, Fits
    <3>3. TcpOK(v.row[c], c, e2)
      BY <3>1 DEF TcpOK
    <3>4. UdpOK(v.row[c], u, e2)
      <4> SUFFICES ASSUME v.row[c].st = "waiting", v.row[c].lease.kind = "udp"
                   PROVE  UdpOK(v.row[c], u, e2)
        BY DEF UdpOK
      <4>1. v.row[c].lease.id \in Ids /\ v.row[c].lease.epoch \in Nat /\ v.row[c].lease.gen \in Nat
        BY <3>1 DEF RowOK
      <4>2. t.udp[v.row[c].lease.id] = c
        BY <1>1, <1>3, <4>1 DEF IdsOf, LeasedIn
      <4>3. v.row[c].lease.id # n.id
        BY <1>4, <4>2
      <4>4. t.epoch \in Nat /\ u.epoch \in Nat /\ t.gen \in Nat /\ u.gen \in Nat
        BY <1>1, TableFacts
      <4>5. v.row[c].lease.epoch <= t.epoch /\ v.row[c].lease.gen <= t.gen
        BY <3>1 DEF UdpOK
      <4>6. v.row[c].lease.epoch <= u.epoch /\ v.row[c].lease.gen <= u.gen
        BY <4>1, <4>4, <4>5
      <4> QED BY <3>1, <4>3, <4>6 DEF UdpOK
    <3> QED BY <3>2, <3>3, <3>4
  <2>2. RowOK(r, b, e2)
    <3>1. z.epoch \in Nat
      BY TableFacts
    <3> QED BY <1>1, <3>1 DEF RowOK, Fits, Active
  <2>3. UdpOK(r, u, e2)
    <3>1. z.epoch <= u.epoch
      BY TableFacts
    <3> QED BY <3>1 DEF UdpOK
  <2>4. TcpOK(r, b, e2)
    BY DEF TcpOK
  <2> QED BY <1>2, <1>3, <2>1, <2>2, <2>3, <2>4 DEF RowsOK
<1>7. WireOK(u, e2)
  <2>1. u.epoch \in Nat /\ u.gen \in Nat
    BY TableFacts
  <2>2. n.epoch <= u.epoch /\ n.gen <= u.gen /\ n.id \notin u.free[u.front] /\ ~(n.epoch < u.epoch)
    BY <2>1
  <2> QED BY <2>2 DEF WireOK
<1> QED BY <1>5, <1>6, <1>7, AttachWaiting
-----------------------------------------------------------------------------
(* The steps: a datagram is submitted.                                     *)

(* What AdmitUdp has in hand: the branch at the front of the socket's      *)
(* queue, and the table with or without a new lease.                       *)
LEMMA AdmitFacts ==
  ASSUME IInv, Ready(0), NEW id \in Offered(led.ids)
  PROVE  LET b == Front(0)
             a == led.row[b].try
             got == TryUdp(led.ids, b, a.srv, id, config.epochMax)
             u == got.table
             z == got.lease
         IN  /\ b \in Branches /\ LaneOf(b) \in Lanes /\ a.stream = 0 /\ a \in Attempts
             /\ InHand(Take(0), b, a, Env) /\ Take(0).ids = led.ids
             /\ TableShape(u) /\ PlanesOf(u) /\ WireOK(u, Env)
             /\ led.ids.epoch <= u.epoch /\ led.ids.gen <= u.gen
             /\ u.tcp = led.ids.tcp /\ u.streams = led.ids.streams
             /\ ~got.ok => u.udp = led.ids.udp
             /\ got.ok =>
                  /\ id \in Ids /\ led.ids.udp[id] = None /\ u.udp = [led.ids.udp EXCEPT ![id] = b]
                  /\ z.kind = "udp" /\ z.id = id /\ z.epoch = u.epoch /\ z.gen \in Nat
                  /\ z.gen <= u.gen /\ id \notin u.free[u.front]
                  /\ \A m \in Env.wire : m.id = id => m.epoch < z.epoch /\ m.gen < z.gen
<1> DEFINE b == Front(0)
           a == led.row[b].try
           t == led.ids
<1>0. config \in Configs /\ Good(led, Branches, 0, Env) /\ Env.wire \subseteq Messages
  BY DEF IInv, NetInv, Env
<1>1. Plane(0) # {}
  BY DEF Ready
<1>2. /\ b \in Branches /\ LaneOf(b) \in Lanes /\ a.stream = 0
      /\ InHand(Take(0), b, a, Env) /\ Take(0).ids = t
  BY <1>1, FrontFacts
<1>3. a \in Attempts /\ a.srv \in Servers
  BY <1>0, <1>2, AttemptFacts DEF InHand, Fits
<1>4. TableShape(t) /\ PlanesOf(t) /\ WireOK(t, Env)
  BY <1>0 DEF Good, Shape, IdsOf
<1> DEFINE s == a.srv
           got == TryUdp(t, b, s, id, config.epochMax)
           u == got.table
           z == got.lease
<1>5. id \in Offered(t) /\ s \in Servers
  BY <1>3
<1> HIDE DEF b, s, t
<1>6. /\ TableShape(u) /\ PlanesOf(u) /\ WireOK(u, Env)
      /\ t.epoch <= u.epoch /\ t.gen <= u.gen /\ u.tcp = t.tcp /\ u.streams = t.streams
      /\ ~got.ok => u.udp = t.udp
      /\ got.ok =>
           /\ id \in Ids /\ t.udp[id] = None /\ u.udp = [t.udp EXCEPT ![id] = b]
           /\ z.kind = "udp" /\ z.id = id /\ z.epoch = u.epoch /\ z.gen \in Nat
           /\ z.gen <= u.gen /\ id \notin u.free[u.front]
           /\ \A m \in Env.wire : m.id = id => m.epoch < z.epoch /\ m.gen < z.gen
  BY <1>0, <1>2, <1>4, <1>5, TryUdpFacts
<1> HIDE DEF got, u, z, a
<1>7. /\ b \in Branches /\ LaneOf(b) \in Lanes /\ a.stream = 0 /\ a \in Attempts
      /\ InHand(Take(0), b, a, Env) /\ Take(0).ids = t
      /\ TableShape(u) /\ PlanesOf(u) /\ WireOK(u, Env)
      /\ t.epoch <= u.epoch /\ t.gen <= u.gen
      /\ u.tcp = t.tcp /\ u.streams = t.streams
      /\ ~got.ok => u.udp = t.udp
      /\ got.ok =>
           /\ id \in Ids /\ t.udp[id] = None /\ u.udp = [t.udp EXCEPT ![id] = b]
           /\ z.kind = "udp" /\ z.id = id /\ z.epoch = u.epoch /\ z.gen \in Nat
           /\ z.gen <= u.gen /\ id \notin u.free[u.front]
           /\ \A m \in Env.wire : m.id = id => m.epoch < z.epoch /\ m.gen < z.gen
  BY <1>2, <1>3, <1>6
<1> QED BY <1>7, Zenon DEF b, a, t, s, got, u, z

LEMMA SwapInHand ==
  ASSUME config \in Configs, NEW d, NEW e, NEW b \in Branches, NEW a, InHand(d, b, a, e),
         NEW u, TableShape(u), PlanesOf(u), WireOK(u, e), u.udp = d.ids.udp, u.tcp = d.ids.tcp,
         u.streams = d.ids.streams, d.ids.epoch <= u.epoch, d.ids.gen <= u.gen
  PROVE  InHand([d EXCEPT !.ids = u], b, a, e)
<1>1. Good(d, Branches \ {b}, a.stream, e) /\ Fits(a, b, e)
  BY DEF InHand
<1>2. Branches \ {b} \in SUBSET Branches
  OBVIOUS
<1>3. Good([d EXCEPT !.ids = u], Branches \ {b}, a.stream, e)
  BY <1>1, <1>2, TableSwap
<1> QED BY <1>1, <1>3 DEF InHand

LEMMA FinishStep ==
  ASSUME IInv, NEW b \in Branches, NEW d, NEW a, InHand(d, b, a, Env),
         Settle(Finish(d, b, a), LaneOf(b)),
         UNCHANGED <<config, now, lanes, sends, wire, link, frames, asked, serial>>
  PROVE  IInv'
<1>1. config \in Configs /\ LaneOf(b) \in Lanes /\ sends' \subseteq sends
  BY BranchFacts DEF IInv, NetInv
<1>2. Good(Finish(d, b, a), Branches, 0, Env)
  BY <1>1, FinishGood
<1> DEFINE l == LaneOf(b)
           v == Finish(d, b, a)
<1>3. l \in Lanes /\ Good(v, Branches, 0, Env) /\ Settle(v, l)
  BY <1>1, <1>2
<1> HIDE DEF l, v
<1> QED BY <1>1, <1>3, SettleInv

LEMMA AdmitUdpStep ==
  ASSUME IInv, NEW outcome, AdmitUdp(outcome), UNCHANGED config
  PROVE  IInv'
<1> DEFINE b == Front(0)
           a == led.row[b].try
           d0 == Take(0)
           t == led.ids
<1>0. /\ config \in Configs /\ Good(led, Branches, 0, Env) /\ NetInv /\ LinkInv /\ SlotInv
      /\ config.maxSubmits \in Nat /\ serial \in 0 .. config.maxSubmits
  BY ConfigFacts DEF IInv, NetInv, SlotInv
<1>1. UNCHANGED <<now, lanes, link, frames, asked>> /\ Ready(0)
  BY DEF AdmitUdp
<1> DEFINE got(id) == TryUdp(t, b, a.srv, id, config.epochMax)
           d(id) == [d0 EXCEPT !.ids = got(id).table]
           m(id) == [id |-> id, epoch |-> got(id).lease.epoch, gen |-> got(id).lease.gen,
                     srv |-> a.srv, hops |-> a.hops, fam |-> (b % 2), serial |-> serial]
<1>2. PICK id \in Offered(t) :
        \/ /\ ~got(id).ok
           /\ Settle(Finish(d(id), b, a), LaneOf(b))
           /\ UNCHANGED <<sends, wire, serial>>
        \/ /\ got(id).ok /\ outcome = "Committed" /\ serial < config.maxSubmits
           /\ led' = Waiting(d(id), b, a, got(id).lease)
           /\ sends' = sends \cup {m(id)} /\ wire' = wire \cup {m(id)}
           /\ serial' = serial + 1
           /\ UNCHANGED slot
        \/ /\ got(id).ok /\ outcome = "Deferred"
           /\ led' = [led EXCEPT !.ids = Release(got(id).table, got(id).lease)]
           /\ UNCHANGED <<slot, sends, wire, serial>>
        \/ /\ got(id).ok /\ outcome = "Failed"
           /\ Settle(Finish([d(id) EXCEPT !.ids = Release(d(id).ids, got(id).lease)], b, a),
                     LaneOf(b))
           /\ UNCHANGED <<sends, wire, serial>>
  BY Zenon DEF AdmitUdp
<1> DEFINE u == got(id).table
           z == got(id).lease
           ok == got(id).ok
           n == m(id)
           x == d(id)
           w == Release(u, z)
<1>3. /\ b \in Branches /\ LaneOf(b) \in Lanes /\ a.stream = 0 /\ a \in Attempts
      /\ InHand(d0, b, a, Env) /\ d0.ids = t
      /\ TableShape(u) /\ PlanesOf(u) /\ WireOK(u, Env)
      /\ t.epoch <= u.epoch /\ t.gen <= u.gen
      /\ u.tcp = t.tcp /\ u.streams = t.streams
      /\ ~ok => u.udp = t.udp
      /\ ok =>
           /\ id \in Ids /\ t.udp[id] = None /\ u.udp = [t.udp EXCEPT ![id] = b]
           /\ z.kind = "udp" /\ z.id = id /\ z.epoch = u.epoch /\ z.gen \in Nat
           /\ z.gen <= u.gen /\ id \notin u.free[u.front]
           /\ \A y \in Env.wire : y.id = id => y.epoch < z.epoch /\ y.gen < z.gen
  BY <1>1, AdmitFacts, Zenon
<1>4. x = [d0 EXCEPT !.ids = u]
  OBVIOUS
<1>5. /\ n.id = id /\ n.epoch = z.epoch /\ n.gen = z.gen /\ n.serial = serial
      /\ n = [id |-> id, epoch |-> z.epoch, gen |-> z.gen, srv |-> a.srv, hops |-> a.hops,
              fam |-> (b % 2), serial |-> serial]
  OBVIOUS
<1>6. \/ ~ok /\ Settle(Finish(x, b, a), LaneOf(b)) /\ UNCHANGED <<sends, wire, serial>>
      \/ /\ ok /\ serial < config.maxSubmits /\ led' = Waiting(x, b, a, z)
         /\ sends' = sends \cup {n} /\ wire' = wire \cup {n}
         /\ serial' = serial + 1 /\ UNCHANGED slot
      \/ /\ ok /\ led' = [led EXCEPT !.ids = w] /\ UNCHANGED <<slot, sends, wire, serial>>
      \/ /\ ok /\ Settle(Finish([x EXCEPT !.ids = Release(x.ids, z)], b, a), LaneOf(b))
         /\ UNCHANGED <<sends, wire, serial>>
  BY <1>2, Zenon
<1> HIDE DEF b, a, d0, t, u, z, ok, n, x
<1>7. CASE ~ok /\ Settle(Finish(x, b, a), LaneOf(b)) /\ UNCHANGED <<sends, wire, serial>>
  <2>1. InHand(x, b, a, Env)
    BY <1>0, <1>3, <1>4, <1>7, SwapInHand
  <2> QED BY <1>1, <1>3, <1>7, <2>1, FinishStep
<1>8. ASSUME ok
      PROVE  /\ TableShape(w) /\ PlanesOf(w) /\ WireOK(w, Env) /\ w.udp = t.udp /\ w.tcp = t.tcp
             /\ w.streams = t.streams /\ t.epoch <= w.epoch /\ t.gen <= w.gen
  <2>1. TableShape(t)
    BY <1>0 DEF Good, Shape, t
  <2>2. /\ z.id \in Ids /\ z.kind = "udp" /\ z.epoch = u.epoch /\ t.udp[z.id] = None
        /\ u.udp = [t.udp EXCEPT ![z.id] = b]
    BY <1>3, <1>8
  <2>3. /\ TableShape(w) /\ PlanesOf(w) /\ WireOK(w, Env) /\ w.udp = t.udp /\ w.tcp = u.tcp
        /\ w.streams = u.streams /\ w.epoch = u.epoch /\ w.gen = u.gen
    BY <1>0, <1>3, <2>1, <2>2, GivenBack
  <2> HIDE DEF w
  <2> QED BY <1>3, <2>3
<1>9. CASE ok /\ led' = [led EXCEPT !.ids = w] /\ UNCHANGED <<slot, sends, wire, serial>>
  <2> HIDE DEF w
  <2>1. /\ TableShape(w) /\ PlanesOf(w) /\ WireOK(w, Env) /\ w.udp = led.ids.udp
        /\ w.tcp = led.ids.tcp /\ w.streams = led.ids.streams
        /\ led.ids.epoch <= w.epoch /\ led.ids.gen <= w.gen
    BY <1>8, <1>9 DEF t
  <2>2. Good(led', Branches, 0, Env)
    <3>1. Branches \in SUBSET Branches
      OBVIOUS
    <3> QED BY <1>0, <1>9, <2>1, <3>1, TableSwap
  <2>3. SlotInv' /\ Env' = Env
    BY <1>0, <1>1, <1>9, SlotSame DEF Env
  <2>4. NetInv' /\ LinkInv'
    <3>1. now' \in 0 .. config.maxTime /\ lanes' \in [Lanes -> {"free", "held", "cancelled"}]
          /\ sends' \subseteq sends
      BY <1>0, <1>1, <1>9 DEF NetInv
    <3> QED BY <1>0, <1>1, <1>9, <2>3, <3>1, NetKept
  <2> QED BY <2>2, <2>3, <2>4, GoodNext DEF IInv
<1>10. CASE /\ ok /\ Settle(Finish([x EXCEPT !.ids = Release(x.ids, z)], b, a), LaneOf(b))
            /\ UNCHANGED <<sends, wire, serial>>
  <2>1. Shape(d0)
    BY <1>3 DEF InHand, Good
  <2>2. x = [row |-> d0.row, pending |-> d0.pending, live |-> d0.live, ids |-> u]
    BY <1>3, <1>4, <2>1, LedgerIds
  <2>3. x.ids = u
    BY <2>2
  <2>4. [x EXCEPT !.ids = Release(x.ids, z)] = [x EXCEPT !.ids = w]
    BY <2>3
  <2> HIDE DEF w
  <2>5. [x EXCEPT !.ids = w] = [d0 EXCEPT !.ids = w]
    BY <2>1, <2>2 DEF Shape
  <2>6. InHand([d0 EXCEPT !.ids = w], b, a, Env)
    BY <1>0, <1>3, <1>8, <1>10, SwapInHand
  <2>7. Settle(Finish([d0 EXCEPT !.ids = w], b, a), LaneOf(b))
    BY <1>10, <2>4, <2>5
  <2> QED BY <1>1, <1>3, <1>10, <2>6, <2>7, FinishStep
<1>11. CASE /\ ok /\ serial < config.maxSubmits /\ led' = Waiting(x, b, a, z)
            /\ sends' = sends \cup {n} /\ wire' = wire \cup {n}
            /\ serial' = serial + 1 /\ UNCHANGED slot
  <2> DEFINE e2 == Env'
  <2> HIDE DEF w
  <2>1. Puts(Env, e2, n)
    BY <1>1, <1>11 DEF Env, Puts
  <2> HIDE DEF e2
  <2>2. Carries(n, z)
    BY <1>3, <1>5, <1>11 DEF Carries
  <2>3. Leases(d0.ids, u, z, b, Env)
    BY <1>3, <1>11 DEF Leases
  <2>4. Good(Waiting([d0 EXCEPT !.ids = u], b, a, z), Branches, 0, e2)
    BY <1>0, <1>3, <2>1, <2>2, <2>3, AttachUdp
  <2>6. Good(led', Branches, 0, e2)
    BY <1>4, <1>11, <2>4
  <2>7. SlotInv'
    BY <1>0, <1>11, SlotSame
  <2>8. NetInv'
    <3>1. n \in Messages
      <4>1. a.srv \in Servers /\ a.hops \in Nat /\ (b % 2) \in 0 .. 1 /\ id \in Ids
        <5>1. b \in Nat
          BY <1>0, <1>3, BranchFacts
        <5> QED BY <1>0, <1>3, <1>11, <5>1, AttemptFacts
      <4>2. z.epoch \in Nat /\ z.gen \in Nat /\ serial \in Nat
        BY <1>0, <1>3, <1>11, TableFacts
      <4> DEFINE fam == b % 2
      <4> HIDE DEF fam
      <4>3. fam \in 0 .. 1
        BY <4>1 DEF fam
      <4>4. n = [id |-> id, epoch |-> z.epoch, gen |-> z.gen, srv |-> a.srv, hops |-> a.hops,
                 fam |-> fam, serial |-> serial]
        BY <1>5 DEF fam
      <4> QED BY <4>1, <4>2, <4>3, <4>4 DEF Messages
    <3>2. /\ wire \subseteq Messages /\ sends \subseteq wire
          /\ frames \subseteq [id : StreamIds, serial : Nat]
          /\ asked \subseteq [id : StreamIds, serial : Nat]
      BY <1>0 DEF NetInv
    <3>3. /\ wire' \subseteq Messages /\ sends' \subseteq wire'
          /\ serial' \in 0 .. config.maxSubmits
          /\ frames' \subseteq [id : StreamIds, serial : Nat]
          /\ asked' \subseteq [id : StreamIds, serial : Nat]
      BY <1>0, <1>1, <1>11, <3>1, <3>2
    <3> QED BY <1>0, <1>1, <2>7, <3>3, NetNext
  <2>9. LinkInv'
    <3>1. Servers' = Servers /\ StreamIds' = StreamIds
      BY ConfigFrame
    <3> QED BY <1>0, <1>1, <3>1 DEF LinkInv, Used
  <2> QED BY <2>6, <2>8, <2>9, GoodNext DEF IInv, e2
<1> QED BY <1>6, <1>7, <1>9, <1>10, <1>11
-----------------------------------------------------------------------------
(* The steps: a stream request is submitted.                               *)

(* A connection's identities differ until all have been issued.            *)
LEMMA UsedFacts ==
  ASSUME config \in Configs, NEW k, k.start \in StreamIds, k.issued \in 0 .. config.streamIds - 1,
         NEW k2, k2.start = k.start, k2.issued = k.issued + 1
  PROVE  LET i == (k.start + k.issued) % config.streamIds
         IN  i \in StreamIds /\ i \notin Used(k) /\ Used(k2) = Used(k) \cup {i}
<1> DEFINE n == config.streamIds
           s == k.start
           c == k.issued
<1>1. n \in Nat \ {0} /\ s \in 0 .. n - 1 /\ c \in 0 .. n - 1
  BY ConfigFacts DEF StreamIds
<1>2. Used(k) = {(s + j) % n : j \in 0 .. c - 1} /\ Used(k2) = {(s + j) % n : j \in 0 .. (c + 1) - 1}
  BY DEF Used
<1>3. StreamIds = 0 .. n - 1
  BY DEF StreamIds
<1> DEFINE i == (s + c) % n
<1> HIDE DEF n, s, c
<1>4. \A x \in Nat : x < n => x % n = x
  BY <1>1
<1>5. \A x \in Nat : x >= n /\ x < 2 * n => x % n = x - n
  BY <1>1
<1>6. i \in 0 .. n - 1
  BY <1>1
<1>7. ASSUME NEW j \in 0 .. c - 1 PROVE (s + j) % n # i
  <2> DEFINE x == s + j
             y == s + c
  <2>1. x \in Nat /\ y \in Nat /\ x < y /\ y < x + n /\ y < 2 * n /\ x < 2 * n
    BY <1>1
  <2> HIDE DEF x, y
  <2>2. x % n = x \/ (x % n = x - n /\ x >= n)
    BY <1>1, <1>4, <1>5, <2>1
  <2>3. (y % n = y /\ y < n) \/ y % n = y - n
    BY <1>1, <1>4, <1>5, <2>1
  <2>4. x % n # y % n
    BY <1>1, <2>1, <2>2, <2>3
  <2> QED BY <2>4 DEF x, y
<1>8. 0 .. (c + 1) - 1 = (0 .. c - 1) \cup {c}
  BY <1>1
<1> HIDE DEF i
<1>9. i \notin Used(k)
  BY <1>2, <1>7
<1>10. Used(k2) = Used(k) \cup {i}
  <2>1. {(s + j) % n : j \in (0 .. c - 1) \cup {c}} = {(s + j) % n : j \in 0 .. c - 1} \cup {(s + c) % n}
    OBVIOUS
  <2> QED BY <1>2, <1>8, <2>1 DEF i
<1> QED BY <1>3, <1>6, <1>9, <1>10 DEF i, s, c, n

Streams(t, u, z, b) ==
    /\ TableShape(u) /\ PlanesOf(u) /\ z.kind = "tcp" /\ z.id \in StreamIds /\ t.tcp[z.id] = None
    /\ u.tcp = [t.tcp EXCEPT ![z.id] = b] /\ u.streams = t.streams + 1
    /\ u.free = t.free /\ u.udp = t.udp /\ u.front = t.front /\ u.epoch = t.epoch /\ u.gen = t.gen
    /\ u.retired = t.retired /\ u.cached = t.cached

LEMMA TryTcpFacts ==
  ASSUME config \in Configs, NEW t, TableShape(t), PlanesOf(t), NEW b \in Branches,
         NEW id \in StreamIds
  PROVE  LET got == TryTcp(t, b, id)
         IN  /\ ~got.ok => got.table = t
             /\ got.ok => got.lease.id = id /\ Streams(t, got.table, got.lease, b)
             /\ got.ok <=> t.tcp[id] = None
<1> DEFINE got == TryTcp(t, b, id)
           T == [t.tcp EXCEPT ![id] = b]
           n == t.streams + 1
           u == [t EXCEPT !.tcp[id] = b, !.streams = @ + 1]
           z == [kind |-> "tcp", id |-> id]
           no == FALSE
           yes == TRUE
<1>1. /\ t.tcp[id] # None => got = [ok |-> no, table |-> t]
      /\ t.tcp[id] = None => got = [ok |-> yes, table |-> u, lease |-> z]
  BY Zenon DEF TryTcp
<1>2. ~no /\ yes
  OBVIOUS
<1>3. z.kind = "tcp" /\ z.id = id
  OBVIOUS
<1>4. /\ t = [free |-> t.free, front |-> t.front, epoch |-> t.epoch, udp |-> t.udp,
              tcp |-> t.tcp, streams |-> t.streams, gen |-> t.gen, retired |-> t.retired,
              cached |-> t.cached]
      /\ t.streams \in Int /\ t.tcp \in [StreamIds -> Branches \cup {None}]
  BY TableFacts
<1>5. u = [free |-> t.free, front |-> t.front, epoch |-> t.epoch, udp |-> t.udp,
           tcp |-> T, streams |-> n, gen |-> t.gen, retired |-> t.retired,
           cached |-> t.cached]
  <2>1. u = [[t EXCEPT !.tcp = T] EXCEPT !.streams = n]
    BY <1>4
  <2> HIDE DEF u, T, n
  <2> QED BY <1>4, <2>1
<1>6. n \in Int /\ T \in [StreamIds -> Branches \cup {None}]
  BY <1>4
<1> HIDE DEF got, u, z, no, yes, T, n
<1>7. /\ t.tcp[id] # None => got.ok = no /\ got.table = t
      /\ t.tcp[id] = None => got.ok = yes /\ got.table = u /\ got.lease = z
  BY <1>1
<1>8. /\ t.tcp[id] # None => ~got.ok /\ got.table = t
      /\ t.tcp[id] = None => got.ok /\ got.table = u /\ got.lease = z
  BY <1>2, <1>7, Zenon
<1>9. /\ u.tcp = T /\ u.streams = n
      /\ u.free = t.free /\ u.udp = t.udp /\ u.front = t.front /\ u.epoch = t.epoch
      /\ u.gen = t.gen /\ u.retired = t.retired /\ u.cached = t.cached
  BY <1>5
<1>10. TableShape(u)
  <2>1. u = [free |-> u.free, front |-> u.front, epoch |-> u.epoch, udp |-> u.udp,
             tcp |-> u.tcp, streams |-> u.streams, gen |-> u.gen, retired |-> u.retired,
             cached |-> u.cached]
    BY <1>5, <1>9
  <2>2. /\ t.epoch \in 0 .. config.epochMax /\ t.gen \in 0 .. config.epochMax
        /\ t.retired \in 0 .. config.epochMax /\ t.free \in [0 .. 1 -> SUBSET Ids]
        /\ t.front \in 0 .. 1 /\ t.udp \in [Ids -> Branches \cup {None}]
        /\ t.cached \in [Servers -> 0 .. config.epochMax]
    BY DEF TableShape
  <2> QED BY <1>6, <1>9, <2>1, <2>2, TableBack
<1>11. PlanesOf(u)
  BY <1>9 DEF PlanesOf
<1>12. t.tcp[id] = None => Streams(t, u, z, b)
  BY <1>3, <1>9, <1>10, <1>11 DEF Streams, T, n
<1>13. /\ ~got.ok => got.table = t
       /\ got.ok => got.lease.id = id /\ Streams(t, got.table, got.lease, b)
       /\ got.ok <=> t.tcp[id] = None
  BY <1>3, <1>8, <1>12
<1> QED BY <1>13 DEF got

(* A stream identity issued and given back at once.                        *)
LEMMA StreamBack ==
  ASSUME config \in Configs, NEW t, NEW u, NEW z, NEW e, NEW b \in Branches, TableShape(t),
         WireOK(t, e), Streams(t, u, z, b)
  PROVE  LET w == ClearTcp(u, z.id)
         IN  /\ TableShape(w) /\ PlanesOf(w) /\ WireOK(w, e) /\ w.udp = t.udp /\ w.tcp = t.tcp
             /\ w.streams = t.streams /\ w.epoch = t.epoch /\ w.gen = t.gen
<1> DEFINE w == ClearTcp(u, z.id)
<1>1. /\ t.tcp \in [StreamIds -> Branches \cup {None}] /\ t.streams \in Int /\ b # None
      /\ TableShape(u) /\ PlanesOf(u) /\ z.kind = "tcp" /\ z.id \in StreamIds
      /\ t.tcp[z.id] = None /\ u.tcp = [t.tcp EXCEPT ![z.id] = b]
  BY TableFacts, BranchFacts DEF Streams
<1>2. u.tcp[z.id] # None
  BY <1>1
<1>3. w = Release(u, z)
  BY <1>1 DEF Release
<1> HIDE DEF w
<1>4. /\ TableShape(w) /\ PlanesOf(w)
      /\ w.tcp = [u.tcp EXCEPT ![z.id] = None] /\ w.streams = u.streams - 1
      /\ w.free = u.free /\ w.udp = u.udp /\ w.front = u.front
      /\ w.epoch = u.epoch /\ w.gen = u.gen /\ w.retired = u.retired /\ w.cached = u.cached
  BY <1>1, <1>2, <1>3, ReleaseTcp
<1>5. w.tcp = t.tcp
  BY <1>1, <1>4
<1>6. w.streams = t.streams
  BY <1>1, <1>4 DEF Streams
<1>7. WireOK(w, e)
  BY <1>4 DEF WireOK, Streams
<1> QED BY <1>4, <1>5, <1>6, <1>7 DEF w, Streams

(* The connection carries one more request, under a new identity.          *)
Asks(e, e2, id, f) ==
    /\ e2.slot = e.slot /\ e2.lanes = e.lanes /\ e2.wire = e.wire
    /\ e.link.st = "open" /\ e2.link.st = "open" /\ e2.link.srv = e.link.srv
    /\ id \notin Used(e.link) /\ Used(e2.link) = Used(e.link) \cup {id}
    /\ \A g \in e.reqs : g.id \in Used(e.link)
    /\ f.id = id /\ f.serial = serial /\ e2.reqs = e.reqs \cup {f}

LEMMA AttachTcp ==
  ASSUME config \in Configs, NEW d, NEW e, NEW e2, NEW b \in Branches, NEW a, InHand(d, b, a, e),
         a.stream = e.link.srv, a.stream # 0, NEW u, NEW z, Streams(d.ids, u, z, b), NEW f,
         Asks(e, e2, z.id, f)
  PROVE  Good(Waiting([d EXCEPT !.ids = u], b, a, z), Branches, 0, e2)
<1> DEFINE x == [d EXCEPT !.ids = u]
           r == [st |-> "waiting", try |-> a, lease |-> z, serial |-> serial]
           v == Waiting(x, b, a, z)
           S == Branches \ {b}
           t == d.ids
<1>1. r.st = "waiting" /\ r.try = a /\ r.lease = z /\ r.serial = serial
  OBVIOUS
<1>2. v = [x EXCEPT !.row[b] = r]
  BY DEF Waiting
<1>3. x = [d EXCEPT !.ids = u] /\ Shape(d)
  BY DEF InHand, Good
<1> HIDE DEF x, r, v
<1>4. v = [row |-> [d.row EXCEPT ![b] = r], pending |-> d.pending, live |-> d.live, ids |-> u]
  <2> DEFINE q == [d.row EXCEPT ![b] = r]
  <2>1. x = [row |-> d.row, pending |-> d.pending, live |-> d.live, ids |-> u]
    BY <1>3, LedgerIds
  <2>2. x.row = d.row
    BY <2>1
  <2>3. v = [x EXCEPT !.row = q]
    BY <1>2, <2>2
  <2> HIDE DEF q
  <2>4. v = [row |-> q, pending |-> d.pending, live |-> d.live, ids |-> u]
    BY <2>1, <2>3
  <2> QED BY <2>4 DEF q
<1>5. /\ TableShape(u) /\ PlanesOf(u) /\ z.kind = "tcp" /\ z.id \in StreamIds /\ t.tcp[z.id] = None
      /\ u.tcp = [t.tcp EXCEPT ![z.id] = b] /\ u.streams = t.streams + 1
      /\ u.free = t.free /\ u.udp = t.udp /\ u.front = t.front /\ u.epoch = t.epoch /\ u.gen = t.gen
      /\ u.retired = t.retired /\ u.cached = t.cached
  BY DEF Streams
<1>6. /\ Good(d, S, a.stream, e) /\ Fits(a, b, e) /\ TableShape(t)
      /\ IdsOf(d, S) /\ RowsOK(d, S, e) /\ WireOK(t, e)
  BY DEF InHand, Good, Shape
<1>7. v.row[b] = r /\ (\A c \in S : v.row[c] = d.row[c]) /\ v.ids = u
  <2>1. d.row = [c \in Branches |-> d.row[c]]
    BY <1>3 DEF Shape
  <2>2. v.row = [d.row EXCEPT ![b] = r] /\ v.ids = u
    BY <1>4
  <2> QED BY <2>1, <2>2, RowUpdate
<1>8. b # None /\ t.tcp \in [StreamIds -> Branches \cup {None}] /\ \A c \in Branches : c # None
  BY <1>6, TableFacts, BranchFacts
<1>9. IdsOf(v, Branches)
  <2> DEFINE A == LeasedIn(d, S, "tcp")
  <2>1. LeasedIn(v, Branches, "tcp") = A \cup {b} /\ b \notin A /\ A \in SUBSET Branches
    BY <1>1, <1>5, <1>7 DEF LeasedIn
  <2>2. LeasedIn(v, Branches, "udp") = LeasedIn(d, S, "udp")
    BY <1>1, <1>5, <1>7 DEF LeasedIn
  <2>3. ASSUME NEW i \in Ids, NEW c \in Branches
        PROVE  v.ids.udp[i] = c <=> c \in LeasedIn(v, Branches, "udp") /\ v.row[c].lease.id = i
    <3>1. t.udp[i] = c <=> c \in LeasedIn(d, S, "udp") /\ d.row[c].lease.id = i
      BY <1>6 DEF IdsOf
    <3>2. c \in LeasedIn(d, S, "udp") => v.row[c] = d.row[c]
      BY <1>7 DEF LeasedIn
    <3>3. v.ids.udp = t.udp
      BY <1>5, <1>7
    <3> QED BY <2>2, <3>1, <3>2, <3>3
  <2>4. ASSUME NEW i \in StreamIds, NEW c \in Branches
        PROVE  u.tcp[i] = c <=> c \in LeasedIn(v, Branches, "tcp") /\ v.row[c].lease.id = i
    <3>1. CASE c = b
      <4>1. t.tcp[i] # b
        BY <1>6 DEF IdsOf, LeasedIn
      <4>2. u.tcp[i] = c <=> i = z.id
        BY <1>5, <1>8, <3>1, <4>1
      <4>3. c \in LeasedIn(v, Branches, "tcp") /\ v.row[c].lease.id = z.id
        BY <1>1, <1>7, <2>1, <3>1
      <4> QED BY <4>2, <4>3
    <3>2. CASE c # b
      <4>1. u.tcp[i] = c <=> t.tcp[i] = c
        BY <1>5, <1>8, <3>2
      <4>2. t.tcp[i] = c <=> c \in A /\ d.row[c].lease.id = i
        BY <1>6 DEF IdsOf
      <4>3. v.row[c] = d.row[c] /\ (c \in A <=> c \in LeasedIn(v, Branches, "tcp"))
        BY <1>7, <2>1, <3>2
      <4> QED BY <4>1, <4>2, <4>3
    <3> QED BY <3>1, <3>2
  <2>5. ASSUME NEW i \in StreamIds, NEW c \in Branches
        PROVE  v.ids.tcp[i] = c <=> c \in LeasedIn(v, Branches, "tcp") /\ v.row[c].lease.id = i
    BY <1>7, <2>4
  <2>6. v.ids.streams = Cardinality(LeasedIn(v, Branches, "tcp"))
    <3>1. t.streams = Cardinality(A)
      BY <1>6 DEF IdsOf
    <3> HIDE DEF A
    <3>2. Cardinality(A \cup {b}) = Cardinality(A) + 1
      BY <2>1, CountOne
    <3> QED BY <1>5, <1>7, <2>1, <3>1, <3>2
  <2>7. PlanesOf(v.ids)
    BY <1>5, <1>7
  <2> QED BY <2>3, <2>5, <2>6, <2>7, Zenon DEF IdsOf
<1>10. /\ e2.slot = e.slot /\ e2.lanes = e.lanes /\ e2.wire = e.wire
       /\ e.link.st = "open" /\ e2.link.st = "open" /\ e2.link.srv = e.link.srv
       /\ z.id \notin Used(e.link) /\ Used(e2.link) = Used(e.link) \cup {z.id}
       /\ \A g \in e.reqs : g.id \in Used(e.link)
       /\ f.id = z.id /\ f.serial = serial /\ e2.reqs = e.reqs \cup {f}
  BY DEF Asks
<1>11. RowsOK(v, Branches, e2)
  <2>1. ASSUME NEW c \in S
        PROVE  RowOK(v.row[c], c, e2) /\ UdpOK(v.row[c], u, e2) /\ TcpOK(v.row[c], c, e2)
    <3>1. RowOK(v.row[c], c, e) /\ UdpOK(v.row[c], t, e) /\ TcpOK(v.row[c], c, e)
      BY <1>6, <1>7 DEF RowsOK
    <3>2. RowOK(v.row[c], c, e2)
      BY <1>10, <3>1 DEF RowOK, Fits
    <3>3. UdpOK(v.row[c], u, e2)
      BY <1>5, <1>10, <3>1 DEF UdpOK
    <3>4. TcpOK(v.row[c], c, e2)
      <4> SUFFICES ASSUME v.row[c].st = "waiting", v.row[c].lease.kind = "tcp",
                          e.lanes[LaneOf(c)] # "cancelled"
                   PROVE  TcpOK(v.row[c], c, e2)
        BY <1>10 DEF TcpOK
      <4>1. v.row[c].lease.id \in StreamIds
        BY <3>1 DEF RowOK
      <4>2. t.tcp[v.row[c].lease.id] = c
        BY <1>6, <1>7, <4>1 DEF IdsOf, LeasedIn
      <4>3. v.row[c].lease.id # z.id
        BY <1>5, <1>8, <4>2
      <4>4. /\ e.link.srv = v.row[c].try.stream /\ v.row[c].lease.id \in Used(e.link)
            /\ \A g \in e.reqs : g.id = v.row[c].lease.id => g.serial = v.row[c].serial
        BY <1>10, <3>1 DEF TcpOK
      <4>5. /\ e2.link.srv = v.row[c].try.stream /\ v.row[c].lease.id \in Used(e2.link)
            /\ \A g \in e2.reqs : g.id = v.row[c].lease.id => g.serial = v.row[c].serial
        BY <1>10, <4>3, <4>4
      <4> QED BY <1>10, <4>5 DEF TcpOK
    <3> QED BY <3>2, <3>3, <3>4
  <2>2. RowOK(r, b, e2)
    BY <1>1, <1>5, <1>6, <1>10 DEF RowOK, Fits, Active
  <2>3. UdpOK(r, u, e2)
    BY <1>1, <1>5 DEF UdpOK
  <2>4. TcpOK(r, b, e2)
    <3>1. \A g \in e2.reqs : g.id = z.id => g.serial = serial
      BY <1>10
    <3>2. z.id \in Used(e2.link) /\ e2.link.srv = a.stream /\ e2.link.st = "open"
      BY <1>10
    <3> QED BY <1>1, <3>1, <3>2 DEF TcpOK
  <2> QED BY <1>7, <2>1, <2>2, <2>3, <2>4 DEF RowsOK
<1>12. WireOK(u, e2)
  BY <1>5, <1>6, <1>10 DEF WireOK
<1>13. Good(v, Branches, 0, e2)
  BY <1>1, <1>4, <1>5, <1>9, <1>11, <1>12, AttachWaiting
<1> QED BY <1>13 DEF v, x

LEMMA SubmitTcpStep ==
  ASSUME IInv, NEW outcome, SubmitTcp(outcome), UNCHANGED config
  PROVE  IInv'
<1> DEFINE p == link.srv
           b == Front(p)
           a == led.row[b].try
           d0 == Take(p)
           t == led.ids
           got == TryTcp(t, b, NextId)
           x == [d0 EXCEPT !.ids = got.table]
           k == [link EXCEPT !.issued = @ + 1]
           f == [id |-> NextId, serial |-> serial]
<1>0. /\ config \in Configs /\ Good(led, Branches, 0, Env) /\ NetInv /\ LinkInv /\ SlotInv
      /\ config.maxSubmits \in Nat /\ serial \in 0 .. config.maxSubmits
      /\ config.streamIds \in Nat \ {0}
  BY ConfigFacts DEF IInv, NetInv, SlotInv
<1>1. /\ link.st = "open" /\ link.issued < config.streamIds /\ Ready(p)
      /\ UNCHANGED <<now, lanes, sends, wire, asked>>
  BY DEF SubmitTcp
<1>2. /\ link = [st |-> "open", srv |-> link.srv, start |-> link.start, issued |-> link.issued]
      /\ p \in Servers /\ link.start \in StreamIds /\ link.issued \in 0 .. config.streamIds - 1
  <2>1. /\ link = [st |-> "open", srv |-> link.srv, start |-> link.start, issued |-> link.issued]
        /\ p \in Servers /\ link.start \in StreamIds /\ link.issued \in 0 .. config.streamIds
    BY <1>1, LinkShapes
  <2> QED BY <1>0, <1>1, <2>1
<1>3. /\ k.st = "open" /\ k.srv = p /\ k.start = link.start /\ k.issued = link.issued + 1
      /\ k = [st |-> "open", srv |-> k.srv, start |-> k.start, issued |-> k.issued]
  BY <1>2
<1>4. NextId = (link.start + link.issued) % config.streamIds
  BY DEF NextId
<1>5. \/ ~got.ok /\ Settle(Finish(x, b, a), LaneOf(b)) /\ UNCHANGED <<link, frames, serial>>
      \/ /\ got.ok /\ serial < config.maxSubmits /\ led' = Waiting(x, b, a, got.lease)
         /\ frames' = frames \cup {f} /\ serial' = serial + 1 /\ link' = k /\ UNCHANGED slot
      \/ /\ got.ok
         /\ Settle(Finish([x EXCEPT !.ids = ClearTcp(x.ids, NextId)], b, a), LaneOf(b))
         /\ link' = k /\ UNCHANGED <<frames, serial>>
  BY Zenon DEF SubmitTcp
<1> HIDE DEF k
<1>6. NextId \in StreamIds /\ NextId \notin Used(link) /\ Used(k) = Used(link) \cup {NextId}
  BY <1>0, <1>2, <1>3, <1>4, UsedFacts
<1>7. f.id = NextId /\ f.serial = serial
  OBVIOUS
<1> DEFINE id == NextId
<1>8. /\ b \in Branches /\ LaneOf(b) \in Lanes /\ a.stream = p /\ InHand(d0, b, a, Env)
      /\ d0.ids = t /\ p # 0
  <2>1. Plane(p) # {} /\ p \in Servers \cup {0} /\ p # 0
    BY <1>0, <1>1, <1>2, ServerFacts DEF Ready
  <2> HIDE DEF p
  <2> QED BY <2>1, FrontFacts
<1>9. TableShape(t) /\ PlanesOf(t) /\ WireOK(t, Env)
  BY <1>0 DEF Good, Shape, IdsOf
<1> DEFINE u == got.table
           z == got.lease
           ok == got.ok
<1>10. /\ ~ok => u = t
       /\ ok => z.id = id /\ Streams(t, u, z, b)
  BY <1>0, <1>6, <1>8, <1>9, TryTcpFacts
<1>11. x = [d0 EXCEPT !.ids = u] /\ id \in StreamIds
  BY <1>6
<1>12. /\ (\A g \in frames \cup asked : g.id \in Used(link)) /\ wire \subseteq Messages
       /\ sends \subseteq wire /\ frames \subseteq [id : StreamIds, serial : Nat]
       /\ asked \subseteq [id : StreamIds, serial : Nat]
  BY <1>0, <1>1 DEF LinkInv, NetInv
<1>13. f \in [id : StreamIds, serial : Nat]
  BY <1>0, <1>6
<1> HIDE DEF b, a, d0, t, got, x, f, u, z, ok, p
<1>14. CASE ~ok /\ Settle(Finish(x, b, a), LaneOf(b)) /\ UNCHANGED <<link, frames, serial>>
  <2>1. u = t /\ t.epoch \in Nat /\ t.gen \in Nat
    BY <1>0, <1>9, <1>10, <1>14, TableFacts
  <2>2. d0.ids.epoch <= u.epoch /\ d0.ids.gen <= u.gen
    BY <1>8, <2>1
  <2>3. InHand(x, b, a, Env)
    BY <1>0, <1>8, <1>9, <1>11, <2>1, <2>2, SwapInHand
  <2> QED BY <1>1, <1>8, <1>14, <2>3, FinishStep
<1>15. ASSUME link' = k, frames' = frames \/ frames' = frames \cup {f}
       PROVE  LinkInv'
  <2>1. Servers' = Servers /\ StreamIds' = StreamIds /\ config' = config
    BY ConfigFrame
  <2>2. k.issued \in 0 .. config.streamIds /\ k.srv \in Servers /\ k.start \in StreamIds
    BY <1>0, <1>2, <1>3
  <2>3. \A g \in frames' \cup asked' : g.id \in Used(k)
    BY <1>1, <1>6, <1>7, <1>12, <1>15
  <2>4. Used(link)' = Used(k)
    BY <1>15, <2>1 DEF Used
  <2> QED BY <1>3, <1>15, <2>1, <2>2, <2>3, <2>4 DEF LinkInv
<1>16. CASE /\ ok /\ serial < config.maxSubmits /\ led' = Waiting(x, b, a, z)
            /\ frames' = frames \cup {f} /\ serial' = serial + 1 /\ link' = k /\ UNCHANGED slot
  <2> DEFINE e2 == Env'
  <2>1. Asks(Env, e2, z.id, f)
    <3>1. /\ e2.slot = Env.slot /\ e2.lanes = Env.lanes /\ e2.wire = Env.wire /\ Env.link = link
          /\ e2.link = k /\ Env.reqs = frames \cup asked /\ e2.reqs = frames' \cup asked'
      BY <1>1, <1>16 DEF Env
    <3>2. e2.reqs = Env.reqs \cup {f}
      BY <1>1, <1>16, <3>1
    <3>3. z.id = id
      BY <1>10, <1>16
    <3> HIDE DEF e2
    <3> QED BY <1>1, <1>3, <1>6, <1>7, <1>12, <3>1, <3>2, <3>3 DEF Asks, p
  <2> HIDE DEF e2
  <2>2. a.stream = Env.link.srv /\ a.stream # 0 /\ Streams(d0.ids, u, z, b)
    BY <1>8, <1>10, <1>16 DEF Env, p
  <2>3. Good(Waiting([d0 EXCEPT !.ids = u], b, a, z), Branches, 0, e2)
    BY <1>0, <1>8, <2>1, <2>2, AttachTcp
  <2>4. Good(led', Branches, 0, e2)
    BY <1>11, <1>16, <2>3
  <2>5. SlotInv'
    BY <1>0, <1>16, SlotSame
  <2>6. NetInv'
    <3>1. /\ wire' \subseteq Messages /\ sends' \subseteq wire'
          /\ serial' \in 0 .. config.maxSubmits
          /\ frames' \subseteq [id : StreamIds, serial : Nat]
          /\ asked' \subseteq [id : StreamIds, serial : Nat]
      BY <1>0, <1>1, <1>12, <1>13, <1>16
    <3> QED BY <1>0, <1>1, <2>5, <3>1, NetNext
  <2>7. LinkInv'
    BY <1>15, <1>16
  <2> QED BY <2>4, <2>6, <2>7, GoodNext DEF IInv, e2
<1>17. CASE /\ ok /\ Settle(Finish([x EXCEPT !.ids = ClearTcp(x.ids, NextId)], b, a), LaneOf(b))
            /\ link' = k /\ UNCHANGED <<frames, serial>>
  <2> DEFINE w == ClearTcp(u, z.id)
             y == [d0 EXCEPT !.ids = w]
             v == Finish(y, b, a)
             l == LaneOf(b)
  <2>1. z.id = NextId /\ Streams(t, u, z, b)
    BY <1>10, <1>17
  <2>2. /\ TableShape(w) /\ PlanesOf(w) /\ WireOK(w, Env) /\ w.udp = t.udp /\ w.tcp = t.tcp
        /\ w.streams = t.streams /\ w.epoch = t.epoch /\ w.gen = t.gen
    BY <1>0, <1>8, <1>9, <2>1, StreamBack
  <2>3. [x EXCEPT !.ids = ClearTcp(x.ids, NextId)] = y
    <3>1. Shape(d0)
      BY <1>8 DEF InHand, Good
    <3>2. x = [row |-> d0.row, pending |-> d0.pending, live |-> d0.live, ids |-> u]
      BY <1>11, <3>1, LedgerIds
    <3>3. x.ids = u
      BY <3>2
    <3>4. [x EXCEPT !.ids = ClearTcp(x.ids, NextId)] = [x EXCEPT !.ids = w]
      BY <2>1, <3>3
    <3> HIDE DEF w
    <3> QED BY <3>1, <3>2, <3>4 DEF Shape
  <2> HIDE DEF w
  <2>4. InHand(y, b, a, Env)
    <3>1. t.epoch \in Nat /\ t.gen \in Nat
      BY <1>0, <1>9, TableFacts
    <3>2. d0.ids.epoch <= w.epoch /\ d0.ids.gen <= w.gen
      BY <1>8, <2>2, <3>1
    <3> QED BY <1>0, <1>8, <2>2, <3>2, SwapInHand
  <2>5. Settle(v, l)
    BY <1>17, <2>3
  <2> HIDE DEF y
  <2>6. Good(v, Branches, 0, Env)
    BY <1>0, <1>8, <2>4, FinishGood
  <2>7. l \in Lanes
    BY <1>8
  <2> HIDE DEF v, l
  <2>8. Good(v, Branches, 0, MidEnv)
    <3>1. /\ MidEnv.wire = Env.wire /\ MidEnv.slot = Env.slot /\ MidEnv.lanes = Env.lanes
          /\ MidEnv.reqs = Env.reqs /\ MidEnv.link = k /\ Env.link = link
      BY <1>1, <1>17 DEF MidEnv, Env
    <3>2. ASSUME NEW c \in Branches PROVE TcpOK(v.row[c], c, MidEnv)
      <4>1. TcpOK(v.row[c], c, Env)
        BY <2>6 DEF Good, RowsOK
      <4> QED BY <1>1, <1>3, <1>6, <3>1, <4>1 DEF TcpOK, p
    <3> QED BY <1>0, <2>6, <3>1, <3>2, LinkChanges
  <2>9. Good(led', Branches, 0, Env') /\ SlotInv'
    BY <2>5, <2>7, <2>8, SettleMid
  <2>10. NetInv'
    <3>1. /\ wire' \subseteq Messages /\ sends' \subseteq wire'
          /\ serial' \in 0 .. config.maxSubmits
          /\ frames' \subseteq [id : StreamIds, serial : Nat]
          /\ asked' \subseteq [id : StreamIds, serial : Nat]
      BY <1>0, <1>1, <1>12, <1>17
    <3> QED BY <1>0, <1>1, <2>9, <3>1, NetNext
  <2>11. LinkInv'
    BY <1>15, <1>17
  <2> QED BY <2>9, <2>10, <2>11, GoodNext DEF IInv
<1>18. \/ ~ok /\ Settle(Finish(x, b, a), LaneOf(b)) /\ UNCHANGED <<link, frames, serial>>
       \/ /\ ok /\ serial < config.maxSubmits /\ led' = Waiting(x, b, a, z)
          /\ frames' = frames \cup {f} /\ serial' = serial + 1 /\ link' = k /\ UNCHANGED slot
       \/ /\ ok
          /\ Settle(Finish([x EXCEPT !.ids = ClearTcp(x.ids, NextId)], b, a), LaneOf(b))
          /\ link' = k /\ UNCHANGED <<frames, serial>>
  BY <1>5, Zenon DEF ok, z
<1> QED BY <1>14, <1>16, <1>17, <1>18
-----------------------------------------------------------------------------
(* The invariant is inductive.                                             *)

LEMMA InitStep == Init => IInv
<1> SUFFICES ASSUME Init PROVE IInv
  OBVIOUS
<1> DEFINE t == NewTable(Ids, StreamIds, Servers)
           d == [row |-> [b \in Branches |-> Final], pending |-> {},
                 live |-> [s \in Servers |-> 0], ids |-> t]
<1>0. config \in Configs /\ led = d
  BY DEF Init
<1>1. /\ t.front = 0 /\ t.epoch = 0 /\ t.gen = 0 /\ t.retired = 0 /\ t.streams = 0
      /\ t.free = [p \in 0 .. 1 |-> IF p = 0 THEN Ids ELSE {}]
      /\ t.udp = [i \in Ids |-> None] /\ t.tcp = [i \in StreamIds |-> None]
      /\ t.cached = [s \in Servers |-> 0]
      /\ t = [free |-> t.free, front |-> t.front, epoch |-> t.epoch, udp |-> t.udp,
              tcp |-> t.tcp, streams |-> t.streams, gen |-> t.gen, retired |-> t.retired,
              cached |-> t.cached]
  BY DEF NewTable
<1> HIDE DEF t
<1>2. /\ d.row = [b \in Branches |-> Final] /\ d.pending = {} /\ d.live = [s \in Servers |-> 0]
      /\ d.ids = t /\ d = [row |-> d.row, pending |-> d.pending, live |-> d.live, ids |-> d.ids]
  OBVIOUS
<1> HIDE DEF d
<1>3. \A b \in Branches : d.row[b] = Final /\ d.row[b].st = "final"
  BY <1>2 DEF Final
<1>4. config.epochMax \in Nat /\ config.maxTime \in Nat /\ config.maxSubmits \in Nat
  BY <1>0, ConfigFacts
<1>5. TableShape(t)
  <2>1. 0 \in 0 .. config.epochMax
    BY <1>4
  <2>2. /\ t.free \in [0 .. 1 -> SUBSET Ids] /\ t.udp \in [Ids -> Branches \cup {None}]
        /\ t.tcp \in [StreamIds -> Branches \cup {None}]
        /\ t.cached \in [Servers -> 0 .. config.epochMax]
    BY <1>1, <2>1
  <2>3. t.front \in 0 .. 1 /\ t.streams \in Int
    BY <1>1
  <2> QED BY <1>0, <1>1, <2>1, <2>2, <2>3, TableBack
<1>6. Shape(d)
  <2>1. d.row = [b \in Branches |-> d.row[b]] /\ d.live \in [Servers -> Int]
    BY <1>2
  <2> QED BY <1>2, <1>5, <2>1 DEF Shape
<1>7. QueuesOf(d, Branches)
  BY <1>2, <1>3 DEF QueuesOf
<1>8. LiveOf(d, Branches, 0)
  <2>1. ASSUME NEW s \in Servers PROVE StreamingIn(d, Branches, s) = {}
    BY <1>3 DEF StreamingIn, Active
  <2>2. 0 \notin Servers
    BY <1>0, ServerFacts
  <2>3. Cardinality({}) = 0
    BY FS_EmptySet
  <2> QED BY <1>2, <2>1, <2>2, <2>3 DEF LiveOf
<1>9. IdsOf(d, Branches)
  <2>1. LeasedIn(d, Branches, "udp") = {} /\ LeasedIn(d, Branches, "tcp") = {}
    BY <1>3 DEF LeasedIn
  <2>2. PlanesOf(t)
    BY <1>1 DEF PlanesOf
  <2>3. ASSUME NEW b \in Branches PROVE b # None
    BY <1>0, BranchFacts
  <2>4. Cardinality({}) = 0
    BY FS_EmptySet
  <2> QED BY <1>1, <1>2, <2>1, <2>2, <2>3, <2>4 DEF IdsOf
<1>10. RowsOK(d, Branches, Env)
  BY <1>3 DEF RowsOK, RowOK, UdpOK, TcpOK, Active
<1>11. WireOK(t, Env)
  <2>1. Env.wire = {}
    BY DEF Init, Env
  <2> QED BY <1>1, <2>1 DEF WireOK
<1>12. Good(led, Branches, 0, Env)
  BY <1>0, <1>2, <1>6, <1>7, <1>8, <1>9, <1>10, <1>11 DEF Good
<1>13. NetInv
  <2>1. /\ now \in 0 .. config.maxTime /\ serial \in 0 .. config.maxSubmits
    BY <1>4 DEF Init
  <2>2. /\ lanes \in [Lanes -> {"free", "held", "cancelled"}]
        /\ slot = [l \in Lanes |-> slot[l]]
        /\ \A l \in Lanes : slot[l].st \in {"idle", "query", "complete"}
    BY DEF Init
  <2> QED BY <1>0, <2>1, <2>2 DEF Init, NetInv
<1>14. LinkInv
  BY DEF Init, LinkInv, NoLink
<1> QED BY <1>12, <1>13, <1>14 DEF IInv

LEMMA StutterStep == ASSUME IInv, UNCHANGED vars PROVE IInv'
<1>1. /\ NetInv /\ LinkInv /\ SlotInv /\ Good(led, Branches, 0, Env)
      /\ UNCHANGED <<config, now, lanes, slot, led, sends, wire, link, frames, asked, serial>>
  BY DEF IInv, NetInv, SlotInv, vars
<1>2. SlotInv' /\ Env' = Env
  BY <1>1, SlotSame DEF Env
<1>3. NetInv' /\ LinkInv'
  <2>1. now' \in 0 .. config.maxTime /\ lanes' \in [Lanes -> {"free", "held", "cancelled"}]
        /\ sends' \subseteq sends
    BY <1>1 DEF NetInv
  <2> QED BY <1>1, <1>2, <2>1, NetKept
<1> QED BY <1>1, <1>2, <1>3, GoodNext DEF IInv

LEMMA NextStep == ASSUME IInv, Next PROVE IInv'
<1>0. UNCHANGED config
  BY DEF Next
<1>1. CASE Tick \/ ExhaustTcp \/ RetireStream \/ Disconnect
  BY <1>0, <1>1, TickStep, ExhaustStep, RetireStreamStep, DisconnectStep
<1>2. ASSUME NEW l \in Lanes, Claim(l) \/ Cancel(l) \/ Cleanup(l) \/ Start(l) \/ Poll(l)
      PROVE  IInv'
  BY <1>0, <1>2, ClaimStep, CancelStep, CleanupStep, StartStep, PollStep
<1>3. ASSUME NEW o \in Outcomes, AdmitUdp(o) \/ SubmitTcp(o) PROVE IInv'
  BY <1>0, <1>3, AdmitUdpStep, SubmitTcpStep
<1>4. ASSUME NEW m \in wire, NEW a \in Answers, ReceiveUdp(m, a) PROVE IInv'
  BY <1>0, <1>4, ReceiveUdpStep
<1>5. ASSUME NEW m \in sends, NEW o \in {"Sent", "Lost", "Terminal"}, SettleSend(m, o)
      PROVE  IInv'
  BY <1>0, <1>5, SettleSendStep
<1>6. ASSUME NEW s \in Servers, NEW i \in StreamIds, Connect(s, i) PROVE IInv'
  BY <1>0, <1>6, ConnectStep
<1>7. ASSUME NEW f \in frames, Transmit(f) \/ UndoStream(f) PROVE IInv'
  BY <1>0, <1>7, TransmitStep, UndoStreamStep
<1>8. ASSUME NEW f \in asked, NEW a \in Replies \cup {"Malformed"}, ReceiveStream(f, a)
      PROVE  IInv'
  BY <1>0, <1>8, ReceiveStreamStep
<1>9. ASSUME NEW m \in Modes, NEW q \in BOOLEAN, Close(m, q) PROVE IInv'
  BY <1>0, <1>9, CloseStep
<1> QED BY <1>1, <1>2, <1>3, <1>4, <1>5, <1>6, <1>7, <1>8, <1>9 DEF Next

LEMMA Inductive == Spec => []IInv
<1>1. IInv /\ [Next]_vars => IInv'
  BY NextStep, StutterStep
<1> QED BY InitStep, <1>1, PTL DEF Spec
-----------------------------------------------------------------------------
(* The results.                                                            *)

LEMMA AccountsHold == IInv => AccountsAreExact
<1> SUFFICES ASSUME IInv PROVE AccountsAreExact
  OBVIOUS
<1>0. /\ config \in Configs /\ NetInv /\ LinkInv /\ Good(led, Branches, 0, Env)
      /\ Shape(led) /\ TableShape(led.ids)
  BY DEF IInv, NetInv, Good, Shape
<1>1. ASSUME NEW b \in Branches
      PROVE  /\ RowOK(led.row[b], b, Env)
             /\ led.row[b].st \in Active => led.row[b].try.stream \in Servers \cup {0}
  <2>1. RowOK(led.row[b], b, Env)
    BY <1>0 DEF Good, RowsOK
  <2> QED BY <2>1 DEF RowOK, Fits, Attempts
<1>2. QueuesAreExact
  <2>1. led.pending \subseteq (Servers \cup {0}) \X Branches
    BY <1>0 DEF Shape
  <2>2. ASSUME NEW p \in Servers \cup {0}, NEW b \in Branches
        PROVE  <<p, b>> \in led.pending <=> led.row[b].st = "pending" /\ led.row[b].try.stream = p
    BY <1>0 DEF Good, QueuesOf
  <2>3. ASSUME NEW b \in RowsIn("pending") PROVE <<led.row[b].try.stream, b>> \in led.pending
    <3>1. b \in Branches /\ led.row[b].st = "pending"
      BY DEF RowsIn
    <3>2. led.row[b].try.stream \in Servers \cup {0}
      BY <1>1, <3>1 DEF Active
    <3> QED BY <2>2, <3>1, <3>2
  <2>4. ASSUME NEW q \in led.pending
        PROVE  q \in {<<led.row[b].try.stream, b>> : b \in RowsIn("pending")}
    <3>1. PICK p \in Servers \cup {0}, b \in Branches : q = <<p, b>>
      BY <2>1
    <3>2. led.row[b].st = "pending" /\ led.row[b].try.stream = p
      BY <2>2, <3>1
    <3> QED BY <3>1, <3>2 DEF RowsIn
  <2> QED BY <2>3, <2>4 DEF QueuesAreExact
<1>3. ASSUME NEW s \in Servers
      PROVE  led.live[s] = Cardinality(Streaming(s)) /\ led.live[s] \in Nat
  <2>1. Streaming(s) = StreamingIn(led, Branches, s) /\ Streaming(s) \in SUBSET Branches
    BY DEF Streaming, StreamingIn
  <2>2. 0 # s
    BY <1>0, ServerFacts
  <2>3. Cardinality(Streaming(s)) \in Nat
    BY <1>0, <2>1, BranchSets
  <2>4. led.live[s] = Cardinality(StreamingIn(led, Branches, s)) + 0
    BY <1>0, <2>2 DEF Good, LiveOf
  <2> QED BY <2>1, <2>3, <2>4
<1>4. Leased("udp") = LeasedIn(led, Branches, "udp") /\ Leased("tcp") = LeasedIn(led, Branches, "tcp")
  BY DEF Leased, LeasedIn, RowsIn
<1>5. IdsAreExact
  BY <1>0, <1>4 DEF Good, IdsOf, PlanesOf, IdsAreExact
<1>6. TypeOK
  <2>1. led.live \in [Servers -> Nat]
    <3>1. led.live \in [Servers -> Int]
      BY <1>0 DEF Shape
    <3> QED BY <1>3, <3>1
  <2>2. led.ids \in TableType(Ids, StreamIds, Servers, Branches, config.epochMax)
    <3> DEFINE t == led.ids
    <3>1. t.streams \in Nat
      <4>1. Leased("tcp") \in SUBSET Branches
        BY DEF Leased, RowsIn
      <4>2. Cardinality(Leased("tcp")) \in Nat
        BY <1>0, <4>1, BranchSets
      <4> QED BY <1>5, <4>2 DEF IdsAreExact
    <3>2. /\ t = [free |-> t.free, front |-> t.front, epoch |-> t.epoch, udp |-> t.udp,
                  tcp |-> t.tcp, streams |-> t.streams, gen |-> t.gen, retired |-> t.retired,
                  cached |-> t.cached]
          /\ t.free \in [0 .. 1 -> SUBSET Ids] /\ t.front \in 0 .. 1
          /\ t.epoch \in 0 .. config.epochMax /\ t.udp \in [Ids -> Branches \cup {None}]
          /\ t.tcp \in [StreamIds -> Branches \cup {None}]
          /\ t.gen \in 0 .. config.epochMax /\ t.retired \in 0 .. config.epochMax
          /\ t.cached \in [Servers -> 0 .. config.epochMax]
      BY <1>0 DEF TableShape
    <3> HIDE DEF t
    <3>3. t \in TableType(Ids, StreamIds, Servers, Branches, config.epochMax)
      BY <3>1, <3>2 DEF TableType
    <3> QED BY <3>3 DEF t
  <2>3. \A b \in Branches : led.row[b].st \in Active \cup {"final"}
    BY <1>1 DEF RowOK
  <2>4. led.pending \subseteq (Servers \cup {0}) \X Branches
    BY <1>0 DEF Shape
  <2> QED BY <1>0, <2>1, <2>2, <2>3, <2>4 DEF NetInv, LinkInv, TypeOK
<1> QED BY <1>2, <1>3, <1>5, <1>6 DEF AccountsAreExact, LiveIsExact

(* The books of the ledger (Registry, Demand, tx::Table) are exact in      *)
(* every configuration: the queues hold the pending branches and no other, *)
(* the demand counts the branches that need a stream, and an id is free or *)
(* leased to the one branch that it names.                                 *)
THEOREM BooksAreExact == Spec => []AccountsAreExact
  BY Inductive, AccountsHold, PTL

(* A branch that an event reaches, and what the wire holds of it.          *)
LEMMA ReachedFacts ==
  ASSUME IInv, NEW b, NEW id, b \in Branches \cup {None}, Reaches(b, id)
  PROVE  /\ b \in Branches /\ led.row[b].st = "waiting" /\ led.row[b].lease.id = id
         /\ lanes[LaneOf(b)] # "cancelled"
         /\ UdpOK(led.row[b], led.ids, Env) /\ TcpOK(led.row[b], b, Env)
         /\ RowOK(led.row[b], b, Env)
<1>1. /\ b \in Branches /\ led.row[b].st = "waiting" /\ led.row[b].lease.id = id
      /\ lanes[LaneOf(b)] # "cancelled"
  BY DEF Reaches
<1> QED BY <1>1 DEF IInv, Good, RowsOK

(* A datagram whose id is leased carries the transmission of the lease, or *)
(* one of an earlier epoch under an earlier cookie.                        *)
LEMMA StaleUdp ==
  ASSUME IInv, NEW m \in wire, Reaches(led.ids.udp[m.id], m.id),
         led.row[led.ids.udp[m.id]].lease.kind = "udp"
  PROVE  \/ led.row[led.ids.udp[m.id]].serial = m.serial
         \/ /\ m.epoch < led.row[led.ids.udp[m.id]].lease.epoch
            /\ m.epoch # led.row[led.ids.udp[m.id]].lease.epoch
            /\ m.gen # led.row[led.ids.udp[m.id]].lease.gen
<1> DEFINE b == led.ids.udp[m.id]
           r == led.row[b]
<1>1. m \in Messages /\ Env.wire = wire
  BY DEF IInv, NetInv, Env
<1>2. m.id \in Ids /\ m.gen \in Nat /\ m.epoch \in Nat
  BY <1>1 DEF Messages
<1>3. b \in Branches \cup {None}
  BY <1>2 DEF IInv, Good, Shape, TableShape
<1>4. Reaches(b, m.id) /\ r.lease.kind = "udp"
  OBVIOUS
<1> SUFFICES \/ r.serial = m.serial
             \/ /\ m.epoch < r.lease.epoch /\ m.epoch # r.lease.epoch
                /\ m.gen # r.lease.gen
  OBVIOUS
<1> HIDE DEF b
<1>5. r.st = "waiting" /\ r.lease.id = m.id /\ UdpOK(r, led.ids, Env)
  BY <1>3, <1>4, ReachedFacts
<1> HIDE DEF r
<1>6. \/ m.serial = r.serial /\ m.epoch = r.lease.epoch /\ m.gen = r.lease.gen
      \/ m.epoch < r.lease.epoch /\ m.gen < r.lease.gen
  BY <1>1, <1>4, <1>5 DEF UdpOK
<1> QED BY <1>2, <1>6

LEMMA StaleTcp ==
  ASSUME IInv, NEW f \in frames \cup asked, Reaches(led.ids.tcp[f.id], f.id)
  PROVE  led.row[led.ids.tcp[f.id]].serial = f.serial
<1> DEFINE b == led.ids.tcp[f.id]
           r == led.row[b]
<1>1. f.id \in StreamIds /\ f \in Env.reqs /\ Env.lanes = lanes
  BY DEF IInv, NetInv, Env
<1>2. b \in Branches \cup {None}
  BY <1>1 DEF IInv, Good, Shape, TableShape
<1>3. Reaches(b, f.id) /\ led.ids.tcp[f.id] = b
  OBVIOUS
<1> SUFFICES r.serial = f.serial
  OBVIOUS
<1> HIDE DEF b
<1>4. b \in Branches /\ r.st = "waiting" /\ r.lease.id = f.id /\ lanes[LaneOf(b)] # "cancelled"
      /\ TcpOK(r, b, Env)
  BY <1>2, <1>3, ReachedFacts
<1>5. r.lease.kind = "tcp"
  BY <1>1, <1>3, <1>4 DEF IInv, Good, IdsOf, LeasedIn
<1> HIDE DEF r
<1> QED BY <1>1, <1>4, <1>5 DEF TcpOK

LEMMA AnswersHold == IInv => NoStaleAnswer
<1> SUFFICES ASSUME IInv PROVE NoStaleAnswer
  OBVIOUS
<1>1. ASSUME NEW m \in wire, NEW a \in Answers, AcceptsUdp(m, led.ids.udp[m.id], a)
      PROVE  \/ led.row[led.ids.udp[m.id]].serial = m.serial
             \/ a = "StreamRequired" /\ m.epoch < led.row[led.ids.udp[m.id]].lease.epoch
  <2>1. /\ Reaches(led.ids.udp[m.id], m.id) /\ led.row[led.ids.udp[m.id]].lease.kind = "udp"
        /\ a # "StreamRequired" => m.gen = led.row[led.ids.udp[m.id]].lease.gen
    BY <1>1 DEF AcceptsUdp
  <2> QED BY <2>1, StaleUdp
<1>2. ASSUME NEW f \in asked, AcceptsStream(f, led.ids.tcp[f.id])
      PROVE  led.row[led.ids.tcp[f.id]].serial = f.serial
  BY <1>2, StaleTcp DEF AcceptsStream
<1> QED BY <1>1, <1>2 DEF NoStaleAnswer

(* receive::udp and receive::stream never take an answer for a             *)
(* transmission that it does not answer, however late or often it comes,   *)
(* but for a datagram without a cookie: that one may be of an earlier      *)
(* epoch of the ids, and moves the branch to the stream.                   *)
THEOREM AnswersAreFresh == Spec => []NoStaleAnswer
  BY Inductive, AnswersHold, PTL

LEMMA FailuresHold == IInv => NoStaleFailure
<1> SUFFICES ASSUME IInv PROVE NoStaleFailure
  OBVIOUS
<1>1. ASSUME NEW m \in sends, AcceptsSettlement(m, led.ids.udp[m.id])
      PROVE  led.row[led.ids.udp[m.id]].serial = m.serial
  <2>1. m \in wire
    BY DEF IInv, NetInv
  <2> QED BY <1>1, <2>1, StaleUdp DEF AcceptsSettlement
<1>2. ASSUME NEW f \in frames, Reaches(led.ids.tcp[f.id], f.id)
      PROVE  led.row[led.ids.tcp[f.id]].serial = f.serial
  BY <1>2, StaleTcp
<1> QED BY <1>1, <1>2 DEF NoStaleFailure

(* Queries::fail_udp and undo_stream act on the attempt that sent what     *)
(* failed or came back, and on no later one.                               *)
THEOREM FailuresAreFresh == Spec => []NoStaleFailure
  BY Inductive, FailuresHold, PTL

(* Some id is free: there are more ids than branches to lease them.        *)
LEMMA SomeIdIsFree == IInv => Offered(led.ids) # {}
<1> SUFFICES ASSUME IInv, Offered(led.ids) = {} PROVE FALSE
  OBVIOUS
<1> DEFINE t == led.ids
           g == t.udp
<1>0. config \in Configs /\ TableShape(t) /\ IdsOf(led, Branches) /\ PlanesOf(t)
  BY DEF IInv, NetInv, Good, Shape, IdsOf
<1>1. t.front \in 0 .. 1 /\ g \in [Ids -> Branches \cup {None}] /\ Offered(t) = {}
  BY <1>0, TableFacts
<1> HIDE DEF t
<1>2. t.free[0] = {} /\ t.free[1] = {}
  <2>1. Rotates(t) /\ t.free[1 - t.front] = {} /\ t.free[t.front] = {}
    BY <1>1 DEF Offered, Rotates
  <2>2. t.front = 0 \/ t.front = 1
    BY <1>1
  <2>3. CASE t.front = 0
    BY <2>1, <2>3
  <2>4. CASE t.front = 1
    BY <2>1, <2>4
  <2> QED BY <2>2, <2>3, <2>4
<1>3. \A i \in Ids : g[i] \in Branches
  BY <1>0, <1>1, <1>2 DEF PlanesOf
<1>4. \A i, j \in Ids : g[i] = g[j] => i = j
  <2> SUFFICES ASSUME NEW i \in Ids, NEW j \in Ids, g[i] = g[j] PROVE i = j
    OBVIOUS
  <2>1. led.row[g[i]].lease.id = i /\ led.row[g[j]].lease.id = j
    BY <1>0, <1>3 DEF IdsOf, t
  <2> QED BY <2>1
<1>5. g \in Injection(Ids, Branches)
  <2>1. g \in [Ids -> Branches]
    BY <1>1, <1>3
  <2> QED BY <1>4, <2>1 DEF Injection, IsInjective
<1>6. Cardinality(Ids) <= Cardinality(Branches)
  BY <1>0, <1>5, BranchesAreFew, FS_Injection
<1>7. Cardinality(Ids) \in Nat /\ Cardinality(Branches) \in Nat
      /\ Cardinality(Branches) < Cardinality(Ids)
  BY <1>0, BranchesAreFew, ConfigFacts, FS_CardinalityType DEF Ids
<1> QED BY <1>6, <1>7

LEMMA IdentitiesHold == IInv => IdentitiesSuffice
<1> SUFFICES ASSUME IInv PROVE IdentitiesSuffice
  OBVIOUS
<1>0. config \in Configs /\ Good(led, Branches, 0, Env) /\ TableShape(led.ids)
      /\ config.streamIds \in Nat
  BY ConfigFacts DEF IInv, NetInv, Good, Shape
<1>1. ASSUME link.st = "open", link.issued < config.streamIds, NoneCancelled
      PROVE  led.ids.tcp[NextId] = None
  <2>1. link.start \in StreamIds /\ link.issued \in 0 .. config.streamIds - 1
    <3>1. link.start \in StreamIds /\ link.issued \in 0 .. config.streamIds
      BY <1>1, LinkShapes
    <3> QED BY <1>0, <1>1, <3>1
  <2>2. NextId \in StreamIds /\ NextId \notin Used(link)
    <3> DEFINE k2 == [start |-> link.start, issued |-> link.issued + 1]
    <3>1. k2.start = link.start /\ k2.issued = link.issued + 1
      OBVIOUS
    <3> HIDE DEF k2
    <3> QED BY <1>0, <2>1, <3>1, UsedFacts DEF NextId
  <2> SUFFICES ASSUME led.ids.tcp[NextId] # None PROVE FALSE
    OBVIOUS
  <2> DEFINE b == led.ids.tcp[NextId]
  <2>3. b \in Branches
    <3>1. led.ids.tcp \in [StreamIds -> Branches \cup {None}]
      BY <1>0, TableFacts
    <3> QED BY <2>2, <3>1
  <2>4. led.row[b].st = "waiting" /\ led.row[b].lease.kind = "tcp" /\ led.row[b].lease.id = NextId
    BY <1>0, <2>2, <2>3 DEF Good, IdsOf, LeasedIn
  <2> HIDE DEF b
  <2>5. lanes[LaneOf(b)] # "cancelled"
    BY <1>0, <1>1, <2>3, BranchFacts DEF NoneCancelled
  <2>6. TcpOK(led.row[b], b, Env) /\ Env.lanes = lanes /\ Env.link = link
    BY <1>0, <2>3 DEF Good, RowsOK, Env
  <2> QED BY <1>1, <2>2, <2>4, <2>5, <2>6 DEF TcpOK
<1>2. ASSUME NEW b \in Leased("tcp")
      PROVE  lanes[LaneOf(b)] = "cancelled" \/ (link.st # "none" /\ link.srv = led.row[b].try.stream)
  <2>1. b \in Branches /\ led.row[b].st = "waiting" /\ led.row[b].lease.kind = "tcp"
    BY DEF Leased, RowsIn
  <2>2. TcpOK(led.row[b], b, Env) /\ Env.lanes = lanes /\ Env.link = link
    BY <1>0, <2>1 DEF Good, RowsOK, Env
  <2> QED BY <2>1, <2>2 DEF TcpOK
<1> QED BY <1>1, <1>2, SomeIdIsFree DEF IdentitiesSuffice

(* Neither Identity::Stream nor Identity::Datagram can be returned: an     *)
(* identity is free for every request that a transport admits, since an    *)
(* open connection issues each stream id once, the last one's transactions *)
(* are retired before the next opens, and there are more ids than branches.*)
THEOREM IdentitiesNeverFail == Spec => []IdentitiesSuffice
  BY Inductive, IdentitiesHold, PTL

LEMMA PollsHold == IInv => PollEndsQuery
<1> SUFFICES ASSUME IInv PROVE PollEndsQuery
  OBVIOUS
<1>0. config \in Configs /\ Good(led, Branches, 0, Env) /\ now \in Nat
  BY ConfigFacts DEF IInv, NetInv
<1>1. ASSUME NEW l \in Lanes, now >= slot[l].hard PROVE Over(Polled(l), l)
  <2>1. Late(slot[l].hard)
    BY <1>1 DEF Late
  <2> QED BY <1>0, <2>1, PolledGood
<1> QED BY <1>1 DEF PollEndsQuery

(* Slot::poll ends a query whose hard deadline has passed, whatever its    *)
(* branches wait for.                                                      *)
THEOREM LatePollsEndQueries == Spec => []PollEndsQuery
  BY Inductive, PollsHold, PTL
=============================================================================
