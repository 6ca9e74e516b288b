------------------------------ MODULE DnsTable ------------------------------
(***************************************************************************)
(* The transaction identities of the DNS resolver                          *)
(* (layer2/dns/src/storage/queries/tx): the pool of datagram ids, split in *)
(* the ids still free in this epoch (the front plane) and the ids to be    *)
(* issued again in the next one, the owner of every id, and the generation *)
(* counter behind the client cookies.  The table is a record and every     *)
(* operation maps a table to a table; DnsQueries holds it as state.        *)
(*                                                                         *)
(* The epoch and the generation stop, with an error, at Epoch::MAX (max).  *)
(***************************************************************************)
EXTENDS Integers, FiniteSets

CONSTANT None

ASSUME NoneAssumption == None \notin Nat

TableType(ids, streamIds, servers, owners, max) ==
    LET Epochs == 0 .. max IN
    [free : [0 .. 1 -> SUBSET ids], front : 0 .. 1, epoch : Epochs,
     udp : [ids -> owners \cup {None}], tcp : [streamIds -> owners \cup {None}],
     streams : Nat, gen : Epochs, retired : Epochs, cached : [servers -> Epochs]]

NewTable(ids, streamIds, servers) ==
    [free |-> [p \in 0 .. 1 |-> IF p = 0 THEN ids ELSE {}], front |-> 0, epoch |-> 0,
     udp |-> [i \in ids |-> None], tcp |-> [i \in streamIds |-> None],
     streams |-> 0, gen |-> 0, retired |-> 0, cached |-> [s \in servers |-> 0]]

(* Cookies::clear; a cached generation of 0 stands for no cached pair.     *)
ClearCookies(t) == [t EXCEPT !.cached = [s \in DOMAIN @ |-> 0], !.retired = t.gen]

(* Cookies::cache: a pair of a retired generation is refused.              *)
Cacheable(t, gen) == gen > t.retired
Cache(t, s, gen) == IF Cacheable(t, gen) THEN [t EXCEPT !.cached[s] = gen] ELSE t

Rotates(t) == t.free[t.front] = {}
TryRotate(t) == [ClearCookies(t) EXCEPT !.epoch = @ + 1, !.front = 1 - @]

(* The ids try_udp may take: a random one of the front plane, or of the    *)
(* other one when the front is empty.                                      *)
Offered(t) == t.free[IF Rotates(t) THEN 1 - t.front ELSE t.front]

(* The table and the outcome of try_udp for an id it took: the rotation    *)
(* and the cookie generation each fail at their bound, and the id is then  *)
(* restored to the plane it came from.                                     *)
TryUdp(t, b, s, id, max) ==
    LET plane == IF Rotates(t) THEN 1 - t.front ELSE t.front
        r == IF Rotates(t) THEN TryRotate(t) ELSE t
        gen == IF r.cached[s] # 0 THEN r.cached[s] ELSE r.gen + 1
        issued == [r EXCEPT !.gen = IF gen > @ THEN gen ELSE @,
                            !.free[plane] = @ \ {id}, !.udp[id] = b]
    IN  IF Rotates(t) /\ t.epoch = max THEN [ok |-> FALSE, table |-> t]
        ELSE IF gen > max THEN [ok |-> FALSE, table |-> r]
        ELSE [ok |-> TRUE, table |-> issued,
              lease |-> [kind |-> "udp", id |-> id, epoch |-> r.epoch, gen |-> gen]]

TryTcp(t, b, id) ==
    IF t.tcp[id] # None THEN [ok |-> FALSE, table |-> t]
    ELSE [ok |-> TRUE, table |-> [t EXCEPT !.tcp[id] = b, !.streams = @ + 1],
          lease |-> [kind |-> "tcp", id |-> id]]

ClearTcp(t, id) ==
    IF t.tcp[id] = None THEN t ELSE [t EXCEPT !.tcp[id] = None, !.streams = @ - 1]

(* Mutant: a released identifier is the next to be given out.              *)
ReleaseToFront(t, lease) ==
    IF lease.kind = "tcp" THEN ClearTcp(t, lease.id)
    ELSE [t EXCEPT !.udp[lease.id] = None, !.free[t.front] = @ \cup {lease.id}]

(* Table::release: an id of this epoch waits for the next one, an id of an *)
(* earlier epoch is free at once.                                          *)
Release(t, lease) ==
    IF lease.kind = "tcp" THEN ClearTcp(t, lease.id)
    ELSE LET back == IF lease.epoch = t.epoch THEN 1 - t.front ELSE t.front
         IN  [t EXCEPT !.udp[lease.id] = None, !.free[back] = @ \cup {lease.id}]
=============================================================================
