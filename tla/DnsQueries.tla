----------------------------- MODULE DnsQueries -----------------------------
(***************************************************************************)
(* The query ledger of the DNS resolver (layer2/dns/src/storage/queries)   *)
(* with the two transports that drive it: the datagram socket              *)
(* (net/udp/mod.rs) and the one stream connection (net/stream).            *)
(*                                                                         *)
(* A lane is held by a lookup, which starts a query on it and polls it; a  *)
(* query has one branch per address family.  A branch is pending (queued   *)
(* for the socket or for the stream of a server), waiting (a transaction   *)
(* is outstanding) or final.  Answers, send failures, closed connections   *)
(* and deadlines all race for the same branch.                             *)
(*                                                                         *)
(* A name is abstracted to the number of aliases followed, an answer to    *)
(* the kind of Reply, an error to whether it is terminal.  serial numbers  *)
(* every transmission; it is a history variable: no step reads it.         *)
(* Bounds: maxTime (the clock) and maxSubmits (transmissions).             *)
(***************************************************************************)
EXTENDS DnsTable

CONSTANT Configs   \* the configurations to consider

(* The lanes, families and ids are numbered from 0 and the servers from 1. *)
(* There are more ids than branches: LANES <= 32767 and 65536 ids.         *)
(* total_timeout >= attempt_timeout is checked by config::Validated.       *)
ASSUME ConfigAssumption ==
    \A c \in Configs :
        /\ c.lanes \in Nat \ {0} /\ c.families \in 1 .. 2
        /\ IsFiniteSet(c.ids) /\ Cardinality(c.ids) > c.lanes * c.families
        /\ c.streamIds \in Nat \ {0} /\ c.servers \in Nat \ {0}
        /\ c.attempts \in Nat \ {0} /\ c.timeout \in Nat \ {0}
        /\ c.total \in Nat /\ c.total >= c.timeout
        /\ c.epochMax \in Nat /\ c.maxHops \in Nat /\ c.maxTime \in Nat /\ c.maxSubmits \in Nat

VARIABLES
    config,  \* the validated configuration, never changed
    now,     \* the driver's clock
    lanes,   \* per lane: free, held, or cancelled (dropped and not yet retired)
    slot,    \* per lane: idle, query (with its hard deadline) or complete
    led,     \* the ledger's rows and its registry: pending, live, ids
    failed,  \* Registry::stream_failure is set
    sends,   \* datagrams handed to the socket and not yet settled
    wire,    \* datagrams handed to the socket: each may be answered, late or twice
    link,    \* the stream connection: none, open or retiring
    frames,  \* stream requests queued on the connection
    asked,   \* stream requests sent on the open connection
    serial   \* transmissions so far (history)

vars == <<config, now, lanes, slot, led, failed, sends, wire, link, frames, asked, serial>>
net == <<sends, wire, link, frames, asked, serial>>

Lanes == 0 .. config.lanes - 1
Families == 0 .. config.families - 1
Ids == config.ids
StreamIds == 0 .. config.streamIds - 1
Servers == 1 .. config.servers

(* The ordinal of a branch is 2 * lane + family.                           *)
Branches == {2 * l + f : l \in Lanes, f \in Families}
LaneOf(b) == b \div 2
Row(l) == {2 * l + f : f \in Families}
NextServer(s) == (s % config.servers) + 1
Deadline(hard) == IF now + config.timeout < hard THEN now + config.timeout ELSE hard
Final == [st |-> "final"]
Active == {"pending", "waiting"}
NoLink == [st |-> "none"]

(* Attempt::initial on the first server.                                   *)
Initial(hard) == [srv |-> 1, att |-> 0, stream |-> 0, cookie |-> FALSE,
                  hops |-> 0, dl |-> Deadline(hard)]

(* Plan::try_build; Udp::bind then clears a cookie cache that is empty.    *)
Init ==
    /\ config \in Configs
    /\ now = 0
    /\ lanes = [l \in Lanes |-> "free"]
    /\ slot = [l \in Lanes |-> [st |-> "idle"]]
    /\ led = [row |-> [b \in Branches |-> Final],
              pending |-> {}, live |-> [s \in Servers |-> 0], ids |-> NewTable(Ids, StreamIds, Servers)]
    /\ failed = FALSE
    /\ sends = {} /\ wire = {} /\ frames = {} /\ asked = {}
    /\ link = NoLink
    /\ serial = 0
-----------------------------------------------------------------------------
(* Transitions of one row.  Each maps a ledger to a ledger.                *)

(* Row::pending and Row::unregister: the plane is 0 for the socket and     *)
(* otherwise the server whose stream the request needs.                    *)
SetPending(d, b, a) ==
    [d EXCEPT !.row[b] = [st |-> "pending", try |-> a],
              !.pending = @ \cup {<<a.stream, b>>}]

(* Mutant: an ended branch stays in the registry.                          *)
KeepRegistered(d, b, a) == d

Unregister(d, b, a) == [d EXCEPT !.pending = @ \ {<<a.stream, b>>}]

(* Attempt::release and Attempt::finish.                                   *)
ReleaseLive(d, a) ==
    IF a.stream = 0 THEN d ELSE [d EXCEPT !.live[a.stream] = @ - 1]
Finish(d, b, a) == [ReleaseLive(d, a) EXCEPT !.row[b] = Final]

(* Attempt::stream: a truncated stream answer is an error.                 *)
ToStream(d, b, a) ==
    IF a.stream # 0 THEN Finish(d, b, a)
    ELSE SetPending([d EXCEPT !.live[a.srv] = @ + 1], b, [a EXCEPT !.stream = a.srv])

(* Attempt::retry: the next server, unless the error is terminal, the      *)
(* query is over or the attempts are used up.                              *)
Transfer(d, a, s) ==
    IF a.stream = 0 THEN d
    ELSE [ReleaseLive(d, a) EXCEPT !.live[s] = @ + 1]

Retry(d, b, a, hard, terminal) ==
    IF terminal \/ hard <= now \/ a.att + 1 >= config.attempts THEN Finish(d, b, a)
    ELSE LET s == NextServer(a.srv)
         IN  SetPending(Transfer(d, a, s), b,
                 [a EXCEPT !.att = @ + 1, !.cookie = FALSE, !.srv = s,
                           !.stream = IF @ = 0 THEN 0 ELSE s, !.dl = Deadline(hard)])

(* Final stands for the replies that end the branch: addresses, no data,   *)
(* a name error, too many addresses, a malformed answer.                   *)
Replies == {"Final", "Refused", "Alias", "Truncated"}

(* Attempt::apply.                                                         *)
Apply(d, b, a, hard, reply) ==
    CASE reply = "Final" -> Finish(d, b, a)
      [] reply = "Refused" -> Retry(d, b, a, hard, FALSE)
      [] reply = "Truncated" -> ToStream(d, b, a)
      [] reply = "Alias" ->
            IF a.hops + 1 > config.maxHops THEN Finish(d, b, a)
            ELSE SetPending(d, b, [a EXCEPT !.hops = @ + 1, !.att = 0,
                                            !.cookie = FALSE, !.dl = Deadline(hard)])

(* Attempt::cookie: one retry with the new cookie, then the stream.        *)
RetryCookie(d, b, a) ==
    IF a.cookie THEN ToStream(d, b, a) ELSE SetPending(d, b, [a EXCEPT !.cookie = TRUE])

(* Ledger::accept: the lease is released before the row moves on.          *)
Accept(d, b) ==
    [d EXCEPT !.ids = Release(@, d.row[b].lease), !.row[b] = Final]

(* Registry::retire.                                                       *)
RetireRow(d, b) ==
    LET r == d.row[b]
        final == [d EXCEPT !.row[b] = Final]
    IN  CASE r.st = "pending" -> ReleaseLive(Unregister(final, b, r.try), r.try)
          [] r.st = "waiting" -> ReleaseLive(Accept(d, b), r.try)
          [] OTHER -> final

(* An operation on every row of a lane, family by family.                  *)
OnRows(Op(_, _), d, l) ==
    LET first == IF 0 \in Families THEN Op(d, 2 * l) ELSE d
    IN  IF 1 \in Families THEN Op(first, 2 * l + 1) ELSE first

RetireRows(d, l) == OnRows(RetireRow, d, l)

(* Slot::complete: the slot is complete once no branch is outstanding.     *)
Over(d, l) == \A b \in Row(l) : d.row[b].st = "final"

(* Commit a ledger in which rows of lane l may have become final.          *)
Settle(d, l) ==
    /\ led' = d
    /\ slot' = IF slot[l].st = "query" /\ Over(d, l)
               THEN [slot EXCEPT ![l] = [st |-> "complete"]] ELSE slot
-----------------------------------------------------------------------------
(* The lookup that owns a lane.                                            *)

Tick ==
    /\ now < config.maxTime
    /\ now' = now + 1
    /\ UNCHANGED <<lanes, slot, led, failed, net>>

Vacate(l) == slot' = [slot EXCEPT ![l] = [st |-> "idle"]]

(* Queries::claim takes a free lane, or retires a cancelled one.           *)
Claim(l) ==
    /\ \/ lanes[l] = "free" /\ UNCHANGED <<slot, led>>
       \/ /\ \A m \in Lanes : lanes[m] # "free"
          /\ lanes[l] = "cancelled"
          /\ led' = RetireRows(led, l)
          /\ Vacate(l)
    /\ lanes' = [lanes EXCEPT ![l] = "held"]
    /\ UNCHANGED <<now, failed, net>>

(* The lookup is dropped.                                                  *)
Cancel(l) ==
    /\ lanes[l] = "held"
    /\ lanes' = [lanes EXCEPT ![l] = "cancelled"]
    /\ UNCHANGED <<now, slot, led, failed, net>>

(* Queries::cleanup, one lane per permit.                                  *)
Cleanup(l) ==
    /\ lanes[l] = "cancelled"
    /\ led' = RetireRows(led, l)
    /\ Vacate(l)
    /\ lanes' = [lanes EXCEPT ![l] = "free"]
    /\ UNCHANGED <<now, failed, net>>

(* Lane::start: the lookup starts a query only after a poll that was idle. *)
Start(l) ==
    /\ lanes[l] = "held" /\ slot[l].st = "idle"
    /\ now + config.total <= config.maxTime
    /\ LET hard == now + config.total
           d == RetireRows(led, l)
       IN  /\ slot' = [slot EXCEPT ![l] = [st |-> "query", hard |-> hard]]
           /\ led' = LET Begin(x, b) == SetPending(x, b, Initial(hard)) IN OnRows(Begin, d, l)
    /\ UNCHANGED <<now, lanes, failed, net>>

(* Slot::poll, for one row: first the stream failure, then the deadline.   *)
FailStream(d, b) ==
    IF failed /\ d.row[b].st \in Active /\ d.row[b].try.stream # 0
    THEN RetireRow(d, b) ELSE d

(* Mutant: only a branch that waits for an answer runs into its deadline.  *)
ExpireWaiting(d, b, hard) ==
    LET r == d.row[b]
    IN  IF r.st # "waiting" \/ r.try.dl > now THEN d
        ELSE Retry(Accept(d, b), b, r.try, hard, FALSE)

Expire(d, b, hard) ==
    LET r == d.row[b]
    IN  IF r.st \notin Active \/ r.try.dl > now THEN d
        ELSE IF r.st = "waiting" THEN Retry(Accept(d, b), b, r.try, hard, FALSE)
        ELSE Retry(Unregister(d, b, r.try), b, r.try, hard, FALSE)

Polled(l) ==
    LET Due(d, b) == Expire(d, b, slot[l].hard)
    IN  OnRows(Due, OnRows(FailStream, led, l), l)

(* Slot::poll takes the completion in the call that finds it.              *)
Poll(l) ==
    /\ lanes[l] = "held"
    /\ \/ /\ slot[l].st = "query"
          /\ led' = Polled(l)
          /\ IF Over(led', l) THEN Vacate(l) ELSE UNCHANGED slot
       \/ slot[l].st = "complete" /\ Vacate(l) /\ UNCHANGED led
    /\ UNCHANGED <<now, lanes, failed, net>>
-----------------------------------------------------------------------------
(* The datagram socket.                                                    *)

NoneCancelled == \A l \in Lanes : lanes[l] # "cancelled"

(* The branch a claim takes: the first of its plane.                       *)
Plane(p) == {b \in Branches : <<p, b>> \in led.pending}
Front(p) == CHOOSE b \in Plane(p) : \A c \in Plane(p) : b <= c
Take(p) == [led EXCEPT !.pending = @ \ {<<p, Front(p)>>}]

(* Candidate::take: an entry past its deadline is left to the poll.  A     *)
(* claimed entry whose row is not pending does not occur (QueuesAreExact). *)
Ready(p) == Plane(p) # {} /\ led.row[Front(p)].try.dl > now

Waiting(d, b, a, lease) ==
    [d EXCEPT !.row[b] = [st |-> "waiting", try |-> a, lease |-> lease, serial |-> serial]]

(* State::send and Queries::admit_udp, after a complete cleanup.  The      *)
(* socket takes the datagram, defers it, or refuses it for good.           *)
AdmitUdp(outcome) ==
    /\ NoneCancelled
    /\ Ready(0)
    /\ LET b == Front(0)
           a == led.row[b].try
       IN \E id \in Offered(led.ids) :
          LET got == TryUdp(led.ids, b, a.srv, id, config.epochMax)
              d == [Take(0) EXCEPT !.ids = got.table]
          IN  \/ /\ ~got.ok
                 /\ Settle(Finish(d, b, a), LaneOf(b))
                 /\ UNCHANGED <<sends, wire, serial>>
              \/ /\ got.ok /\ outcome = "Committed" /\ serial < config.maxSubmits
                 /\ LET lease == got.lease
                        m == [id |-> id, epoch |-> lease.epoch, gen |-> lease.gen,
                              srv |-> a.srv, hops |-> a.hops, fam |-> b % 2,
                              serial |-> serial]
                    IN  /\ led' = Waiting(d, b, a, lease)
                        /\ sends' = sends \cup {m}
                        /\ wire' = wire \cup {m}
                 /\ serial' = serial + 1
                 /\ UNCHANGED slot
              \/ /\ got.ok /\ outcome = "Deferred"
                 /\ led' = [led EXCEPT !.ids = Release(got.table, got.lease)]
                 /\ UNCHANGED <<slot, sends, wire, serial>>
              \/ /\ got.ok /\ outcome = "Failed"
                 /\ Settle(Finish([d EXCEPT !.ids = Release(@, got.lease)], b, a),
                           LaneOf(b))
                 /\ UNCHANGED <<sends, wire, serial>>
    /\ UNCHANGED <<now, lanes, failed, link, frames, asked>>

(* The row an incoming event finds: its id's owner, if its lane is held    *)
(* and its row is waiting for that id.                                     *)
Reaches(b, id) ==
    /\ b # None
    /\ lanes[LaneOf(b)] # "cancelled"
    /\ led.row[b].st = "waiting"
    /\ led.row[b].lease.id = id

(* What a datagram decodes to: a reply or a refused cookie, both beside    *)
(* the client cookie of the query, or StreamRequired, which is any reply   *)
(* without a cookie option.                                                *)
Answers == Replies \cup {"BadCookie", "StreamRequired"}

(* receive::udp up to the decoded answer.  The client cookie is compared   *)
(* when the reply has one (Server::from_options), and only then.           *)
AcceptsUdp(m, b, answer) ==
    /\ Reaches(b, m.id)
    /\ LET r == led.row[b] IN
       /\ now < r.try.dl
       /\ r.lease.kind = "udp" /\ r.try.stream = 0
       /\ m.srv = r.try.srv /\ m.hops = r.try.hops /\ m.fam = b % 2
       /\ answer # "StreamRequired" => m.gen = r.lease.gen

ReceiveUdp(m, answer) ==
    LET b == led.ids.udp[m.id]
        l == LaneOf(b)
        r == led.row[b]
        d == Accept(led, b)
        c == [d EXCEPT !.ids = Cache(@, r.try.srv, r.lease.gen)]
    IN  /\ AcceptsUdp(m, b, answer)
        /\ \/ answer \in Replies /\ Settle(Apply(c, b, r.try, slot[l].hard, answer), l)
           \/ /\ answer = "BadCookie"
              /\ Settle(IF Cacheable(d.ids, r.lease.gen) THEN RetryCookie(c, b, r.try)
                        ELSE ToStream(d, b, r.try), l)
           \/ answer = "StreamRequired" /\ Settle(ToStream(d, b, r.try), l)
        /\ UNCHANGED <<now, lanes, failed, net>>

(* Mutant: the settlement of a cancelled send counts for its successor.    *)
SettlesOfAnyEpoch(m, b) ==
    /\ Reaches(b, m.id)
    /\ led.row[b].lease.kind = "udp"
    /\ led.row[b].try.stream = 0 /\ led.row[b].try.srv = m.srv

(* Queries::fail_udp: the row its settlement names.                        *)
AcceptsSettlement(m, b) ==
    /\ Reaches(b, m.id)
    /\ LET r == led.row[b] IN
       /\ r.lease.kind = "udp" /\ r.lease.epoch = m.epoch
       /\ r.try.stream = 0 /\ r.try.srv = m.srv

(* The socket settles a datagram: sent whole, or failed.                   *)
SettleSend(m, outcome) ==
    LET b == led.ids.udp[m.id]
        l == LaneOf(b)
        hit == outcome # "Sent" /\ AcceptsSettlement(m, b)
    IN  /\ sends' = sends \ {m}
        /\ IF hit THEN Settle(Retry(Accept(led, b), b, led.row[b].try, slot[l].hard,
                                    outcome = "Terminal"), l)
                  ELSE UNCHANGED <<slot, led>>
        /\ UNCHANGED <<now, lanes, failed, wire, link, frames, asked, serial>>

-----------------------------------------------------------------------------
(* The stream connection.                                                  *)

(* Logic::connect, to a server the demand set offers; the cursor starts at *)
(* an id hashed from the connection.  The slot's last connection is gone.  *)
Connect(s, start) ==
    /\ link.st = "none" /\ frames = {}
    /\ NoneCancelled /\ Plane(s) # {}
    /\ link' = [st |-> "open", srv |-> s, start |-> start, issued |-> 0]
    /\ UNCHANGED <<now, lanes, slot, led, failed, sends, wire, frames, asked, serial>>

(* Logic::exhaust: the pool can open no connection.                        *)
ExhaustTcp ==
    /\ link.st = "none" /\ ~failed
    /\ failed' = TRUE
    /\ UNCHANGED <<now, lanes, slot, led, net>>

(* Cursor::next.                                                           *)
NextId == (link.start + link.issued) % config.streamIds

(* Logic::drain, one request per step.                                     *)
SubmitTcp(outcome) ==
    /\ link.st = "open" /\ link.issued < config.streamIds
    /\ NoneCancelled
    /\ Ready(link.srv)
    /\ LET b == Front(link.srv)
           a == led.row[b].try
           got == TryTcp(led.ids, b, NextId)
           d == [Take(link.srv) EXCEPT !.ids = got.table]
       IN \/ /\ ~got.ok
             /\ Settle(Finish(d, b, a), LaneOf(b))
             /\ UNCHANGED <<link, frames, serial>>
          \/ /\ got.ok /\ outcome = "Committed" /\ serial < config.maxSubmits
             /\ led' = Waiting(d, b, a, got.lease)
             /\ frames' = frames \cup {[id |-> NextId, serial |-> serial]}
             /\ serial' = serial + 1
             /\ link' = [link EXCEPT !.issued = @ + 1]
             /\ UNCHANGED slot
          \/ /\ got.ok /\ outcome = "Failed"
             /\ Settle(Finish([d EXCEPT !.ids = ClearTcp(@, NextId)], b, a), LaneOf(b))
             /\ link' = [link EXCEPT !.issued = @ + 1]
             /\ UNCHANGED <<frames, serial>>
    /\ UNCHANGED <<now, lanes, failed, sends, wire, asked>>

(* The connection puts a queued frame on the wire.                         *)
Transmit(f) ==
    /\ link.st = "open"
    /\ frames' = frames \ {f}
    /\ asked' = asked \cup {f}
    /\ UNCHANGED <<now, lanes, slot, led, failed, sends, wire, link, serial>>

(* receive::stream up to the decoded answer.                               *)
AcceptsStream(f, b) ==
    /\ Reaches(b, f.id)
    /\ LET r == led.row[b] IN
       now < r.try.dl /\ r.lease.kind = "tcp" /\ r.try.stream = link.srv

ReceiveStream(f, answer) ==
    LET b == led.ids.tcp[f.id]
        l == LaneOf(b)
        r == led.row[b]
    IN  /\ link.st = "open"
        /\ AcceptsStream(f, b)
        /\ IF answer = "Malformed"
           THEN Settle(Retry(Accept(led, b), b, r.try, slot[l].hard, FALSE), l)
           ELSE Settle(Apply(Accept(led, b), b, r.try, slot[l].hard, answer), l)
        /\ UNCHANGED <<now, lanes, failed, net>>

Modes == {"Resume", "Expired", "Fail"}

(* A close, for any reason: Logic::quarantine, io_fail and reject.  An     *)
(* exhausted identity also ends every later use of the stream.             *)
Close(mode, terminal) ==
    /\ link.st = "open"
    /\ terminal => mode = "Fail"
    /\ link' = [st |-> "retiring", srv |-> link.srv, mode |-> mode, next |-> 0]
    /\ failed' = (failed \/ terminal)
    /\ asked' = {}
    /\ UNCHANGED <<now, lanes, slot, led, sends, wire, frames, serial>>

(* The egress lane gives a queued frame back: Queries::undo_stream.        *)
UndoStream(f) ==
    LET b == led.ids.tcp[f.id]
    IN  /\ link.st # "open"
        /\ frames' = frames \ {f}
        /\ led' = IF Reaches(b, f.id)
                  THEN SetPending(Accept(led, b), b, led.row[b].try) ELSE led
        /\ UNCHANGED <<now, lanes, slot, failed, sends, wire, link, asked, serial>>

(* index::Retirement::LIMIT.                                               *)
Limit == 2 * config.lanes

(* Queries::retire, one branch per permit.                                 *)
RetireStream ==
    /\ link.st = "retiring"
    /\ link.next < Limit
    /\ link' = [link EXCEPT !.next = @ + 1]
    /\ LET b == link.next
           l == LaneOf(b)
           r == led.row[b]
           hit == b \in Branches /\ lanes[l] # "cancelled" /\ r.st = "waiting" /\ r.try.stream = link.srv
           d == Accept(led, b)
           mode == IF failed THEN "Fail" ELSE link.mode
       IN  IF ~hit THEN UNCHANGED <<slot, led>>
           ELSE IF mode = "Resume" \/ (mode = "Expired" /\ r.try.dl > now)
           THEN led' = SetPending(d, b, r.try) /\ UNCHANGED slot
           ELSE Settle(Retry(d, b, r.try, slot[l].hard, failed), l)
    /\ UNCHANGED <<now, lanes, failed, sends, wire, frames, asked, serial>>

(* Mutant: a closed stream is forgotten before its transactions are.       *)
DisconnectEarly ==
    /\ link.st = "retiring"
    /\ link' = NoLink
    /\ UNCHANGED <<now, lanes, slot, led, failed, sends, wire, frames, asked, serial>>

(* The retirement ends when no transaction or no branch is left.           *)
Disconnect ==
    /\ link.st = "retiring"
    /\ link.next = Limit \/ led.ids.streams = 0
    /\ link' = NoLink
    /\ UNCHANGED <<now, lanes, slot, led, failed, sends, wire, frames, asked, serial>>

Outcomes == {"Committed", "Deferred", "Failed"}

Next ==
    /\ \/ Tick \/ ExhaustTcp \/ RetireStream \/ Disconnect
       \/ \E l \in Lanes : Claim(l) \/ Cancel(l) \/ Cleanup(l) \/ Start(l) \/ Poll(l)
       \/ \E o \in Outcomes : AdmitUdp(o) \/ SubmitTcp(o)
       \/ \E m \in wire : \E a \in Answers : ReceiveUdp(m, a)
       \/ \E m \in sends : \E o \in {"Sent", "Lost", "Terminal"} : SettleSend(m, o)
       \/ \E s \in Servers : \E i \in StreamIds : Connect(s, i)
       \/ \E f \in frames : Transmit(f) \/ UndoStream(f)
       \/ \E f \in asked : \E a \in Replies \cup {"Malformed"} : ReceiveStream(f, a)
       \/ \E m \in Modes, t \in BOOLEAN : Close(m, t)
    /\ UNCHANGED config

Spec == Init /\ [][Next]_vars
-----------------------------------------------------------------------------
(* The types of the variables; part of AccountsAreExact.                   *)
TypeOK ==
    /\ config \in Configs
    /\ now \in 0 .. config.maxTime
    /\ lanes \in [Lanes -> {"free", "held", "cancelled"}]
    /\ \A l \in Lanes : slot[l].st \in {"idle", "query", "complete"}
    /\ \A b \in Branches : led.row[b].st \in Active \cup {"final"}
    /\ led.pending \subseteq (Servers \cup {0}) \X Branches
    /\ led.live \in [Servers -> Nat]
    /\ led.ids \in TableType(Ids, StreamIds, Servers, Branches, config.epochMax)
    /\ link.st \in {"none", "open", "retiring"}
    /\ serial \in 0 .. config.maxSubmits

RowsIn(k) == {b \in Branches : led.row[b].st = k}
Streaming(s) == {b \in Branches : led.row[b].st \in Active /\ led.row[b].try.stream = s}
Leased(kind) == {b \in RowsIn("waiting") : led.row[b].lease.kind = kind}

(* The books of the ledger are exact: the queues hold exactly the pending  *)
(* branches, each in the plane of its transport, so no request is          *)
(* forgotten and none is sent twice; the demand the pool connects on       *)
(* counts the branches that need a stream of that server; every id is free *)
(* in one plane or leased to the one branch it names.                      *)
QueuesAreExact ==
    led.pending = {<<led.row[b].try.stream, b>> : b \in RowsIn("pending")}

LiveIsExact == \A s \in Servers : led.live[s] = Cardinality(Streaming(s))

IdsAreExact ==
    LET t == led.ids IN
    /\ t.free[0] \cap t.free[1] = {}
    /\ \A i \in Ids : t.udp[i] = None <=> i \in t.free[0] \cup t.free[1]
    /\ \A b \in Branches :
         /\ \A i \in Ids : t.udp[i] = b <=> b \in Leased("udp") /\ led.row[b].lease.id = i
         /\ \A i \in StreamIds : t.tcp[i] = b <=> b \in Leased("tcp") /\ led.row[b].lease.id = i
    /\ t.streams = Cardinality(Leased("tcp"))

AccountsAreExact == TypeOK /\ QueuesAreExact /\ LiveIsExact /\ IdsAreExact

(* A late or repeated answer never ends a transmission it does not answer, *)
(* over either transport, with one exception: a datagram without a cookie  *)
(* is taken on the strength of its id, server and question alone.  It may  *)
(* be the late answer to an earlier transmission, but never to one of the  *)
(* same epoch of the ids, and the one thing it does is move the branch to  *)
(* the stream (receive::udp, Table::try_udp).                              *)
NoStaleAnswer ==
    /\ \A m \in wire, a \in Answers :
         LET r == led.row[led.ids.udp[m.id]]
         IN  AcceptsUdp(m, led.ids.udp[m.id], a)
               => \/ r.serial = m.serial
                  \/ a = "StreamRequired" /\ m.epoch < r.lease.epoch
    /\ link.st = "open" =>
       \A f \in asked : AcceptsStream(f, led.ids.tcp[f.id])
                         => led.row[led.ids.tcp[f.id]].serial = f.serial

(* The failure of a send retries only the attempt that sent it, and a      *)
(* frame that comes back unsent requeues only the request it carried.      *)
NoStaleFailure ==
    /\ \A m \in sends : AcceptsSettlement(m, led.ids.udp[m.id])
                         => led.row[led.ids.udp[m.id]].serial = m.serial
    /\ \A f \in frames : Reaches(led.ids.tcp[f.id], f.id)
                         => led.row[led.ids.tcp[f.id]].serial = f.serial

(* Identities never collide or run out: a stream transaction is            *)
(* outstanding only on the connection that carries it (or in a lane that   *)
(* waits for its cleanup), so a request of the next connection never finds *)
(* its id taken, and an id is free whenever a datagram asks for one: the   *)
(* errors Identity::Stream and Identity::Datagram cannot happen.           *)
IdentitiesSuffice ==
    /\ (/\ link.st = "open" /\ link.issued < config.streamIds
        /\ NoneCancelled /\ Ready(link.srv))
          => led.ids.tcp[NextId] = None
    /\ Plane(0) # {} => Offered(led.ids) # {}
    /\ \A b \in Leased("tcp") :
         \/ lanes[LaneOf(b)] = "cancelled"
         \/ link.st # "none" /\ link.srv = led.row[b].try.stream

(* A poll at or after the hard deadline ends the query, whatever state its *)
(* branches are in (Slot::poll, Attempt::retry).                           *)
PollEndsQuery ==
    \A l \in Lanes :
        lanes[l] = "held" /\ slot[l].st = "query" /\ now >= slot[l].hard => Over(Polled(l), l)
=============================================================================
