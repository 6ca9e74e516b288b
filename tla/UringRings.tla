----------------------------- MODULE UringRings -----------------------------
(***************************************************************************)
(* The two rings an io_uring driver shares with the kernel                 *)
(* (layer0/uring/src/reactor/sq/raw.rs, cq/raw.rs).                        *)
(*                                                                         *)
(* Cursors count modulo Wrap (2^32 in the code) and index a ring of a      *)
(* power of two of entries.  A submission ring has the shared words khead  *)
(* and ktail, the driver's cursor (head, a copy of khead that may be old,  *)
(* and tail; published is always ktail) and its cells.  A completion ring  *)
(* has the shared words, the driver's local head and the number of entries *)
(* it has acquired.  Rings are records and operations map them to others.  *)
(***************************************************************************)
EXTENDS Integers, Sequences

CONSTANTS Wrap, SqEntries, CqEntries

ASSUME RingAssumption ==
    /\ Wrap \in Nat \ {0} /\ SqEntries \in Nat \ {0} /\ CqEntries \in Nat \ {0}
    /\ Wrap % SqEntries = 0 /\ Wrap % CqEntries = 0
    /\ SqEntries < Wrap /\ CqEntries < Wrap

Add(a, n) == (a + n) % Wrap
Sub(a, b) == (a - b) % Wrap      \* wrapping_sub

NoEntry == [k |-> "none"]

(* A batch is copied in one span, or in two when it meets the end of the   *)
(* ring.                                                                   *)
Copied(cells, size, at, es) ==
    LET start == at % size
        first == IF Len(es) < size - start THEN Len(es) ELSE size - start
    IN  [i \in 0 .. size - 1 |->
           IF i \in start .. start + first - 1 THEN es[i - start + 1]
           ELSE IF i < Len(es) - first THEN es[first + i + 1]
           ELSE cells[i]]

(* The n entries from a cursor on.                                         *)
Window(cells, size, at, n) == [i \in 1 .. n |-> cells[(at + (i - 1)) % size]]

NewSq(at) == [khead |-> at, ktail |-> at, head |-> at, tail |-> at,
              cells |-> [i \in 0 .. SqEntries - 1 |-> NoEntry]]

Pending(q) == Sub(q.tail, q.head)
SqEmpty(q) == q.tail = q.head

(* Mutant: the free entries are counted without wrapping.                  *)
HasCapacityWrapping(q, n) == q.head + SqEntries - q.tail >= n

(* State::has_capacity, on the cached head.                                *)
HasCapacity(q, n) == SqEntries - Pending(q) >= n

(* Queue::try_acquire: refused or, when a cell is free, the head cached.   *)
CanAcquire(q) == Sub(q.tail, q.khead) # SqEntries
Acquired(q) == [q EXCEPT !.head = q.khead]

PushOne(q, e) == [q EXCEPT !.cells[q.tail % SqEntries] = e, !.tail = Add(@, 1)]

(* State::push.                                                            *)
PushAll(q, es) == [q EXCEPT !.cells = Copied(q.cells, SqEntries, q.tail, es),
                            !.tail = Add(@, Len(es))]

(* State::publish.                                                         *)
PublishSq(q) == [q EXCEPT !.ktail = q.tail, !.head = q.khead]

(* The kernel takes the oldest published entry (external).  A cell that    *)
(* was read is empty in the model: nothing reads it again.                 *)
FrontSq(q) == q.cells[q.khead % SqEntries]
TakeSq(q) == [q EXCEPT !.cells[q.khead % SqEntries] = NoEntry, !.khead = Add(@, 1)]

(* The entries pushed and not yet taken, oldest first.                     *)
Unsent(q) == Window(q.cells, SqEntries, q.khead, Sub(q.tail, q.khead))

NewCq(at) == [khead |-> at, ktail |-> at, head |-> at, available |-> 0,
              cells |-> [i \in 0 .. CqEntries - 1 |-> NoEntry], over |-> <<>>]

(* cq::State::observed and acquire.                                        *)
Observed(q) == Sub(q.ktail, q.head)
AcquireCq(q) == [q EXCEPT !.available = Observed(q)]

PublishCq(q) == [q EXCEPT !.khead = q.head]

(* Queue::refresh.                                                         *)
RefreshCq(q) == AcquireCq(PublishCq(q))

(* cq::State::pop.                                                         *)
FrontCq(q) == q.cells[q.head % CqEntries]
PopCq(q) == [q EXCEPT !.cells[q.head % CqEntries] = NoEntry,
                      !.available = @ - 1, !.head = Add(@, 1)]

(* The kernel posts a completion (external): one that finds the ring full, *)
(* or others waiting, is kept aside (the NODROP feature is required) until *)
(* an enter that asks for events.                                          *)
Room(q) == Sub(q.ktail, q.khead) < CqEntries
PostCell(q, e) == [q EXCEPT !.cells[q.ktail % CqEntries] = e, !.ktail = Add(@, 1)]
Post(q, e) == IF q.over = <<>> /\ Room(q) THEN PostCell(q, e) ELSE [q EXCEPT !.over = Append(@, e)]
Overflowed(q) == q.over # <<>>
Flush(q) ==
    LET n == IF Len(q.over) < CqEntries - Sub(q.ktail, q.khead) THEN Len(q.over)
             ELSE CqEntries - Sub(q.ktail, q.khead)
    IN  [q EXCEPT !.cells = Copied(q.cells, CqEntries, q.ktail, SubSeq(q.over, 1, n)),
                  !.ktail = Add(@, n), !.over = SubSeq(@, n + 1, Len(@))]

(* The completions posted and not yet popped, oldest first.                *)
Unread(q) == Window(q.cells, CqEntries, q.head, Observed(q)) \o q.over
=============================================================================
