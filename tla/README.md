# dope: TLA+ models, checks and proofs

dope is a thread-per-core I/O runtime in Rust: one driver and one executor per
thread over io_uring or kqueue, services ("manifolds") on top of it, and a
process runtime that starts, supervises and ends the worker threads. This
directory holds TLA+ models of its core, the TLC configurations that check them
on small instances, and TLAPS proofs of what matters most. `PROJECT.json` maps
every definition to the lines it models.

Run a check with `tlc -config X.cfg M` and the proofs with `tlapm M.tla` in
this directory. No definition is replaced by a configuration.

## Inventory

| part | source | state | operations | what makes it hard |
|---|---|---|---|---|
| process runtime | `layer1/runtime/src/process` | one socket pair and one thread per worker, poll set, counts, verdict | spawn, install, gate, stop, drain, hand-off, join | N + 1 threads, SIGTERM, every system call may fail, records validated twice (live and at hand-off) |
| executor | `layer1/runtime/src/executor` | turn, session | dispatch, activate, pre-park, commit, wait, quiesce | deciding to block; ending with operations in the kernel |
| topology, lending | `layer1/runtime/src/topology` | regions shared by workers | lend, return | reclamation across threads |
| flight arena | `layer0/core/src/driver/retained/flight` | slots with flags and generation, groups, directory | reserve, commit, bind, settle, drop, batch, publish | three parties let go of a slot in any order; late and repeated echoes; generations run out |
| receive arm | `layer0/core/src/driver/retained/arm.rs` | phase, flight | begin, apply, complete, wait, resume, stop | completions after cancellation |
| receive registrations | `layer0/core/src/driver/receive/mod.rs`, `layer0/uring/src/system/permit` | a slot per exhausted receive | exhausted, release, resume, clear | a grant crossing an exhaustion |
| receive credit | `layer0/core/src/driver/receive/credit` | credits of provided buffers | reserve, return | credit against teardown |
| driver schedule | `layer0/core/src/driver/schedule` | budgets, ready arena, timers | share, wake, arm timer | budgets that run out mid-pass |
| driver access | `layer0/core/src/driver/mod.rs`, `life/native` | native backend, `retry` | admit, reclaim, commit, wait | submission queue full |
| driver life | `layer0/core/src/driver/life` | epochs, plans, recovery | boot, finish | failing half-way |
| fd domain | `layer0/core/src/io/fd` | an entry per slot (generation, phase, lifecycle), two retirement chains, the partition among routes | reserve, create, accept, install, drop, retire, close, reclaim | creations and closes in the kernel while slots change owner and place |
| uring reactor | `layer0/uring` | SQ, CQ, buffer ring, option chains | submit, reap, cancel, retire, enter, register | ring wrap, overflow, completions in any order under one token per slot |
| kqueue reactor | `layer0/kqueue` | change, watch and buffer tables | register, poll, complete | emulated completions |
| sys | `layer0/sys` | tables, tokens, mapped rings | typed primitives | unsafe code behind the reactors |
| link | `layer1/net/src/link` | egress queues and credit, waiting lanes, pool, slots | reserve, enqueue, send, settle, close, clear | credit against closing, waiters against refunds |
| wire | `layer1/net/src/wire` | framing buffers | parse, frame | pure data |
| datagram | `layer1/manifold/src/network/datagram` | receive, sender, group queue | arm, complete, resume, stop | buffers shared by sockets, wakes |
| listener | `layer1/manifold/src/network/listener` | accept arm, admission | accept, admit, stop | admission at the limit |
| client | `layer1/manifold/src/client` | attempts, sessions, deadlines | dial, attach, close | late connects, timeouts |
| file, service | `layer1/manifold/src/{file,service}` | appends; bindings | append, read; bind | partial writes |
| gen | `layer1/gen` | none | generates source | not a run-time part |
| dns | `layer2/dns` | lanes, query ledger, transaction ids and cookies, socket, stream | claim, start, poll, send, receive, fall back, retire | late and repeated answers, reused ids, closing streams, dropped lookups |
| fiber | `layer2/fiber` | tasks, reply arena | spawn, wake, reply | order of replies, cancellation |

How they meet: the process runtime starts a worker, whose entry builds an
executor; the executor's session publishes `Installed` on the bus and watches
the bus for EOF, which is the request to stop. The executor drives the driver in
turns; a manifold endpoint submits operations through the driver with a flight
from the arena, and the completion comes back with the flight's echo. Endpoints
wake through ready bits. Exactly one thread runs a driver: apart from the process
runtime, concurrency is between that thread and the kernel.

What correctness means, by part: the runtime always returns, never calls a
failed run Ok nor a good one failed, and names the worker that made it stop; the
arena never lets an echo or a handle reach a slot's next occupant; the executor
never blocks while an endpoint needs it, and never ends an endpoint that the
kernel still writes to; buffers, credit and descriptors are neither lost nor
returned twice; a descriptor slot is closed once and changes owner only when
nothing of the old one is left; an answer ends the query it answers and no other;
who waits for credit gets it when it is there.

`PROJECT.json` lists the hazards at the lines where they bite, with the property
that would notice each going wrong.

## Modules

| module | models | composed of |
|---|---|---|
| `ProcessRuntime` | main thread, workers, buses | |
| `ProcessRuntimeProofs` | theorems about it: records, accusations, counts, verdicts | `ProcessRuntime` |
| `MCRuntimeModes` | its three entry points in one run | `INSTANCE ProcessRuntimeProofs`, per mode, with faults and without |
| `RuntimeModesProofs` | the verdict theorems for that composition | `MCRuntimeModes` |
| `FlightLedger` | what the arena promises: identities | |
| `Flights` | the arena | `INSTANCE FlightLedger` |
| `FlightsProofs` | theorems about it, refinement | `Flights` |
| `Arm` | phases of a multishot operation | |
| `Permit` | slots of the exhausted registrations | |
| `DatagramReceive` | sockets, turn, kernel | `INSTANCE Arm`, `INSTANCE Permit` |
| `MCDatagramReceive` | its instances | `DatagramReceive` |
| `DatagramReceiveProofs` | theorems about it | `DatagramReceive` |
| `FdPartition` | outbound slots shared out among routes | |
| `FdDomain` | descriptor slots, their owners, their retirement | `FdPartition` |
| `MCFdDomain` | its instances | `FdDomain` |
| `FdDomainProofs` | theorems about it: chains, owners, the partition | `FdDomain` |
| `UringRings` | the two rings shared with the kernel | |
| `UringEngine` | option chains, retirement, enter, kernel | `UringRings` |
| `UringProofs` | theorems about it, wrapping cursors and counts | `UringEngine` |
| `EgressCredit` | shared send credit and the lanes that wait for it | |
| `Egress` | queues, sends and closing of a link | `EgressCredit` |
| `MCEgress` | its instance | `Egress` |
| `EgressProofs` | theorems about it, sums over lanes and queues | `Egress` |
| `DnsTable` | transaction ids and cookie generations | |
| `DnsQueries` | lanes, ledger, datagram socket, stream | `DnsTable` |
| `MCDnsQueries` | its instances | `DnsQueries` |
| `DnsQueriesProofs` | theorems about it | `DnsQueries` |

### ProcessRuntime

`pc` is the place of the main thread in `run_waiting` / `run_waiting_watched`:
`spawn` (`Workers::start`), `ready` (`Control::wait_ready`), `notify`, `observe`
(unwatched) or `drive` (watched), `stop` (`Running::stop`), `drain`, `draining`,
`done` (`Finish::drain`), `handoff`, `join` (`Slots::finish`), `returned`.
`wpc` is the place of a worker: bound to its CPU, built, running, stopping (it
has seen EOF), finishing, closing, exited. A bus is the sequence `sent` of the
records a worker wrote, the number `read` that main consumed, and the two
half-closes `wshut` and `stopped`. `phase` and `fault` are `Worker.phase` and
`Worker.failure`.

`Faults` selects what may go wrong: `spawn`, `affinity`, `control` (poll,
allocation, signal source), `stop`, `read`, `write` for system calls,
`callback` for the heartbeat, `entry` for an application that fails or reports
failure at any time, `gate` for one that opens or finishes its gate at the wrong
time or not at all. A worker entry is any program the types allow.
The order in which `poll::Set` serves ready registrations (signal first, then by
index) is kept: `FirstReady`. Timeouts of the heartbeat are steps that change
nothing unless the callback fails. Record encoding, EINTR retries and a decode
failure of a byte that this program never writes are left out.

### Flights and FlightLedger

An entry has the three flag bits of its word (`ATTACHED`, `PENDING`, `BOUND`;
`RETIRED` is the combination the code uses) and a generation. `held` says which
Rust handle owns the entry; `owner`, `loan` and `issued` are ghosts: for which
generation a handle or a completion was obtained, and which echoes were ever
exposed. The kernel is unconstrained: `Bind(i, n)` may happen for any echo at
any time, which covers late, repeated and forged completions. Operations that
take several steps in the code and can fail between them (`try_batch`,
`Prepared::groups`, `Flights::finish`) take several steps here; `Calm` says that
nothing else runs meanwhile, as the `&mut` borrow does. The chain of a group is a
set since nothing depends on its order.

`FlightLedger` is the promise: an identity is issued once, committed or
withdrawn, pending until its completion settles or expires, lent to one
completion at a time. `ImplementsLedger` maps the arena to it.

### Arm, Permit and DatagramReceive

`Arm` gives, for each method of `arm::State`, the phase after it; `Permit`, for
each operation of a `Registration` on the uring permit table, its answer and what
it leaves of the slot. `DatagramReceive` composes them with the `Receive` of each socket, the group
endpoint (`queue`, `deferred`), the permit table,
the ready bits, the executor turn (`loop`) and io_uring. A turn goes
`dispatch` -> `activate` -> `prepark` -> `idle` and from there to the next turn or
to `blocked`; a shutdown ends in `finished` (quiesced) or `aborted` (forced).
`spent`, `refused` and `drained` are the reasons for which `Core::timeout` and
`Context::wait` do not block. The kernel takes one buffer per datagram, ends the
multishot receive when it finds none, and may end it at any time.
`Grouped` selects group or single endpoints; `Shared` says whether siblings
can use up an endpoint's share of the budget.

Left out here: kqueue (its permits are always absent, so no socket registers);
`Vacancy::Full` of a group's flights after a partial retirement; a rejected
cancellation (infallible on uring); the limit of 256 buffers per reclaim; the
sender but for its failures; retained events of `Parked::sync`; boot turns. A wake
during the activation rounds is taken to be one of the next round or turn.

### FdPartition and FdDomain

`entry` is the word of a slot (generation and whether it is spent, phase, lease
bit, lifecycle and owner of an outbound socket, the token of a close in flight)
and the identity word, which holds a dispatch target while the slot is in use and
the link of the retirement chain afterwards. `queue` has the two chains: the one
that is drained and the one that new retirements join. A look at the queue already
turns the chains around (`Peek`), whether or not a retirement is then taken from
it. The Rust handles are state
(`handle`, `made`, `resv`) because dropping them is what retires a slot. `file`
is the native table: on io_uring the kernel may accept into a slot whose close it
has carried out and the driver has not heard of, which is why a retirement can
wait behind the echo of an older one of the same slot. With `sync` closes take
effect at once, as on kqueue. `FdPartition` keeps the array as the code does: the
order of the places is what `reclaim` and the creations in flight depend on.
Left out: the lookup of dispatch targets, `has_retiring`, the classes of errors.

### UringRings and UringEngine

The rings have the shared words and the driver's copies separately, so a cached
head may be old; cursors wrap at `Wrap`. A completion that finds its ring full is
kept aside until an enter that asks for events. A chain is a number of options
and perhaps a CONNECT that may be submitted only after them; it has one token per
slot, so nothing but the order of the submission ring separates the cancellation
of one chain from the requests of the next. A dropped descriptor is retired once
its chain has ended. `turn` is the driver's loop: dispatch (`in`), the turn's own
work (`run`), `commit`, `wait`. The kernel takes submissions in order, possibly
not all, completes requests in any order with any result and answers
cancellations that find nothing. Left out: creating, probing, recovering and
closing the ring; deferred task work; the host's retry flag; polls for shutdown;
a reclaim at the start of a dispatch or from `Descriptor::close`, which reaches no
state that a reclaim in the turn's own work does not;
a linked shutdown that fails, after which the close is cancelled and never posts.

### EgressCredit and Egress

Credit is entries and resident bytes. A lane has protected credit of its own and
takes the rest from a shared pool; while lanes wait nobody else may take shared
credit. A wait record is idle, waiting (with its ticket, its cached demand and
the number of times it was passed over) or granted. The code's search tree is the
set of waiting records. `Egress` adds the queue of each lane, the prefix that the
kernel reads (`lease`) and the connection that owns the lane. `owed` is a history
of the bytes accepted. A stream send of something never sends nothing, so
`Settle` starts at one byte. A producer reaches the queue of a connection that is
closing (only `try_right` refuses it); what it adds there is cleared before the
lane is given away. Left out: direct and terminal sends, wires that seal
on submission, write shutdown, guaranteed reservations, the balance of the tree;
a reservation that publishes less than it asked for and gives the rest of its
credit back (`Stored::try_new`, `metadata/pool/vacant.rs`), which is a charge and
a release that the model has in other steps; of the drain, the cancellation of
receives and the phases of the owner.

### DnsTable and DnsQueries

A lane is held by a lookup; a query has a branch per address family that is
pending for the socket (plane 0) or for the stream of a server, waiting under a
leased id, or final. `led` is the ledger with its registry. `wire` never forgets a
datagram: any of them may be answered at any time, again and again. `sends` are
the settlements outstanding. The stream connection is none, open or retiring; its
retirement walks the branches one permit at a time while everything else goes
on. A name is the number of aliases followed, an answer its kind. `serial` numbers
transmissions and is read by the properties only. The client cookie of a query is
compared when a reply carries one. A reply without a cookie option decodes to
`StreamRequired` and is taken on its id, source, name and family alone, as the
missing-cookie test of the resolver asks for. A late reply of that kind can
therefore be taken for the answer to a later transmission, of a later epoch of the
ids, that has the same id and question; all it does is move the branch to the
stream, where it asks again. `NoStaleAnswer` states exactly this: an answer with a
cookie ends only the transmission it answers, and one without a cookie that
one or a transmission of a later epoch. Left out: the lookup future and
its schedule; connections beyond one; parsing.

## Runs

| run | instance | distinct states | shows |
|---|---|---|---|
| `runtime_modes` | 3 workers in each mode, no faults; 2 watched workers, system faults; 2 plain workers, all faults | 2.5 million | `NoFalseAlarm`, `OkIsHonest` |
| `runtime_app_faults` | 2 gated workers, application faults | 1.6 million | types, `TerminalIsLast`, `AccusedIsReported`, `CountsMeanEveryWorker` |
| `runtime_returns` | 2 gated workers, fair | 66 thousand | `Returns` |
| `flights` | 3 slots, 2 generations, 2 groups | 311 thousand | types, handles, freshness, refinement |
| `flight_groups` | 4 slots, 1 generation, capacities 0, 1, 3, batches of 2 | 868 thousand | `AdmissionIsExact`, `OverflowIsReal`, `SeedsAreDense` |
| `datagram_receive` | group of 2, one buffer, shared budget; 2 sockets, two buffers, own budget | 1.7 million | the seven invariants |
| `datagram_live` | 1 socket, one buffer; group of 1, two buffers; fair | 20 thousand | `ShutdownEnds`, `Rearms` |
| `datagram_shared` | 1 socket, shared budget | violation | see Findings |
| `dns_queries` | 2 families, 2 servers; 2 lanes; 1 branch with 2 ids; 1 branch with an alias | 1.2 million | `AccountsAreExact`, `NoStaleAnswer`, `NoStaleFailure`, `IdentitiesSuffice`, `PollEndsQuery` |
| `fd_domain` | accept and outbound slots, routes, io_uring and kqueue | 853 thousand | `RetirementsAreExact`, `FilesAreOwned`, `PartitionIsExact` |
| `uring_engine` | rings of 2, cursors modulo 4 from 3, one slot, 2 chains, fair | 459 thousand | `ChainsAreExact`, `OwnersAreSeparate`, `RetiredIsClosed`, ring types |
| `egress` | 2 lanes, 2 shared and 1 protected entry and byte, loads of 1 and 3 bytes, fair | 109 thousand | `CreditIsExact`, `NoIdleCredit`, `CreditSuffices`, `SendIsOwned`, `WaiterIsServed` |

Bounds. Workers meet only in main's poll order and counts, so two show every
confusion of one with another, and three a third that is neither the first nor
the last. Three slots and two generations reach reuse, retirement and two groups
at once; four slots with capacity 3 reach rounding with and without room.
`MaxGroups` is a bound of the model, for which `flight_groups` turns deadlock
checking off: with all groups published, all leases dropped and every slot
retired, the bounded model has nothing left to do. Two sockets with one buffer
compete for it; two buffers let one be lent while another is granted. Where the
program stops for good the model stutters (`Returned`, `Over`); the resolver runs
out of time and transmissions, which are bounds (`maxTime`, `maxSubmits`), so
`dns_queries` does not check deadlock either, nor does `fd_domain`, in which every
slot may end with its generations used up. All other runs do.

The resolver needs more ids than branches (65536 against at most 65534), so
three ids for two branches, and two for one, are as few as there can be; there an
id is used again in the shortest time possible. Two servers make a retry move;
the clock reaches the hard deadline; an alias is followed once. Slots of the fd domain come in both kinds, with
one to three generations, so that a slot is reused and then used up; two routes make a
reclamation move another interval. The rings wrap after one full round and start
one before the end. One slot is enough for owners of the same slot to meet; with
two slots (rings of one entry, `Wrap` 2, 570 thousand states) the invariants
were checked too, for the order of due CONNECTs. The payloads of the egress fit
the protected credit, or the whole of the credit only when the lane is empty;
sizes 1, 2, 3 give 545 thousand states, with the same result. `LastTicket` is a
bound on tickets, which ends a chain of bypasses before the bypass limit has to.

Fairness. `ProcessRuntime`: the threads are scheduled; a worker entry keeps its
documented duty to install, to observe shutdown and to return. No fairness on
the application's opening of a gate, on the signal, or on a fault.
`DatagramReceive`: the thread goes on through its turn (weak fairness on turn
steps). Blocking ends when a completion is there, which is what the wait waits
for, or while the application holds packets, which it can only drop when it
runs. Completions, ready bits and arms are served in rotation with a budget
that is renewed in each turn, and the submission queue is emptied in each turn,
so what is enabled again and again happens (strong fairness on dispatch,
activation, arming and a successful `retry_stop`). The kernel answers
cancellations. The application drops packets eventually; without that a socket
may starve, by design. There is no fairness on datagrams or socket errors.
`UringEngine`: the executor's loop goes on, with a budget in each turn that is
never empty, so dispatch and reclaim happen again and again (strong fairness:
another turn may come between); the kernel takes what is submitted and completes
every option. It need not complete a CONNECT until a cancellation has found it.
`Egress`: the pool's owner runs a credit step while one is pending, ready lanes
submit, closing lanes are drained. A send ends, since the peer reads or the write
deadline cancels it; a producer that was granted credit takes it, cancels, or
loses its connection. Weak fairness of `CreditStep` and `Clear` is written out
with what enables them. Nothing makes a producer enqueue or a connection open.

## Findings

`datagram_shared` (`NoLostWake`): a receive whose submission was refused is
`Deferred`, which counts as waiting for an outside wake. `Local.retry` keeps the
thread awake for the next turn only. If in that turn the endpoint's share of the
app budget runs out before its receive is tried, `Receive::arm` returns without
asking for another turn (`socket/receive.rs:108`), and the thread blocks with
the receive armed nowhere, until something unrelated wakes it. The case needs a
full submission queue in one turn and a used-up share in the next. The group
endpoint forgets the failure at the start of each pass (`group/raw.rs:121`) and
`datagram_receive`, whose group has the same shared budget, holds.

## Proofs

For all values of the constants, under the named assumptions of the modules:
`NAssumption`, `ModeAssumption`, `FaultsAssumption` (runtime);
`LimitAssumption`, `BoundAssumption` (arena); `MembersAssumption`,
`SetupAssumption` (datagram receive); `ConfigAssumption` (fd domain);
`ConfigAssumption`, `NoneAssumption` (resolver); `CreditAssumption`,
`EgressAssumption` (egress); `RingAssumption`, `EngineAssumption`,
`SlotAssumption` (rings and engine); `ModesAssumption` (the modes). They say
that a constant has its type, that a set of sockets, branches or lanes is
finite, that the absent value is no identity, that a ring is smaller than the
range of its cursors and divides it, and that the metadata store has an entry
for all of the shared and the protected credit, which is how `Config` splits the
one into the others.

`ProcessRuntimeProofs`
- `TypeCorrect`, `TerminalRecordIsLast`, `AccusedWorkerIsReported`.
- The inductive invariant is `TypeOK`, `ScopeInv` and, per worker, `BusInv`,
  `WorkerInv`, `MainInv`. `TerminalIsLast` is not inductive: that a record is not
  written twice rests on where its writer has got to (`Stamp`). `AccusedIsReported`
  needs that whatever makes main accuse a worker (a Failed record, or EOF while it
  watches) proves that worker `Quiet`, that a quiet worker stays so, and that a
  quiet worker's outcome is never Done. EOF is the delicate half: a clean worker
  closes its bus too, but only after Done, and main either has not read that
  record yet or has retired the registration (`MainInv`).

- `CountsAreWorkers`, `OkVerdictIsHonest`.
- Main counts records over all workers together. The invariant `VInv` ties each
  counter to the cardinality of the set of workers whose record main has read;
  a counter equal to `N` then means every worker, and no worker is counted twice
  because a record is read once and written once (`IInv`).
  `OkVerdictIsHonest` adds that a clean verdict leaves no fault behind in any
  slot that `Slots::finish` joins.
- `CalmRunIsOk`: `Faults = {} => (Spec => []NoFalseAlarm)`. `CalmInv` says what the
  worker owes main at each place: its records are a path of the protocol whose
  last one is determined by where the worker is (`CalmRecords`, `LastRecord`), the
  bus is open until its thread has ended (`CalmWorker`), and main has accused nobody
  (`CalmMain`). Whatever main reads next is then legal where main stands: a
  record that comes early in one worker cannot come before main's counters allow it,
  because they count exactly what was read.

`RuntimeModesProofs`
- `CalmModesAreOk`, `OkModesAreHonest`: the two properties of `runtime_modes`, as
  that run states them, for any numbers of workers and any faults. The mode and
  whether faults may happen never change, so each behaviour is one of
  `ProcessRuntime` with those constants and the lemmas above are cited per instance.

`FlightsProofs`
- `HandlesAreSafe`, `EchoesAreFresh`, `ChainsAreVacant`, `ArenaImplementsLedger`,
  `AdmissionCounts`, `OverflowsAreReal`, `SeedsArePlaces`, `ArenaIsTyped`.
- The inductive invariant is `ArenaType`, `BatchInv` and, per entry,
  `HandleInv`, `FreshInv`, `PlaceInv`: flags and handles agree exactly; a
  generation above the entry's was never exposed; a vacant entry is in one place.
  `BatchInv` keeps a planned group leased until it is published or dropped, without
  which reuse could rebuild a chain under a `Vacant`. The refinement uses the same
  invariant: each entry-local step changes the ledger at one identity only
  (`LedgerElsewhere`, `LedgerAt`).
- `AdmissionCounts` carries `CountInv`: the counter is the cardinality of the
  entries that are not vacant, and each entry-local step moves one entry in or
  out of that set.
- `OverflowsAreReal` and `SeedsArePlaces` carry `RoomInv`: the blocks planned so
  far and the blocks still to plan fit together (`Seats`), where what is left of a
  batch is a function of partial sums (`SumOf`) that loses its head with every
  block, so no induction over the batch is needed at a step. The one induction,
  that such a function exists for every batch, is a least-counterexample argument
  from `WFMin`.

`DatagramReceiveProofs`
- `BuffersAreKept`, `FlightsAgree`, `StopsAreFinal`, `WaitsAreRegistered`,
  `MembersAreRemembered`, `FinishesAreClean`, and `WakesAreNotLost`:
  `Spec => []((Grouped \/ ~Shared) => NoLostWake)`.
- The inductive invariant is `NoBufferLost`, per socket `EntryInv` (phase and
  what the kernel and the completion queue hold), `FlightInv`, `PermitInv`,
  `StopInv`, and the invariants of the turn: `GroupInv`, `ParkInv`, `BlockedInv`,
  `EndInv`. Buffers are counted as a cardinality of what is carried; a pop and a
  post move one element (`CarriedPop`, `CarriedPost`).
- The hypothesis of `WakesAreNotLost` is exact: with a shared budget and separate
  endpoints the property is false, and `datagram_shared` is the run that shows it.

`FdDomainProofs`
- `RetirementsStayExact`, `FilesStayOwned`, `PartitionStaysExact`, from
  `InvariantHolds`, for every number of accept and outbound slots, routes,
  generations and extents, with asynchronous closes and with immediate ones.
- The inductive invariant `IInv` has five parts. `SlotsInv` says per slot which
  entries go with which handle, file, undelivered accept, creation and close in
  the kernel: `RetireOK` for both kinds (the echo of a close carries the
  generation that was submitted; an entry in flight is the one of its epoch),
  `AcceptOK` (the generations whose close completed are older than the present
  one, unless they have run out), `OutboundOK` (the lifecycle). `QueueInv` says that
  there are two sequences of slots, with no slot twice, of which the heads and the
  identity words are the linked representation, and which hold the slots that
  are pending and not flying. `count` is the cardinality of the slots in flight.
  `PartOK` is the partition: `Tiled`, `Owned`, `Freed`, `Retiring`. `CreatesOK` says
  that a creation in flight names the place its slot is at.
- None of the three properties is inductive alone. That a close completes into
  the right retirement needs the generations of `SlotsInv`; that a popped slot is
  pending needs `QueueInv`; that `remaining` reaches zero when the last slot of a
  retired route comes back needs `Owned`; that an accepted file is not closed
  twice needs both the epoch of the entry and what the kernel has done.
- The lemmas: one per small step of a slot (`SlotRetired`, `SlotAcquired`, ...), which
  has no quantifier and no queue in it; `ChainsPush` and `ChainsPop`, that writing
  a head and a word is adding and removing at the front of a sequence; and
  what `Rotate`, `Backward` and `Reclaim` do to the mapping, for any interval: a rotation
  permutes the places between, the usable slots of a reclaimed interval are kept
  in the free suffix once each, and the intervals behind it shift
  together with the creations that name them. An action's proof combines one slot
  lemma with the frame lemmas for the chains, the count and the partition.

`DnsQueriesProofs`
- `BooksAreExact`, `AnswersAreFresh`, `FailuresAreFresh`, `IdentitiesNeverFail`,
  `LatePollsEndQueries`.
- The inductive invariant is `NetInv`, `LinkInv` and `Good(led, Branches, 0, Env)`.
  `Good` is a predicate on a ledger and on the environment as values: the shape
  of the ledger, its queues, its live counts, its identities, every row
  (`UdpOK`, `TcpOK`) and what is on the wire. An operation is a composition of
  small steps on a ledger, some of which leave it inconsistent in between (a branch
  out of the queues and not yet back in a row, an identity released while the row
  still names it). `Good` therefore takes the set of branches whose rows are
  settled and the server whose stream an attempt in hand needs: each small step
  has one lemma that moves a branch in or out of that set, and an action's lemma
  chains them.
- `AnswersAreFresh` and `FailuresAreFresh` rest on serials: a datagram under way
  whose id is leased is the branch's present transmission, or is of an earlier epoch
  and an earlier cookie (`UdpOK`); a stream message of the present connection was
  sent by the branch's present transmission. A reply with a cookie, and the
  settlement of a send, which names its epoch, can then only be of the present one;
  for a reply without a cookie the theorem leaves the earlier epoch open, as the code
  does.
- `IdentitiesNeverFail` is a pigeonhole argument: free and leased identities are
  a partition (`IdsOf`), a branch leases at most one, and ids outnumber branches;
  for a stream, ids are issued in sequence modulo the id space, injectively within
  one connection.

`EgressProofs`
- `CreditIsKept`, `CreditIsNeverIdle`, `SendsAreOwned`, `CreditIsEnough`.
- The inductive invariant is `LanesInv` (per lane `LinkOK`: queue, lease,
  connection and bytes owed agree) and `PoolInv` (`Exact`: the books of the pool
  against the costs of the queues; `Restless`: no credit is idle; a free lane has
  no wait record). The four properties follow from it; none is inductive alone.
- Every operation of the pool changes one lane. `MovesExact` is the one place
  where the sum over the lanes is reasoned about: a step that takes from the
  pool what the lane holds more, or returns what it holds less, keeps the books.
  The operations are shown to be such steps (`ChargeExact`, `ReleaseExact`,
  `CancelExact`, `VacantGood`, `PollIsGood`, `MaintainGood`).
- `Restless` rests on the flag: every operation either sets it to whether lanes
  wait, or leaves shared credit and waiting records as they were, or takes credit
  when no lane waits. `maintain` alone lowers it, when it could select nobody.
- `ConsumeGood` is what `Released::consume` does for every queue and every number
  of bytes: what leaves and what stays cost together what was there, and the
  bytes left are fewer by what was sent, cut payload included.
- `CreditIsEnough` sums what the lanes hold: it is at most the shared credit in
  use and the protected credit of every lane, which the store has room for.
- Sums are folds (`Total`). What they need (`OverSplit`, `OverOne`, `OverPlus`,
  `OverLeq`, `OverCovers`, `TotalConcat`) is proved here by induction on sets:
  a least counterexample, from `WFMin`, instead of an induction rule with a
  predicate.

`UringProofs`
- `RingsAreOrdered`, `ChainsStayExact`, `OwnersStaySeparate`, from
  `InvariantHolds`.
- A ring is read as the sequence of its unread entries (`Unsent`, `Unread`): an
  index taken modulo the size of the ring, at cursors that wrap, is the same entry
  on both sides because the size divides `Wrap` and the distance of two cursors is
  less than it. Pushing, taking and reaping are then operations at the ends of a
  sequence, and a cached head that is old only makes the window smaller.
- The inductive invariant has per slot `ChainAt` (the count of a chain is the number
  of its requests in the submission ring, in the kernel, in the completion ring and
  kept aside), `OwnerAt` and `EntriesAt` (what the ring may hold before
  and behind a cancellation), and one list of due CONNECTs (`ListInv`).
  `ChainsAreExact` needed strengthening in three places: no options are
  outstanding of an idle chain, a failure that is on its way back is still to be
  recorded, and a chain off the list has no successor in it. The run has one
  slot; the theorems hold for any number of them.

`ChainsAreVacant` states a part of the arena's invariant (`FreeIsVacant`) that no
run checks by itself.

Model-checked only:
- liveness (`Returns`, `ShutdownEnds`, `Rearms`, `RetiredIsClosed`,
  `WaiterIsServed`), which needs fairness and `ENABLED`.
## Not modelled, and the plan

Order of work:
1. done: process runtime; flight arena; datagram receive with permits and turn.
2. done: the fd domain; the rings and the engine of io_uring; link egress; the
   query ledger of the resolver with both its transports.
3. Proofs. Done: the invariants of the runtime, of the arena, of
   `DatagramReceive`, of `FdDomain`, of `DnsQueries`, of `Egress` and of
   `UringEngine`: every invariant that a passing run checks.
4. Accept arm and admission of the listener over `Arm`; client attempts with
   deadlines, over the chains of `UringEngine`.
5. Ready arena and timer heap of the schedule, with an abstract specification of
   "what is woken is run"; the executor turn refined by it.
6. The kqueue reactor; provided buffers; fiber tasks and reply arena; lending.

The map covers a few percent of the repository: it has 176 thousand lines in
more than thirty parts, most of them typed wrappers, storage layouts and plumbing
between the machines modelled here. The models take those machines first.

Not planned: wire formats and macros (no state), the socket and file wrappers
(their state is that of the fd domain and the arena), the test harness. The
reasons are in the `components` of `PROJECT.json`.
