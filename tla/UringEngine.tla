----------------------------- MODULE UringEngine ----------------------------
(***************************************************************************)
(* The io_uring engine of a driver (layer0/uring/src/driver): option       *)
(* chains that end in a deferred CONNECT, their cancellation, and the      *)
(* retirement of descriptors, over the two rings and a kernel that takes   *)
(* submissions in order, possibly only some of them, and completes them in *)
(* any order.                                                              *)
(*                                                                         *)
(* A chain is known to the kernel only by its slot (the tuning token), so  *)
(* what keeps the chains of successive owners of a slot apart is the order *)
(* of the submission ring.  The field `c' numbers the chains of a slot; it *)
(* is a ghost that no step of the driver reads, like `bad', which says     *)
(* that the kernel failed an option of the chain, and `lied'.              *)
(***************************************************************************)
EXTENDS UringRings, FiniteSets, SequencesExt

CONSTANTS
    Slots,      \* fixed file slots of the tuning table
    Paired,     \* those retired with a shutdown linked before the close
    Counts,     \* numbers of options of a chain
    Outcomes,   \* how the kernel ends an option or a CONNECT
    MaxChains,  \* bound: chains begun on a slot
    Start       \* where the cursors of the rings begin

ASSUME EngineAssumption ==
    /\ IsFiniteSet(Slots) /\ Paired \subseteq Slots
    /\ Counts \subseteq 1 .. SqEntries
    /\ Outcomes \subseteq {"ok", "fail", "cancel"}
    /\ MaxChains \in Nat /\ Start \in 0 .. Wrap - 1

VARIABLES
    sq, cq,    \* the rings
    tune,      \* tuning::State of every slot
    ready,     \* Table.ready and Table.tail: the chains whose CONNECT is due
    fd,        \* the owner of the slot in the host
    front,     \* the retirement that the descriptor domain drains, or None
    turn,      \* where the loop of the driver is
    grant,     \* entries the kernel may still take in this enter
    kern,      \* requests of the slot in the kernel
    lied       \* history: a chain was reported otherwise than it ended

vars == <<sq, cq, tune, ready, fd, front, turn, grant, kern, lied>>

None == 0
ASSUME SlotAssumption == None \notin Slots

NoChain == [live |-> FALSE, retiring |-> FALSE, stopped |-> FALSE, phase |-> "Idle",
            count |-> 1, error |-> "ok", next |-> None]

Init ==
    /\ sq = NewSq(Start) /\ cq = NewCq(Start)
    /\ tune = [s \in Slots |-> NoChain]
    /\ ready = [head |-> None, tail |-> None]
    /\ fd = [s \in Slots |-> "free"]
    /\ front = None /\ turn = "run" /\ grant = 0
    /\ kern = [s \in Slots |-> [opt |-> 0, con |-> "none", bad |-> FALSE, c |-> 0]]
    /\ lied = FALSE

Running == turn \in {"run", "in"}
-----------------------------------------------------------------------------
(* The owner of a descriptor.                                              *)

(* Vacant::try_submit and State::begin: a chain of n options, then the     *)
(* CONNECT if there is one.  The descriptor may be new to the slot.        *)
Begin(s, n, connect) ==
    /\ Running
    /\ fd[s] \in {"free", "idle"}
    /\ kern[s].c < MaxChains
    /\ HasCapacity(sq, n)
    /\ sq' = PushAll(sq, [i \in 1 .. n |-> [k |-> "opt", s |-> s, c |-> kern[s].c + 1]])
    /\ tune' = [tune EXCEPT ![s] = [NoChain EXCEPT !.live = TRUE, !.count = n,
                    !.phase = IF connect THEN "OptionsConnect" ELSE "Options"]]
    /\ kern' = [kern EXCEPT ![s].c = @ + 1, ![s].bad = FALSE]
    /\ fd' = [fd EXCEPT ![s] = "flying"]
    /\ UNCHANGED <<cq, ready, front, turn, grant, lied>>

CancelEntry(s) == [k |-> "cancel", s |-> s, c |-> kern[s].c]

(* Connection::try_cancel (Cancellation::Tuning) and Tuning::cancel        *)
(* (engine::Cancel), while the flight is pending.                          *)
Cancel(s) ==
    /\ Running
    /\ fd[s] = "flying"
    /\ HasCapacity(sq, 1)
    /\ sq' = PushOne(sq, CancelEntry(s))
    /\ tune' = [tune EXCEPT ![s].stopped = TRUE]
    /\ fd' = [fd EXCEPT ![s] = "cancelled"]
    /\ UNCHANGED <<cq, ready, front, turn, grant, kern, lied>>

(* The descriptor, or the pending operation that owns it, is dropped.      *)
Drop(s) ==
    /\ Running
    /\ fd[s] \in {"idle", "flying", "cancelled"}
    /\ fd' = [fd EXCEPT ![s] = "retired"]
    /\ UNCHANGED <<sq, cq, tune, ready, front, turn, grant, kern, lied>>
-----------------------------------------------------------------------------
(* Retirement: table::Retire::retire on the slot the domain drains, from   *)
(* Drain::reclaim at the start of a dispatch, a commit or a wait, within   *)
(* their quota.  The order of the retirements is the domain's (FdDomain);  *)
(* one that is blocked stays first.                                        *)

Retired == {s \in Slots : fd[s] = "retired"}

CloseEntries(s) ==
    (IF s \in Paired THEN <<[k |-> "shutdown", s |-> s]>> ELSE <<>>) \o <<[k |-> "close", s |-> s]>>

(* Mutant: a slot whose options are done is retired during its CONNECT.    *)
RetireLive(s) == tune[s].phase # "Idle"

(* Table::retirement: the chain of the slot must end before it is closed.  *)
RetireBlocked(s) == tune[s].live

RetireStep(s) ==
    IF ~RetireBlocked(s)
    THEN LET es == CloseEntries(s) IN
         /\ HasCapacity(sq, Len(es))
         /\ sq' = PushAll(sq, es)
         /\ fd' = [fd EXCEPT ![s] = "closing"]
         /\ front' = None
         /\ UNCHANGED tune
    ELSE /\ ~tune[s].retiring
         /\ HasCapacity(sq, 1)
         /\ sq' = PushOne(sq, CancelEntry(s))
         /\ tune' = [tune EXCEPT ![s].retiring = TRUE, ![s].stopped = TRUE]
         /\ front' = s
         /\ UNCHANGED fd

Reclaim ==
    /\ turn = "run"
    /\ \E s \in IF front = None THEN Retired ELSE {front} : RetireStep(s)
    /\ UNCHANGED <<cq, ready, turn, grant, kern, lied>>
-----------------------------------------------------------------------------
(* Dispatch: Engine::next and the host's resolution of what it returns.    *)

(* Tuned::bind and Tuned::complete: the owner of the chain is told, and    *)
(* the state cleared (Occupied::clear).  The count and the error that stay *)
(* behind are not read before begin sets them, so the model drops them.    *)
Terminal(t, s, out) ==
    /\ tune' = [t EXCEPT ![s] = NoChain]
    /\ fd' = [fd EXCEPT ![s] = IF @ \in {"flying", "cancelled"} THEN "idle" ELSE @]
    /\ lied' = (lied \/ (kern[s].bad # (t[s].error = "fail"))
                     \/ (kern[s].bad /\ out # "fail"))

(* Mutant: the last result of a chain wins over the first failure.         *)
MergeLast(error, out) == IF out = "ok" THEN error ELSE out

(* The failure of a chain: a cancellation gives way to a later cause.      *)
Merge(error, out) == IF out # "ok" /\ error \in {"ok", "cancel"} THEN out ELSE error

(* Table::observe on the completion of a tuning token.                     *)
Observe(s, out) ==
    LET x == tune[s]
        error == Merge(x.error, out)
        t == [tune EXCEPT ![s].error = error]
    IN  CASE x.phase = "Idle" -> Terminal(tune, s, out) /\ UNCHANGED ready
          [] x.phase # "Idle" /\ x.count > 1 ->
               /\ tune' = [t EXCEPT ![s].count = @ - 1]
               /\ UNCHANGED <<ready, fd, lied>>
          [] x.phase # "Idle" /\ x.count = 1 /\ error = "ok" /\ ~x.stopped
                /\ x.phase = "OptionsConnect" ->
               /\ tune' = [q \in Slots |-> IF q = s THEN [t[s] EXCEPT !.phase = "Idle"]
                             ELSE IF q = ready.tail THEN [t[q] EXCEPT !.next = s] ELSE t[q]]
               /\ ready' = [head |-> IF ready.tail = None THEN s ELSE ready.head, tail |-> s]
               /\ UNCHANGED <<fd, lied>>
          [] OTHER ->
               /\ Terminal(t, s, IF error # "ok" THEN error
                                 ELSE IF x.stopped THEN "cancel" ELSE "ok")
               /\ UNCHANGED ready

(* Table::retry_cancel: the retirement may cancel the chain once more.     *)
RetryCancel(s) == [tune EXCEPT ![s].retiring = FALSE]

(* One completion is popped: a tuning token, the reply to a cancellation   *)
(* that found nothing, or the echo of a close.                             *)
PopOne ==
    /\ cq.available > 0
    /\ cq' = PopCq(cq)
    /\ LET e == FrontCq(cq) IN
       CASE e.k = "tuning" -> Observe(e.s, e.out)
         [] e.k = "reply" -> /\ tune' = RetryCancel(e.s)
                             /\ UNCHANGED <<ready, fd, lied>>
         [] e.k = "closed" -> /\ fd' = [fd EXCEPT ![e.s] = "free"]
                              /\ UNCHANGED <<tune, ready, lied>>
    /\ UNCHANGED sq

Unlink(t, s) == [t EXCEPT ![s].next = None]
Rest(s) == [head |-> tune[s].next, tail |-> IF tune[s].next = None THEN None ELSE ready.tail]

(* Table::next: the first CONNECT that is due is submitted, or its chain   *)
(* ends as cancelled; when the ring is full a completion is popped.        *)
Resolve ==
    /\ turn = "in"
    /\ LET s == ready.head IN
       IF s = None THEN PopOne
       ELSE IF tune[s].stopped
       THEN /\ Terminal(Unlink(tune, s), s, "cancel")
            /\ ready' = Rest(s)
            /\ UNCHANGED <<sq, cq>>
       ELSE IF CanAcquire(sq)
       THEN /\ sq' = PushOne(Acquired(sq), [k |-> "con", s |-> s, c |-> kern[s].c])
            /\ tune' = Unlink(tune, s)
            /\ ready' = Rest(s)
            /\ UNCHANGED <<cq, fd, lied>>
       ELSE PopOne
    /\ UNCHANGED <<front, turn, grant, kern>>

(* The end of Turn::dispatch: nothing is left, the budget is used up, or   *)
(* the host breaks off.                                                    *)
EndDispatch ==
    /\ turn = "in"
    /\ turn' = "run"
    /\ cq' = RefreshCq(cq)
    /\ UNCHANGED <<sq, tune, ready, fd, front, grant, kern, lied>>
-----------------------------------------------------------------------------
(* The enter at the end of a turn.                                         *)

(* Ready::enter and Enter::new.                                            *)
Publish == sq' = PublishSq(sq)

(* Ready::commit: idle, or one enter; it asks for events only if the       *)
(* kernel keeps completions aside.                                         *)
Commit ==
    /\ turn = "run"
    /\ Publish
    /\ LET c == PublishCq(cq) IN
       IF Pending(PublishSq(sq)) = 0 /\ ~Overflowed(cq)
       THEN cq' = AcquireCq(c) /\ turn' = "in" /\ UNCHANGED grant
       ELSE /\ turn' = "commit"
            /\ grant' = Pending(PublishSq(sq))
            /\ cq' = IF Overflowed(cq) THEN Flush(c) ELSE c
    /\ UNCHANGED <<tune, ready, fd, front, kern, lied>>

(* Mutant: retirements that are due do not keep the thread awake.          *)
MaySleepUnreclaimed == ready.head = None

(* Engine::wait: the driver sleeps only if no retirement is pending and no *)
(* CONNECT is due.                                                         *)
MaySleep == Retired = {} /\ ready.head = None

Wait ==
    /\ turn = "run" /\ MaySleep
    /\ Publish
    /\ turn' = "wait"
    /\ grant' = Pending(PublishSq(sq))
    /\ cq' = Flush(PublishCq(cq))
    /\ UNCHANGED <<tune, ready, fd, front, kern, lied>>

(* A commit that entered refreshes the cached head; the next dispatch      *)
(* acquires the completions.                                               *)
Leave ==
    /\ sq' = IF turn = "commit" THEN PublishSq(sq) ELSE sq
    /\ cq' = AcquireCq(cq)
    /\ turn' = "in" /\ grant' = 0
    /\ UNCHANGED <<tune, ready, fd, front, kern, lied>>

(* The enter returns: after a commit at once; from a wait when there is a  *)
(* completion or not every submission was taken.                           *)
Return ==
    /\ turn = "commit" \/ (turn = "wait" /\ (cq.ktail # cq.khead \/ grant > 0))
    /\ Leave

(* The timeout of a wait elapses, or a signal ends it.                     *)
Interrupt == turn = "wait" /\ Leave
-----------------------------------------------------------------------------
(* The kernel (external).                                                  *)

Matches(s) == kern[s].opt > 0 \/ kern[s].con # "none"

(* It takes one submission.  A cancellation looks for requests of the      *)
(* slot at once; it answers only when it finds none, or none it can stop.  *)
KernelTake ==
    /\ turn \in {"commit", "wait"} /\ grant > 0
    /\ grant' = grant - 1
    /\ sq' = TakeSq(sq)
    /\ LET e == FrontSq(sq) IN
       \/ e.k = "opt" /\ kern' = [kern EXCEPT ![e.s].opt = @ + 1] /\ UNCHANGED cq
       \/ e.k = "con" /\ kern' = [kern EXCEPT ![e.s].con = "wait"] /\ UNCHANGED cq
       \/ /\ e.k = "cancel" /\ Matches(e.s)
          /\ kern' = [kern EXCEPT ![e.s].con = IF @ = "wait" THEN "doomed" ELSE @]
          /\ cq' \in {cq, Post(cq, [k |-> "reply", s |-> e.s])}
       \/ /\ e.k = "cancel" /\ ~Matches(e.s)
          /\ cq' = Post(cq, [k |-> "reply", s |-> e.s])
          /\ UNCHANGED kern
       \/ e.k = "shutdown" /\ UNCHANGED <<kern, cq>>
       \/ e.k = "close" /\ cq' = Post(cq, [k |-> "closed", s |-> e.s]) /\ UNCHANGED kern
    /\ UNCHANGED <<tune, ready, fd, front, turn, lied>>

(* A request completes; nothing but a cancellation is sure to end a        *)
(* CONNECT.                                                                *)
KernelOption(s, out) ==
    /\ kern[s].opt > 0
    /\ kern' = [kern EXCEPT ![s].opt = @ - 1, ![s].bad = @ \/ out = "fail"]
    /\ cq' = Post(cq, [k |-> "tuning", s |-> s, out |-> out])
    /\ UNCHANGED <<sq, tune, ready, fd, front, turn, grant, lied>>

KernelConnect(s, out) ==
    /\ kern[s].con # "none"
    /\ kern[s].con = "wait" => out # "cancel"
    /\ kern' = [kern EXCEPT ![s].con = "none"]
    /\ cq' = Post(cq, [k |-> "tuning", s |-> s, out |-> out])
    /\ UNCHANGED <<sq, tune, ready, fd, front, turn, grant, lied>>

Next ==
    \/ Reclaim \/ Resolve \/ EndDispatch \/ Commit \/ Wait \/ Return \/ Interrupt \/ KernelTake
    \/ \E s \in Slots :
         \/ Cancel(s) \/ Drop(s)
         \/ \E n \in Counts, b \in BOOLEAN : Begin(s, n, b)
         \/ \E out \in Outcomes : KernelOption(s, out) \/ KernelConnect(s, out)

Spec == Init /\ [][Next]_vars

(* The executor's loop dispatches, commits and reclaims again and again,   *)
(* each within a budget that is never empty; an enter takes submissions    *)
(* unless it fails; the kernel completes every option, and a CONNECT that  *)
(* a cancellation found.                                                   *)
Fairness ==
    /\ WF_vars(EndDispatch) /\ WF_vars(Commit \/ Wait) /\ WF_vars(Return)
    /\ SF_vars(Resolve) /\ SF_vars(Reclaim) /\ SF_vars(KernelTake)
    /\ \A s \in Slots :
         /\ WF_vars(\E out \in Outcomes : KernelOption(s, out))
         /\ WF_vars(kern[s].con = "doomed" /\ \E out \in Outcomes : KernelConnect(s, out))

FairSpec == Spec /\ Fairness
-----------------------------------------------------------------------------
(* Requests of a slot on their way to the kernel, in it, and back.         *)
Sent(s, k) == Cardinality({i \in DOMAIN Unsent(sq) : Unsent(sq)[i].k = k /\ Unsent(sq)[i].s = s})
Back(s, k) == Cardinality({i \in DOMAIN Unread(cq) : Unread(cq)[i].k = k /\ Unread(cq)[i].s = s})
Held(s) == kern[s].opt + (IF kern[s].con = "none" THEN 0 ELSE 1)
Outstanding(s) == Sent(s, "opt") + Sent(s, "con") + Held(s) + Back(s, "tuning")

(* The slots whose CONNECT is due, in the order of Table.ready: a list     *)
(* through `next' that ends.                                               *)
IsDue(d) ==
    /\ IsInjective(d)
    /\ ready.head = IF d = <<>> THEN None ELSE d[1]
    /\ ready.tail = IF d = <<>> THEN None ELSE d[Len(d)]
    /\ \A i \in DOMAIN d : tune[d[i]].next = IF i < Len(d) THEN d[i + 1] ELSE None

TypeOK ==
    /\ {sq.khead, sq.ktail, sq.head, sq.tail, cq.khead, cq.ktail, cq.head} \subseteq 0 .. Wrap - 1
    /\ Sub(sq.tail, sq.khead) <= SqEntries /\ Sub(sq.tail, sq.head) <= SqEntries
    /\ Sub(sq.ktail, sq.khead) <= Sub(sq.tail, sq.khead)
    /\ Sub(sq.tail, sq.khead) <= Sub(sq.tail, sq.head)
    /\ Sub(cq.ktail, cq.khead) <= CqEntries /\ cq.available <= Observed(cq)
    /\ Observed(cq) <= Sub(cq.ktail, cq.khead)
    /\ tune \in [Slots -> [live : BOOLEAN, retiring : BOOLEAN, stopped : BOOLEAN,
                           phase : {"Idle", "Options", "OptionsConnect"}, count : 1 .. SqEntries,
                           error : {"ok", "fail", "cancel"}, next : Slots \cup {None}]]
    /\ fd \in [Slots -> {"free", "idle", "flying", "cancelled", "retired", "closing"}]
    /\ front \in Slots \cup {None} /\ lied \in BOOLEAN
    /\ turn \in {"run", "in", "commit", "wait"} /\ grant \in 0 .. SqEntries

(* No completion is lost, duplicated or met twice: a chain in its options  *)
(* waits for exactly the options outstanding in the rings and the kernel,  *)
(* one past them has its CONNECT due once or outstanding once, and a slot  *)
(* without a chain has nothing outstanding, so no completion of it can be  *)
(* rejected; its outcome is the one the kernel gave.                       *)
ChainsAreExact ==
    /\ \E d \in BoundedSeq(Slots, Cardinality(Slots)) :
         /\ IsDue(d)
         /\ \A s \in Slots : LET x == tune[s] IN
              IF ~x.live THEN Outstanding(s) = 0 /\ s \notin ToSet(d)
              ELSE IF x.phase # "Idle"
              THEN Outstanding(s) = x.count /\ Sent(s, "con") = 0 /\ s \notin ToSet(d)
              ELSE Outstanding(s) = IF s \in ToSet(d) THEN 0 ELSE 1
    /\ ~lied

(* Nothing reaches the next owner of a slot: a close is submitted only     *)
(* when no request of the slot is on its way or in the kernel, it is the   *)
(* only close of the slot, and a cancellation still in the ring stands     *)
(* before every request of a later chain, so that it cannot stop one.      *)
OwnersAreSeparate ==
    LET u == Unsent(sq) IN
    \A s \in Slots :
      /\ fd[s] = "closing" => ~tune[s].live /\ Sent(s, "close") + Back(s, "closed") = 1
      /\ fd[s] # "closing" => Sent(s, "close") + Back(s, "closed") = 0
      /\ \A i \in DOMAIN u : u[i].k = "cancel" /\ u[i].s = s =>
           /\ \A j \in 1 .. i - 1 : u[j].k \in {"opt", "con"} /\ u[j].s = s => u[j].c = u[i].c
           /\ Matches(s) => u[i].c = kern[s].c

(* Every descriptor that is dropped is closed, whatever its chain is at:   *)
(* options or a CONNECT in the kernel, a CONNECT still due, a cancellation *)
(* that came too early or too late, or a full ring.                        *)
RetiredIsClosed == \A s \in Slots : fd[s] = "retired" ~> fd[s] = "free"

=============================================================================
