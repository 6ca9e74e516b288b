--------------------------- MODULE DatagramReceive --------------------------
(***************************************************************************)
(* Datagram receives that share one pool of kernel-provided buffers on the *)
(* io_uring backend: the receive arm of each socket (layer1/manifold,      *)
(* network/datagram), the registrations of sockets that ran out of buffers *)
(* (layer0/core, driver/receive; layer0/uring, system/permit), the ready   *)
(* set that wakes them, and the driver turn that ends in a blocking wait   *)
(* unless somebody still has work (layer1/runtime, executor/drive).        *)
(*                                                                         *)
(* The kernel and the turn interleave; inside a turn everything is one     *)
(* thread.  With Grouped the sockets are the members of one group          *)
(* endpoint, otherwise each is an endpoint of its own.  With Shared the    *)
(* endpoint has siblings: its part of the turn's budget may run out while  *)
(* the turn's budget as a whole does not.                                  *)
(***************************************************************************)
EXTENDS Naturals, FiniteSets, Sequences, SequencesExt

CONSTANTS
  Members,   \* the sockets
  Setups     \* the applications to consider

ASSUME MembersAssumption == IsFiniteSet(Members)

ASSUME SetupAssumption ==
  Setups \subseteq [buffers : Nat \ {0}, grouped : BOOLEAN, shared : BOOLEAN]

arm == INSTANCE Arm
slot == INSTANCE Permit

VARIABLES
  setup,     \* the application, never changed
  \* one Receive per socket
  phase,     \* arm.phase
  flight,    \* arm.flight is Some
  retry,     \* Receive.retry is Some
  accepting, \* the endpoint's sender accepts
  \* registrations and wakes
  permit,    \* the socket's entry in the permit table
  ready,     \* the ready set of the driver
  \* the group endpoint
  queue,     \* Endpoint.ready: members waiting to be armed
  deferred,  \* Endpoint.deferred: the last admission of this pass failed
  \* the turn
  loop,      \* where it is
  stopping,  \* the application was shut down and quiesces
  todo,      \* endpoints whose pre_park has not run in this turn
  drained,   \* Ready.events: dispatch left nothing behind
  spent,     \* some lane of the turn's budget is used up
  refused,   \* Local.retry: the submission queue refused an entry
  \* the kernel
  op,        \* the socket's native receive is in the kernel
  cancel,    \* ... and its cancellation was submitted
  cq,        \* completions of the socket, in order
  avail,     \* buffers the kernel may select
  leased,    \* buffers held by the application
  returned   \* buffers dropped by the application, not yet reclaimed

receiveVars == <<phase, flight, retry, accepting>>
wakeVars == <<permit, ready>>
groupVars == <<queue, deferred>>
turnVars == <<loop, stopping, todo, drained, spent, refused>>
kernelVars == <<op, cancel, cq>>
bufferVars == <<avail, leased, returned>>
vars == <<receiveVars, wakeVars, groupVars, turnVars, kernelVars, bufferVars>>

Buffers == setup.buffers  \* the number of provided buffers
Grouped == setup.grouped
Shared == setup.shared

\* What the kernel reports (recv::Outcome); Control stands for Eof, Starved
\* and Cancelled, which the receive treats alike.
Entry == [kind : {"Data", "Exhausted", "Failed", "Control"},
          flow : {"More", "Last"}]

\* The types of the variables; part of NoBufferLost.
TypeOK ==
  /\ setup \in Setups
  /\ phase \in [Members -> arm!Phase]
  /\ flight \in [Members -> BOOLEAN]
  /\ retry \in [Members -> BOOLEAN]
  /\ accepting \in [Members -> BOOLEAN]
  /\ permit \in [Members -> slot!Slot]
  /\ ready \subseteq Members
  /\ queue \in Seq(Members)
  /\ deferred \in BOOLEAN
  /\ loop \in {"dispatch", "activate", "prepark", "idle", "blocked",
               "finished", "aborted"}
  /\ stopping \in BOOLEAN
  /\ todo \subseteq Members
  /\ drained \in BOOLEAN /\ spent \in BOOLEAN /\ refused \in BOOLEAN
  /\ op \in [Members -> BOOLEAN]
  /\ cancel \in [Members -> BOOLEAN]
  /\ cq \in [Members -> Seq(Entry)]
  /\ avail \in Nat /\ leased \in Nat /\ returned \in Nat

\* fifo::List::try_with fills the group's queue with every slot.
Init ==
  /\ setup \in Setups
  /\ phase = [m \in Members |-> "Ready"]
  /\ flight = [m \in Members |-> FALSE]
  /\ retry = [m \in Members |-> FALSE]
  /\ accepting = [m \in Members |-> TRUE]
  /\ permit = [m \in Members |-> "vacant"]
  /\ ready = {}
  /\ queue = (IF Grouped THEN SetToSeq(Members) ELSE <<>>)
  /\ deferred = FALSE
  /\ loop = "dispatch" /\ stopping = FALSE /\ todo = Members
  /\ drained = FALSE /\ spent = FALSE /\ refused = FALSE
  /\ op = [m \in Members |-> FALSE]
  /\ cancel = [m \in Members |-> FALSE]
  /\ cq = [m \in Members |-> <<>>]
  /\ avail = Buffers /\ leased = 0 /\ returned = 0

-----------------------------------------------------------------------------
(* Completions, one per step.                                              *)

\* group::mark.
Marked(q, m) == IF Grouped /\ ~Contains(q, m) THEN Append(q, m) ELSE q

\* Mutant: every completion ends the flight.
CompletesOnAny(m) ==
  /\ cq' = [cq EXCEPT ![m] = Tail(@)]
  /\ flight' = [flight EXCEPT ![m] = FALSE]
  /\ phase' = [phase EXCEPT ![m] = arm!Completed(@)]
  /\ queue' = IF arm!IsLive(phase'[m]) THEN queue ELSE Marked(queue, m)

\* arm::State::complete on the flow of the entry at the head.
Completes(m) ==
  LET last == Head(cq[m]).flow = "Last"
      next == IF last THEN arm!Completed(phase[m]) ELSE phase[m]
  IN  /\ cq' = [cq EXCEPT ![m] = Tail(@)]
      /\ flight' = [flight EXCEPT ![m] = @ /\ ~last]
      /\ phase' = [phase EXCEPT ![m] = arm!SettleProbe(next)]
      /\ queue' = IF arm!IsLive(phase'[m]) THEN queue ELSE Marked(queue, m)

Dispatches(m, kinds) ==
  /\ loop = "dispatch"
  /\ cq[m] # <<>> /\ Head(cq[m]).kind \in kinds
  /\ UNCHANGED <<accepting, ready, deferred, turnVars, op, cancel>>

Delivers(m) == flight[m] /\ arm!Disposition(phase[m]) \in {"Deliver", "Probe"}

\* A probe that the kernel answers settles: the registration is dropped.
Settles(m) ==
  permit' = [permit EXCEPT ![m] =
               IF arm!Disposition(phase[m]) = "Probe" THEN slot!Cancel(@) ELSE @]

\* A packet, or a malformed one, becomes a lease of the handler.
Deliver(m) ==
  /\ Dispatches(m, {"Data"}) /\ Delivers(m)
  /\ Completes(m) /\ Settles(m)
  /\ leased' = leased + 1
  /\ UNCHANGED <<retry, avail, returned>>

\* Socket errors, end of file, starvation and foreign cancellations.
Fail(m) ==
  /\ Dispatches(m, {"Failed", "Control"}) /\ Delivers(m)
  /\ Completes(m) /\ Settles(m)
  /\ UNCHANGED <<retry, bufferVars>>

\* Mutant: the first exhaustion waits instead of retrying once.
ExhaustWithoutRetry(m) ==
  /\ Dispatches(m, {"Exhausted"}) /\ Delivers(m)
  /\ cq' = [cq EXCEPT ![m] = Tail(@)]
  /\ flight' = [flight EXCEPT ![m] = FALSE]
  /\ permit' = [permit EXCEPT ![m] = "queued"]
  /\ phase' = [phase EXCEPT ![m] = "Waiting"]
  /\ UNCHANGED <<retry, queue, bufferVars>>

\* receive::Registration::exhausted: the first exhaustion registers and may
\* retry at once; a probe that is exhausted again waits for its grant.
Exhaust(m) ==
  /\ Dispatches(m, {"Exhausted"}) /\ Delivers(m)
  /\ cq' = [cq EXCEPT ![m] = Tail(@)]
  /\ flight' = [flight EXCEPT ![m] = FALSE]
  /\ permit' = [permit EXCEPT ![m] = slot!Exhausted(@)]
  /\ LET next == arm!Completed(phase[m])
     IN  \/ /\ slot!Retries(permit[m])
            /\ retry' = [retry EXCEPT ![m] = TRUE]
            /\ phase' = [phase EXCEPT ![m] = next]
         \/ /\ ~slot!Retries(permit[m])
            /\ phase' = [phase EXCEPT ![m] = arm!Wait(next)]
            /\ UNCHANGED retry
  /\ queue' = IF arm!IsLive(phase'[m]) THEN queue ELSE Marked(queue, m)
  /\ UNCHANGED bufferVars

\* Mutant: the buffer of a retired completion is dropped.
RetireLeaking(m) ==
  /\ Dispatches(m, {"Data", "Exhausted", "Failed", "Control"})
  /\ ~Delivers(m) /\ Completes(m)
  /\ UNCHANGED <<retry, permit, bufferVars>>

\* A stopped receive hands its completions to the driver, which drops the
\* buffer (Context::reclaim); a completion of no flight is discarded.
Retire(m) ==
  /\ Dispatches(m, {"Data", "Exhausted", "Failed", "Control"})
  /\ ~Delivers(m)
  /\ IF flight[m] /\ arm!Disposition(phase[m]) = "Retiring"
       THEN Completes(m)
       ELSE /\ cq' = [cq EXCEPT ![m] = Tail(@)]
            /\ queue' = IF arm!IsLive(phase[m]) THEN queue ELSE Marked(queue, m)
            /\ UNCHANGED <<phase, flight>>
  /\ returned' = IF Head(cq[m]).kind = "Data" THEN returned + 1 ELSE returned
  /\ UNCHANGED <<retry, permit, avail, leased>>

\* The dispatch of a turn ends when the queue is empty or its budget is.
EndDispatch ==
  /\ loop = "dispatch"
  /\ loop' = "activate"
  /\ drained' = (\A m \in Members : cq[m] = <<>>)
  /\ UNCHANGED <<receiveVars, wakeVars, groupVars, stopping, todo, spent,
                 refused, kernelVars, bufferVars>>

-----------------------------------------------------------------------------
(* Wakes.                                                                  *)

\* Receive::resume for a socket of the ready set; the group also queues it.
Activate(m) ==
  /\ loop = "activate" /\ m \in ready
  /\ ready' = ready \ {m}
  /\ permit' = [permit EXCEPT ![m] = slot!Take(@)]
  /\ LET resumes == slot!Resumes(permit[m]) /\ ~retry[m] /\ phase[m] = "Waiting"
     IN  /\ retry' = [retry EXCEPT ![m] = @ \/ resumes]
         /\ phase' = [phase EXCEPT ![m] =
                        IF resumes \/ slot!Stale(permit[m])
                          THEN arm!Resume(@) ELSE @]
  /\ queue' = Marked(queue, m)
  /\ deferred' = FALSE
  /\ UNCHANGED <<flight, accepting, turnVars, kernelVars, bufferVars>>

\* Socket::wake_target lets the application wake a socket for its own ends.
\* (A wake during the activation rounds is one of the next round or turn.)
Poke(m) ==
  /\ loop \in {"dispatch", "prepark"} /\ m \notin ready
  /\ ready' = ready \cup {m}
  /\ UNCHANGED <<receiveVars, permit, groupVars, turnVars, kernelVars, bufferVars>>

\* Mutant: a receive whose cancellation was submitted counts as idle.
AllStopped == \A m \in Members : phase[m] \in {"Idle", "Cancelling"}

\* What progress reports of the sockets.
AllIdle == \A m \in Members : phase[m] = "Idle"

\* Core::is_quiet: neither budget nor ready set ask for another turn.
IsQuiet == ~spent /\ ready = {}

\* A drained, quiet turn and a Quiescent shutdown progress.
Quiescent == stopping /\ drained /\ IsQuiet /\ AllIdle

\* Mutant: a zero-budget pass inherits an earlier admission failure.
BeginPreParkDeferred ==
  /\ loop = "activate" /\ ~Quiescent
  /\ loop' = "prepark"
  /\ UNCHANGED <<receiveVars, wakeVars, groupVars, stopping, todo, drained, spent,
                 refused, kernelVars, bufferVars>>

\* The activation rounds end at any time: they are two, and have a budget.
\* The group's pre_park forgets the failure of an earlier pass.
BeginPrePark ==
  /\ loop = "activate" /\ ~Quiescent
  /\ loop' = "prepark"
  /\ deferred' = (deferred /\ ~(Grouped /\ \A m \in Members : accepting[m]))
  /\ UNCHANGED <<receiveVars, wakeVars, queue, stopping, todo, drained, spent,
                 refused, kernelVars, bufferVars>>

-----------------------------------------------------------------------------
(* Arming and stopping.                                                    *)

\* The sockets that stop together.
Peers(m) == IF Grouped THEN Members ELSE {m}

\* Mutant: stop leaves the registration in the permit table.
StopsRegistered(P, ph, F) ==
  /\ accepting' = [p \in Members |-> accepting[p] /\ p \notin P]
  /\ retry' = [p \in Members |-> retry[p] /\ p \notin P]
  /\ phase' = [p \in Members |->
                 IF p \in P THEN arm!Stop(ph[p], p \in F) ELSE ph[p]]
  /\ cancel' = [p \in Members |->
                  \/ cancel[p]
                  \/ p \in P \ F /\ arm!Cancels(ph[p]) /\ op[p]]
  /\ refused' = (refused \/ \E p \in P \cap F : arm!Cancels(ph[p]))
  /\ UNCHANGED <<flight, permit, ready, deferred, op, cq, bufferVars>>

\* Receive::stop of the sockets P whose phases are ph; the submission queue
\* refuses the cancellations of F.
Stops(P, ph, F) ==
  /\ accepting' = [p \in Members |-> accepting[p] /\ p \notin P]
  /\ permit' = [p \in Members |-> IF p \in P THEN slot!Cancel(permit[p]) ELSE permit[p]]
  /\ retry' = [p \in Members |-> retry[p] /\ p \notin P]
  /\ phase' = [p \in Members |->
                 IF p \in P THEN arm!Stop(ph[p], p \in F) ELSE ph[p]]
  /\ cancel' = [p \in Members |->
                  \/ cancel[p]
                  \/ p \in P \ F /\ arm!Cancels(ph[p]) /\ op[p]]
  /\ refused' = (refused \/ \E p \in P \cap F : arm!Cancels(ph[p]))
  /\ UNCHANGED <<flight, ready, deferred, op, cq, bufferVars>>

\* The turn of m in pre_park: an endpoint of its own, or the next member of
\* the group.
Turn(m) ==
  /\ loop = "prepark" /\ accepting[m]
  /\ IF Grouped THEN todo = Members /\ ~deferred /\ queue # <<>> /\ m = Head(queue)
                ELSE m \in todo

\* Mutant: the group forgets a member whose admission failed.
PassedOver(m) ==
  /\ todo' = IF Grouped THEN todo ELSE todo \ {m}
  /\ queue' = IF Grouped THEN Tail(queue) ELSE queue
  /\ deferred' = (deferred \/ (Grouped /\ ~arm!IsLive(phase'[m])))

\* What is left of pre_park when m has been armed: the group takes a member
\* that is still not live back and gives up for this pass.
Passed(m) ==
  /\ todo' = IF Grouped THEN todo ELSE todo \ {m}
  /\ queue' = IF ~Grouped THEN queue
              ELSE IF arm!IsLive(phase'[m]) THEN Tail(queue)
              ELSE Append(Tail(queue), m)
  /\ deferred' = (deferred \/ (Grouped /\ ~arm!IsLive(phase'[m])))

\* Receive::arm submits...
Arm(m) ==
  /\ Turn(m) /\ arm!Begins(phase[m], retry[m])
  /\ phase' = [phase EXCEPT ![m] = arm!Apply(retry[m], "Armed")]
  /\ flight' = [flight EXCEPT ![m] = TRUE]
  /\ op' = [op EXCEPT ![m] = TRUE]
  /\ retry' = [retry EXCEPT ![m] = FALSE]
  /\ Passed(m)
  /\ UNCHANGED <<accepting, wakeVars, loop, stopping, drained, spent, refused,
                 cancel, cq, bufferVars>>

\* Mutant: a refused probe loses its attempt.
ArmRefusedForGood(m) ==
  /\ Turn(m) /\ arm!Begins(phase[m], retry[m])
  /\ phase' = [phase EXCEPT ![m] = arm!Apply(retry[m], "Deferred")]
  /\ retry' = [retry EXCEPT ![m] = FALSE]
  /\ refused' = TRUE
  /\ Passed(m)
  /\ UNCHANGED <<flight, accepting, wakeVars, loop, stopping, drained,
                 spent, kernelVars, bufferVars>>

\* ... unless the submission queue is full...
ArmRefused(m) ==
  /\ Turn(m) /\ arm!Begins(phase[m], retry[m])
  /\ phase' = [phase EXCEPT ![m] = arm!Apply(retry[m], "Deferred")]
  /\ refused' = TRUE
  /\ Passed(m)
  /\ UNCHANGED <<flight, retry, accepting, wakeVars, loop, stopping, drained,
                 spent, kernelVars, bufferVars>>

\* ... or no flight identity is left, which stops the endpoint.
ArmFails(m) ==
  /\ Turn(m) /\ arm!Begins(phase[m], retry[m])
  /\ \E F \in SUBSET Peers(m) :
       Stops(Peers(m),
             [phase EXCEPT ![m] = arm!Apply(retry[m], "Failed")], F)
  /\ todo' = todo \ Peers(m)
  /\ queue' = IF Grouped THEN Tail(queue) ELSE queue
  /\ UNCHANGED <<loop, stopping, drained, spent>>

\* A submission of the sender fails in the same pass.
SendFails(m) ==
  /\ loop = "prepark" /\ accepting[m] /\ m \in todo
  /\ \E F \in SUBSET Peers(m) : Stops(Peers(m), phase, F)
  /\ todo' = todo \ Peers(m)
  /\ UNCHANGED <<queue, loop, stopping, drained, spent>>

\* Nothing to begin.
Pass(m) ==
  /\ Turn(m) /\ ~arm!Begins(phase[m], retry[m])
  /\ UNCHANGED phase /\ Passed(m)
  /\ UNCHANGED <<flight, retry, accepting, wakeVars, loop, stopping, drained,
                 spent, refused, kernelVars, bufferVars>>

\* A pass with no budget left arms nothing.  The budget of the turn is spent
\* too, unless this was only the endpoint's share of it.
Starve(m) ==
  /\ loop = "prepark" /\ accepting[m] /\ m \in todo
  /\ todo' = todo \ Peers(m)
  /\ spent' = (spent \/ ~Shared)
  /\ UNCHANGED <<receiveVars, wakeVars, groupVars, loop, stopping, drained,
                 refused, kernelVars, bufferVars>>

\* Mutant: a refused cancellation is not tried again.
RetryStopNot(m) ==
  /\ loop = "prepark" /\ ~accepting[m] /\ m \in todo
  /\ todo' = todo \ {m}
  /\ UNCHANGED <<receiveVars, wakeVars, groupVars, loop, stopping,
                 drained, spent, refused, kernelVars, bufferVars>>

\* Receive::retry_stop in the pre_park of an endpoint that stopped.
RetryStop(m) ==
  /\ loop = "prepark" /\ ~accepting[m] /\ m \in todo
  /\ \E full \in BOOLEAN :
       /\ phase' = [phase EXCEPT ![m] = arm!Stop(@, full)]
       /\ cancel' = [cancel EXCEPT ![m] =
                       @ \/ (arm!Cancels(phase[m]) /\ op[m] /\ ~full)]
       /\ refused' = (refused \/ (arm!Cancels(phase[m]) /\ full))
  /\ todo' = todo \ {m}
  /\ UNCHANGED <<flight, retry, accepting, wakeVars, groupVars, loop, stopping,
                 drained, spent, op, cq, bufferVars>>

EndPrePark ==
  /\ loop = "prepark"
  /\ \/ todo = {}
     \/ /\ Grouped /\ \A m \in Members : accepting[m]
        /\ queue = <<>> \/ deferred
  /\ loop' = "idle"
  /\ UNCHANGED <<receiveVars, wakeVars, groupVars, stopping, todo, drained,
                 spent, refused, kernelVars, bufferVars>>

-----------------------------------------------------------------------------
(* The end of a turn.                                                      *)

\* native::Access::reclaim: returned buffers go back to the kernel, and every
\* registration is granted.
Reclaim ==
  LET granted == IF returned = 0 THEN {} ELSE {m \in Members : slot!Grantable(permit[m])}
  IN  /\ avail' = avail + returned /\ returned' = 0
      /\ permit' = [m \in Members |->
                      IF m \in granted THEN slot!Grant(permit[m]) ELSE permit[m]]
      /\ ready' = ready \cup granted

NewTurn ==
  /\ loop' = "dispatch" /\ todo' = Members /\ spent' = FALSE

\* Parked::sync when dispatch left completions behind.
Commit ==
  /\ loop = "idle" /\ ~drained
  /\ Reclaim /\ NewTurn
  /\ refused' = FALSE
  /\ UNCHANGED <<receiveVars, groupVars, stopping, drained, kernelVars, leased>>

\* Progress of the endpoints: Runnable asks for another turn.
Runnable ==
  IF Grouped /\ \A m \in Members : accepting[m]
    THEN queue # <<>> /\ ~deferred
    ELSE \E m \in Members : arm!Runnable(phase[m])

\* Core::timeout is zero.
Hurried == Runnable \/ ~IsQuiet

\* Idle::wait blocks unless somebody is known to have work, or is granted a
\* buffer on the way.
Wait ==
  /\ loop = "idle" /\ drained /\ ~Quiescent
  /\ Reclaim
  /\ IF Hurried \/ ready' # {} \/ refused
       THEN NewTurn
       ELSE loop' = "blocked" /\ UNCHANGED <<todo, spent>>
  /\ refused' = FALSE
  /\ UNCHANGED <<receiveVars, groupVars, stopping, drained, kernelVars, leased>>

\* A completion, or anything else the thread waits for (another socket, a
\* timer, a notification), ends the wait.
Wake ==
  /\ loop = "blocked"
  /\ NewTurn
  /\ UNCHANGED <<receiveVars, wakeVars, groupVars, stopping, drained, refused,
                 kernelVars, bufferVars>>

\* The run ends; Run::shutdown stops every endpoint and quiesces.
Shutdown ==
  /\ loop = "idle" /\ ~stopping
  /\ \E F \in SUBSET Members : Stops(Members, phase, F)
  /\ stopping' = TRUE /\ NewTurn
  /\ UNCHANGED <<queue, drained>>

\* Receive::finish.
Finishes ==
  /\ phase' = [m \in Members |-> "Idle"]
  /\ flight' = [m \in Members |-> FALSE]
  /\ retry' = [m \in Members |-> FALSE]
  /\ permit' = [m \in Members |-> slot!Cancel(permit[m])]

\* quiesce::run ends when everybody is idle and the last commit is clean.
Quiesce ==
  /\ loop \in {"activate", "idle"} /\ Quiescent
  /\ \/ /\ ~refused
        /\ loop' = "finished"
        /\ avail' = avail + returned /\ returned' = 0
        /\ Finishes
        /\ UNCHANGED <<accepting, ready, groupVars, stopping, todo, drained,
                       spent, refused, kernelVars, leased>>
     \/ /\ Reclaim /\ NewTurn /\ refused' = FALSE
        /\ UNCHANGED <<receiveVars, groupVars, stopping, drained, kernelVars,
                       leased>>

\* The quiesce deadline or a failed wait forces the end.
Abort ==
  /\ loop = "idle" /\ stopping
  /\ loop' = "aborted"
  /\ Finishes
  /\ UNCHANGED <<accepting, ready, groupVars, stopping, todo, drained, spent,
                 refused, kernelVars, bufferVars>>

-----------------------------------------------------------------------------
(* The kernel and the application.                                         *)

Post(m, kind, flow) ==
  /\ op[m]
  /\ cq' = [cq EXCEPT ![m] = Append(@, [kind |-> kind, flow |-> flow])]
  /\ op' = [op EXCEPT ![m] = (flow = "More")]
  /\ cancel' = [cancel EXCEPT ![m] = @ /\ flow = "More"]
  /\ UNCHANGED <<receiveVars, wakeVars, groupVars, turnVars, leased, returned>>

\* A datagram takes a buffer; the multishot receive may end with it.
Datagram(m) ==
  /\ avail > 0 /\ avail' = avail - 1
  /\ \E flow \in {"More", "Last"} : Post(m, "Data", flow)

\* A datagram that finds no buffer ends the receive.
NoBuffer(m) ==
  /\ avail = 0 /\ UNCHANGED avail
  /\ Post(m, "Exhausted", "Last")

Broken(m) ==
  /\ UNCHANGED avail
  /\ Post(m, "Failed", "Last")

\* A cancellation takes effect, or the receive ends for a reason that the
\* socket treats the same way.
Ended(m) ==
  /\ UNCHANGED avail
  /\ Post(m, "Control", "Last")

Cancelled(m) == cancel[m] /\ Ended(m)

\* The application drops a packet it kept.
DropLease ==
  /\ loop \in {"dispatch", "activate", "prepark"} /\ leased > 0
  /\ leased' = leased - 1 /\ returned' = returned + 1
  /\ UNCHANGED <<receiveVars, wakeVars, groupVars, turnVars, kernelVars, avail>>

Over == loop \in {"finished", "aborted"} /\ UNCHANGED vars

Dispatch(m) == Deliver(m) \/ Fail(m) \/ Exhaust(m) \/ Retire(m)

PrePark(m) ==
  \/ Arm(m) \/ ArmRefused(m) \/ ArmFails(m) \/ SendFails(m)
  \/ Pass(m) \/ Starve(m) \/ RetryStop(m)

Kernel(m) == Datagram(m) \/ NoBuffer(m) \/ Broken(m) \/ Ended(m)

Next ==
  /\ \/ \E m \in Members :
          Dispatch(m) \/ Activate(m) \/ Poke(m) \/ PrePark(m) \/ Kernel(m)
     \/ EndDispatch \/ BeginPrePark \/ EndPrePark
     \/ Commit \/ Wait \/ Wake \/ Shutdown \/ Quiesce \/ Abort
     \/ DropLease \/ Over
  /\ UNCHANGED setup

Spec == Init /\ [][Next]_<<setup, vars>>
-----------------------------------------------------------------------------
(* Properties.                                                             *)

\* When the thread blocks with nothing left to dispatch, something outside
\* will end every wait: an accepting socket has its receive in the kernel, or
\* waits for a buffer that the application holds and whose return will grant
\* it; a stopped one is idle, or its cancellation is on its way.
NoLostWake ==
  loop = "blocked" /\ (\A m \in Members : cq[m] = <<>>) =>
    \A m \in Members :
      IF accepting[m]
        THEN op[m] \/ (phase[m] = "Waiting" /\ permit[m] = "queued" /\ leased > 0)
        ELSE phase[m] = "Idle" \/ (op[m] /\ cancel[m])

\* A socket waits for buffers only while its registration can still be
\* granted (no buffer came back since its probe failed), or after the grant
\* with its activation pending.
WaitingIsRegistered ==
  \A m \in Members :
    phase[m] = "Waiting" => \/ permit[m] = "queued" /\ avail = 0
                            \/ permit[m] = "parked" /\ m \in ready

\* The last completion of the receive is posted and not yet dispatched.
Ends(m) == \E i \in 1..Len(cq[m]) : cq[m][i].flow = "Last"

\* The arm and the kernel agree on who owns the receive: a flight is held
\* exactly in the flying phases, for as long as the operation runs or its
\* last completion is undelivered, and without one nothing is outstanding.
OneFlight ==
  loop # "aborted" =>
    \A m \in Members :
      /\ flight[m] <=> phase[m] \in {"Armed", "Probing", "CancelDeferred", "Cancelling"}
      /\ IF flight[m] THEN op[m] # Ends(m) ELSE ~op[m] /\ cq[m] = <<>>

\* A stopped socket never comes back: whatever grant or wake was under way,
\* it holds no registration and no attempt and only waits for its flight.
StopIsFinal ==
  \A m \in Members :
    ~accepting[m] =>
      /\ phase[m] \in {"CancelDeferred", "Cancelling", "Idle"}
      /\ permit[m] = "vacant" /\ ~retry[m]
      /\ phase[m] = "Cancelling" /\ op[m] => cancel[m]

\* Every member of an accepting group that is not armed is in the queue from
\* which pre_park arms, once and not twice.
NoForgottenMember ==
  /\ IsInjective(queue)
  /\ Grouped => \A m \in Members :
                  accepting[m] /\ ~arm!IsLive(phase[m]) => Contains(queue, m)

\* The completions that carry a buffer and are not yet dispatched.
Carried == {x \in Members \X (1..Buffers) :
              x[2] <= Len(cq[x[1]]) /\ cq[x[1]][x[2]].kind = "Data"}

\* No buffer is lost or returned twice.
NoBufferLost ==
  /\ TypeOK
  /\ avail + leased + returned + Cardinality(Carried) = Buffers

\* Quiescence is real: an endpoint finishes with nothing left in the kernel
\* that could still write into its buffers.
FinishIsClean ==
  loop = "finished" => \A m \in Members : ~op[m] /\ cq[m] = <<>>

-----------------------------------------------------------------------------
(* Liveness.  The thread keeps running its turns, and blocking is only     *)
(* ended by a completion, by the kernel's answer to a cancellation, or,    *)
(* while the application holds buffers, by whatever makes it drop them.    *)
(* Completions, ready bits and arms are served in rotation and the         *)
(* submission queue is emptied every turn, hence strong fairness.          *)
Fairness ==
  /\ WF_vars(EndDispatch) /\ WF_vars(BeginPrePark) /\ WF_vars(EndPrePark)
  /\ WF_vars(Commit) /\ WF_vars(Wait) /\ SF_vars(Quiesce /\ loop' = "finished")
  /\ WF_vars(Quiesce)
  /\ WF_vars(Wake /\ (leased > 0 \/ \E m \in Members : cq[m] # <<>>))
  /\ SF_vars(DropLease)
  /\ \A m \in Members :
       /\ SF_vars(Dispatch(m)) /\ SF_vars(Activate(m))
       /\ SF_vars(Arm(m)) /\ WF_vars(PrePark(m))
       /\ SF_vars(RetryStop(m) /\ phase'[m] # "CancelDeferred")
       /\ WF_vars(Cancelled(m))

LiveSpec == Spec /\ Fairness

\* After shutdown every socket gets rid of its receive and the run ends.
ShutdownEnds == stopping ~> loop \in {"finished", "aborted"}

\* A socket that lost its receive gets it back, or stops.
Rearms ==
  \A m \in Members :
    accepting[m] /\ ~op[m] ~> op[m] \/ ~accepting[m]
=============================================================================
