--------------------------- MODULE ProcessRuntime ---------------------------
(***************************************************************************)
(* The process runtime of layer1/runtime: one main thread that starts N    *)
(* worker threads, supervises them over one byte-record socket pair each   *)
(* (the bus), stops them on SIGTERM or on the first failure, validates the *)
(* bytes each worker left, joins them all and returns a verdict.           *)
(*                                                                         *)
(* Runtime::run, run_watched and watch_gated are the three modes; Watched  *)
(* and Gated select them.  `Faults' lists the kinds of failure that the    *)
(* environment may inject; with Faults = {} every system call succeeds and *)
(* every worker entry follows the documented protocol.                     *)
(***************************************************************************)
EXTENDS Naturals, Sequences

CONSTANTS
  N,         \* the number of workers
  Gated,     \* watch_gated: entries hold an application gate
  Watched,   \* run_watched / watch_gated: a heartbeat supervises the run
  Faults     \* the failures the environment may inject

FaultKind == {"spawn", "affinity", "entry", "gate", "callback",
              "control", "stop", "read", "write"}

ASSUME NAssumption == N \in Nat \ {0}
ASSUME ModeAssumption == /\ Gated \in BOOLEAN
                         /\ Watched \in BOOLEAN
                         /\ Gated => Watched
ASSUME FaultsAssumption == Faults \subseteq FaultKind

Workers == 1..N

\* The one-byte records of the bus (failure::bus::Event).
Event == {"Installed", "Ready", "Drain", "Done", "Failed"}

NoWorker == 0

Causes == {"none", "WorkerSpawn", "Control", "BusRead", "WorkerFailed",
           "StartupEvent", "RuntimeEvent", "WatchReady", "WatchPulse",
           "WatchDrain", "DrainEvent", "DrainOrder", "ShutdownEvent"}

VARIABLES
  \* the main thread
  pc,        \* where it is: see MainPc
  started,   \* workers spawned so far (thread::Group.started)
  idx,       \* next worker of the stop, handoff and join passes
  installs,  \* Installed records still awaited (wait_ready)
  ready,     \* Ready records still awaited (wait_ready)
  drained,   \* Counts.drained
  done,      \* Counts.done
  retired,   \* poll registrations retired by a Done record
  clock,     \* the signal arrived after notify.ready()
  cause,     \* the control failure, or "none"
  target,    \* the worker the cause accuses, or NoWorker
  stopErr,   \* some Main::stop failed
  handoff,   \* Parent.handoff: what the hand-off of each bus found
  failures,  \* workers with a reported failure
  signal,    \* SIGTERM was delivered
  \* one socket pair per worker
  sent,      \* records the worker wrote, in order
  read,      \* how many of them main consumed
  wshut,     \* the worker's write side is shut down or closed: EOF for main
  stopped,   \* main shut its write side down: EOF for the worker
  mopen,     \* Parent.main is still Some
  \* the worker threads
  wpc,       \* where the worker is: see WorkerPc
  phase,     \* Worker.phase
  fault,     \* Worker.failure is Some
  gate,      \* the application gate
  output,    \* what the entry returned
  outcome    \* Outcome of Worker::run

control == <<installs, ready, drained, done, retired, clock, cause, target>>
mainVars == <<pc, started, idx, control, stopErr, handoff, failures, signal>>
busVars == <<sent, read, wshut, stopped, mopen>>
entryVars == <<wpc, gate, output, outcome>>
workerVars == <<entryVars, phase, fault>>
vars == <<mainVars, busVars, workerVars>>

MainPc == {"spawn", "ready", "observe", "notify", "drive", "stop",
           "drain", "draining", "done", "handoff", "join", "returned"}

WorkerPc == {"idle", "bind", "built", "running", "stopping", "finish",
             "closing", "exited"}

TypeOK ==
  /\ pc \in MainPc
  /\ started \in 0..N
  /\ idx \in 1..(N + 1)
  /\ installs \in 0..N /\ ready \in 0..N
  /\ drained \in Nat /\ done \in Nat
  /\ retired \subseteq Workers
  /\ clock \in BOOLEAN /\ stopErr \in BOOLEAN /\ signal \in BOOLEAN
  /\ cause \in Causes
  /\ target \in Workers \cup {NoWorker}
  /\ handoff \in [Workers -> {"none", "Stopped", "Sequence", "Syscall"}]
  /\ failures \subseteq Workers
  /\ sent \in [Workers -> Seq(Event)]
  /\ read \in [Workers -> Nat]
  /\ wshut \in [Workers -> BOOLEAN]
  /\ stopped \in [Workers -> BOOLEAN]
  /\ mopen \in [Workers -> BOOLEAN]
  /\ wpc \in [Workers -> WorkerPc]
  /\ phase \in [Workers -> {"New", "Installed", "Failed"}]
  /\ fault \in [Workers -> BOOLEAN]
  /\ gate \in [Workers -> {"closed", "open", "finished", "gone"}]
  /\ output \in [Workers -> {"none", "Ok", "Err"}]
  /\ outcome \in [Workers -> {"none", "Done", "Failed"}]

Init ==
  /\ pc = "spawn" /\ started = 0 /\ idx = 1
  /\ installs = N /\ ready = (IF Gated THEN N ELSE 0)
  /\ drained = 0 /\ done = 0 /\ retired = {} /\ clock = FALSE
  /\ cause = "none" /\ target = NoWorker /\ stopErr = FALSE
  /\ handoff = [w \in Workers |-> "none"]
  /\ failures = {} /\ signal = FALSE
  /\ sent = [w \in Workers |-> <<>>]
  /\ read = [w \in Workers |-> 0]
  /\ wshut = [w \in Workers |-> FALSE]
  /\ stopped = [w \in Workers |-> FALSE]
  /\ mopen = [w \in Workers |-> TRUE]
  /\ wpc = [w \in Workers |-> "idle"]
  /\ phase = [w \in Workers |-> "New"]
  /\ fault = [w \in Workers |-> FALSE]
  /\ gate = [w \in Workers |-> "closed"]
  /\ output = [w \in Workers |-> "none"]
  /\ outcome = [w \in Workers |-> "none"]

-----------------------------------------------------------------------------
(* The worker's end of the bus.                                            *)

\* Mutant: only a fault silences the bus of a worker.
QuietAfterFaultOnly(w) == fault[w]

\* Worker::send writes nothing after a stored failure or a Failed record.
Quiet(w) == fault[w] \/ phase[w] = "Failed"

\* What Worker::send does with one record: `wrote' is the send(2) outcome
\* (EPIPE once main dropped its end), `cut' that of the shutdown(2) which
\* follows a failed write or a Failed record.
Write(w, e, wrote, cut) ==
  LET shut == ~wrote \/ e = "Failed" IN
    /\ IF wrote THEN mopen[w] ELSE ~mopen[w] \/ "write" \in Faults
    /\ cut \/ (shut /\ "write" \in Faults)
    /\ sent' = IF wrote THEN [sent EXCEPT ![w] = Append(@, e)] ELSE sent
    /\ phase' = [phase EXCEPT ![w] =
                   CASE e = "Failed" -> "Failed"
                     [] e = "Installed" /\ wrote -> "Installed"
                     [] OTHER -> @]
    /\ fault' = [fault EXCEPT ![w] = ~wrote \/ ~cut]
    /\ wshut' = [wshut EXCEPT ![w] = shut /\ cut]

Send(w, e) ==
  \/ /\ ~Quiet(w)
     /\ \E wrote, cut \in BOOLEAN : Write(w, e, wrote, cut)
  \/ /\ Quiet(w)
     /\ UNCHANGED <<sent, phase, fault, wshut>>

\* Tx::installed: publishes the installation once, whatever the session.
SendInstalled(w) ==
  \/ /\ phase[w] = "New"
     /\ Send(w, "Installed")
  \/ /\ phase[w] # "New"
     /\ UNCHANGED <<sent, phase, fault, wshut>>

-----------------------------------------------------------------------------
(* The worker threads.                                                     *)

workerFrame == UNCHANGED <<mainVars, read, stopped, mopen>>

\* task::execute pins the thread to its CPU before it runs the entry.
Bind(w) ==
  /\ wpc[w] = "bind"
  /\ wpc' = [wpc EXCEPT ![w] = "built"]
  /\ workerFrame
  /\ UNCHANGED <<sent, wshut, phase, fault, gate, output, outcome>>

BindFails(w) ==
  /\ wpc[w] = "bind"
  /\ "affinity" \in Faults
  /\ Send(w, "Failed")
  /\ wpc' = [wpc EXCEPT ![w] = "finish"]
  /\ output' = [output EXCEPT ![w] = "Err"]
  /\ workerFrame
  /\ UNCHANGED <<gate, outcome>>

\* A session installs the application and publishes it (Session::admit); a
\* later session of the same executor goes through the same call.  A bus
\* failure is an InstallError, which the entry returns.
Install(w) ==
  /\ wpc[w] \in {"built", "running"}
  /\ SendInstalled(w)
  /\ wpc' = [wpc EXCEPT ![w] = IF fault'[w] THEN "finish" ELSE "running"]
  /\ output' = [output EXCEPT ![w] = IF fault'[w] THEN "Err" ELSE @]
  /\ workerFrame
  /\ UNCHANGED <<gate, outcome>>

\* The executor cannot be built, or admission is refused: Terminal::fail.
BuildFails(w) ==
  /\ wpc[w] = "built"
  /\ "entry" \in Faults
  /\ Send(w, "Failed")
  /\ wpc' = [wpc EXCEPT ![w] = "finish"]
  /\ output' = [output EXCEPT ![w] = "Err"]
  /\ workerFrame
  /\ UNCHANGED <<gate, outcome>>

\* gate::Closed::open consumes the gate.  A well-behaved entry opens it
\* while it serves; nothing in the types stops another from doing it sooner.
OpenGate(w) ==
  /\ Gated /\ gate[w] = "closed"
  /\ \/ wpc[w] = "running"
     \/ wpc[w] \in {"built", "stopping"} /\ "gate" \in Faults
  /\ Send(w, "Ready")
  /\ gate' = [gate EXCEPT ![w] = IF fault'[w] THEN "gone" ELSE "open"]
  /\ workerFrame
  /\ UNCHANGED <<wpc, output, outcome>>

\* The executor sees EOF on the bus: shutdown is requested, and the session
\* returns the Requested proof that an Ok output needs.
ObserveStop(w) ==
  /\ wpc[w] = "running"
  /\ stopped[w] \/ ~mopen[w]
  /\ wpc' = [wpc EXCEPT ![w] = "stopping"]
  /\ workerFrame
  /\ UNCHANGED <<sent, wshut, phase, fault, gate, output, outcome>>

\* gate::Open::finish once the application has drained.
FinishGate(w) ==
  /\ gate[w] = "open"
  /\ \/ wpc[w] = "stopping"
     \/ wpc[w] = "running" /\ "gate" \in Faults
  /\ Send(w, "Drain")
  /\ gate' = [gate EXCEPT ![w] = "finished"]
  /\ workerFrame
  /\ UNCHANGED <<wpc, output, outcome>>

\* The application calls Terminal::fail and carries on.
TerminalFail(w) ==
  /\ "entry" \in Faults
  /\ wpc[w] \in {"built", "running", "stopping"}
  /\ ~Quiet(w)
  /\ Send(w, "Failed")
  /\ workerFrame
  /\ UNCHANGED entryVars

\* The entry returns.  Ok carries the Requested proof; a well-behaved entry
\* finishes its gate first.
ReturnOk(w) ==
  /\ wpc[w] = "stopping"
  /\ gate[w] # "open" \/ "gate" \in Faults
  /\ wpc' = [wpc EXCEPT ![w] = "finish"]
  /\ output' = [output EXCEPT ![w] = "Ok"]
  /\ workerFrame
  /\ UNCHANGED <<sent, wshut, phase, fault, gate, outcome>>

ReturnErr(w) ==
  /\ wpc[w] \in {"built", "running", "stopping"}
  /\ "entry" \in Faults \/ fault[w]
  /\ wpc' = [wpc EXCEPT ![w] = "finish"]
  /\ output' = [output EXCEPT ![w] = "Err"]
  /\ workerFrame
  /\ UNCHANGED <<sent, wshut, phase, fault, gate, outcome>>

\* Mutant: a worker whose bus is broken is clean.
CleanDespiteFault(out, bad, ph) == out = "Ok" /\ ph # "Failed"

\* Outcome::Done needs an Ok entry, a bus without failure and no Failed record.
Clean(out, bad, ph) == out = "Ok" /\ ~bad /\ ph # "Failed"

\* The rest of Worker::run: the terminal record and the outcome.
Finish(w) ==
  /\ wpc[w] = "finish"
  /\ Send(w, IF output[w] = "Ok" THEN "Done" ELSE "Failed")
  /\ outcome' = [outcome EXCEPT ![w] =
                   IF Clean(output[w], fault'[w], phase'[w]) THEN "Done"
                                                             ELSE "Failed"]
  /\ wpc' = [wpc EXCEPT ![w] = "closing"]
  /\ workerFrame
  /\ UNCHANGED <<gate, output>>

\* Worker::run drops its socket and the thread ends.
Close(w) ==
  /\ wpc[w] = "closing"
  /\ wpc' = [wpc EXCEPT ![w] = "exited"]
  /\ wshut' = [wshut EXCEPT ![w] = TRUE]
  /\ workerFrame
  /\ UNCHANGED <<sent, phase, fault, gate, output, outcome>>

WorkerNext(w) ==
  \/ Bind(w) \/ BindFails(w) \/ Install(w) \/ BuildFails(w)
  \/ OpenGate(w) \/ ObserveStop(w) \/ FinishGate(w) \/ TerminalFail(w)
  \/ ReturnOk(w) \/ ReturnErr(w) \/ Finish(w) \/ Close(w)

-----------------------------------------------------------------------------
(* The main thread.                                                        *)

mainFrame == UNCHANGED <<workerVars, sent, wshut, signal>>

\* SIGTERM arrives at any time.
Terminate ==
  /\ ~signal /\ pc # "returned"
  /\ signal' = TRUE
  /\ UNCHANGED <<pc, started, idx, control, stopErr, handoff, failures,
                 busVars, workerVars>>

\* Mutant: off by one in the spawn loop.
SpawnedTooMany(n) == n > N

\* Every slot has been spawned.
SpawnedAll(n) == n = N

\* thread::Workers::start spawns the slots in order.
Start ==
  /\ pc = "spawn"
  /\ started' = started + 1
  /\ wpc' = [wpc EXCEPT ![started + 1] = "bind"]
  /\ pc' = IF SpawnedAll(started + 1) THEN "ready" ELSE "spawn"
  /\ UNCHANGED <<idx, control, stopErr, handoff, failures, signal, busVars,
                 gate, output, outcome, phase, fault>>

StartFails ==
  /\ pc = "spawn"
  /\ "spawn" \in Faults
  /\ cause' = "WorkerSpawn"
  /\ pc' = "stop"
  /\ mainFrame
  /\ UNCHANGED <<started, idx, installs, ready, drained, done, retired,
                 clock, target, stopErr, handoff, failures,
                 read, stopped, mopen>>

\* poll(2): a bus is readable when it holds a record or EOF.
Readable(w) == read[w] < Len(sent[w]) \/ wshut[w]

\* poll::Set::poll hands out the first ready registration in order; the
\* signal comes before every worker.
FirstReady(S) ==
  {w \in S : Readable(w) /\ \A v \in S : v < w => ~Readable(v)}

\* Main::recv: the next record, EOF, or an error of recv(2).
Recv(w) ==
  (IF read[w] < Len(sent[w]) THEN {sent[w][read[w] + 1]} ELSE {"Closed"})
    \cup (IF "read" \in Faults THEN {"Syscall"} ELSE {})

Consume(w, e) ==
  read' = IF e \in Event THEN [read EXCEPT ![w] = @ + 1] ELSE read

\* Cause::received turns Failed and read errors into causes of their own;
\* any other record that the caller does not expect is `unexpected'.  Only
\* Failed and EOF accuse the worker (Stopping::fail's target).
Accuse(w, e, unexpected) ==
  /\ cause' = CASE e = "Failed" -> "WorkerFailed"
                [] e \in {"Closed", "Syscall"} -> "BusRead"
                [] OTHER -> unexpected
  /\ target' = IF e \in {"Failed", "Closed"} THEN w ELSE NoWorker

\* Where control goes on a failure: Running::stop runs once, before drain.
afterFailure == IF pc \in {"drain", "draining", "done"} THEN "handoff"
                                                        ELSE "stop"

supervising == pc \in {"ready", "observe", "drive"}

\* Every supervision loop looks at the signal before any worker.
TakeSignal ==
  /\ supervising
  /\ signal
  /\ clock' = (pc = "drive")
  /\ pc' = "stop"
  /\ mainFrame
  /\ UNCHANGED <<started, idx, installs, ready, drained, done, retired,
                 cause, target, stopErr, handoff, failures,
                 read, stopped, mopen>>

\* Mutant: startup is complete when every worker is installed.
InstalledIsReady(i, r) == i = 0

\* The condition that ends Control::wait_ready.
StartupComplete(i, r) == i = 0 /\ r = 0

\* What follows: notify.ready() in a watched run, Control::observe otherwise.
startupDone == IF Watched THEN "notify" ELSE "observe"

\* Control::wait_ready counts the Installed and Ready records of all
\* workers together.
WaitReady(w) ==
  /\ pc = "ready" /\ ~signal
  /\ w \in FirstReady(Workers)
  /\ \E e \in Recv(w) :
       /\ Consume(w, e)
       /\ \/ /\ \/ /\ e = "Installed" /\ installs # 0
                   /\ installs' = installs - 1
                   /\ UNCHANGED ready
                \/ /\ e = "Ready" /\ ready # 0
                   /\ ready' = ready - 1
                   /\ UNCHANGED installs
             /\ pc' = IF StartupComplete(installs', ready') THEN startupDone
                                                           ELSE "ready"
             /\ UNCHANGED <<cause, target>>
          \/ /\ ~(e = "Installed" /\ installs # 0)
             /\ ~(e = "Ready" /\ ready # 0)
             /\ Accuse(w, e, "StartupEvent")
             /\ pc' = "stop"
             /\ UNCHANGED <<installs, ready>>
  /\ mainFrame
  /\ UNCHANGED <<started, idx, drained, done, retired, clock, stopErr,
                 handoff, failures, stopped, mopen>>

\* notify.ready(): the manager's callback once every worker is ready.
Notify ==
  /\ pc = "notify"
  /\ \/ /\ pc' = "drive"
        /\ UNCHANGED cause
     \/ /\ "callback" \in Faults
        /\ cause' = "WatchReady"
        /\ pc' = "stop"
  /\ mainFrame
  /\ UNCHANGED <<started, idx, installs, ready, drained, done, retired,
                 clock, target, stopErr, handoff, failures,
                 read, stopped, mopen>>

\* Control::observe and Control::drive: between readiness and the signal no
\* worker has anything to say.
Observe(w) ==
  /\ pc \in {"observe", "drive"} /\ ~signal
  /\ w \in FirstReady(Workers)
  /\ \E e \in Recv(w) :
       /\ Consume(w, e)
       /\ Accuse(w, e, "RuntimeEvent")
  /\ pc' = "stop"
  /\ mainFrame
  /\ UNCHANGED <<started, idx, installs, ready, drained, done, retired,
                 clock, stopErr, handoff, failures, stopped, mopen>>

\* Failures of main itself: poll(2), allocation or the signal source
\* ("Control"), and the heartbeat's pulse on a timeout.
ControlFails ==
  /\ pc \in {"ready", "observe", "drive", "drain", "done"}
  /\ \/ /\ "control" \in Faults
        /\ cause' = "Control"
     \/ /\ "callback" \in Faults
        /\ Watched /\ pc \notin {"ready", "observe"}
        /\ cause' = "WatchPulse"
  /\ pc' = afterFailure
  /\ mainFrame
  /\ UNCHANGED <<started, idx, installs, ready, drained, done, retired,
                 clock, target, stopErr, handoff, failures,
                 read, stopped, mopen>>

\* Running::stop shuts every started bus down, in order, whatever fails.
StopNext ==
  /\ pc = "stop" /\ idx <= started
  /\ \/ /\ stopped' = [stopped EXCEPT ![idx] = TRUE]
        /\ UNCHANGED <<mopen, handoff, stopErr>>
     \/ /\ "stop" \in Faults
        /\ mopen' = [mopen EXCEPT ![idx] = FALSE]
        /\ handoff' = [handoff EXCEPT ![idx] = "Stopped"]
        /\ stopErr' = TRUE
        /\ UNCHANGED stopped
  /\ idx' = idx + 1
  /\ mainFrame
  /\ UNCHANGED <<pc, started, control, failures, read>>

\* run_waiting(_watched) after running.stop(): drain only a run that was
\* ready, has no failure so far and still owns every bus.
StoppedAll ==
  /\ pc = "stop" /\ idx = started + 1
  /\ pc' = IF cause = "none" /\ clock /\ ~stopErr
             THEN IF Gated THEN "drain" ELSE "draining"
             ELSE "handoff"
  /\ idx' = 1
  /\ mainFrame
  /\ UNCHANGED <<started, control, stopErr, handoff, failures,
                 read, stopped, mopen>>

\* Mutant: the channel of a finished worker stays in the poll set.
RetireNothing(w, e) == retired

\* A Done record retires the worker's poll registration: what follows on
\* that bus is EOF.
Retire(w, e) == IF e = "Done" THEN retired \cup {w} ELSE retired

DrainedWith(e) == IF e = "Drain" THEN drained + 1 ELSE drained

\* Mutant: the order of the counts is not checked.
NeverOutOfOrder(dr, dn) == FALSE

\* Counts::record refuses a run whose last Done precedes some Drain.
OutOfOrder(dr, dn) == dn = N /\ dr # N

\* Finish::drain, first loop.
Drain(w) ==
  /\ pc = "drain"
  /\ w \in FirstReady(Workers \ retired)
  /\ \E e \in Recv(w) :
       /\ Consume(w, e)
       /\ retired' = Retire(w, e)
       /\ drained' = DrainedWith(e)
       /\ done' = IF e = "Done" THEN done + 1 ELSE done
       /\ \/ /\ e \notin {"Drain", "Done"}
             /\ Accuse(w, e, "DrainEvent")
             /\ pc' = "handoff"
          \/ /\ e \in {"Drain", "Done"}
             /\ OutOfOrder(drained', done')
             /\ Accuse(w, e, "DrainOrder")
             /\ pc' = "handoff"
          \/ /\ e \in {"Drain", "Done"}
             /\ ~OutOfOrder(drained', done')
             /\ pc' = IF drained' = N THEN "draining" ELSE "drain"
             /\ UNCHANGED <<cause, target>>
  /\ mainFrame
  /\ UNCHANGED <<started, idx, installs, ready, clock, stopErr,
                 handoff, failures, stopped, mopen>>

\* heartbeat.draining(), then the second loop unless it has nothing to do.
Draining ==
  /\ pc = "draining"
  /\ \/ /\ pc' = IF done = N THEN "handoff" ELSE "done"
        /\ UNCHANGED cause
     \/ /\ "callback" \in Faults
        /\ cause' = "WatchDrain"
        /\ pc' = "handoff"
  /\ mainFrame
  /\ UNCHANGED <<started, idx, installs, ready, drained, done, retired,
                 clock, target, stopErr, handoff, failures,
                 read, stopped, mopen>>

\* Finish::drain, second loop: only Done records are left.
WaitDone(w) ==
  /\ pc = "done"
  /\ w \in FirstReady(Workers \ retired)
  /\ \E e \in Recv(w) :
       /\ Consume(w, e)
       /\ \/ /\ e = "Done"
             /\ retired' = Retire(w, e)
             /\ done' = done + 1
             /\ pc' = IF done' = N THEN "handoff" ELSE "done"
             /\ UNCHANGED <<cause, target>>
          \/ /\ e # "Done"
             /\ Accuse(w, e, "ShutdownEvent")
             /\ pc' = "handoff"
             /\ UNCHANGED <<retired, done>>
  /\ mainFrame
  /\ UNCHANGED <<started, idx, installs, ready, drained, clock, stopErr,
                 handoff, failures, stopped, mopen>>

\* The readiness that clean and fail give to the hand-off.
readinessCancelled == cause # "none" \/ (Watched /\ ~clock)

\* Main::handoff's table: may record e follow the record p that the same
\* hand-off read before it ("none" for the first)?
Follows(p, e) ==
  CASE p = "none"      -> Gated \/ e \in {"Installed", "Done", "Failed"}
    [] p = "Installed" -> \/ e = "Ready" /\ Gated
                          \/ e = "Done" /\ (~Gated \/ readinessCancelled)
                          \/ e = "Failed"
    [] p = "Ready"     -> Gated /\ e \in {"Drain", "Failed"}
    [] p = "Drain"     -> Gated /\ e \in {"Done", "Failed"}
    [] OTHER           -> FALSE

\* The first record the hand-off finds out of order, if any.
Verdict(w) ==
  IF \A i \in (read[w] + 1)..Len(sent[w]) :
       Follows(IF i = read[w] + 1 THEN "none" ELSE sent[w][i - 1], sent[w][i])
    THEN "none" ELSE "Sequence"

\* Parent::handoff reads the bus to EOF, then drops main's end.  A recv(2)
\* error ends it early.
Handoff ==
  /\ pc = "handoff" /\ idx <= started
  /\ \/ /\ mopen[idx] /\ wshut[idx]
        /\ handoff' = [handoff EXCEPT ![idx] = Verdict(idx)]
        /\ read' = [read EXCEPT ![idx] = Len(sent[idx])]
     \/ /\ mopen[idx] /\ "read" \in Faults
        /\ handoff' = [handoff EXCEPT ![idx] = "Syscall"]
        /\ UNCHANGED read
     \/ /\ ~mopen[idx]
        /\ UNCHANGED <<handoff, read>>
  /\ mopen' = [mopen EXCEPT ![idx] = FALSE]
  /\ idx' = idx + 1
  /\ mainFrame
  /\ UNCHANGED <<pc, started, control, stopErr, failures, stopped>>

HandedOff ==
  /\ pc = "handoff" /\ idx = started + 1
  /\ pc' = "join"
  /\ idx' = 1
  /\ mainFrame
  /\ UNCHANGED <<started, control, stopErr, handoff, failures,
                 read, stopped, mopen>>

\* Mutant: the handoff decides alone what is reported.
ReportedByHandoff(o, h) == h # "none"

\* Slots::finish reports a worker unless its outcome is Done and its
\* hand-off found nothing.
Reported(o, h) == ~(o = "Done" /\ h = "none")

\* Every started thread is joined.
Join ==
  /\ pc = "join" /\ idx <= started
  /\ wpc[idx] = "exited"
  /\ failures' = IF Reported(outcome[idx], handoff[idx])
                   THEN failures \cup {idx} ELSE failures
  /\ idx' = idx + 1
  /\ mainFrame
  /\ UNCHANGED <<pc, started, control, stopErr, handoff,
                 read, stopped, mopen>>

Return ==
  /\ pc = "join" /\ idx = started + 1
  /\ pc' = "returned"
  /\ mainFrame
  /\ UNCHANGED <<started, idx, control, stopErr, handoff, failures,
                 read, stopped, mopen>>

\* Error::WorkerMissing: the accused worker, if no failure of it was found.
missing == IF target \in failures THEN NoWorker ELSE target

\* Error::finish and Error::failed.
Ok == cause = "none" /\ missing = NoWorker /\ ~stopErr /\ failures = {}

MainNext ==
  \/ Start \/ StartFails \/ TakeSignal \/ Notify
  \/ StopNext \/ StoppedAll \/ Draining
  \/ Handoff \/ HandedOff \/ Join \/ Return
  \/ \E w \in Workers : WaitReady(w) \/ Observe(w) \/ Drain(w) \/ WaitDone(w)

\* The run is over: the program has returned from Runtime::run.
Returned ==
  /\ pc = "returned"
  /\ UNCHANGED vars

Next ==
  \/ MainNext
  \/ ControlFails
  \/ Terminate
  \/ Returned
  \/ \E w \in Workers : WorkerNext(w)

Spec == Init /\ [][Next]_vars

\* Main is a thread that always goes on, though no control call need ever fail;
\* and the documented duty of a worker entry: install, observe shutdown, finish
\* the gate and return.
Fairness ==
  /\ WF_vars(MainNext)
  /\ \A w \in Workers :
       /\ WF_vars(Bind(w) \/ BindFails(w))
       /\ WF_vars((Install(w) /\ wpc[w] = "built") \/ BuildFails(w))
       /\ WF_vars(ObserveStop(w))
       /\ WF_vars(FinishGate(w) \/ ReturnOk(w) \/ ReturnErr(w))
       /\ WF_vars(Finish(w))
       /\ WF_vars(Close(w))

LiveSpec == Spec /\ Fairness

-----------------------------------------------------------------------------
(* Properties.                                                             *)

\* The records of worker w, as a set.
Sent(w) == {sent[w][i] : i \in 1..Len(sent[w])}

\* Worker::send: whatever calls an entry makes, and however often, nothing
\* follows a Done or Failed record on the bus, and no record is written
\* twice, so the hand-off can never blame an honest worker for either.
TerminalIsLast ==
  \A w \in Workers : \A i, j \in 1..Len(sent[w]) :
    i < j => sent[w][i] \notin {"Done", "Failed"} /\ sent[w][i] # sent[w][j]

\* Stopping::fail: when main stops because of one worker (a Failed record or
\* EOF), joining always finds that worker's own failure: the WorkerMissing
\* fault is never reported.
AccusedIsReported == pc = "returned" => missing = NoWorker

\* Control::wait_ready and Control::wait_drain count records, not workers;
\* still notify.ready() and the steady state come only when every single
\* worker has installed and, if gated, opened its gate, and
\* heartbeat.draining() and the wait for the last Done only after every gated
\* worker has reported Drain.
CountsMeanEveryWorker ==
  \A w \in Workers :
    /\ pc \in {"observe", "notify", "drive"} =>
         "Installed" \in Sent(w) /\ (Gated => "Ready" \in Sent(w))
    /\ Gated /\ pc \in {"draining", "done"} => "Drain" \in Sent(w)

\* An Ok verdict: SIGTERM arrived, every worker ran to an Ok entry, wrote
\* Done last, never failed a write, and, if readiness had been announced,
\* drained before it was done.
OkIsHonest ==
  pc = "returned" /\ Ok =>
    /\ signal /\ started = N
    /\ \A w \in Workers :
         /\ output[w] = "Ok" /\ outcome[w] = "Done" /\ ~fault[w]
         /\ sent[w] # <<>> /\ sent[w][Len(sent[w])] = "Done"
         /\ "Installed" \in Sent(w)
         /\ Gated /\ clock => "Drain" \in Sent(w)

\* Without faults the run is never reported as failed, whatever order the
\* signal, the records and the exits come in.
NoFalseAlarm == pc = "returned" => Ok

\* No started worker outlives the run and main never waits for ever: once
\* the signal arrived, or any worker ended, main returns.
Returns ==
  (signal \/ \E w \in Workers : wpc[w] = "exited") ~> (pc = "returned")
=============================================================================
