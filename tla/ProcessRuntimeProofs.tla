------------------------ MODULE ProcessRuntimeProofs ------------------------
(***************************************************************************)
(* Theorems about ProcessRuntime for every number of workers, every mode   *)
(* and every set of faults.                                                *)
(***************************************************************************)
EXTENDS ProcessRuntime, FiniteSetTheorems, TLAPS

\* What a record on the bus says about the worker that wrote it.  Each line
\* is the reason why that record is not written a second time.
Stamp(w, e) ==
  /\ e = "Installed" => phase[w] # "New"
  /\ e = "Ready"     => gate[w] # "closed"
  /\ e = "Drain"     => gate[w] = "finished"
  /\ e = "Done"      => wpc[w] \in {"closing", "exited"}
  /\ e = "Failed"    => phase[w] = "Failed"

\* The records of one bus: each is stamped, none is repeated, a terminal one
\* is the last.
BusInv(w) ==
  /\ \A i \in 1..Len(sent[w]) : Stamp(w, sent[w][i])
  /\ \A i, j \in 1..Len(sent[w]) :
       i < j => /\ sent[w][i] \notin {"Done", "Failed"}
                /\ sent[w][i] # sent[w][j]

\* EOF and the outcome of one worker.
WorkerInv(w) ==
  /\ wshut[w] => Quiet(w) \/ wpc[w] = "exited"
  /\ outcome[w] = "Done" => /\ ~Quiet(w)
                            /\ wpc[w] \in {"closing", "exited"}
                            /\ Len(sent[w]) > 0
                            /\ sent[w][Len(sent[w])] = "Done"
  /\ outcome[w] = "Failed" => Quiet(w)
  /\ wpc[w] \in {"closing", "exited"} => outcome[w] # "none"

\* Main has not given up on the run yet.
Watching == \/ pc \in {"spawn", "ready", "observe", "notify", "drive",
                       "drain", "draining", "done"}
            \/ pc = "stop" /\ cause = "none"

\* What main knows of one worker: while it watches, the Done record of a
\* clean worker is unread or its registration is retired; an accused worker
\* has really failed; a joined one is reported unless it is clean.
MainInv(w) ==
  /\ read[w] <= Len(sent[w])
  /\ Watching /\ outcome[w] = "Done" => read[w] < Len(sent[w]) \/ w \in retired
  /\ target = w => Quiet(w)
  /\ pc \in {"join", "returned"} /\ w < idx /\ target = w => w \in failures

\* Supervision only starts when every worker has been spawned.
ScopeInv ==
  /\ pc \in {"ready", "observe", "notify", "drive", "drain", "draining", "done"}
       => started = N
  /\ target # NoWorker \/ clock => started = N
  /\ pc = "returned" => idx = started + 1
  /\ pc = "spawn" => started < N
  /\ pc \in {"spawn", "ready", "observe", "notify", "drive",
             "drain", "draining", "done"} => idx = 1
  /\ pc \in {"spawn", "ready", "observe", "notify", "drive", "stop"}
       => retired = {}
  /\ idx <= started + 1
  /\ \A w \in Workers : w > started => wpc[w] = "idle"

IInv ==
  /\ TypeOK
  /\ ScopeInv
  /\ \A w \in Workers : BusInv(w) /\ WorkerInv(w) /\ MainInv(w)

-----------------------------------------------------------------------------
(* What Worker::send guarantees its callers.                               *)

\* Worker::send touches one bus only, writes at most the one record and only
\* while the worker is not quiet, leaves it quiet unless the record was
\* written, and never makes a quiet worker loud again.
LEMMA SendEffect ==
  ASSUME TypeOK, NEW w \in Workers, NEW e \in Event, Send(w, e)
  PROVE  /\ sent' \in [Workers -> Seq(Event)]
         /\ phase' \in [Workers -> {"New", "Installed", "Failed"}]
         /\ fault' \in [Workers -> BOOLEAN]
         /\ wshut' \in [Workers -> BOOLEAN]
         /\ \A v \in Workers \ {w} :
              /\ sent'[v] = sent[v] /\ phase'[v] = phase[v]
              /\ fault'[v] = fault[v] /\ wshut'[v] = wshut[v]
         /\ fault[w] => fault'[w]
         /\ phase[w] = "Failed" => phase'[w] = "Failed"
         /\ phase[w] # "New" => phase'[w] # "New"
         /\ \/ sent'[w] = sent[w] /\ (Quiet(w) \/ fault'[w])
            \/ /\ sent'[w] = Append(sent[w], e) /\ ~Quiet(w)
               /\ e = "Failed" => phase'[w] = "Failed"
               /\ e = "Installed" => phase'[w] # "New"
               /\ e # "Failed" => phase'[w] # "Failed" /\ ~fault'[w]
         /\ wshut'[w] => wshut[w] \/ fault'[w] \/ phase'[w] = "Failed"
         /\ e = "Failed" => fault'[w] \/ phase'[w] = "Failed"
<1>1. CASE Quiet(w) /\ UNCHANGED <<sent, phase, fault, wshut>>
  BY <1>1 DEF TypeOK, Quiet
<1>2. ASSUME ~Quiet(w), NEW wrote \in BOOLEAN, NEW cut \in BOOLEAN,
             Write(w, e, wrote, cut)
      PROVE  /\ sent' = IF wrote THEN [sent EXCEPT ![w] = Append(@, e)] ELSE sent
             /\ wrote \/ fault'[w]
             /\ fault' \in [Workers -> BOOLEAN]
             /\ wshut' \in [Workers -> BOOLEAN]
             /\ phase' \in [Workers -> {"New", "Installed", "Failed"}]
             /\ \A v \in Workers \ {w} :
                  /\ phase'[v] = phase[v]
                  /\ fault'[v] = fault[v] /\ wshut'[v] = wshut[v]
             /\ phase'[w] = CASE e = "Failed" -> "Failed"
                              [] e = "Installed" /\ wrote -> "Installed"
                              [] OTHER -> phase[w]
             /\ wrote /\ e # "Failed" => ~fault'[w]
             /\ wshut'[w] => ~wrote \/ e = "Failed"
  BY <1>2 DEF Write, TypeOK
<1>3. ASSUME ~Quiet(w), NEW wrote \in BOOLEAN, NEW cut \in BOOLEAN,
             Write(w, e, wrote, cut)
      PROVE  /\ sent' \in [Workers -> Seq(Event)]
             /\ \A v \in Workers \ {w} : sent'[v] = sent[v]
             /\ sent'[w] = IF wrote THEN Append(sent[w], e) ELSE sent[w]
  BY <1>3 DEF TypeOK, Write
<1>4. ASSUME ~Quiet(w), NEW wrote \in BOOLEAN, NEW cut \in BOOLEAN,
             Write(w, e, wrote, cut)
      PROVE  phase'[w] = IF e = "Failed" THEN "Failed"
                         ELSE IF e = "Installed" /\ wrote THEN "Installed"
                         ELSE phase[w]
  BY <1>2, <1>4
<1>5. CASE ~Quiet(w) /\ \E wrote, cut \in BOOLEAN : Write(w, e, wrote, cut)
  <2>1. PICK wrote \in BOOLEAN, cut \in BOOLEAN : Write(w, e, wrote, cut)
    BY <1>5
  <2>2. QED BY <1>2, <1>3, <1>4, <1>5, <2>1 DEF Quiet
<1>6. QED BY <1>1, <1>5 DEF Send

\* The same for Tx::installed, which sends Installed at most once.
LEMMA SendInstalledEffect ==
  ASSUME TypeOK, NEW w \in Workers, SendInstalled(w)
  PROVE  \/ Send(w, "Installed") /\ phase[w] = "New"
         \/ UNCHANGED <<sent, phase, fault, wshut>> /\ phase[w] # "New"
BY DEF SendInstalled

-----------------------------------------------------------------------------
(* Preservation.  A step of worker w leaves every other worker alone, so   *)
(* each worker action needs the invariant of w only; a step of main leaves *)
(* the worker's own state alone.                                           *)

\* What a worker step does to the pieces of the invariant, for the worker
\* that takes it.
WorkerStep(w) ==
  /\ sent' \in [Workers -> Seq(Event)]
  /\ phase' \in [Workers -> {"New", "Installed", "Failed"}]
  /\ fault' \in [Workers -> BOOLEAN]
  /\ wshut' \in [Workers -> BOOLEAN]
  /\ wpc' \in [Workers -> WorkerPc]
  /\ gate' \in [Workers -> {"closed", "open", "finished", "gone"}]
  /\ output' \in [Workers -> {"none", "Ok", "Err"}]
  /\ outcome' \in [Workers -> {"none", "Done", "Failed"}]
  /\ UNCHANGED <<mainVars, read, stopped, mopen>>
  /\ \A v \in Workers \ {w} :
       /\ sent'[v] = sent[v] /\ phase'[v] = phase[v] /\ fault'[v] = fault[v]
       /\ wshut'[v] = wshut[v] /\ wpc'[v] = wpc[v] /\ gate'[v] = gate[v]
       /\ outcome'[v] = outcome[v]
  /\ Quiet(w) => fault'[w] \/ phase'[w] = "Failed"
  /\ sent'[w] = sent[w] \/ \E e \in Event : sent'[w] = Append(sent[w], e)
  /\ wpc[w] # "idle"
  /\ BusInv(w)'
  /\ WorkerInv(w)'
  /\ outcome'[w] = "Done" => outcome[w] = "Done" \/ Len(sent'[w]) = Len(sent[w]) + 1
  /\ outcome[w] = "Done" => sent'[w] = sent[w]

\* A step of one worker of the shape above keeps the inductive invariant: it
\* touches that worker's bus only, so main's bookkeeping about the others and
\* the scope's own state stay as they were.
LEMMA WorkerStepPreserves ==
  ASSUME IInv, NEW w \in Workers, WorkerStep(w)
  PROVE  IInv'
<1>1. TypeOK'
  BY DEF IInv, WorkerStep, TypeOK, mainVars, control
<1>2. ScopeInv'
  <2>1. /\ UNCHANGED <<pc, started, target, clock, idx, retired>>
        /\ \A v \in Workers : v # w => wpc'[v] = wpc[v]
        /\ wpc[w] # "idle"
    BY DEF WorkerStep, mainVars, control
  <2>2. QED BY <2>1 DEF IInv, ScopeInv
<1>3. ASSUME NEW v \in Workers \ {w}
      PROVE  BusInv(v)' /\ WorkerInv(v)' /\ MainInv(v)'
  <2>1. /\ sent'[v] = sent[v] /\ phase'[v] = phase[v] /\ fault'[v] = fault[v]
        /\ wshut'[v] = wshut[v] /\ wpc'[v] = wpc[v] /\ gate'[v] = gate[v]
        /\ outcome'[v] = outcome[v] /\ read' = read
        /\ UNCHANGED <<pc, cause, target, retired, failures, idx>>
    BY <1>3 DEF WorkerStep, mainVars, control
  <2>2. BusInv(v)'
    BY <2>1 DEF IInv, BusInv, Stamp
  <2>3. WorkerInv(v)'
    BY <2>1 DEF IInv, WorkerInv, Quiet
  <2>4. MainInv(v)'
    BY <2>1 DEF IInv, MainInv, Watching, Quiet
  <2>5. QED BY <2>2, <2>3, <2>4
<1>4. MainInv(w)'
  <2>1. /\ UNCHANGED <<pc, cause, target, retired, failures, idx, read>>
        /\ Quiet(w) => Quiet(w)'
    BY DEF WorkerStep, mainVars, control, Quiet
  <2>2. /\ Len(sent[w]) \in Nat /\ Len(sent'[w]) \in Nat
        /\ Len(sent'[w]) = Len(sent[w]) \/ Len(sent'[w]) = Len(sent[w]) + 1
        /\ read[w] \in Nat
    BY DEF IInv, TypeOK, WorkerStep
  <2>3. /\ outcome'[w] = "Done" =>
             outcome[w] = "Done" \/ Len(sent'[w]) = Len(sent[w]) + 1
        /\ outcome[w] = "Done" => sent'[w] = sent[w]
    BY DEF WorkerStep
  <2>4. QED BY <2>1, <2>2, <2>3 DEF IInv, MainInv, Watching
<1>5. BusInv(w)' /\ WorkerInv(w)'
  BY DEF WorkerStep
<1>6. QED BY <1>1, <1>2, <1>3, <1>4, <1>5 DEF IInv

\* One record appended to a bus, by a worker that is not quiet and has not
\* closed: it is last, new and stamped.
LEMMA AppendKeepsBus ==
  ASSUME IInv, NEW w \in Workers, NEW e \in Event,
         sent' \in [Workers -> Seq(Event)],
         sent'[w] = Append(sent[w], e),
         ~Quiet(w), wpc[w] \notin {"closing", "exited"},
         \A i \in 1..Len(sent[w]) : sent[w][i] # e,
         Stamp(w, e)',
         phase[w] # "New" => phase'[w] # "New",
         gate[w] # "closed" => gate'[w] # "closed",
         gate[w] = "finished" => gate'[w] = "finished"
  PROVE  BusInv(w)'
<1>1. /\ sent[w] \in Seq(Event) /\ Len(sent[w]) \in Nat
      /\ Len(sent'[w]) = Len(sent[w]) + 1
      /\ \A i \in 1..Len(sent[w]) : sent'[w][i] = sent[w][i]
      /\ sent'[w][Len(sent[w]) + 1] = e
  BY DEF IInv, TypeOK
<1>2. \A i \in 1..Len(sent[w]) : sent[w][i] \notin {"Done", "Failed"}
  BY DEF IInv, BusInv, Stamp, Quiet
<1>3. \A i \in 1..Len(sent[w]) : Stamp(w, sent[w][i]) /\ Stamp(w, sent[w][i])'
  BY <1>1, <1>2 DEF IInv, BusInv, Stamp
<1>4. \A i \in 1..Len(sent'[w]) : Stamp(w, sent[w][i])' 
  BY <1>1, <1>3 DEF Stamp
<1>5. ASSUME NEW i \in 1..Len(sent'[w]), NEW j \in 1..Len(sent'[w]), i < j
      PROVE  sent'[w][i] \notin {"Done", "Failed"} /\ sent'[w][i] # sent'[w][j]
  BY <1>1, <1>2, <1>5 DEF IInv, BusInv
<1>6. QED BY <1>4, <1>5 DEF BusInv

\* Nothing written: the records keep their stamps.
LEMMA SameKeepsBus ==
  ASSUME IInv, NEW w \in Workers, sent'[w] = sent[w],
         phase[w] # "New" => phase'[w] # "New",
         phase[w] = "Failed" => phase'[w] = "Failed",
         gate[w] # "closed" => gate'[w] # "closed",
         gate[w] = "finished" => gate'[w] = "finished",
         wpc[w] \in {"closing", "exited"} => wpc'[w] \in {"closing", "exited"}
  PROVE  BusInv(w)'
BY DEF IInv, BusInv, Stamp

\* A step of worker w that sends e, which w has not sent before.
LEMMA SendKeepsBus ==
  ASSUME IInv, NEW w \in Workers, NEW e \in Event, Send(w, e),
         wpc[w] \notin {"closing", "exited"},
         \A i \in 1..Len(sent[w]) : sent[w][i] = e => Quiet(w),
         e = "Ready" => gate'[w] # "closed",
         e = "Drain" => gate'[w] = "finished",
         e = "Done" => wpc'[w] = "closing",
         gate[w] # "closed" => gate'[w] # "closed",
         gate[w] = "finished" => gate'[w] = "finished"
  PROVE  /\ BusInv(w)'
         /\ wshut'[w] => Quiet(w)'
         /\ Quiet(w) => Quiet(w)'
         /\ ~Quiet(w)' => sent'[w] = Append(sent[w], e)
         /\ e = "Failed" => Quiet(w)'
<1>0. TypeOK
  BY DEF IInv
<1>1. /\ sent' \in [Workers -> Seq(Event)]
      /\ phase[w] # "New" => phase'[w] # "New"
      /\ phase[w] = "Failed" => phase'[w] = "Failed"
      /\ Quiet(w) => Quiet(w)'
      /\ \/ sent'[w] = sent[w] /\ Quiet(w)'
         \/ /\ sent'[w] = Append(sent[w], e) /\ ~Quiet(w)
            /\ e = "Failed" => phase'[w] = "Failed"
            /\ e = "Installed" => phase'[w] # "New"
      /\ wshut'[w] => wshut[w] \/ Quiet(w)'
      /\ e = "Failed" => Quiet(w)'
  BY <1>0, SendEffect DEF Quiet
<1>2. wshut[w] => Quiet(w)
  BY DEF IInv, WorkerInv
<1>3. CASE sent'[w] = sent[w]
  <2>1. BusInv(w)'
    BY <1>1, <1>3, SameKeepsBus
  <2>2. sent'[w] # Append(sent[w], e)
    BY <1>0, <1>3 DEF TypeOK
  <2>3. QED BY <1>1, <1>2, <2>1, <2>2
<1>4. CASE sent'[w] = Append(sent[w], e) /\ ~Quiet(w)
  <2>1. Stamp(w, e)'
    BY <1>1, <1>4, <1>0 DEF Stamp, TypeOK
  <2>2. BusInv(w)'
    BY <1>1, <1>4, <2>1, AppendKeepsBus
  <2>3. QED BY <1>1, <1>2, <1>4, <2>2
<1>5. QED BY <1>1, <1>3, <1>4

\* Steps of a worker that write nothing on the bus.
LEMMA SilentSteps ==
  ASSUME IInv, NEW w \in Workers,
         Bind(w) \/ ObserveStop(w) \/ ReturnOk(w) \/ ReturnErr(w) \/ Close(w)
  PROVE  WorkerStep(w)
<1>1. /\ UNCHANGED <<sent, phase, fault, gate, outcome, mainVars, read, stopped, mopen>>
      /\ wpc[w] # "idle"
      /\ wpc[w] \notin {"closing", "exited"} \/ wpc'[w] = "exited"
      /\ wpc'[w] \in {"closing", "exited"} => wpc[w] = "closing" /\ wpc'[w] = "exited"
      /\ wshut'[w] => wshut[w] \/ wpc'[w] = "exited"
      /\ wpc' \in [Workers -> WorkerPc]
      /\ output' \in [Workers -> {"none", "Ok", "Err"}]
      /\ wshut' \in [Workers -> BOOLEAN]
      /\ \A v \in Workers \ {w} : wpc'[v] = wpc[v] /\ wshut'[v] = wshut[v]
  <2>1. CASE Bind(w)
    BY <2>1 DEF IInv, TypeOK, Bind, workerFrame, WorkerPc
  <2>2. CASE ObserveStop(w)
    BY <2>2 DEF IInv, TypeOK, ObserveStop, workerFrame, WorkerPc
  <2>3. CASE ReturnOk(w)
    BY <2>3 DEF IInv, TypeOK, ReturnOk, workerFrame, WorkerPc
  <2>4. CASE ReturnErr(w)
    BY <2>4 DEF IInv, TypeOK, ReturnErr, workerFrame, WorkerPc
  <2>5. CASE Close(w)
    BY <2>5 DEF IInv, TypeOK, Close, workerFrame, WorkerPc
  <2>6. QED BY <2>1, <2>2, <2>3, <2>4, <2>5
<1>2. BusInv(w)'
  BY <1>1, SameKeepsBus
<1>3. WorkerInv(w)'
  BY <1>1 DEF IInv, WorkerInv, Quiet
<1>4. QED BY <1>1, <1>2, <1>3 DEF IInv, TypeOK, WorkerStep, Quiet

\* Steps of a worker that send a record and stay short of the outcome.
LEMMA SendingSteps ==
  ASSUME IInv, NEW w \in Workers, NEW e \in Event,
         Send(w, e), workerFrame, UNCHANGED outcome,
         wpc[w] \notin {"idle", "closing", "exited"},
         \A i \in 1..Len(sent[w]) : sent[w][i] = e => Quiet(w),
         e \in {"Installed", "Ready", "Drain", "Failed"},
         e = "Ready" => gate'[w] # "closed",
         e = "Drain" => gate'[w] = "finished",
         gate[w] # "closed" => gate'[w] # "closed",
         gate[w] = "finished" => gate'[w] = "finished",
         wpc' \in [Workers -> WorkerPc],
         gate' \in [Workers -> {"closed", "open", "finished", "gone"}],
         output' \in [Workers -> {"none", "Ok", "Err"}],
         wpc'[w] \notin {"closing", "exited"},
         \A v \in Workers \ {w} : wpc'[v] = wpc[v] /\ gate'[v] = gate[v]
  PROVE  WorkerStep(w)
<1>1. TypeOK
  BY DEF IInv
<1>2. /\ BusInv(w)'
      /\ wshut'[w] => Quiet(w)'
      /\ Quiet(w) => Quiet(w)'
  BY SendKeepsBus
<1>3. outcome[w] # "Done" /\ (outcome[w] = "Failed" => Quiet(w))
  BY DEF IInv, WorkerInv
<1>4. WorkerInv(w)'
  BY <1>2, <1>3 DEF WorkerInv, Quiet
<1>5. /\ sent' \in [Workers -> Seq(Event)]
      /\ phase' \in [Workers -> {"New", "Installed", "Failed"}]
      /\ fault' \in [Workers -> BOOLEAN]
      /\ wshut' \in [Workers -> BOOLEAN]
      /\ \A v \in Workers \ {w} :
           /\ sent'[v] = sent[v] /\ phase'[v] = phase[v]
           /\ fault'[v] = fault[v] /\ wshut'[v] = wshut[v]
      /\ sent'[w] = sent[w] \/ sent'[w] = Append(sent[w], e)
  BY <1>1, SendEffect
<1>6. Quiet(w) => fault'[w] \/ phase'[w] = "Failed"
  BY <1>2 DEF Quiet
<1>7. outcome' \in [Workers -> {"none", "Done", "Failed"}]
  BY <1>1 DEF TypeOK
<1>8. QED
  BY <1>2, <1>3, <1>4, <1>5, <1>6, <1>7 DEF WorkerStep, workerFrame

\* Every step of a worker has that shape.
LEMMA WorkerShape ==
  ASSUME IInv, NEW w \in Workers, WorkerNext(w)
  PROVE  WorkerStep(w)
<1>0. TypeOK
  BY DEF IInv
<1>1. /\ \A i \in 1..Len(sent[w]) : Stamp(w, sent[w][i])
      /\ \A i \in 1..Len(sent[w]) : sent[w][i] = "Failed" => Quiet(w)
  BY DEF IInv, BusInv, Stamp, Quiet
<1>2. CASE Bind(w) \/ ObserveStop(w) \/ ReturnOk(w) \/ ReturnErr(w) \/ Close(w)
  BY <1>2, SilentSteps
<1>3. CASE BindFails(w) \/ BuildFails(w)
  <2>1. /\ Send(w, "Failed") /\ workerFrame /\ UNCHANGED <<outcome, gate>>
        /\ wpc[w] \notin {"idle", "closing", "exited"}
        /\ wpc'[w] = "finish"
        /\ wpc' \in [Workers -> WorkerPc]
        /\ output' \in [Workers -> {"none", "Ok", "Err"}]
        /\ \A v \in Workers \ {w} : wpc'[v] = wpc[v]
    BY <1>0, <1>3 DEF BindFails, BuildFails, TypeOK, WorkerPc
  <2>2. gate' \in [Workers -> {"closed", "open", "finished", "gone"}]
    BY <1>0, <2>1 DEF TypeOK
  <2>3. QED BY <1>1, <2>1, <2>2, SendingSteps DEF Event
<1>4. CASE Install(w)
  <2>0. /\ SendInstalled(w) /\ workerFrame /\ UNCHANGED <<outcome, gate>>
        /\ wpc[w] \notin {"idle", "closing", "exited"}
        /\ wpc'[w] \in {"finish", "running"}
        /\ wpc' \in [Workers -> WorkerPc]
        /\ output' \in [Workers -> {"none", "Ok", "Err"}]
        /\ gate' \in [Workers -> {"closed", "open", "finished", "gone"}]
        /\ \A v \in Workers \ {w} : wpc'[v] = wpc[v]
    BY <1>0, <1>4 DEF Install, TypeOK, WorkerPc
  <2>1. CASE Send(w, "Installed") /\ phase[w] = "New"
    <3>1. \A i \in 1..Len(sent[w]) : sent[w][i] # "Installed"
      BY <1>1, <2>1 DEF Stamp
    <3>2. QED BY <2>0, <2>1, <3>1, SendingSteps DEF Event
  <2>2. CASE UNCHANGED <<sent, phase, fault, wshut>> /\ phase[w] # "New"
    <3>1. BusInv(w)'
      BY <2>0, <2>2, SameKeepsBus
    <3>2. WorkerInv(w)'
      BY <2>0, <2>2 DEF IInv, WorkerInv, Quiet
    <3>3. QED
      BY <1>0, <2>0, <2>2, <3>1, <3>2 DEF TypeOK, WorkerStep, workerFrame, Quiet
  <2>3. QED BY <1>0, <2>0, <2>1, <2>2, SendInstalledEffect
<1>5. CASE OpenGate(w)
  <2>1. /\ Send(w, "Ready") /\ workerFrame /\ UNCHANGED <<outcome, wpc, output>>
        /\ wpc[w] \notin {"idle", "closing", "exited"}
        /\ gate[w] = "closed" /\ gate'[w] \in {"gone", "open"}
        /\ gate' \in [Workers -> {"closed", "open", "finished", "gone"}]
        /\ \A v \in Workers \ {w} : gate'[v] = gate[v]
    BY <1>0, <1>5 DEF OpenGate, TypeOK
  <2>2. \A i \in 1..Len(sent[w]) : sent[w][i] # "Ready"
    BY <1>1, <2>1 DEF Stamp
  <2>3. /\ wpc' \in [Workers -> WorkerPc]
        /\ output' \in [Workers -> {"none", "Ok", "Err"}]
    BY <1>0, <2>1 DEF TypeOK
  <2>4. QED BY <2>1, <2>2, <2>3, SendingSteps DEF Event
<1>6. CASE FinishGate(w)
  <2>1. /\ Send(w, "Drain") /\ workerFrame /\ UNCHANGED <<outcome, wpc, output>>
        /\ wpc[w] \notin {"idle", "closing", "exited"}
        /\ gate[w] = "open" /\ gate'[w] = "finished"
        /\ gate' \in [Workers -> {"closed", "open", "finished", "gone"}]
        /\ \A v \in Workers \ {w} : gate'[v] = gate[v]
    BY <1>0, <1>6 DEF FinishGate, TypeOK
  <2>2. \A i \in 1..Len(sent[w]) : sent[w][i] # "Drain"
    BY <1>1, <2>1 DEF Stamp
  <2>3. /\ wpc' \in [Workers -> WorkerPc]
        /\ output' \in [Workers -> {"none", "Ok", "Err"}]
    BY <1>0, <2>1 DEF TypeOK
  <2>4. QED BY <2>1, <2>2, <2>3, SendingSteps DEF Event
<1>7. CASE TerminalFail(w)
  <2>1. /\ Send(w, "Failed") /\ workerFrame /\ UNCHANGED entryVars
        /\ wpc[w] \notin {"idle", "closing", "exited"}
    BY <1>7 DEF TerminalFail
  <2>2. /\ wpc' \in [Workers -> WorkerPc]
        /\ output' \in [Workers -> {"none", "Ok", "Err"}]
        /\ gate' \in [Workers -> {"closed", "open", "finished", "gone"}]
        /\ UNCHANGED <<wpc, gate, outcome>>
    BY <1>0, <2>1 DEF TypeOK, entryVars
  <2>3. QED BY <1>1, <2>1, <2>2, SendingSteps DEF Event
<1>8. CASE Finish(w)
  <2> DEFINE e == IF output[w] = "Ok" THEN "Done" ELSE "Failed"
  <2>1. /\ Send(w, e) /\ workerFrame /\ UNCHANGED <<gate, output>>
        /\ wpc[w] = "finish" /\ wpc'[w] = "closing"
        /\ wpc' \in [Workers -> WorkerPc]
        /\ outcome' \in [Workers -> {"none", "Done", "Failed"}]
        /\ outcome'[w] = IF e = "Done" /\ ~Quiet(w)' THEN "Done" ELSE "Failed"
        /\ \A v \in Workers \ {w} : wpc'[v] = wpc[v] /\ outcome'[v] = outcome[v]
        /\ e \in {"Done", "Failed"} /\ e \in Event
    BY <1>0, <1>8 DEF Finish, Clean, TypeOK, Event, Quiet, WorkerPc
  <2> HIDE DEF e
  <2>2. \A i \in 1..Len(sent[w]) : sent[w][i] = e => Quiet(w)
    BY <1>1, <2>1 DEF Stamp
  <2>3. /\ BusInv(w)'
        /\ wshut'[w] => Quiet(w)'
        /\ Quiet(w) => Quiet(w)'
        /\ ~Quiet(w)' => sent'[w] = Append(sent[w], e)
        /\ e = "Failed" => Quiet(w)'
    BY <2>1, <2>2, SendKeepsBus
  <2>4. /\ sent' \in [Workers -> Seq(Event)]
        /\ phase' \in [Workers -> {"New", "Installed", "Failed"}]
        /\ fault' \in [Workers -> BOOLEAN]
        /\ wshut' \in [Workers -> BOOLEAN]
        /\ \A v \in Workers \ {w} :
             /\ sent'[v] = sent[v] /\ phase'[v] = phase[v]
             /\ fault'[v] = fault[v] /\ wshut'[v] = wshut[v]
        /\ sent'[w] = sent[w] \/ sent'[w] = Append(sent[w], e)
    BY <1>0, <2>1, SendEffect
  <2>5. outcome'[w] = "Done" => /\ Len(sent'[w]) = Len(sent[w]) + 1
                                /\ Len(sent[w]) \in Nat
                                /\ sent'[w][Len(sent[w]) + 1] = "Done"
    BY <1>0, <2>1, <2>3 DEF TypeOK
  <2>6. WorkerInv(w)'
    BY <2>1, <2>3, <2>5 DEF WorkerInv, Quiet
  <2>7. outcome[w] # "Done"
    BY <2>1 DEF IInv, WorkerInv
  <2>8. /\ gate' \in [Workers -> {"closed", "open", "finished", "gone"}]
        /\ output' \in [Workers -> {"none", "Ok", "Err"}]
    BY <1>0, <2>1 DEF TypeOK
  <2>9. Quiet(w) => fault'[w] \/ phase'[w] = "Failed"
    BY <2>3 DEF Quiet
  <2>10. QED
    BY <2>1, <2>3, <2>4, <2>5, <2>6, <2>7, <2>8, <2>9 DEF WorkerStep, workerFrame
<1>9. QED
  BY <1>2, <1>3, <1>4, <1>5, <1>6, <1>7, <1>8 DEF WorkerNext

\* Every step of a worker keeps the invariant.
LEMMA WorkerPreserves ==
  ASSUME IInv, NEW w \in Workers, WorkerNext(w)
  PROVE  IInv'
BY WorkerShape, WorkerStepPreserves

-----------------------------------------------------------------------------
(* Steps of main.  They leave what BusInv and WorkerInv speak of alone,    *)
(* except Start, which only takes a worker out of "idle".                  *)

\* Main never writes a bus and never moves a worker, so a step of main keeps
\* what the invariant says of the buses and of the workers.
LEMMA MainKeepsWorkers ==
  ASSUME IInv, UNCHANGED <<sent, wshut, phase, fault, gate, wpc, outcome>>
  PROVE  \A w \in Workers : BusInv(w)' /\ WorkerInv(w)'
BY DEF IInv, BusInv, WorkerInv, Stamp, Quiet

\* A record main consumed from w: unless it is Done, a clean worker's Done
\* record is still ahead.  EOF and Failed mean that w has failed.
LEMMA RecvFacts ==
  ASSUME IInv, NEW w \in Workers, NEW e \in Recv(w), Readable(w),
         Consume(w, e)
  PROVE  /\ e \in Event \cup {"Closed", "Syscall"}
         /\ read' \in [Workers -> Nat]
         /\ \A v \in Workers : read'[v] <= Len(sent[v])
         /\ \A v \in Workers \ {w} : read'[v] = read[v]
         /\ e # "Done" /\ outcome[w] = "Done" /\ read[w] < Len(sent[w])
              => read'[w] < Len(sent[w])
         /\ e = "Failed" => Quiet(w)
         /\ e = "Closed" => \/ Quiet(w)
                            \/ outcome[w] = "Done" /\ read[w] >= Len(sent[w])
<1>0. /\ sent[w] \in Seq(Event) /\ Len(sent[w]) \in Nat /\ read[w] \in Nat
      /\ read[w] <= Len(sent[w])
      /\ read \in [Workers -> Nat]
      /\ outcome[w] \in {"none", "Done", "Failed"}
  BY DEF IInv, TypeOK, MainInv
<1>1. /\ read[w] < Len(sent[w]) => sent[w][read[w] + 1] \in Event
      /\ e \in Event => read[w] < Len(sent[w]) /\ e = sent[w][read[w] + 1]
      /\ e = "Closed" => ~(read[w] < Len(sent[w]))
      /\ e \in Event \cup {"Closed", "Syscall"}
  BY <1>0 DEF Recv, Event
<1>2. /\ read' \in [Workers -> Nat]
      /\ \A v \in Workers \ {w} : read'[v] = read[v]
      /\ read'[w] = IF e \in Event THEN read[w] + 1 ELSE read[w]
  BY <1>0 DEF Consume
<1>3. \A v \in Workers : read'[v] <= Len(sent[v])
  <2>1. read'[w] <= Len(sent[w])
    BY <1>0, <1>1, <1>2
  <2>2. \A v \in Workers \ {w} : read'[v] <= Len(sent[v])
    BY <1>2 DEF IInv, MainInv
  <2>3. QED BY <2>1, <2>2
<1>4. ASSUME e # "Done", outcome[w] = "Done", read[w] < Len(sent[w])
      PROVE  read'[w] < Len(sent[w])
  <2>1. sent[w][Len(sent[w])] = "Done"
    BY <1>4 DEF IInv, WorkerInv
  <2>2. e \in Event => read[w] + 1 # Len(sent[w])
    BY <1>1, <1>4, <2>1
  <2>3. QED BY <1>0, <1>2, <1>4, <2>2
<1>5. e = "Failed" => Quiet(w)
  BY <1>0, <1>1 DEF IInv, BusInv, Stamp, Quiet, Event
<1>6. ASSUME e = "Closed"
      PROVE  Quiet(w) \/ (outcome[w] = "Done" /\ read[w] >= Len(sent[w]))
  <2>1. wshut[w]
    BY <1>1, <1>6 DEF Readable
  <2>2. Quiet(w) \/ outcome[w] = "Done"
    BY <1>0, <2>1 DEF IInv, WorkerInv
  <2>3. QED BY <1>0, <1>1, <1>6, <2>2
<1>7. QED BY <1>1, <1>2, <1>3, <1>4, <1>5, <1>6

\* Every step of main, and the arrival of the signal, keep the invariant.
LEMMA MainPreserves ==
  ASSUME IInv, MainNext \/ ControlFails \/ Terminate
  PROVE  IInv'
<1>0. TypeOK /\ ScopeInv /\ N \in Nat /\ N > 0
  BY NAssumption DEF IInv
<1>1. CASE Start
  <2>1. /\ started + 1 \in Workers /\ started \in Nat
    BY <1>0, <1>1 DEF Start, SpawnedAll, ScopeInv, TypeOK, Workers
  <2>2. TypeOK'
    BY <1>0, <1>1, <2>1 DEF Start, SpawnedAll, TypeOK, Workers, WorkerPc, MainPc, control, busVars
  <2>3. ScopeInv'
    BY <1>0, <1>1, <2>1 DEF Start, SpawnedAll, ScopeInv, TypeOK, control, NoWorker, Workers
  <2>4. ASSUME NEW w \in Workers PROVE BusInv(w)' /\ WorkerInv(w)' /\ MainInv(w)'
    <3>1. /\ UNCHANGED <<sent, phase, fault, gate, wshut, outcome, read>>
          /\ UNCHANGED <<cause, target, retired, failures, idx>>
          /\ pc = "spawn" /\ pc' \in {"spawn", "ready"}
          /\ wpc'[w] = wpc[w] \/ (wpc[w] = "idle" /\ wpc'[w] = "bind")
      BY <1>0, <1>1, <2>1 DEF Start, SpawnedAll, ScopeInv, TypeOK, control, busVars
    <3>2. BusInv(w)'
      BY <3>1 DEF IInv, BusInv, Stamp
    <3>3. WorkerInv(w)'
      BY <3>1 DEF IInv, WorkerInv, Quiet
    <3>4. MainInv(w)'
      BY <3>1 DEF IInv, MainInv, Watching, Quiet
    <3>5. QED BY <3>2, <3>3, <3>4
  <2>5. QED BY <2>2, <2>3, <2>4 DEF IInv
<1>2. CASE StartFails \/ TakeSignal \/ Notify \/ ControlFails \/ Draining
           \/ HandedOff \/ Return \/ StoppedAll \/ Terminate
  <2>1. UNCHANGED <<sent, wshut, phase, fault, gate, wpc, outcome, read>>
    BY <1>2 DEF StartFails, TakeSignal, Notify, ControlFails, Draining, HandedOff,
       Return, StoppedAll, Terminate, mainFrame, workerVars, entryVars, busVars
  <2>2. TypeOK'
    <3>1. /\ UNCHANGED <<started, installs, ready, drained, done, retired,
                         target, stopErr, handoff, failures,
                         stopped, mopen, output>>
          /\ idx' \in {1, idx}
          /\ pc' \in MainPc /\ cause' \in Causes
          /\ clock' \in BOOLEAN /\ signal' \in BOOLEAN
      <4>1. CASE StartFails \/ TakeSignal \/ Notify
        BY <1>0, <4>1 DEF StartFails, TakeSignal, Notify, TypeOK, MainPc, Causes,
           mainFrame, workerVars, entryVars
      <4>2. CASE ControlFails \/ Draining
        BY <1>0, <4>2 DEF ControlFails, Draining, TypeOK, MainPc, Causes,
           afterFailure, mainFrame, workerVars, entryVars
      <4>3. CASE HandedOff \/ Return \/ StoppedAll
        BY <1>0, <4>3 DEF HandedOff, Return, StoppedAll, TypeOK, MainPc,
           mainFrame, workerVars, entryVars, control
      <4>4. CASE Terminate
        BY <1>0, <4>4 DEF Terminate, TypeOK, control, busVars, workerVars, entryVars
      <4>5. QED BY <1>2, <4>1, <4>2, <4>3, <4>4
    <3>2. QED BY <1>0, <2>1, <3>1 DEF TypeOK
  <2>3. ScopeInv'
    <3>1. CASE StartFails \/ TakeSignal \/ Notify
      BY <1>0, <2>1, <3>1 DEF StartFails, TakeSignal, Notify, ScopeInv, TypeOK,
         supervising, NoWorker
    <3>2. CASE ControlFails \/ Draining \/ Terminate
      BY <1>0, <2>1, <3>2 DEF ControlFails, Draining, ScopeInv, TypeOK, afterFailure,
         Terminate, control
    <3>3. CASE HandedOff \/ Return \/ StoppedAll
      <4>1. /\ UNCHANGED <<started, target, clock, retired>>
            /\ pc # "returned" /\ pc' # "spawn" /\ pc' # "ready"
            /\ pc' \notin {"observe", "notify", "drive", "stop"}
            /\ pc' = "returned" => idx' = started + 1
            /\ pc' = "returned" \/ idx' = 1
            /\ pc' \in {"drain", "draining"} => clock
        BY <3>3 DEF HandedOff, Return, StoppedAll, control
      <4>2. pc' # "done"
        BY <3>3 DEF HandedOff, Return, StoppedAll
      <4>3. started \in Nat /\ N \in Nat
        BY <1>0 DEF TypeOK
      <4>4. QED BY <1>0, <2>1, <4>1, <4>2, <4>3 DEF ScopeInv
    <3>4. QED BY <1>2, <3>1, <3>2, <3>3
  <2>4. ASSUME NEW w \in Workers PROVE MainInv(w)'
    <3>1. /\ UNCHANGED <<read, target, retired, failures>>
          /\ Watching' => Watching
          /\ pc' \in {"join", "returned"} =>
               \/ pc = pc' /\ idx' = idx
               \/ idx' = 1
               \/ pc = "join" /\ idx' = idx
      BY <1>2, <2>1 DEF StartFails, TakeSignal, Notify, ControlFails, Draining, HandedOff,
         Return, StoppedAll, Terminate, control, Watching, supervising, afterFailure
    <3>2. w >= 1
      BY DEF Workers
    <3>3. QED BY <2>1, <3>1, <3>2, <1>0 DEF IInv, MainInv, Quiet, Workers
  <2>5. QED BY <2>1, <2>2, <2>3, <2>4, MainKeepsWorkers DEF IInv
<1>3. CASE StopNext
  <2>1. UNCHANGED <<sent, wshut, phase, fault, gate, wpc, outcome, read>>
    BY <1>3 DEF StopNext, mainFrame, workerVars, entryVars
  <2>2. TypeOK'
    <3>1. idx + 1 \in 1..(N + 1)
      BY <1>0, <1>3 DEF StopNext, TypeOK
    <3>2. /\ UNCHANGED <<pc, started, control, failures, output, signal>>
          /\ stopped' \in [Workers -> BOOLEAN] /\ mopen' \in [Workers -> BOOLEAN]
          /\ handoff' \in [Workers -> {"none", "Stopped", "Sequence", "Syscall"}]
          /\ stopErr' \in BOOLEAN /\ idx' = idx + 1
      BY <1>0, <1>3 DEF StopNext, TypeOK, mainFrame, workerVars, entryVars
    <3>3. QED BY <1>0, <2>1, <3>1, <3>2 DEF TypeOK, control
  <2>3. ScopeInv'
    BY <1>0, <1>3, <2>1 DEF StopNext, ScopeInv, TypeOK, control
  <2>4. ASSUME NEW w \in Workers PROVE MainInv(w)'
    BY <1>3, <2>1 DEF StopNext, IInv, MainInv, Watching, Quiet, control
  <2>5. QED BY <2>1, <2>2, <2>3, <2>4, MainKeepsWorkers DEF IInv
<1>4. CASE Handoff
  <2>0. idx \in Workers
    BY <1>0, <1>4 DEF Handoff, TypeOK, Workers
  <2>1. UNCHANGED <<sent, wshut, phase, fault, gate, wpc, outcome>>
    BY <1>4 DEF Handoff, mainFrame, workerVars, entryVars
  <2>2. TypeOK'
    <3>1. idx + 1 \in 1..(N + 1)
      BY <1>0, <1>4 DEF Handoff, TypeOK
    <3>2. Verdict(idx) \in {"none", "Sequence"}
      BY DEF Verdict
    <3>3. /\ UNCHANGED <<pc, started, control, stopErr, failures, output, signal, stopped>>
          /\ mopen' \in [Workers -> BOOLEAN] /\ idx' = idx + 1
          /\ handoff' \in [Workers -> {"none", "Stopped", "Sequence", "Syscall"}]
      <4>1. handoff' \in {handoff, [handoff EXCEPT ![idx] = Verdict(idx)],
                                   [handoff EXCEPT ![idx] = "Syscall"]}
        BY <1>4 DEF Handoff
      <4>2. /\ UNCHANGED <<pc, started, control, stopErr, failures, output, signal, stopped>>
            /\ mopen' = [mopen EXCEPT ![idx] = FALSE] /\ idx' = idx + 1
        BY <1>4 DEF Handoff, mainFrame, workerVars, entryVars
      <4>3. QED BY <1>0, <2>0, <3>2, <4>1, <4>2 DEF TypeOK
    <3>4. read' \in [Workers -> Nat]
      <4>1. Len(sent[idx]) \in Nat
        BY <1>0, <2>0 DEF TypeOK
      <4>2. QED BY <1>0, <1>4, <2>0, <4>1 DEF Handoff, TypeOK
    <3>5. QED BY <1>0, <2>1, <3>1, <3>3, <3>4 DEF TypeOK, control
  <2>3. ScopeInv'
    BY <1>0, <1>4, <2>1 DEF Handoff, ScopeInv, TypeOK, control
  <2>4. ASSUME NEW w \in Workers PROVE MainInv(w)'
    <3>1. read'[w] <= Len(sent[w])
      BY <1>0, <1>4, <2>0 DEF Handoff, IInv, MainInv, TypeOK
    <3>2. QED
      BY <1>4, <2>1, <3>1 DEF Handoff, IInv, MainInv, Watching, Quiet, control
  <2>5. QED BY <2>1, <2>2, <2>3, <2>4, MainKeepsWorkers DEF IInv
<1>5. CASE Join
  <2>1. UNCHANGED <<sent, wshut, phase, fault, gate, wpc, outcome, read>>
    BY <1>5 DEF Join, Reported, mainFrame, workerVars, entryVars
  <2>2. TypeOK'
    <3>1. /\ UNCHANGED <<pc, started, installs, ready, drained, done, retired, clock,
                         cause, target, stopErr, handoff, signal, stopped, mopen, output>>
          /\ failures' \in {failures, failures \cup {idx}} /\ idx' = idx + 1
          /\ idx <= started
      BY <1>5 DEF Join, mainFrame, workerVars, entryVars, control
    <3>2. started \in 0..N /\ idx \in 1..N + 1 /\ failures \subseteq Workers
      BY <1>0 DEF TypeOK
    <3>3. idx' \in 1..N + 1 /\ idx \in Workers
      BY <1>0, <3>1, <3>2 DEF Workers
    <3>4. failures' \subseteq Workers
      BY <3>1, <3>2, <3>3
    <3>5. QED BY <1>0, <2>1, <3>1, <3>3, <3>4 DEF TypeOK
  <2>3. ScopeInv'
    BY <1>0, <1>5, <2>1 DEF Join, Reported, ScopeInv, TypeOK, control
  <2>4. ASSUME NEW w \in Workers PROVE MainInv(w)'
    <3>1. CASE w = idx /\ target = w
      <4>1. outcome[w] # "Done"
        BY <3>1 DEF IInv, MainInv, WorkerInv
      <4>2. w \in failures'
        BY <1>5, <3>1, <4>1 DEF Join, Reported
      <4>3. QED
        BY <1>5, <2>1, <4>2 DEF Join, Reported, IInv, MainInv, Watching, Quiet, control
    <3>2. CASE ~(w = idx /\ target = w)
      <4>1. w < idx' /\ target = w => w < idx
        BY <1>0, <1>5, <3>2 DEF Join, Reported, TypeOK, Workers
      <4>2. QED
        BY <1>5, <2>1, <4>1 DEF Join, Reported, IInv, MainInv, Watching, Quiet, control
    <3>3. QED BY <3>1, <3>2
  <2>5. QED BY <2>1, <2>2, <2>3, <2>4, MainKeepsWorkers DEF IInv
<1>6. ASSUME NEW w \in Workers, WaitReady(w) \/ Observe(w) \/ Drain(w) \/ WaitDone(w)
      PROVE  IInv'
  <2>1. UNCHANGED <<sent, wshut, phase, fault, gate, wpc, outcome>>
    BY <1>6 DEF WaitReady, StartupComplete, Observe, Drain, WaitDone, mainFrame, workerVars, entryVars
  <2>2. PICK e \in Recv(w) : /\ Readable(w) /\ Consume(w, e)
                             /\ \/ /\ UNCHANGED <<cause, target>>
                                   /\ e \in {"Installed", "Ready"}
                                   /\ pc = "ready"
                                   /\ pc' \in {"ready", "notify", "observe"}
                                   /\ UNCHANGED retired
                                \/ /\ UNCHANGED <<cause, target>>
                                   /\ e \in {"Drain", "Done"}
                                   /\ retired' = IF e = "Done" THEN retired \cup {w} ELSE retired
                                   /\ w \notin retired
                                   /\ pc \in {"drain", "done"}
                                   /\ pc' \in {"drain", "draining", "done", "handoff"}
                                \/ /\ \E u \in Causes \ {"none"} : Accuse(w, e, u)
                                   /\ w \notin retired
                                   /\ pc \in {"ready", "observe", "drive", "drain", "done"}
                                   /\ pc' = (IF pc \in {"drain", "done"} THEN "handoff" ELSE "stop")
                                   /\ pc' = "stop" => UNCHANGED retired
    <3>1. CASE WaitReady(w)
      BY <1>0, <3>1 DEF WaitReady, StartupComplete, FirstReady, Causes, startupDone, ScopeInv
    <3>2. CASE Observe(w)
      BY <1>0, <3>2 DEF Observe, FirstReady, Causes, ScopeInv
    <3>3. CASE Drain(w)
      BY <3>3 DEF Drain, Retire, DrainedWith, OutOfOrder, FirstReady, Causes
    <3>4. CASE WaitDone(w)
      BY <3>4 DEF WaitDone, Retire, FirstReady, Causes
    <3>5. QED BY <1>6, <3>1, <3>2, <3>3, <3>4
  <2>3. /\ e \in Event \cup {"Closed", "Syscall"}
        /\ read' \in [Workers -> Nat]
        /\ \A v \in Workers : read'[v] <= Len(sent[v])
        /\ \A v \in Workers \ {w} : read'[v] = read[v]
        /\ e # "Done" /\ outcome[w] = "Done" /\ read[w] < Len(sent[w])
             => read'[w] < Len(sent[w])
        /\ e = "Failed" => Quiet(w)
        /\ e = "Closed" => Quiet(w) \/ (outcome[w] = "Done" /\ read[w] >= Len(sent[w]))
    BY <2>2, RecvFacts
  <2>4. \A u : Accuse(w, e, u) /\ u \in Causes \ {"none"} =>
               /\ cause' \in Causes \ {"none"}
               /\ target' \in {w, NoWorker}
               /\ target' = w => e \in {"Failed", "Closed"}
    BY <1>0 DEF Accuse, Causes, NoWorker, Workers
  <2>5. TypeOK'
    <3>1. /\ UNCHANGED <<started, idx, clock, stopErr, handoff, failures, signal,
                         stopped, mopen, output>>
      BY <1>6 DEF WaitReady, StartupComplete, Observe, Drain, WaitDone, mainFrame, workerVars, entryVars
    <3>2. /\ installs' \in 0..N /\ ready' \in 0..N
          /\ drained' \in Nat /\ done' \in Nat
      <4>1. CASE WaitReady(w)
        BY <1>0, <4>1 DEF WaitReady, StartupComplete, TypeOK
      <4>2. CASE Observe(w)
        BY <1>0, <4>2 DEF Observe, TypeOK
      <4>3. CASE Drain(w)
        BY <1>0, <4>3 DEF Drain, Retire, DrainedWith, OutOfOrder, TypeOK
      <4>4. CASE WaitDone(w)
        BY <1>0, <4>4 DEF WaitDone, Retire, TypeOK
      <4>5. QED BY <1>6, <4>1, <4>2, <4>3, <4>4
    <3>3. pc' \in MainPc
      BY <2>2 DEF MainPc
    <3>4. cause' \in Causes /\ target' \in Workers \cup {NoWorker}
      BY <1>0, <2>2, <2>4 DEF TypeOK
    <3>5. retired' \subseteq Workers
      <4>1. CASE WaitReady(w)
        BY <1>0, <4>1 DEF WaitReady, StartupComplete, TypeOK
      <4>2. CASE Observe(w)
        BY <1>0, <4>2 DEF Observe, TypeOK
      <4>3. CASE Drain(w)
        BY <1>0, <4>3 DEF Drain, Retire, DrainedWith, OutOfOrder, TypeOK
      <4>4. CASE WaitDone(w)
        BY <1>0, <4>4 DEF WaitDone, Retire, TypeOK
      <4>5. QED BY <1>6, <4>1, <4>2, <4>3, <4>4
    <3>6. QED BY <1>0, <2>1, <2>3, <3>1, <3>2, <3>3, <3>4, <3>5 DEF TypeOK
  <2>6. UNCHANGED <<started, idx, clock, failures>>
    BY <1>6 DEF WaitReady, StartupComplete, Observe, Drain, WaitDone
  <2>7. ScopeInv'
    BY <1>0, <2>1, <2>2, <2>6 DEF ScopeInv
  <2>8. ASSUME NEW v \in Workers PROVE MainInv(v)'
    <3>1. Watching
      BY <2>2 DEF Watching
    <3>2. MainInv(v)
      BY DEF IInv
    <3>3. CASE Watching' /\ UNCHANGED <<cause, target>>
      <4>1. outcome[v] = "Done" => read'[v] < Len(sent[v]) \/ v \in retired'
        <5>1. CASE v = w
          <6>1. e = "Done" => w \in retired'
            BY <2>2, <3>3 DEF Watching, Accuse, Causes
          <6>2. w \in retired => w \in retired'
            BY <2>2, <3>3 DEF Watching
          <6>3. QED BY <2>3, <3>1, <3>2, <5>1, <6>1, <6>2 DEF MainInv
        <5>2. CASE v # w
          <6>1. v \in retired => v \in retired'
            BY <2>2, <3>3 DEF Watching
          <6>2. QED BY <2>3, <3>1, <3>2, <5>2, <6>1 DEF MainInv
        <5>3. QED BY <5>1, <5>2
      <4>2. QED
        BY <2>1, <2>2, <2>3, <3>2, <3>3, <4>1 DEF MainInv, Quiet
    <3>4. CASE ~Watching' /\ UNCHANGED <<cause, target>>
      BY <2>1, <2>2, <2>3, <3>2, <3>4 DEF MainInv, Quiet
    <3>5. CASE /\ \E u \in Causes \ {"none"} : Accuse(w, e, u)
               /\ pc' \in {"stop", "handoff"} /\ w \notin retired
      <4>1. /\ cause' # "none" /\ target' \in {w, NoWorker}
            /\ target' = w => e \in {"Failed", "Closed"}
        BY <2>4, <3>5
      <4>2. ~Watching'
        BY <3>5, <4>1 DEF Watching
      <4>3. target' = w => Quiet(w)
        <5>1. MainInv(w)
          BY DEF IInv
        <5>2. read[w] \in Nat /\ Len(sent[w]) \in Nat
          BY <1>0 DEF TypeOK
        <5>3. QED BY <2>3, <3>1, <3>5, <4>1, <5>1, <5>2 DEF MainInv
      <4>4. v # NoWorker
        BY DEF Workers, NoWorker
      <4>5. QED
        BY <2>1, <2>3, <3>5, <4>1, <4>2, <4>3, <4>4 DEF MainInv, Quiet
    <3>6. QED BY <2>2, <3>3, <3>4, <3>5
  <2>9. QED BY <2>1, <2>5, <2>7, <2>8, MainKeepsWorkers DEF IInv
<1>7. QED
  BY <1>1, <1>2, <1>3, <1>4, <1>5, <1>6 DEF MainNext

-----------------------------------------------------------------------------
(* The theorems.                                                           *)

\* The state in which run enters the scope satisfies the invariant.
LEMMA InitEstablishes == Init => IInv
<1> SUFFICES ASSUME Init PROVE IInv
  OBVIOUS
<1>0. N \in Nat /\ N > 0 /\ Gated \in BOOLEAN
  BY NAssumption, ModeAssumption
<1>1. TypeOK
  <2>1. <<>> \in Seq(Event)
    OBVIOUS
  <2>2. sent \in [Workers -> Seq(Event)]
    BY <2>1 DEF Init
  <2>3. /\ started \in 0..N /\ idx \in 1..(N + 1)
        /\ installs \in 0..N /\ ready \in 0..N
    BY <1>0 DEF Init
  <2>4. /\ wpc \in [Workers -> WorkerPc]
        /\ read \in [Workers -> Nat]
    BY DEF Init, WorkerPc
  <2>5. QED
    BY <2>2, <2>3, <2>4 DEF Init, TypeOK, MainPc, Causes
<1>2. ScopeInv
  BY <1>0 DEF Init, ScopeInv, NoWorker
<1>3. ASSUME NEW w \in Workers PROVE BusInv(w) /\ WorkerInv(w) /\ MainInv(w)
  <2>1. /\ sent[w] = <<>> /\ read[w] = 0 /\ ~wshut[w] /\ wpc[w] = "idle"
        /\ outcome[w] = "none" /\ target # w /\ Len(sent[w]) = 0
    BY DEF Init, Workers, NoWorker
  <2>2. QED BY <2>1 DEF BusInv, WorkerInv, MainInv
<1>4. QED BY <1>1, <1>2, <1>3 DEF IInv

\* Every step of the runtime, of main or of a worker, keeps the invariant.
LEMMA StepPreserves == IInv /\ [Next]_vars => IInv'
<1> SUFFICES ASSUME IInv, [Next]_vars PROVE IInv'
  OBVIOUS
<1>1. CASE MainNext \/ ControlFails \/ Terminate
  BY <1>1, MainPreserves
<1>2. ASSUME NEW w \in Workers, WorkerNext(w) PROVE IInv'
  BY <1>2, WorkerPreserves
<1>3. CASE UNCHANGED vars
  <2>1. UNCHANGED <<pc, started, idx, installs, ready, drained, done, retired,
                    clock, cause, target, stopErr, handoff, failures, signal,
                    sent, read, wshut, stopped, mopen,
                    wpc, phase, fault, gate, output, outcome>>
    BY <1>3 DEF vars, mainVars, control, busVars, workerVars, entryVars
  <2>2. TypeOK' /\ ScopeInv'
    BY <2>1 DEF IInv, TypeOK, ScopeInv
  <2>3. \A w \in Workers : MainInv(w)'
    BY <2>1 DEF IInv, MainInv, Watching, Quiet
  <2>4. QED BY <2>1, <2>2, <2>3, MainKeepsWorkers DEF IInv
<1>4. QED BY <1>1, <1>2, <1>3 DEF Next, Returned

\* The invariant holds in every reachable state.
LEMMA Inductive == Spec => []IInv
BY InitEstablishes, StepPreserves, PTL DEF Spec

\* Every variable keeps its type, for every number of workers, mode and set
\* of faults.
THEOREM TypeCorrect == Spec => []TypeOK
<1>1. IInv => TypeOK
  BY DEF IInv
<1>2. QED BY <1>1, Inductive, PTL

\* Worker::send never writes past a Done or Failed record and never repeats
\* a record, whatever the entry calls and whatever fails.
THEOREM TerminalRecordIsLast == Spec => []TerminalIsLast
<1>1. IInv => TerminalIsLast
  BY DEF IInv, BusInv, TerminalIsLast
<1>2. QED BY <1>1, Inductive, PTL

\* A worker that main stopped the run for is always found to have failed:
\* Cause::WorkerMissing is never reported.
THEOREM AccusedWorkerIsReported == Spec => []AccusedIsReported
<1>1. IInv => AccusedIsReported
  <2>1. SUFFICES ASSUME IInv, pc = "returned", target # NoWorker
                 PROVE  target \in failures
    BY DEF AccusedIsReported, missing
  <2>2. target \in Workers /\ idx = N + 1 /\ N \in Nat
    BY <2>1, NAssumption DEF IInv, TypeOK, ScopeInv
  <2>3. target < idx
    BY <2>2 DEF Workers
  <2>4. QED BY <2>1, <2>2, <2>3 DEF IInv, MainInv
<1>2. QED BY <1>1, Inductive, PTL

-----------------------------------------------------------------------------
(* What main's counts and its verdict say about the workers.               *)

\* The workers from which main has read the record e.
HasRead(e) == {w \in Workers : \E i \in 1..read[w] : sent[w][i] = e}

\* Main stops at the first record it does not expect, so as long as there is
\* no cause the three counts are numbers of workers.
CountInv ==
  /\ cause = "none" /\ pc \notin {"handoff", "join", "returned"} =>
       /\ installs + Cardinality(HasRead("Installed")) = N
       /\ ready + Cardinality(HasRead("Ready")) = (IF Gated THEN N ELSE 0)
       /\ drained = Cardinality(HasRead("Drain"))
  /\ pc \in {"observe", "notify", "drive"} => installs = 0 /\ ready = 0
  /\ Gated /\ pc \in {"draining", "done"} => drained = N
  /\ pc \notin {"stop", "handoff", "join", "returned"} => cause = "none"

\* Why main gave up, and what it found when it joined the workers.
VerdictInv ==
  /\ cause = "none" /\ pc \notin {"spawn", "ready", "observe", "notify", "drive"}
       => signal /\ started = N
  /\ Gated /\ clock /\ cause = "none" /\ ~stopErr
       /\ pc \in {"draining", "done", "handoff", "join", "returned"}
       => \A w \in Workers : "Drain" \in Sent(w)
  /\ pc \in {"join", "returned"} =>
       \A w \in Workers : w < idx /\ w \notin failures
                            => outcome[w] = "Done" /\ handoff[w] = "none"

\* What stands behind a worker's outcome.
OutcomeInv(w) ==
  /\ outcome[w] = "Done" => output[w] = "Ok"
  /\ output[w] = "Ok" \/ wpc[w] \in {"running", "stopping"} => phase[w] # "New"
  /\ phase[w] = "Installed" => "Installed" \in Sent(w)

VInv ==
  /\ CountInv /\ VerdictInv
  /\ \A w \in Workers : OutcomeInv(w)
-----------------------------------------------------------------------------
(* The records that main has read.                                         *)

\* The workers are finitely many, and so are those that said something.
LEMMA ReadersFinite ==
  ASSUME NEW e
  PROVE  /\ IsFiniteSet(Workers) /\ Cardinality(Workers) = N
         /\ HasRead(e) \in SUBSET Workers /\ IsFiniteSet(HasRead(e))
         /\ Cardinality(HasRead(e)) \in Nat /\ Cardinality(HasRead(e)) <= N
         /\ Cardinality(HasRead(e)) = N => HasRead(e) = Workers
<1>1. IsFiniteSet(Workers) /\ Cardinality(Workers) = N /\ N \in Nat
  BY NAssumption, FS_Interval DEF Workers
<1>2. HasRead(e) \in SUBSET Workers
  BY DEF HasRead
<1>3. IsFiniteSet(HasRead(e)) /\ Cardinality(HasRead(e)) <= N
      /\ (Cardinality(HasRead(e)) = N => HasRead(e) = Workers)
  BY <1>1, <1>2, FS_Subset
<1>4. Cardinality(HasRead(e)) \in Nat
  BY <1>3, FS_CardinalityType
<1> QED BY <1>1, <1>2, <1>3, <1>4

\* Writing a record does not change what was read.
LEMMA WritesUnread ==
  ASSUME IInv, NEW w \in Workers, WorkerStep(w), NEW e
  PROVE  HasRead(e)' = HasRead(e)
<1>0. read' = read
  BY DEF WorkerStep
<1> SUFFICES ASSUME NEW v \in Workers
             PROVE  v \in HasRead(e)' <=> v \in HasRead(e)
  BY DEF HasRead
<1> SUFFICES ASSUME NEW i \in 1..read[v] PROVE sent'[v][i] = sent[v][i]
  BY <1>0 DEF HasRead
<1>1. /\ read[v] <= Len(sent[v]) /\ read[v] \in Nat /\ Len(sent[v]) \in Nat
      /\ sent[v] \in Seq(Event)
  BY DEF IInv, MainInv, TypeOK
<1>2. sent'[v] = sent[v] \/ \E f \in Event : sent'[v] = Append(sent[v], f)
  BY DEF WorkerStep
<1>3. i \in 1..Len(sent[v])
  BY <1>1
<1> QED BY <1>1, <1>2, <1>3

\* Nor is anything unsaid.
LEMMA WritesAdd ==
  ASSUME IInv, NEW w \in Workers, WorkerStep(w), NEW v \in Workers
  PROVE  Sent(v) \subseteq Sent(v)'
<1>1. sent[v] \in Seq(Event) /\ Len(sent[v]) \in Nat
  BY DEF IInv, TypeOK
<1>2. sent'[v] = sent[v] \/ \E f \in Event : sent'[v] = Append(sent[v], f)
  BY DEF WorkerStep
<1> SUFFICES ASSUME NEW i \in 1..Len(sent[v]) PROVE sent[v][i] \in Sent(v)'
  BY DEF Sent
<1>3. i \in 1..Len(sent'[v]) /\ sent'[v][i] = sent[v][i]
  BY <1>1, <1>2
<1> QED BY <1>3 DEF Sent

\* Main reads the next record of w, which w never wrote before.
LEMMA ReadOne ==
  ASSUME IInv, NEW w \in Workers, NEW e \in Event, read[w] < Len(sent[w]),
         e = sent[w][read[w] + 1], sent' = sent, read' = [read EXCEPT ![w] = @ + 1]
  PROVE  /\ HasRead(e)' = HasRead(e) \cup {w}
         /\ Cardinality(HasRead(e)') = Cardinality(HasRead(e)) + 1
         /\ \A f \in Event \ {e} : HasRead(f)' = HasRead(f)
<1>1. /\ read[w] \in Nat /\ Len(sent[w]) \in Nat /\ read'[w] = read[w] + 1
      /\ \A v \in Workers \ {w} : read'[v] = read[v]
  BY DEF IInv, TypeOK
<1>2. \A v \in Workers \ {w}, f \in Event : v \in HasRead(f)' <=> v \in HasRead(f)
  BY <1>1 DEF HasRead
<1>3. \A f \in Event : w \in HasRead(f)' <=> w \in HasRead(f) \/ f = e
  <2> SUFFICES ASSUME NEW f \in Event
               PROVE  (\E i \in 1..(read[w] + 1) : sent[w][i] = f) <=>
                        (\E i \in 1..read[w] : sent[w][i] = f) \/ f = sent[w][read[w] + 1]
    BY <1>1 DEF HasRead
  <2>1. 1..(read[w] + 1) = (1..read[w]) \cup {read[w] + 1}
    BY <1>1
  <2> QED BY <2>1
<1>4. w \notin HasRead(e)
  <2> SUFFICES ASSUME NEW i \in 1..read[w], sent[w][i] = sent[w][read[w] + 1] PROVE FALSE
    BY DEF HasRead
  <2>1. i \in 1..Len(sent[w]) /\ read[w] + 1 \in 1..Len(sent[w]) /\ i < read[w] + 1
    BY <1>1
  <2> QED BY <2>1 DEF IInv, BusInv
<1>5. HasRead(e)' = HasRead(e) \cup {w}
  <2>1. HasRead(e)' \subseteq Workers /\ HasRead(e) \subseteq Workers
    BY DEF HasRead
  <2> QED BY <1>2, <1>3, <2>1
<1>6. \A f \in Event \ {e} : HasRead(f)' = HasRead(f)
  <2> SUFFICES ASSUME NEW f \in Event \ {e} PROVE HasRead(f)' = HasRead(f)
    OBVIOUS
  <2>1. HasRead(f)' \subseteq Workers /\ HasRead(f) \subseteq Workers
    BY DEF HasRead
  <2>2. \A v \in Workers : v \in HasRead(f)' <=> v \in HasRead(f)
    BY <1>2, <1>3
  <2> QED BY <2>1, <2>2
<1>7. Cardinality(HasRead(e)') = Cardinality(HasRead(e)) + 1
  BY <1>4, <1>5, ReadersFinite, FS_AddElement
<1> QED BY <1>5, <1>6, <1>7

\* A worker from which main read e wrote it.
LEMMA ReadWasSent ==
  ASSUME IInv, NEW e, NEW w \in HasRead(e)
  PROVE  w \in Workers /\ e \in Sent(w)
<1>1. w \in Workers /\ read[w] <= Len(sent[w]) /\ read[w] \in Nat /\ Len(sent[w]) \in Nat
  BY DEF HasRead, IInv, MainInv, TypeOK
<1>2. PICK i \in 1..read[w] : sent[w][i] = e
  BY DEF HasRead
<1>3. i \in 1..Len(sent[w])
  BY <1>1
<1> QED BY <1>1, <1>2, <1>3 DEF Sent

-----------------------------------------------------------------------------
(* Steps of a worker.                                                      *)

\* Only an Installed record that was written makes a worker installed.
LEMMA SendInstalls ==
  ASSUME TypeOK, NEW w \in Workers, NEW e \in Event, Send(w, e),
         phase'[w] = "Installed"
  PROVE  phase[w] = "Installed" \/ (e = "Installed" /\ sent'[w] = Append(sent[w], e))
<1>1. CASE UNCHANGED <<sent, phase, fault, wshut>>
  BY <1>1
<1>2. CASE \E wrote, cut \in BOOLEAN : Write(w, e, wrote, cut)
  <2>1. PICK wrote \in BOOLEAN, cut \in BOOLEAN : Write(w, e, wrote, cut)
    BY <1>2
  <2>2. phase'[w] = CASE e = "Failed" -> "Failed"
                      [] e = "Installed" /\ wrote -> "Installed"
                      [] OTHER -> phase[w]
    BY <2>1 DEF Write, TypeOK
  <2>3. wrote => sent'[w] = Append(sent[w], e)
    BY <2>1 DEF Write, TypeOK
  <2>4. phase'[w] = IF e = "Failed" THEN "Failed"
                    ELSE IF e = "Installed" /\ wrote THEN "Installed" ELSE phase[w]
    BY <2>2
  <2> QED BY <2>3, <2>4
<1> QED BY <1>1, <1>2 DEF Send

\* A record that a worker sends keeps what is known of its installation.
LEMMA SendKeepsOutcome ==
  ASSUME IInv, NEW w \in Workers, OutcomeInv(w), WorkerStep(w), NEW e \in Event, Send(w, e)
  PROVE  /\ phase[w] # "New" => phase'[w] # "New"
         /\ phase'[w] = "Installed" => "Installed" \in Sent(w)'
<1>1. TypeOK
  BY DEF IInv
<1>2. phase[w] # "New" => phase'[w] # "New"
  BY <1>1, SendEffect
<1>3. ASSUME phase'[w] = "Installed" PROVE "Installed" \in Sent(w)'
  <2>1. CASE phase[w] = "Installed"
    BY <2>1, WritesAdd DEF OutcomeInv
  <2>2. CASE e = "Installed" /\ sent'[w] = Append(sent[w], e)
    <3>1. sent[w] \in Seq(Event)
      BY <1>1 DEF TypeOK
    <3>2. Len(sent[w]) + 1 \in 1..Len(sent'[w]) /\ sent'[w][Len(sent[w]) + 1] = e
      BY <2>2, <3>1
    <3> QED BY <2>2, <3>2 DEF Sent
  <2> QED BY <2>1, <2>2, <1>1, <1>3, SendInstalls
<1> QED BY <1>2, <1>3

\* Every step of a worker keeps what stands behind its outcome.
LEMMA WorkerKeepsOutcome ==
  ASSUME IInv, NEW w \in Workers, OutcomeInv(w), WorkerNext(w)
  PROVE  OutcomeInv(w)'
<1>1. TypeOK /\ WorkerStep(w)
  BY WorkerShape DEF IInv
<1>2. outcome[w] = "Done" => wpc[w] \in {"closing", "exited"}
  BY DEF IInv, WorkerInv
<1>3. CASE Bind(w) \/ ObserveStop(w) \/ ReturnOk(w) \/ ReturnErr(w) \/ Close(w)
  <2>1. UNCHANGED <<sent, phase, outcome>>
    BY <1>3 DEF Bind, ObserveStop, ReturnOk, ReturnErr, Close
  <2>2. Sent(w)' = Sent(w)
    BY <2>1 DEF Sent
  <2>3. outcome[w] = "Done" => output'[w] = "Ok"
    BY <1>2, <1>3 DEF OutcomeInv, Bind, ObserveStop, ReturnOk, ReturnErr, Close
  <2>4. output'[w] = "Ok" \/ wpc'[w] \in {"running", "stopping"} => phase[w] # "New"
    BY <1>1, <1>3 DEF OutcomeInv, TypeOK, Bind, ObserveStop, ReturnOk, ReturnErr, Close
  <2> QED BY <2>1, <2>2, <2>3, <2>4 DEF OutcomeInv
<1>4. CASE BindFails(w) \/ BuildFails(w)
  <2>1. /\ Send(w, "Failed") /\ output'[w] = "Err" /\ wpc'[w] = "finish"
        /\ outcome' = outcome /\ outcome[w] # "Done"
    BY <1>1, <1>2, <1>4 DEF BindFails, BuildFails, TypeOK
  <2> QED BY <1>1, <2>1, SendKeepsOutcome DEF OutcomeInv, Event
<1>5. CASE TerminalFail(w)
  <2>1. Send(w, "Failed") /\ UNCHANGED <<output, wpc, outcome>>
    BY <1>5 DEF TerminalFail, entryVars
  <2> QED BY <1>1, <2>1, SendKeepsOutcome DEF OutcomeInv, Event
<1>6. CASE OpenGate(w) \/ FinishGate(w)
  <2>1. PICK e \in {"Ready", "Drain"} : Send(w, e)
    BY <1>6 DEF OpenGate, FinishGate
  <2>2. UNCHANGED <<output, wpc, outcome>>
    BY <1>6 DEF OpenGate, FinishGate
  <2> QED BY <1>1, <2>1, <2>2, SendKeepsOutcome DEF OutcomeInv, Event
<1>7. CASE Finish(w)
  <2>1. PICK e \in {"Done", "Failed"} : Send(w, e)
    BY <1>7 DEF Finish
  <2>2. /\ wpc'[w] = "closing" /\ output' = output
        /\ outcome'[w] = "Done" => output[w] = "Ok"
    BY <1>1, <1>7 DEF Finish, Clean, TypeOK
  <2> QED BY <1>1, <2>1, <2>2, SendKeepsOutcome DEF OutcomeInv, Event
<1>8. CASE Install(w)
  <2>1. /\ SendInstalled(w) /\ outcome' = outcome /\ outcome[w] # "Done"
        /\ IF fault'[w] THEN wpc'[w] = "finish" /\ output'[w] = "Err"
                        ELSE wpc'[w] = "running" /\ output'[w] = output[w]
    BY <1>1, <1>2, <1>8 DEF Install, TypeOK
  <2>2. CASE phase[w] = "New" /\ Send(w, "Installed")
    <3>1. fault'[w] \/ phase'[w] # "New"
      BY <1>1, <2>2, SendEffect DEF Quiet, Event
    <3> QED BY <1>1, <2>1, <2>2, <3>1, SendKeepsOutcome DEF OutcomeInv, Event
  <2>3. CASE phase[w] # "New" /\ UNCHANGED <<sent, phase, fault, wshut>>
    <3>1. Sent(w)' = Sent(w)
      BY <2>3 DEF Sent
    <3> QED BY <2>1, <2>3, <3>1 DEF OutcomeInv
  <2> QED BY <2>1, <2>2, <2>3 DEF SendInstalled
<1> QED BY <1>3, <1>4, <1>5, <1>6, <1>7, <1>8 DEF WorkerNext

\* Every step of a worker keeps main's counts and findings true.
LEMMA WorkerKeepsVerdict ==
  ASSUME IInv, VInv, NEW w \in Workers, WorkerNext(w)
  PROVE  VInv'
<1>1. TypeOK /\ WorkerStep(w)
  BY WorkerShape DEF IInv
<1>2. UNCHANGED <<pc, started, idx, installs, ready, drained, clock, cause, stopErr, handoff,
                  failures, signal>>
  BY <1>1 DEF WorkerStep, mainVars, control
<1>3. CountInv'
  BY <1>1, <1>2, WritesUnread DEF VInv, CountInv
<1>4. \A v \in Workers : outcome[v] = "Done" => outcome'[v] = "Done"
  <2>1. \A v \in Workers \ {w} : outcome'[v] = outcome[v]
    BY <1>1 DEF WorkerStep
  <2>2. outcome[w] = "Done" => outcome'[w] = "Done"
    <3>1. outcome[w] = "Done" => wpc[w] \in {"closing", "exited"}
      BY DEF IInv, WorkerInv
    <3> QED BY <3>1 DEF WorkerNext, Bind, BindFails, Install, BuildFails, OpenGate, ObserveStop,
              FinishGate, TerminalFail, ReturnOk, ReturnErr, Finish, Close, entryVars
  <2> QED BY <2>1, <2>2
<1>5. \A v \in Workers : Sent(v) \subseteq Sent(v)'
  BY <1>1, WritesAdd
<1>6. VerdictInv'
  BY <1>2, <1>4, <1>5 DEF VInv, VerdictInv
<1>7. ASSUME NEW v \in Workers, v # w PROVE OutcomeInv(v)'
  <2>1. sent'[v] = sent[v] /\ phase'[v] = phase[v] /\ wpc'[v] = wpc[v] /\ outcome'[v] = outcome[v]
    BY <1>1, <1>7 DEF WorkerStep
  <2>2. output'[v] = output[v]
    BY <1>1, <1>7 DEF TypeOK, WorkerNext, Bind, BindFails, Install, BuildFails, OpenGate,
         ObserveStop, FinishGate, TerminalFail, ReturnOk, ReturnErr, Finish, Close, entryVars
  <2>3. Sent(v)' = Sent(v)
    BY <2>1 DEF Sent
  <2> QED BY <2>1, <2>2, <2>3 DEF VInv, OutcomeInv
<1>8. OutcomeInv(w)'
  BY WorkerKeepsOutcome DEF VInv
<1> QED BY <1>3, <1>6, <1>7, <1>8 DEF VInv

-----------------------------------------------------------------------------
(* Steps of main.                                                          *)

\* Steps of main that read no record.
LEMMA SilentMainKeepsVerdict ==
  ASSUME IInv, VInv,
         \/ Start \/ StartFails \/ TakeSignal \/ Notify \/ ControlFails \/ Draining
         \/ HandedOff \/ Return \/ StoppedAll \/ Terminate \/ StopNext \/ Join
  PROVE  CountInv' /\ VerdictInv'
<1>0. TypeOK /\ ScopeInv /\ CountInv /\ VerdictInv /\ N \in Nat
  BY NAssumption DEF IInv, VInv
<1>1. UNCHANGED <<sent, read, installs, ready, drained, outcome>>
  BY DEF Start, StartFails, TakeSignal, Notify, ControlFails, Draining, HandedOff, Return,
     StoppedAll, Terminate, StopNext, Join, mainFrame, control, busVars, workerVars, entryVars
<1>2. /\ \A e \in Event : HasRead(e)' = HasRead(e)
      /\ \A w \in Workers : Sent(w)' = Sent(w)
  BY <1>1 DEF HasRead, Sent
<1>3. HasRead("Installed")' = HasRead("Installed") /\ HasRead("Ready")' = HasRead("Ready")
      /\ HasRead("Drain")' = HasRead("Drain")
  BY <1>2 DEF Event
<1>4. CASE Start \/ StartFails \/ TakeSignal
  <2>1. CountInv'
    BY <1>0, <1>1, <1>3, <1>4 DEF CountInv, Start, StartFails, TakeSignal, supervising, control
  <2>2. VerdictInv'
    BY <1>0, <1>2, <1>4 DEF VerdictInv, CountInv, ScopeInv, Start, StartFails, TakeSignal,
       supervising, control, mainFrame
  <2> QED BY <2>1, <2>2
<1>5. CASE Notify \/ ControlFails
  <2>1. CountInv'
    BY <1>0, <1>1, <1>3, <1>5 DEF CountInv, Notify, ControlFails, afterFailure
  <2>2. VerdictInv'
    BY <1>0, <1>2, <1>5 DEF VerdictInv, Notify, ControlFails, afterFailure, mainFrame
  <2> QED BY <2>1, <2>2
<1>6. CASE Draining
  <2>1. CountInv'
    BY <1>0, <1>1, <1>3, <1>6 DEF CountInv, Draining
  <2>2. VerdictInv'
    BY <1>0, <1>2, <1>6 DEF VerdictInv, Draining, mainFrame
  <2> QED BY <2>1, <2>2
<1>7. CASE StoppedAll
  <2>1. CountInv'
    BY <1>0, <1>1, <1>3, <1>7 DEF CountInv, StoppedAll, control
  <2>2. VerdictInv'
    BY <1>0, <1>2, <1>7 DEF VerdictInv, StoppedAll, control, mainFrame
  <2> QED BY <2>1, <2>2
<1>8. CASE HandedOff \/ Return
  <2>1. CountInv'
    BY <1>0, <1>1, <1>8 DEF CountInv, HandedOff, Return, control
  <2>2. VerdictInv'
    BY <1>0, <1>1, <1>2, <1>8 DEF VerdictInv, HandedOff, Return, control, mainFrame, Workers
  <2> QED BY <2>1, <2>2
<1>9. CASE Terminate
  <2>1. CountInv'
    BY <1>0, <1>1, <1>3, <1>9 DEF CountInv, Terminate, control
  <2>2. VerdictInv'
    BY <1>0, <1>1, <1>2, <1>9 DEF VerdictInv, Terminate, control
  <2> QED BY <2>1, <2>2
<1>10. CASE StopNext
  <2>1. CountInv'
    BY <1>0, <1>1, <1>3, <1>10 DEF CountInv, StopNext, control
  <2>2. VerdictInv'
    BY <1>0, <1>2, <1>10 DEF VerdictInv, StopNext, control, mainFrame
  <2> QED BY <2>1, <2>2
<1>11. CASE Join
  <2>1. CountInv'
    BY <1>0, <1>1, <1>11 DEF CountInv, Join, control
  <2>2. ASSUME NEW w \in Workers, w < idx', w \notin failures'
        PROVE  outcome[w] = "Done" /\ handoff[w] = "none"
    <3>1. /\ pc = "join" /\ idx' = idx + 1 /\ idx \in Nat /\ w \in Nat
          /\ failures' = IF Reported(outcome[idx], handoff[idx])
                           THEN failures \cup {idx} ELSE failures
      BY <1>0, <1>11 DEF Join, TypeOK, Workers
    <3>2. CASE w = idx
      BY <2>2, <3>1, <3>2 DEF Reported
    <3>3. CASE w # idx
      <4>1. w < idx /\ w \notin failures
        BY <2>2, <3>1, <3>3
      <4> QED BY <3>1, <4>1, <1>0 DEF VerdictInv
    <3> QED BY <3>2, <3>3
  <2>3. VerdictInv'
    BY <1>0, <1>1, <1>2, <1>11, <2>2 DEF VerdictInv, Join, control, mainFrame
  <2> QED BY <2>1, <2>3
<1> QED BY <1>4, <1>5, <1>6, <1>7, <1>8, <1>9, <1>10, <1>11

\* A record or what else main reads.
LEMMA RecvReads ==
  ASSUME IInv, NEW w \in Workers, NEW e \in Recv(w), Consume(w, e), e \in Event
  PROVE  /\ read[w] < Len(sent[w]) /\ e = sent[w][read[w] + 1]
         /\ read' = [read EXCEPT ![w] = @ + 1]
BY DEF Recv, Consume, Event

\* Whatever main does not expect gives a cause.
LEMMA AccuseGives ==
  ASSUME NEW w, NEW e, NEW u \in Causes \ {"none"}, Accuse(w, e, u)
  PROVE  cause' # "none"
<1>1. cause' = IF e = "Failed" THEN "WorkerFailed"
               ELSE IF e \in {"Closed", "Syscall"} THEN "BusRead" ELSE u
  BY DEF Accuse
<1> QED BY <1>1

\* Steps of main that read records.
LEMMA ReadingMainKeepsVerdict ==
  ASSUME IInv, VInv, NEW w \in Workers,
         WaitReady(w) \/ Observe(w) \/ Drain(w) \/ WaitDone(w)
  PROVE  CountInv' /\ VerdictInv'
<1>0. TypeOK /\ ScopeInv /\ CountInv /\ VerdictInv /\ N \in Nat
  BY NAssumption DEF IInv, VInv
<1>1. UNCHANGED <<sent, outcome, signal, started, clock, stopErr, handoff, failures, idx>>
  BY DEF WaitReady, Observe, Drain, WaitDone, mainFrame, workerVars, entryVars
<1>2. \A v \in Workers : Sent(v)' = Sent(v)
  BY <1>1 DEF Sent
<1>3. CASE cause' # "none" /\ pc' \in {"stop", "handoff"}
  BY <1>3 DEF CountInv, VerdictInv
<1>4. CASE Observe(w)
  <2>1. PICK e \in Recv(w) : Accuse(w, e, "RuntimeEvent")
    BY <1>4 DEF Observe
  <2>2. cause' # "none"
    BY <2>1, AccuseGives DEF Causes
  <2> QED BY <1>3, <1>4, <2>2 DEF Observe
<1>5. CASE WaitReady(w)
  <2>1. PICK e \in Recv(w) :
          /\ Consume(w, e)
          /\ \/ /\ \/ /\ e = "Installed" /\ installs # 0
                      /\ installs' = installs - 1
                      /\ UNCHANGED ready
                   \/ /\ e = "Ready" /\ ready # 0
                      /\ ready' = ready - 1
                      /\ UNCHANGED installs
                /\ pc' = IF StartupComplete(installs', ready') THEN startupDone
                                                              ELSE "ready"
                /\ UNCHANGED <<cause, target>>
             \/ /\ Accuse(w, e, "StartupEvent")
                /\ pc' = "stop"
    BY <1>5 DEF WaitReady
  <2>2. pc = "ready" /\ cause = "none" /\ UNCHANGED drained
    BY <1>0, <1>5 DEF WaitReady, CountInv
  <2>3. CASE Accuse(w, e, "StartupEvent") /\ pc' = "stop"
    <3>1. cause' # "none"
      BY <2>3, AccuseGives DEF Causes
    <3> QED BY <1>3, <2>3, <3>1
  <2>4. CASE pc' \in {"ready", "notify", "observe"} /\ cause' = cause
             /\ (pc' # "ready" => installs' = 0 /\ ready' = 0)
             /\ e \in {"Installed", "Ready"}
    <3>1. /\ installs \in Nat /\ ready \in Nat
          /\ installs + Cardinality(HasRead("Installed")) = N
          /\ ready + Cardinality(HasRead("Ready")) = (IF Gated THEN N ELSE 0)
          /\ drained = Cardinality(HasRead("Drain"))
      BY <1>0, <2>2 DEF CountInv, TypeOK
    <3>2. /\ read[w] < Len(sent[w]) /\ e = sent[w][read[w] + 1] /\ e \in Event
          /\ read' = [read EXCEPT ![w] = @ + 1]
      BY <2>1, <2>4, RecvReads DEF Event
    <3>3. /\ Cardinality(HasRead(e)') = Cardinality(HasRead(e)) + 1
          /\ \A f \in Event \ {e} : HasRead(f)' = HasRead(f)
      BY <1>1, <3>2, ReadOne
    <3>4. /\ Cardinality(HasRead("Installed")) \in Nat
          /\ Cardinality(HasRead("Ready")) \in Nat
      BY ReadersFinite
    <3>5. HasRead("Drain")' = HasRead("Drain")
      BY <2>4, <3>3 DEF Event
    <3>6. CASE e = "Installed"
      <4>1. installs' = installs - 1 /\ ready' = ready
        BY <2>1, <2>4, <3>6
      <4>2. /\ HasRead("Ready")' = HasRead("Ready")
            /\ Cardinality(HasRead("Installed")') = Cardinality(HasRead("Installed")) + 1
        BY <3>3, <3>6 DEF Event
      <4>3. installs' + Cardinality(HasRead("Installed")') = N
        BY <3>1, <3>4, <4>1, <4>2
      <4> QED BY <1>0, <2>2, <2>4, <3>1, <3>5, <4>1, <4>2, <4>3 DEF CountInv, VerdictInv
    <3>7. CASE e = "Ready"
      <4>1. ready' = ready - 1 /\ installs' = installs
        BY <2>1, <2>4, <3>7
      <4>2. /\ HasRead("Installed")' = HasRead("Installed")
            /\ Cardinality(HasRead("Ready")') = Cardinality(HasRead("Ready")) + 1
        BY <3>3, <3>7 DEF Event
      <4>3. ready' + Cardinality(HasRead("Ready")') = (IF Gated THEN N ELSE 0)
        BY <3>1, <3>4, <4>1, <4>2, <1>0
      <4> QED BY <1>0, <2>2, <2>4, <3>1, <3>5, <4>1, <4>2, <4>3 DEF CountInv, VerdictInv
    <3> QED BY <2>4, <3>6, <3>7
  <2> QED BY <2>1, <2>3, <2>4 DEF StartupComplete, startupDone
<1>6. CASE Drain(w)
  <2>1. PICK e \in Recv(w) :
          /\ Consume(w, e)
          /\ drained' = DrainedWith(e)
          /\ \/ (\E u \in {"DrainEvent", "DrainOrder"} : Accuse(w, e, u)) /\ pc' = "handoff"
             \/ /\ e \in {"Drain", "Done"}
                /\ pc' = IF drained' = N THEN "draining" ELSE "drain"
                /\ UNCHANGED <<cause, target>>
    BY <1>6 DEF Drain
  <2>2. pc = "drain" /\ cause = "none" /\ UNCHANGED <<installs, ready>>
    BY <1>0, <1>6 DEF Drain, CountInv
  <2>3. CASE (\E u \in {"DrainEvent", "DrainOrder"} : Accuse(w, e, u)) /\ pc' = "handoff"
    <3>1. cause' # "none"
      BY <2>3, AccuseGives DEF Causes
    <3> QED BY <1>3, <2>3, <3>1
  <2>4. CASE /\ e \in {"Drain", "Done"} /\ UNCHANGED cause
             /\ pc' = IF drained' = N THEN "draining" ELSE "drain"
    <3>1. /\ read[w] < Len(sent[w]) /\ e = sent[w][read[w] + 1] /\ e \in Event
          /\ read' = [read EXCEPT ![w] = @ + 1]
      BY <2>1, <2>4, RecvReads DEF Event
    <3>2. /\ Cardinality(HasRead(e)') = Cardinality(HasRead(e)) + 1
          /\ \A f \in Event \ {e} : HasRead(f)' = HasRead(f)
      BY <1>1, <3>1, ReadOne
    <3>3. HasRead("Installed")' = HasRead("Installed") /\ HasRead("Ready")' = HasRead("Ready")
      BY <2>4, <3>2 DEF Event
    <3>4. drained = Cardinality(HasRead("Drain"))
      BY <1>0, <2>2 DEF CountInv
    <3>5. drained' = Cardinality(HasRead("Drain")')
      <4>1. CASE e = "Drain"
        BY <2>1, <3>2, <3>4, <4>1 DEF DrainedWith
      <4>2. CASE e = "Done"
        BY <2>1, <3>2, <3>4, <4>2 DEF DrainedWith, Event
      <4> QED BY <2>4, <4>1, <4>2
    <3>6. CountInv'
      BY <1>0, <2>2, <2>4, <3>3, <3>5 DEF CountInv
    <3>7. ASSUME pc' = "draining" PROVE \A v \in Workers : "Drain" \in Sent(v)'
      <4>1. drained' = N
        BY <2>4, <3>7
      <4>2. IInv'
        BY <1>6, MainPreserves DEF MainNext
      <4>3. HasRead("Drain")' = Workers
        <5>1. /\ IsFiniteSet(Workers) /\ Cardinality(Workers) = N
              /\ HasRead("Drain")' \in SUBSET Workers
          BY ReadersFinite DEF HasRead
        <5> QED BY <4>1, <3>5, <5>1, FS_Subset
      <4>4. ASSUME NEW v \in Workers PROVE "Drain" \in Sent(v)'
        <5>1. v \in HasRead("Drain")'
          BY <4>3
        <5>2. PICK i \in 1..read'[v] : sent'[v][i] = "Drain"
          BY <5>1 DEF HasRead
        <5>3. read'[v] <= Len(sent'[v]) /\ read'[v] \in Nat /\ Len(sent'[v]) \in Nat
          BY <4>2 DEF IInv, MainInv, TypeOK
        <5>4. i \in 1..Len(sent'[v])
          BY <5>3
        <5> QED BY <5>2, <5>4 DEF Sent
      <4> QED BY <4>4
    <3>8. VerdictInv'
      BY <1>0, <1>1, <1>2, <2>2, <2>4, <3>7 DEF VerdictInv
    <3> QED BY <3>6, <3>8
  <2> QED BY <2>1, <2>3, <2>4
<1>7. CASE WaitDone(w)
  <2>1. PICK e \in Recv(w) :
          /\ Consume(w, e)
          /\ \/ e = "Done" /\ pc' \in {"handoff", "done"} /\ UNCHANGED cause
             \/ Accuse(w, e, "ShutdownEvent") /\ pc' = "handoff"
    BY <1>7 DEF WaitDone
  <2>2. pc = "done" /\ cause = "none" /\ UNCHANGED <<installs, ready, drained>>
    BY <1>0, <1>7 DEF WaitDone, CountInv
  <2>3. CASE Accuse(w, e, "ShutdownEvent") /\ pc' = "handoff"
    <3>1. cause' # "none"
      BY <2>3, AccuseGives DEF Causes
    <3> QED BY <1>3, <2>3, <3>1
  <2>4. CASE e = "Done" /\ pc' \in {"handoff", "done"} /\ UNCHANGED cause
    <3>1. /\ read[w] < Len(sent[w]) /\ e = sent[w][read[w] + 1] /\ e \in Event
          /\ read' = [read EXCEPT ![w] = @ + 1]
      BY <2>1, <2>4, RecvReads DEF Event
    <3>2. \A f \in Event \ {e} : HasRead(f)' = HasRead(f)
      BY <1>1, <3>1, ReadOne
    <3>3. HasRead("Installed")' = HasRead("Installed") /\ HasRead("Ready")' = HasRead("Ready")
          /\ HasRead("Drain")' = HasRead("Drain")
      BY <2>4, <3>2 DEF Event
    <3>4. CountInv'
      BY <1>0, <2>2, <2>4, <3>3 DEF CountInv
    <3>5. VerdictInv'
      BY <1>0, <1>1, <1>2, <2>2, <2>4 DEF VerdictInv
    <3> QED BY <3>4, <3>5
  <2> QED BY <2>1, <2>3, <2>4
<1> QED BY <1>4, <1>5, <1>6, <1>7

\* Every step of main keeps its counts and findings true.
LEMMA MainKeepsVerdict ==
  ASSUME IInv, VInv, MainNext \/ ControlFails \/ Terminate
  PROVE  VInv'
<1>1. CASE Handoff
  <2>1. /\ pc = "handoff" /\ pc' = pc
        /\ UNCHANGED <<sent, cause, signal, started, clock, stopErr>>
    BY <1>1 DEF Handoff, control, mainFrame
  <2>2. \A w \in Workers : Sent(w)' = Sent(w)
    BY <2>1 DEF Sent
  <2> QED BY <1>1, <2>1, <2>2 DEF VInv, CountInv, VerdictInv, OutcomeInv, Handoff, mainFrame,
             workerVars, entryVars
<1>2. CASE ~Handoff
  <2>1. CountInv' /\ VerdictInv'
    BY <1>2, SilentMainKeepsVerdict, ReadingMainKeepsVerdict DEF MainNext
  <2>2. UNCHANGED <<sent, phase, output, outcome>>
    BY DEF MainNext, Start, StartFails, TakeSignal, Notify, ControlFails, Draining, HandedOff,
       Return, StoppedAll, Terminate, StopNext, Join, WaitReady, Observe, Drain, WaitDone,
       Handoff, mainFrame, control, busVars, workerVars, entryVars
  <2>3. \A w \in Workers : wpc'[w] = wpc[w] \/ wpc'[w] = "bind"
    <3>1. CASE Start
      BY <3>1 DEF Start, IInv, TypeOK
    <3>2. CASE ~Start
      BY <3>2 DEF MainNext, StartFails, TakeSignal, Notify, ControlFails, Draining, HandedOff,
         Return, StoppedAll, Terminate, StopNext, Join, WaitReady, Observe, Drain, WaitDone,
         Handoff, mainFrame, workerVars, entryVars
    <3> QED BY <3>1, <3>2
  <2>4. \A w \in Workers : Sent(w)' = Sent(w)
    BY <2>2 DEF Sent
  <2>5. ASSUME NEW w \in Workers PROVE OutcomeInv(w)'
    BY <2>2, <2>3, <2>4 DEF VInv, OutcomeInv
  <2> QED BY <2>1, <2>5 DEF VInv
<1> QED BY <1>1, <1>2

-----------------------------------------------------------------------------
(* The theorems.                                                           *)

\* The first state.
LEMMA VerdictStarts == Init => VInv
<1> SUFFICES ASSUME Init PROVE VInv
  OBVIOUS
<1>1. N \in Nat
  BY NAssumption
<1>2. \A e \in Event : HasRead(e) = {}
  BY DEF Init, HasRead
<1>3. /\ Cardinality(HasRead("Installed")) = 0 /\ Cardinality(HasRead("Ready")) = 0
      /\ Cardinality(HasRead("Drain")) = 0
  BY <1>2, FS_EmptySet DEF Event
<1>4. CountInv
  BY <1>1, <1>3 DEF Init, CountInv
<1>5. VerdictInv
  BY DEF Init, VerdictInv
<1>6. ASSUME NEW w \in Workers PROVE OutcomeInv(w)
  BY DEF Init, OutcomeInv
<1> QED BY <1>4, <1>5, <1>6 DEF VInv

\* Every step.
LEMMA VerdictStep == IInv /\ VInv /\ [Next]_vars => VInv'
<1> SUFFICES ASSUME IInv, VInv, [Next]_vars PROVE VInv'
  OBVIOUS
<1>1. CASE MainNext \/ ControlFails \/ Terminate
  BY <1>1, MainKeepsVerdict
<1>2. ASSUME NEW w \in Workers, WorkerNext(w) PROVE VInv'
  BY <1>2, WorkerKeepsVerdict
<1>3. CASE UNCHANGED vars
  <2>1. UNCHANGED <<pc, started, idx, installs, ready, drained, clock, cause, stopErr, handoff,
                    failures, signal, sent, read, wpc, phase, output, outcome>>
    BY <1>3 DEF vars, mainVars, control, busVars, workerVars, entryVars
  <2>2. /\ HasRead("Installed")' = HasRead("Installed") /\ HasRead("Ready")' = HasRead("Ready")
        /\ HasRead("Drain")' = HasRead("Drain")
    BY <2>1 DEF HasRead
  <2>3. \A w \in Workers : Sent(w)' = Sent(w)
    BY <2>1 DEF Sent
  <2>4. CountInv'
    BY <2>1, <2>2 DEF VInv, CountInv
  <2>5. VerdictInv'
    BY <2>1, <2>3 DEF VInv, VerdictInv
  <2>6. ASSUME NEW w \in Workers PROVE OutcomeInv(w)'
    BY <2>1, <2>3 DEF VInv, OutcomeInv
  <2> QED BY <2>4, <2>5, <2>6 DEF VInv
<1> QED BY <1>1, <1>2, <1>3 DEF Next, Returned

\* Both invariants hold throughout.
LEMMA VerdictInvariance == Spec => [](IInv /\ VInv)
BY InitEstablishes, StepPreserves, VerdictStarts, VerdictStep, PTL DEF Spec

\* Control::wait_ready and Finish::drain count records over all workers
\* together; still notify.ready() comes only when every single worker is
\* installed and ready, and heartbeat.draining() only when every one drained.
THEOREM CountsAreWorkers == Spec => []CountsMeanEveryWorker
<1>1. IInv /\ VInv => CountsMeanEveryWorker
  <2> SUFFICES ASSUME IInv, VInv, NEW w \in Workers
               PROVE  /\ pc \in {"observe", "notify", "drive"} =>
                           "Installed" \in Sent(w) /\ (Gated => "Ready" \in Sent(w))
                      /\ Gated /\ pc \in {"draining", "done"} => "Drain" \in Sent(w)
    BY DEF CountsMeanEveryWorker
  <2>0. CountInv
    BY DEF VInv
  <2>1. ASSUME NEW e, Cardinality(HasRead(e)) = N PROVE e \in Sent(w)
    <3>1. w \in HasRead(e)
      BY <2>1, ReadersFinite
    <3> QED BY <3>1, ReadWasSent
  <2>2. ASSUME pc \in {"observe", "notify", "drive"}
        PROVE  "Installed" \in Sent(w) /\ (Gated => "Ready" \in Sent(w))
    <3>1. /\ 0 + Cardinality(HasRead("Installed")) = N
          /\ 0 + Cardinality(HasRead("Ready")) = (IF Gated THEN N ELSE 0)
      BY <2>0, <2>2 DEF CountInv
    <3>2. /\ Cardinality(HasRead("Installed")) \in Nat
          /\ Cardinality(HasRead("Ready")) \in Nat
      BY ReadersFinite
    <3> QED BY <3>1, <3>2, <2>1
  <2>3. ASSUME Gated, pc \in {"draining", "done"} PROVE "Drain" \in Sent(w)
    <3>1. Cardinality(HasRead("Drain")) = N
      BY <2>0, <2>3 DEF CountInv
    <3> QED BY <3>1, <2>1
  <2> QED BY <2>2, <2>3
<1> QED BY <1>1, VerdictInvariance, PTL

\* What main knows when it returns is enough for its verdict.
LEMMA HonestInvariant == IInv /\ VInv => OkIsHonest
<1> SUFFICES ASSUME IInv, VInv, pc = "returned", Ok
             PROVE  /\ signal /\ started = N
                    /\ \A w \in Workers :
                         /\ output[w] = "Ok" /\ outcome[w] = "Done" /\ ~fault[w]
                         /\ sent[w] # <<>> /\ sent[w][Len(sent[w])] = "Done"
                         /\ "Installed" \in Sent(w)
                         /\ Gated /\ clock => "Drain" \in Sent(w)
  BY DEF OkIsHonest
<1>1. cause = "none" /\ ~stopErr /\ failures = {}
  BY DEF Ok
<1>2. signal /\ started = N
  BY <1>1 DEF VInv, VerdictInv
<1>3. ASSUME NEW w \in Workers
      PROVE  /\ output[w] = "Ok" /\ outcome[w] = "Done" /\ ~fault[w]
             /\ sent[w] # <<>> /\ sent[w][Len(sent[w])] = "Done"
             /\ "Installed" \in Sent(w)
  <2>1. w < idx
    BY <1>2, NAssumption DEF IInv, ScopeInv, Workers
  <2>2. outcome[w] = "Done"
    BY <1>1, <2>1 DEF VInv, VerdictInv
  <2>3. output[w] = "Ok" /\ phase[w] # "New"
    BY <2>2 DEF VInv, OutcomeInv
  <2>4. ~fault[w] /\ phase[w] # "Failed" /\ Len(sent[w]) > 0 /\ sent[w][Len(sent[w])] = "Done"
    BY <2>2 DEF IInv, WorkerInv, Quiet
  <2>5. sent[w] # <<>>
    BY <2>4
  <2>6. "Installed" \in Sent(w)
    BY <2>3, <2>4 DEF IInv, TypeOK, VInv, OutcomeInv
  <2> QED BY <2>2, <2>3, <2>4, <2>5, <2>6
<1>4. Gated /\ clock => \A w \in Workers : "Drain" \in Sent(w)
  BY <1>1 DEF VInv, VerdictInv
<1> QED BY <1>2, <1>3, <1>4

\* Error::finish: an Ok verdict means that SIGTERM arrived, every worker ran
\* to an Ok entry without a failed write, wrote Done last, was installed, and
\* drained if readiness had been announced.
THEOREM OkVerdictIsHonest == Spec => []OkIsHonest
BY HonestInvariant, VerdictInvariance, PTL
-----------------------------------------------------------------------------
(* A run without faults.                                                   *)

\* A worker that has not installed anything yet.
Early(w) == wpc[w] \in {"idle", "bind", "built"}

\* The record that may stand behind another one when nothing fails.
Succeeds(p, e) ==
  \/ p = "Installed" /\ e = "Done"
  \/ Gated /\ <<p, e>> \in {<<"Installed", "Ready">>, <<"Ready", "Drain">>, <<"Drain", "Done">>}

\* The last record of a worker says how far it came.
LastRecord(w) ==
  IF wpc[w] \in {"closing", "exited"} THEN "Done"
  ELSE IF gate[w] = "closed" THEN "Installed"
  ELSE IF gate[w] = "open" THEN "Ready" ELSE "Drain"

\* The records of a worker that nothing failed for.
CalmRecords(w) ==
  IF Early(w) THEN sent[w] = <<>>
  ELSE /\ Len(sent[w]) > 0 /\ sent[w][1] = "Installed"
       /\ sent[w][Len(sent[w])] = LastRecord(w)
       /\ \A i \in 2..Len(sent[w]) : Succeeds(sent[w][i - 1], sent[w][i])

\* The worker itself: it goes on until it is stopped, finishes its gate, and
\* its bus is open until its thread has ended.
CalmWorker(w) ==
  /\ ~fault[w] /\ phase[w] = (IF Early(w) THEN "New" ELSE "Installed")
  /\ wshut[w] \/ ~mopen[w] => wpc[w] = "exited"
  /\ wpc[w] \in {"stopping", "finish", "closing", "exited"} => stopped[w]
  /\ \/ gate[w] = "closed"
     \/ Gated /\ gate[w] = "open" /\ wpc[w] \in {"running", "stopping"}
     \/ Gated /\ gate[w] = "finished" /\ wpc[w] \in {"stopping", "finish", "closing", "exited"}
  /\ wpc[w] \in {"finish", "closing", "exited"} => output[w] = "Ok"
  /\ wpc[w] \in {"closing", "exited"} => outcome[w] = "Done"

\* Main has no reason to give up and finds none.
CalmMain ==
  /\ cause = "none" /\ target = NoWorker /\ ~stopErr /\ failures = {}
  /\ \A w \in Workers : handoff[w] = "none"
  /\ clock => installs = 0 /\ ready = 0
  /\ pc \in {"drain", "draining", "done"} => clock
  /\ pc = "drain" => Gated
  /\ pc \notin {"handoff", "join", "returned"} => done = Cardinality(HasRead("Done"))
  /\ clock /\ pc = "handoff" => HasRead("Done") = Workers
  /\ pc \in {"spawn", "ready", "observe", "notify", "drive"} =>
       ~clock /\ \A w \in Workers : ~stopped[w]

CalmInv ==
  /\ CalmMain
  /\ \A w \in Workers : CalmWorker(w) /\ CalmRecords(w)

\* Without faults a record is always written: the bus is open as long as the
\* thread runs.
LEMMA CalmSend ==
  ASSUME Faults = {}, TypeOK, NEW w \in Workers, CalmWorker(w), wpc[w] # "exited",
         NEW e \in Event \ {"Failed"}, Send(w, e)
  PROVE  /\ sent'[w] = Append(sent[w], e) /\ ~fault'[w] /\ ~wshut'[w]
         /\ phase'[w] = (IF e = "Installed" THEN "Installed" ELSE phase[w])
<1>1. mopen[w] /\ ~Quiet(w)
  BY DEF CalmWorker, Quiet
<1>2. PICK wrote \in BOOLEAN, cut \in BOOLEAN : Write(w, e, wrote, cut)
  BY <1>1 DEF Send
<1>3. wrote
  BY <1>1, <1>2 DEF Write
<1>4. cut
  BY <1>2, <1>3 DEF Write
<1>5. sent'[w] = Append(sent[w], e) /\ ~fault'[w] /\ ~wshut'[w]
  BY <1>2, <1>3, <1>4 DEF Write, TypeOK
<1>6. phase'[w] = CASE e = "Failed" -> "Failed"
                    [] e = "Installed" /\ wrote -> "Installed"
                    [] OTHER -> phase[w]
  BY <1>2 DEF Write, TypeOK
<1>7. phase'[w] = (IF e = "Installed" THEN "Installed" ELSE phase[w])
  BY <1>3, <1>6
<1> QED BY <1>5, <1>7

\* A record that may follow the last one keeps the records in order.
LEMMA CalmAppend ==
  ASSUME TypeOK, NEW w \in Workers, CalmRecords(w), NEW e \in Event,
         sent'[w] = Append(sent[w], e), ~Early(w)', LastRecord(w)' = e,
         IF Early(w) THEN e = "Installed" ELSE Succeeds(LastRecord(w), e)
  PROVE  CalmRecords(w)'
<1>1. sent[w] \in Seq(Event)
  BY DEF TypeOK
<1>2. /\ Len(sent[w]) \in Nat /\ Len(sent'[w]) = Len(sent[w]) + 1
      /\ sent'[w][Len(sent[w]) + 1] = e
      /\ \A i \in 1..Len(sent[w]) : sent'[w][i] = sent[w][i]
  BY <1>1
<1>3. CASE Early(w)
  <2>1. Len(sent[w]) = 0
    BY <1>3 DEF CalmRecords
  <2>2. Len(sent'[w]) = 1 /\ sent'[w][1] = e /\ e = "Installed"
    BY <1>2, <1>3, <2>1
  <2>3. 2..Len(sent'[w]) = {}
    BY <2>2
  <2> QED BY <2>2, <2>3 DEF CalmRecords
<1>4. CASE ~Early(w)
  <2>1. /\ Len(sent[w]) > 0 /\ sent[w][1] = "Installed"
        /\ sent[w][Len(sent[w])] = LastRecord(w)
        /\ \A i \in 2..Len(sent[w]) : Succeeds(sent[w][i - 1], sent[w][i])
    BY <1>4 DEF CalmRecords
  <2>2. Len(sent'[w]) > 0 /\ sent'[w][1] = "Installed" /\ sent'[w][Len(sent'[w])] = LastRecord(w)'
    BY <1>2, <2>1
  <2>3. ASSUME NEW i \in 2..Len(sent'[w]) PROVE Succeeds(sent'[w][i - 1], sent'[w][i])
    <3>1. CASE i \in 2..Len(sent[w])
      <4>1. i - 1 \in 1..Len(sent[w]) /\ i \in 1..Len(sent[w])
        BY <1>2, <3>1
      <4> QED BY <1>2, <2>1, <3>1, <4>1
    <3>2. CASE i = Len(sent[w]) + 1
      <4>1. i - 1 = Len(sent[w]) /\ i - 1 \in 1..Len(sent[w])
        BY <1>2, <2>1, <3>2
      <4> QED BY <1>2, <1>4, <2>1, <3>2, <4>1
    <3> QED BY <1>2, <2>3, <3>1, <3>2
  <2>4. \A i \in 2..Len(sent'[w]) : Succeeds(sent[w][i - 1], sent[w][i])'
    BY <2>3 DEF Succeeds
  <2> QED BY <2>2, <2>4 DEF CalmRecords
<1> QED BY <1>3, <1>4

\* Every step of a worker is one that nothing fails in.
LEMMA WorkerStaysCalm ==
  ASSUME Faults = {}, IInv, CalmInv, NEW w \in Workers, WorkerNext(w)
  PROVE  CalmWorker(w)' /\ CalmRecords(w)'
<1>1. TypeOK /\ WorkerStep(w) /\ CalmWorker(w) /\ CalmRecords(w)
  BY WorkerShape DEF IInv, CalmInv
<1>2. UNCHANGED <<stopped, mopen>>
  BY <1>1 DEF WorkerStep
<1>3. CASE Bind(w) \/ ObserveStop(w) \/ ReturnOk(w) \/ Close(w)
  <2>1. UNCHANGED <<sent, phase, fault, outcome, gate>>
    BY <1>3 DEF Bind, ObserveStop, ReturnOk, Close
  <2>2. /\ wshut'[w] => wpc'[w] = "exited" \/ wshut[w]
        /\ \/ Early(w) /\ Early(w)' /\ output'[w] = output[w]
           \/ wpc[w] = "running" /\ wpc'[w] = "stopping" /\ output'[w] = output[w]
           \/ wpc[w] = "stopping" /\ wpc'[w] = "finish" /\ output'[w] = "Ok" /\ gate[w] # "open"
           \/ wpc[w] = "closing" /\ wpc'[w] = "exited" /\ output'[w] = output[w]
    BY <1>1, <1>3 DEF Bind, ObserveStop, ReturnOk, Close, TypeOK, Early
  <2>3. ObserveStop(w) => stopped[w]
    BY <1>1 DEF ObserveStop, CalmWorker
  <2>4. wpc[w] = "running" => stopped[w]
    BY <1>3, <2>3 DEF Bind, ReturnOk, Close
  <2>5. CalmWorker(w)'
    BY <1>1, <1>2, <2>1, <2>2, <2>4 DEF CalmWorker, Early
  <2>6. Early(w)' = Early(w) /\ LastRecord(w)' = LastRecord(w)
    BY <2>1, <2>2 DEF Early, LastRecord
  <2>7. CalmRecords(w)'
    BY <1>1, <2>1, <2>6 DEF CalmRecords, Succeeds
  <2> QED BY <2>5, <2>7
<1>4. CASE BindFails(w) \/ BuildFails(w) \/ TerminalFail(w) \/ ReturnErr(w)
  BY <1>1, <1>4 DEF BindFails, BuildFails, TerminalFail, ReturnErr, CalmWorker
<1>5. CASE OpenGate(w)
  <2>1. /\ Send(w, "Ready") /\ wpc[w] = "running" /\ Gated /\ gate[w] = "closed"
        /\ UNCHANGED <<wpc, output, outcome>>
    BY <1>5 DEF OpenGate
  <2>2. /\ sent'[w] = Append(sent[w], "Ready") /\ ~fault'[w] /\ ~wshut'[w] /\ phase'[w] = phase[w]
    BY <1>1, <2>1, CalmSend DEF Event
  <2>3. gate'[w] = "open"
    BY <1>1, <1>5, <2>2 DEF OpenGate, TypeOK
  <2>4. CalmWorker(w)'
    BY <1>1, <1>2, <2>1, <2>2, <2>3 DEF CalmWorker, Early
  <2>5. ~Early(w) /\ ~Early(w)' /\ LastRecord(w) = "Installed" /\ LastRecord(w)' = "Ready"
    BY <2>1, <2>3 DEF Early, LastRecord
  <2>6. CalmRecords(w)'
    BY <1>1, <2>1, <2>2, <2>5, CalmAppend DEF Event, Succeeds
  <2> QED BY <2>4, <2>6
<1>6. CASE FinishGate(w)
  <2>1. /\ Send(w, "Drain") /\ wpc[w] = "stopping" /\ gate[w] = "open" /\ Gated
        /\ gate'[w] = "finished" /\ UNCHANGED <<wpc, output, outcome>>
    BY <1>1, <1>6 DEF FinishGate, CalmWorker, TypeOK
  <2>2. /\ sent'[w] = Append(sent[w], "Drain") /\ ~fault'[w] /\ ~wshut'[w] /\ phase'[w] = phase[w]
    BY <1>1, <2>1, CalmSend DEF Event
  <2>4. CalmWorker(w)'
    BY <1>1, <1>2, <2>1, <2>2 DEF CalmWorker, Early
  <2>5. ~Early(w) /\ ~Early(w)' /\ LastRecord(w) = "Ready" /\ LastRecord(w)' = "Drain"
    BY <2>1 DEF Early, LastRecord
  <2>6. CalmRecords(w)'
    BY <1>1, <2>1, <2>2, <2>5, CalmAppend DEF Event, Succeeds
  <2> QED BY <2>4, <2>6
<1>7. CASE Finish(w)
  <2>1. /\ wpc[w] = "finish" /\ output[w] = "Ok" /\ Send(w, "Done") /\ UNCHANGED <<gate, output>>
        /\ wpc'[w] = "closing"
    BY <1>1, <1>7 DEF Finish, CalmWorker, TypeOK
  <2>2. /\ sent'[w] = Append(sent[w], "Done") /\ ~fault'[w] /\ ~wshut'[w] /\ phase'[w] = phase[w]
    BY <1>1, <2>1, CalmSend DEF Event
  <2>3. phase[w] = "Installed"
    BY <1>1, <2>1 DEF CalmWorker, Early
  <2>4. outcome'[w] = "Done"
    BY <1>1, <1>7, <2>1, <2>2, <2>3 DEF Finish, Clean, TypeOK
  <2>5. CalmWorker(w)'
    BY <1>1, <1>2, <2>1, <2>2, <2>3, <2>4 DEF CalmWorker, Early
  <2>6. ~Early(w) /\ ~Early(w)' /\ LastRecord(w)' = "Done"
    BY <2>1 DEF Early, LastRecord
  <2>7. LastRecord(w) = "Installed" \/ (LastRecord(w) = "Drain" /\ Gated)
    BY <1>1, <2>1 DEF LastRecord, CalmWorker
  <2>8. CalmRecords(w)'
    BY <1>1, <2>2, <2>6, <2>7, CalmAppend DEF Event, Succeeds
  <2> QED BY <2>5, <2>8
<1>8. CASE Install(w)
  <2>1. /\ SendInstalled(w) /\ UNCHANGED <<gate, outcome>> /\ wpc[w] \in {"built", "running"}
        /\ wpc'[w] = (IF fault'[w] THEN "finish" ELSE "running")
    BY <1>1, <1>8 DEF Install, TypeOK
  <2>2. CASE phase[w] = "New" /\ Send(w, "Installed")
    <3>1. /\ sent'[w] = Append(sent[w], "Installed") /\ ~fault'[w] /\ ~wshut'[w]
          /\ phase'[w] = "Installed"
      BY <1>1, <2>1, <2>2, CalmSend DEF Event
    <3>2. wpc[w] = "built" /\ wpc'[w] = "running" /\ gate[w] = "closed"
      BY <1>1, <2>1, <2>2, <3>1 DEF CalmWorker, Early
    <3>3. CalmWorker(w)'
      BY <1>1, <1>2, <2>1, <3>1, <3>2 DEF CalmWorker, Early
    <3>4. Early(w) /\ ~Early(w)' /\ LastRecord(w)' = "Installed"
      BY <2>1, <3>2 DEF Early, LastRecord
    <3>5. CalmRecords(w)'
      BY <1>1, <3>1, <3>4, CalmAppend DEF Event
    <3> QED BY <3>3, <3>5
  <2>3. CASE phase[w] # "New" /\ UNCHANGED <<sent, phase, fault, wshut>>
    <3>1. wpc[w] = "running" /\ wpc'[w] = "running"
      BY <1>1, <2>1, <2>3 DEF CalmWorker, Early
    <3>2. CalmWorker(w)'
      BY <1>1, <1>2, <2>1, <2>3, <3>1 DEF CalmWorker, Early
    <3>3. Early(w)' = Early(w) /\ LastRecord(w)' = LastRecord(w)
      BY <2>1, <3>1 DEF Early, LastRecord
    <3>4. CalmRecords(w)'
      BY <1>1, <2>3, <3>3 DEF CalmRecords, Succeeds
    <3> QED BY <3>2, <3>4
  <2> QED BY <2>1, <2>2, <2>3 DEF SendInstalled
<1> QED BY <1>3, <1>4, <1>5, <1>6, <1>7, <1>8 DEF WorkerNext

\* A step of a worker leaves the others and main as calm as they were.
LEMMA WorkersStayCalm ==
  ASSUME Faults = {}, IInv, CalmInv, NEW w \in Workers, WorkerNext(w)
  PROVE  CalmInv'
<1>1. TypeOK /\ WorkerStep(w)
  BY WorkerShape DEF IInv
<1>2. ASSUME NEW v \in Workers, v # w PROVE CalmWorker(v)' /\ CalmRecords(v)'
  <2>1. /\ sent'[v] = sent[v] /\ phase'[v] = phase[v] /\ fault'[v] = fault[v]
        /\ wshut'[v] = wshut[v] /\ wpc'[v] = wpc[v] /\ gate'[v] = gate[v]
        /\ outcome'[v] = outcome[v] /\ UNCHANGED <<stopped, mopen>>
    BY <1>1, <1>2 DEF WorkerStep
  <2>2. output'[v] = output[v]
    BY <1>1, <1>2 DEF TypeOK, WorkerNext, Bind, BindFails, Install, BuildFails, OpenGate,
         ObserveStop, FinishGate, TerminalFail, ReturnOk, ReturnErr, Finish, Close, entryVars
  <2>3. CalmWorker(v) /\ CalmRecords(v)
    BY DEF CalmInv
  <2> QED BY <2>1, <2>2, <2>3 DEF CalmWorker, CalmRecords, Early, LastRecord, Succeeds
<1>3. CalmMain'
  <2>1. UNCHANGED <<pc, installs, ready, done, clock, cause, target, stopErr, handoff, failures, stopped>>
    BY <1>1 DEF WorkerStep, mainVars, control
  <2>2. HasRead("Done")' = HasRead("Done")
    BY <1>1, WritesUnread
  <2> QED BY <2>1, <2>2 DEF CalmInv, CalmMain
<1> QED BY <1>2, <1>3, WorkerStaysCalm DEF CalmInv

\* A step of main that leaves the bus of every living worker open.
LEMMA MainKeepsCalmWorkers ==
  ASSUME CalmInv, UNCHANGED <<sent, phase, fault, wshut, gate, output, outcome>>,
         NEW v \in Workers, wpc'[v] = wpc[v] \/ (Early(v) /\ Early(v)'),
         stopped[v] => stopped'[v], mopen'[v] \/ mopen'[v] = mopen[v] \/ wpc[v] = "exited"
  PROVE  CalmWorker(v)' /\ CalmRecords(v)'
<1>1. CalmWorker(v) /\ CalmRecords(v)
  BY DEF CalmInv
<1>2. Early(v)' = Early(v) /\ (~Early(v) => LastRecord(v)' = LastRecord(v) /\ wpc'[v] = wpc[v])
  BY DEF Early, LastRecord
<1>3. CalmWorker(v)'
  BY <1>1, <1>2 DEF CalmWorker, Early
<1>4. CalmRecords(v)'
  BY <1>1, <1>2 DEF CalmRecords, Succeeds
<1> QED BY <1>3, <1>4

\* What main can read while it watches: the next record, which it has not
\* read before and which is not Failed.
LEMMA CalmRecv ==
  ASSUME Faults = {}, IInv, CalmInv, NEW w \in Workers \ retired, Readable(w), Watching,
         NEW e \in Recv(w)
  PROVE  /\ e \in Event \ {"Failed"} /\ read[w] < Len(sent[w]) /\ e = sent[w][read[w] + 1]
         /\ w \notin HasRead(e) /\ Stamp(w, e) /\ ~Early(w)
<1>1. /\ CalmWorker(w) /\ CalmRecords(w) /\ BusInv(w) /\ MainInv(w)
      /\ sent[w] \in Seq(Event) /\ read[w] \in Nat /\ Len(sent[w]) \in Nat
  BY DEF CalmInv, IInv, TypeOK
<1>2. read[w] < Len(sent[w])
  <2> SUFFICES ASSUME ~(read[w] < Len(sent[w])) PROVE FALSE
    OBVIOUS
  <2>1. outcome[w] = "Done"
    BY <1>1 DEF Readable, CalmWorker
  <2> QED BY <1>1, <2>1 DEF MainInv
<1>3. e = sent[w][read[w] + 1] /\ read[w] + 1 \in 1..Len(sent[w])
  BY <1>1, <1>2 DEF Recv
<1>4. e \in Event /\ Stamp(w, e)
  BY <1>1, <1>3 DEF BusInv
<1>5. e # "Failed"
  BY <1>1, <1>4 DEF Stamp, CalmWorker
<1>6. w \notin HasRead(e)
  <2> SUFFICES ASSUME NEW i \in 1..read[w], sent[w][i] = sent[w][read[w] + 1] PROVE FALSE
    BY <1>3 DEF HasRead
  <2>1. i \in 1..Len(sent[w]) /\ i < read[w] + 1
    BY <1>1, <1>2
  <2> QED BY <1>1, <1>3, <2>1 DEF BusInv
<1>7. ~Early(w)
  BY <1>1, <1>2 DEF CalmRecords
<1> QED BY <1>2, <1>3, <1>4, <1>5, <1>6, <1>7

\* Once readiness was announced, Installed and Ready records have been read.
LEMMA CalmReady ==
  ASSUME IInv, VInv, CalmInv, pc \notin {"handoff", "join", "returned"},
         installs = 0, ready = 0, NEW w \in Workers
  PROVE  w \in HasRead("Installed") /\ (Gated => w \in HasRead("Ready"))
<1>1. /\ 0 + Cardinality(HasRead("Installed")) = N
      /\ 0 + Cardinality(HasRead("Ready")) = (IF Gated THEN N ELSE 0)
  BY DEF VInv, CountInv, CalmInv, CalmMain
<1>2. /\ Cardinality(HasRead("Installed")) \in Nat /\ Cardinality(HasRead("Ready")) \in Nat
  BY ReadersFinite
<1> QED BY <1>1, <1>2, ReadersFinite

\* Who was ready drained before it was done.
LEMMA CalmDrains ==
  ASSUME NEW s \in Seq(Event), NEW n \in Nat, n <= Len(s), s[1] = "Installed",
         \A k \in 2..Len(s) : Succeeds(s[k - 1], s[k]),
         \A k, m \in 1..Len(s) : k < m => s[k] # "Done",
         NEW i \in 1..n, s[i] = "Done", NEW j \in 1..n, s[j] = "Ready"
  PROVE  \E k \in 1..n : s[k] = "Drain"
<1>1. Len(s) \in Nat /\ i \in 1..Len(s) /\ j \in 1..Len(s) /\ i # 1 /\ i # j
  OBVIOUS
<1>2. j < i
  BY <1>1
<1>3. i \in 2..Len(s) /\ i - 1 \in 1..n
  BY <1>1
<1>4. s[i - 1] = "Installed" \/ s[i - 1] = "Drain"
  BY <1>3 DEF Succeeds
<1>5. s[i - 1] # "Installed"
  <2> SUFFICES ASSUME s[i - 1] = "Installed" PROVE FALSE
    OBVIOUS
  <2>1. i - 1 # j
    OBVIOUS
  <2>2. i - 1 \in 2..Len(s)
    BY <1>1, <1>2, <1>3, <2>1
  <2> QED BY <2>2 DEF Succeeds
<1> QED BY <1>3, <1>4, <1>5

\* The hand-off finds the records of a worker that has ended in order.
LEMMA CalmVerdict ==
  ASSUME Faults = {}, IInv, CalmInv, pc = "handoff", NEW w \in Workers
  PROVE  Verdict(w) = "none"
<1>1. /\ CalmWorker(w) /\ CalmRecords(w) /\ BusInv(w) /\ read[w] <= Len(sent[w])
      /\ read[w] \in Nat /\ Len(sent[w]) \in Nat /\ sent[w] \in Seq(Event)
  BY DEF CalmInv, IInv, MainInv, TypeOK
<1> SUFFICES ASSUME NEW i \in (read[w] + 1)..Len(sent[w])
             PROVE  Follows(IF i = read[w] + 1 THEN "none" ELSE sent[w][i - 1], sent[w][i])
  BY DEF Verdict
<1>2. i \in 1..Len(sent[w]) /\ ~Early(w)
  <2>1. i \in 1..Len(sent[w]) /\ Len(sent[w]) # 0
    BY <1>1
  <2> QED BY <1>1, <2>1 DEF CalmRecords
<1>3. /\ sent[w][1] = "Installed"
      /\ \A k \in 2..Len(sent[w]) : Succeeds(sent[w][k - 1], sent[w][k])
  BY <1>1, <1>2 DEF CalmRecords
<1>4. ~clock
  <2> SUFFICES ASSUME clock PROVE FALSE
    OBVIOUS
  <2>1. w \in HasRead("Done")
    BY DEF CalmInv, CalmMain
  <2>2. PICK j \in 1..read[w] : sent[w][j] = "Done"
    BY <2>1 DEF HasRead
  <2>3. j \in 1..Len(sent[w]) /\ j < i
    BY <1>1, <1>2
  <2> QED BY <1>1, <1>2, <2>2, <2>3 DEF BusInv
<1>5. Gated => readinessCancelled
  BY <1>4, ModeAssumption DEF readinessCancelled
<1>6. CASE i = read[w] + 1
  <2>1. Gated \/ sent[w][i] \in {"Installed", "Done", "Failed"}
    <3>1. sent[w][i] \in Event /\ Stamp(w, sent[w][i])
      BY <1>1, <1>2 DEF BusInv
    <3> QED BY <1>1, <3>1 DEF Event, Stamp, CalmWorker
  <2> QED BY <1>6, <2>1 DEF Follows
<1>7. CASE i # read[w] + 1
  <2>1. i \in 2..Len(sent[w])
    BY <1>1, <1>7
  <2>2. PICK p, e : p = sent[w][i - 1] /\ e = sent[w][i]
    OBVIOUS
  <2>3. Succeeds(p, e)
    BY <1>3, <2>1, <2>2
  <2>4. Follows(p, e)
    <3>1. CASE p = "Installed" /\ e = "Done"
      BY <1>5, <3>1 DEF Follows
    <3>2. CASE Gated /\ p = "Installed" /\ e = "Ready"
      BY <3>2 DEF Follows
    <3>3. CASE Gated /\ p = "Ready" /\ e = "Drain"
      BY <3>3 DEF Follows
    <3>4. CASE Gated /\ p = "Drain" /\ e = "Done"
      BY <3>4 DEF Follows
    <3> QED BY <2>3, <3>1, <3>2, <3>3, <3>4 DEF Succeeds
  <2> QED BY <1>7, <2>2, <2>4
<1> QED BY <1>6, <1>7

\* Steps of main that read no record.
LEMMA SilentMainStaysCalm ==
  ASSUME Faults = {}, IInv, VInv, CalmInv,
         \/ Start \/ StartFails \/ TakeSignal \/ Notify \/ ControlFails \/ Draining
         \/ HandedOff \/ Return \/ StoppedAll \/ Terminate \/ StopNext \/ Join
  PROVE  CalmInv'
<1>0. TypeOK /\ ScopeInv /\ CalmMain /\ CountInv /\ N \in Nat
  BY NAssumption DEF IInv, CalmInv, VInv
<1>1. /\ UNCHANGED <<sent, read, phase, fault, wshut, gate, output, outcome>>
      /\ HasRead("Done")' = HasRead("Done")
  <2>1. UNCHANGED <<sent, read, phase, fault, wshut, gate, output, outcome>>
    BY DEF Start, StartFails, TakeSignal, Notify, ControlFails, Draining, HandedOff, Return,
       StoppedAll, Terminate, StopNext, Join, mainFrame, control, busVars, workerVars, entryVars
  <2> QED BY <2>1 DEF HasRead
<1>2. CASE StartFails \/ ControlFails
  BY <1>2 DEF StartFails, ControlFails
<1>3. CASE Start
  <2>1. /\ UNCHANGED <<stopped, mopen, cause, target, stopErr, failures, handoff, clock, installs,
                       ready, done>>
        /\ pc = "spawn" /\ pc' \in {"spawn", "ready"} /\ started + 1 \in Workers
        /\ wpc' = [wpc EXCEPT ![started + 1] = "bind"] /\ started \in Nat
    BY <1>0, <1>3 DEF Start, control, busVars, ScopeInv, TypeOK, Workers
  <2>2. wpc[started + 1] = "idle"
    BY <1>0, <2>1 DEF ScopeInv
  <2>3. ASSUME NEW v \in Workers PROVE wpc'[v] = wpc[v] \/ (Early(v) /\ Early(v)')
    BY <1>0, <2>1, <2>2 DEF Early, TypeOK
  <2>4. ASSUME NEW v \in Workers PROVE CalmWorker(v)' /\ CalmRecords(v)'
    BY <1>1, <2>1, <2>3, MainKeepsCalmWorkers
  <2>5. CalmMain'
    BY <1>0, <1>1, <2>1 DEF CalmMain
  <2> QED BY <2>4, <2>5 DEF CalmInv
<1>4. CASE TakeSignal \/ Notify \/ Draining \/ HandedOff \/ Return \/ StoppedAll \/ Terminate
            \/ StopNext \/ Join
  <2>1. UNCHANGED <<wpc, mopen>> /\ \A v \in Workers : stopped[v] => stopped'[v]
    <3>1. CASE StopNext
      BY <1>0, <3>1 DEF StopNext, mainFrame, workerVars, entryVars, TypeOK
    <3>2. CASE ~StopNext
      BY <1>4, <3>2 DEF TakeSignal, Notify, Draining, HandedOff, Return, StoppedAll, Terminate,
         Join, mainFrame, busVars, workerVars, entryVars
    <3> QED BY <3>1, <3>2
  <2>2. ASSUME NEW v \in Workers PROVE CalmWorker(v)' /\ CalmRecords(v)'
    BY <1>1, <2>1, MainKeepsCalmWorkers
  <2>3. CalmMain'
    <3>1. CASE TakeSignal
      BY <1>0, <1>1, <3>1 DEF CalmMain, CountInv, TakeSignal, supervising
    <3>2. CASE Notify
      BY <1>0, <1>1, <3>2 DEF CalmMain, Notify
    <3>3. CASE Draining
      <4>1. done = N => HasRead("Done") = Workers
        BY <1>0, <3>3, ReadersFinite DEF CalmMain, Draining
      <4> QED BY <1>0, <1>1, <3>3, <4>1 DEF CalmMain, Draining
    <3>4. CASE HandedOff \/ Return
      BY <1>0, <1>1, <3>4 DEF CalmMain, HandedOff, Return, control
    <3>5. CASE StoppedAll
      BY <1>0, <1>1, <3>5 DEF CalmMain, StoppedAll, control
    <3>6. CASE Terminate
      BY <1>0, <1>1, <3>6 DEF CalmMain, Terminate, control, busVars
    <3>7. CASE StopNext
      BY <1>0, <1>1, <3>7 DEF CalmMain, StopNext, control
    <3>8. CASE Join
      <4>1. idx \in Workers /\ wpc[idx] = "exited"
        BY <1>0, <3>8 DEF Join, TypeOK, Workers
      <4>2. outcome[idx] = "Done"
        BY <4>1 DEF CalmInv, CalmWorker
      <4>3. handoff[idx] = "none"
        BY <1>0, <4>1 DEF CalmMain
      <4>4. failures' = failures
        BY <3>8, <4>2, <4>3 DEF Join, Reported
      <4> QED BY <1>0, <1>1, <3>8, <4>4 DEF CalmMain, Join, control
    <3> QED BY <1>4, <3>1, <3>2, <3>3, <3>4, <3>5, <3>6, <3>7, <3>8
  <2> QED BY <2>2, <2>3 DEF CalmInv
<1> QED BY <1>2, <1>3, <1>4

\* The hand-off of one bus.
LEMMA HandoffStaysCalm ==
  ASSUME Faults = {}, IInv, CalmInv, Handoff
  PROVE  CalmInv'
<1>0. TypeOK /\ CalmMain
  BY DEF IInv, CalmInv
<1>1. /\ UNCHANGED <<sent, phase, fault, wshut, gate, output, outcome, wpc, stopped, pc, cause,
                     target, stopErr, failures, clock, installs, ready, done>>
      /\ pc = "handoff" /\ mopen' = [mopen EXCEPT ![idx] = FALSE] /\ idx <= started
  BY DEF Handoff, mainFrame, workerVars, entryVars, control
<1>2. idx \in Workers
  BY <1>0, <1>1, NAssumption DEF TypeOK, Workers
<1>3. wpc[idx] = "exited"
  BY <1>2 DEF Handoff, CalmInv, CalmWorker
<1>4. ASSUME NEW v \in Workers PROVE CalmWorker(v)' /\ CalmRecords(v)'
  <2>1. mopen'[v] = mopen[v] \/ wpc[v] = "exited"
    BY <1>0, <1>1, <1>2, <1>3 DEF TypeOK
  <2> QED BY <1>1, <2>1, MainKeepsCalmWorkers
<1>5. Verdict(idx) = "none"
  BY <1>1, <1>2, CalmVerdict
<1>6. \A v \in Workers : handoff'[v] = "none"
  BY <1>0, <1>2, <1>5 DEF Handoff, CalmMain, TypeOK
<1>7. \A v \in Workers : read[v] <= read'[v] /\ read[v] \in Nat /\ read'[v] \in Nat
  <2>1. /\ read \in [Workers -> Nat] /\ sent \in [Workers -> Seq(Event)]
        /\ read[idx] <= Len(sent[idx]) /\ Len(sent[idx]) \in Nat
    BY <1>2 DEF IInv, TypeOK, MainInv
  <2>2. read' = read \/ read' = [read EXCEPT ![idx] = Len(sent[idx])]
    BY DEF Handoff
  <2>3. CASE read' = read
    BY <2>1, <2>3
  <2>4. CASE read' = [read EXCEPT ![idx] = Len(sent[idx])]
    <3>1. ASSUME NEW v \in Workers PROVE read'[v] = (IF v = idx THEN Len(sent[idx]) ELSE read[v])
      BY <2>1, <2>4
    <3> QED BY <2>1, <3>1
  <2> QED BY <2>2, <2>3, <2>4
<1>8. HasRead("Done") \subseteq HasRead("Done")'
  <2> SUFFICES ASSUME NEW v \in HasRead("Done") PROVE v \in HasRead("Done")'
    OBVIOUS
  <2>1. v \in Workers
    BY DEF HasRead
  <2>2. PICK i \in 1..read[v] : sent[v][i] = "Done"
    BY DEF HasRead
  <2>3. i \in 1..read'[v]
    BY <1>7, <2>1
  <2> QED BY <1>1, <2>1, <2>2, <2>3 DEF HasRead
<1>9. HasRead("Done")' \subseteq Workers
  BY DEF HasRead
<1>10. CalmMain'
  BY <1>0, <1>1, <1>6, <1>8, <1>9 DEF CalmMain
<1> QED BY <1>4, <1>10 DEF CalmInv

\* Steps of main that read records: each finds the one it expects.
LEMMA ReadingMainStaysCalm ==
  ASSUME Faults = {}, IInv, VInv, CalmInv, NEW w \in Workers,
         WaitReady(w) \/ Observe(w) \/ Drain(w) \/ WaitDone(w)
  PROVE  CalmInv'
<1>0. TypeOK /\ ScopeInv /\ CalmMain /\ CountInv /\ CalmWorker(w) /\ N \in Nat /\ N > 0
  BY NAssumption DEF IInv, CalmInv, VInv
<1>1. UNCHANGED <<sent, phase, fault, wshut, gate, output, outcome, wpc, stopped, mopen, clock,
                  stopErr, handoff, failures>>
  BY DEF WaitReady, Observe, Drain, WaitDone, mainFrame, workerVars, entryVars
<1>2. \A v \in Workers : CalmWorker(v)' /\ CalmRecords(v)'
  BY <1>1, MainKeepsCalmWorkers
<1>3. w \in Workers \ retired /\ Readable(w) /\ Watching
  <2>1. pc \in {"ready", "observe", "drive", "drain", "done"}
    BY DEF WaitReady, Observe, Drain, WaitDone
  <2>2. pc \in {"ready", "observe", "drive"} => retired = {}
    BY <1>0 DEF ScopeInv
  <2> QED BY <2>1, <2>2 DEF WaitReady, Observe, Drain, WaitDone, FirstReady, Watching
<1>4. ASSUME NEW e \in Recv(w), Consume(w, e)
      PROVE  /\ e \in Event \ {"Failed"} /\ w \notin HasRead(e) /\ Stamp(w, e) /\ ~Early(w)
             /\ HasRead(e)' = HasRead(e) \cup {w}
             /\ Cardinality(HasRead(e)') = Cardinality(HasRead(e)) + 1
             /\ \A f \in Event \ {e} : HasRead(f)' = HasRead(f)
  <2>1. /\ e \in Event \ {"Failed"} /\ w \notin HasRead(e) /\ Stamp(w, e) /\ ~Early(w)
        /\ read[w] < Len(sent[w]) /\ e = sent[w][read[w] + 1]
    BY <1>3, CalmRecv
  <2>2. read' = [read EXCEPT ![w] = @ + 1]
    BY <1>4, <2>1 DEF Consume
  <2>3. /\ HasRead(e)' = HasRead(e) \cup {w}
        /\ Cardinality(HasRead(e)') = Cardinality(HasRead(e)) + 1
        /\ \A f \in Event \ {e} : HasRead(f)' = HasRead(f)
    BY <1>1, <2>1, <2>2, ReadOne
  <2> QED BY <2>1, <2>3
<1>5. ASSUME NEW e, Cardinality(HasRead(e)) = N PROVE w \in HasRead(e)
  BY <1>5, ReadersFinite
<1>6. ASSUME NEW e, w \notin HasRead(e)
      PROVE  Cardinality(HasRead(e)) \in Nat /\ Cardinality(HasRead(e)) < N
  <2>1. /\ Cardinality(HasRead(e)) \in Nat /\ Cardinality(HasRead(e)) <= N
        /\ Cardinality(HasRead(e)) # N
    BY <1>5, <1>6, ReadersFinite
  <2> QED BY <1>0, <2>1
<1>7. ASSUME pc \in {"ready", "observe", "drive"}, NEW e \in Recv(w), Consume(w, e)
      PROVE  e = "Installed" \/ (e = "Ready" /\ Gated)
  <2>1. ~stopped[w]
    BY <1>0, <1>7 DEF CalmMain
  <2>2. wpc[w] = "running" \/ Early(w)
    BY <1>0, <2>1 DEF CalmWorker, Early, TypeOK, WorkerPc
  <2>3. gate[w] = "closed" \/ (Gated /\ gate[w] = "open")
    BY <1>0, <2>2 DEF CalmWorker, Early
  <2>4. Stamp(w, e) /\ e \in Event \ {"Failed"}
    BY <1>4, <1>7
  <2> QED BY <2>2, <2>3, <2>4 DEF Stamp, Event, Early
<1>8. CASE WaitReady(w)
  <2>1. pc = "ready" /\ UNCHANGED done
    BY <1>8 DEF WaitReady
  <2>2. PICK e \in Recv(w) :
          /\ Consume(w, e)
          /\ \/ pc' \in {"ready", "notify", "observe"} /\ UNCHANGED <<cause, target>>
             \/ ~(e = "Installed" /\ installs # 0) /\ ~(e = "Ready" /\ ready # 0)
    BY <1>8 DEF WaitReady, startupDone
  <2>3. /\ installs + Cardinality(HasRead("Installed")) = N
        /\ ready + Cardinality(HasRead("Ready")) = (IF Gated THEN N ELSE 0)
        /\ installs \in Nat /\ ready \in Nat
    BY <1>0, <2>1 DEF CountInv, CalmMain, TypeOK
  <2>4. e = "Installed" => installs # 0
    BY <1>0, <1>4, <1>6, <2>2, <2>3
  <2>5. e = "Ready" /\ Gated => ready # 0
    BY <1>0, <1>4, <1>6, <2>2, <2>3
  <2>6. e = "Installed" \/ (e = "Ready" /\ Gated)
    BY <1>7, <2>1, <2>2
  <2>7. pc' \in {"ready", "notify", "observe"} /\ UNCHANGED <<cause, target>>
    BY <2>2, <2>4, <2>5, <2>6
  <2>8. HasRead("Done")' = HasRead("Done")
    BY <1>4, <2>2, <2>6 DEF Event
  <2>9. CalmMain'
    BY <1>0, <1>1, <2>1, <2>7, <2>8 DEF CalmMain
  <2> QED BY <1>2, <2>9 DEF CalmInv
<1>9. CASE Observe(w)
  <2>1. PICK e \in Recv(w) : Consume(w, e)
    BY <1>9 DEF Observe
  <2>2. pc \in {"observe", "drive"}
    BY <1>9 DEF Observe
  <2>3. e = "Installed" \/ (e = "Ready" /\ Gated)
    BY <1>7, <2>1, <2>2
  <2>4. w \in HasRead("Installed") /\ (Gated => w \in HasRead("Ready"))
    BY <1>0, <2>2, CalmReady DEF CountInv
  <2> QED BY <1>4, <2>1, <2>3, <2>4
<1>10. CASE Drain(w) \/ WaitDone(w)
  <2>1. pc \in {"drain", "done"} /\ clock /\ installs = 0 /\ ready = 0 /\ UNCHANGED <<installs, ready>>
    BY <1>0, <1>10 DEF Drain, WaitDone, CalmMain
  <2>2. \A v \in Workers : v \in HasRead("Installed") /\ (Gated => v \in HasRead("Ready"))
    BY <2>1, CalmReady
  <2>3. done = Cardinality(HasRead("Done")) /\ cause = "none" /\ target = NoWorker
    BY <1>0, <2>1 DEF CalmMain
  <2>4. ASSUME NEW e \in Recv(w), Consume(w, e) PROVE e = "Done" \/ (e = "Drain" /\ Gated)
    <3>1. e \in Event \ {"Failed"} /\ w \notin HasRead(e) /\ Stamp(w, e)
      BY <1>4, <2>4
    <3> QED BY <1>0, <2>2, <3>1 DEF Event, Stamp, CalmWorker
  <2>5. CASE Drain(w)
    <3>1. PICK e \in Recv(w) :
            /\ Consume(w, e)
            /\ drained' = DrainedWith(e)
            /\ done' = IF e = "Done" THEN done + 1 ELSE done
            /\ \/ e \notin {"Drain", "Done"}
               \/ OutOfOrder(drained', done')
               \/ /\ pc' = IF drained' = N THEN "draining" ELSE "drain"
                  /\ UNCHANGED <<cause, target>>
      BY <2>5 DEF Drain
    <3>2. e \in {"Drain", "Done"} /\ Gated
      BY <1>0, <2>4, <2>5, <3>1 DEF Drain, CalmMain
    <3>3. drained' = Cardinality(HasRead("Drain")') /\ done' = Cardinality(HasRead("Done")')
      <4>1. drained = Cardinality(HasRead("Drain"))
        BY <1>0, <2>1, <2>3 DEF CountInv
      <4>2. CASE e = "Drain"
        BY <1>4, <2>3, <3>1, <4>1, <4>2 DEF DrainedWith, Event
      <4>3. CASE e = "Done"
        BY <1>4, <2>3, <3>1, <4>1, <4>3 DEF DrainedWith, Event
      <4> QED BY <3>2, <4>2, <4>3
    <3>4. ~OutOfOrder(drained', done')
      <4> SUFFICES ASSUME done' = N PROVE drained' = N
        BY DEF OutOfOrder
      <4>1. /\ IsFiniteSet(Workers) /\ Cardinality(Workers) = N
            /\ HasRead("Done")' \in SUBSET Workers
        BY ReadersFinite DEF HasRead
      <4>2. HasRead("Done")' = Workers
        BY <3>3, <4>1, FS_Subset
      <4>3. HasRead("Ready")' = HasRead("Ready")
        BY <1>4, <3>1, <3>2 DEF Event
      <4>4. IInv'
        BY <2>5, MainPreserves DEF MainNext
      <4>5. ASSUME NEW v \in Workers PROVE v \in HasRead("Drain")'
        <5>1. /\ read'[v] \in Nat /\ read'[v] <= Len(sent[v]) /\ sent[v] \in Seq(Event)
              /\ \A k, m \in 1..Len(sent[v]) : k < m => sent[v][k] # "Done"
          BY <1>1, <4>4 DEF IInv, TypeOK, MainInv, BusInv
        <5>2. PICK i \in 1..read'[v] : sent[v][i] = "Done"
          BY <1>1, <4>2 DEF HasRead
        <5>3. PICK j \in 1..read'[v] : sent[v][j] = "Ready"
          <6>1. v \in HasRead("Ready")'
            BY <2>2, <3>2, <4>3
          <6> QED BY <1>1, <6>1 DEF HasRead
        <5>4. /\ sent[v][1] = "Installed"
              /\ \A k \in 2..Len(sent[v]) : Succeeds(sent[v][k - 1], sent[v][k])
          <6>1. Len(sent[v]) # 0 /\ CalmRecords(v)
            BY <5>1, <5>2 DEF CalmInv
          <6>2. ~Early(v)
            BY <6>1 DEF CalmRecords
          <6> QED BY <6>1, <6>2 DEF CalmRecords
        <5>5. \E k \in 1..read'[v] : sent[v][k] = "Drain"
          BY <5>1, <5>2, <5>3, <5>4, CalmDrains
        <5> QED BY <1>1, <5>5 DEF HasRead
      <4>6. HasRead("Drain")' = Workers
        BY <4>5 DEF HasRead
      <4> QED BY <3>3, <4>1, <4>6
    <3>5. pc' \in {"drain", "draining"} /\ UNCHANGED <<cause, target>>
      BY <3>1, <3>2, <3>4
    <3>6. CalmMain'
      BY <1>0, <1>1, <2>1, <3>2, <3>3, <3>5 DEF CalmMain
    <3> QED BY <1>2, <3>6 DEF CalmInv
  <2>6. CASE WaitDone(w)
    <3>1. PICK e \in Recv(w) :
            /\ Consume(w, e)
            /\ \/ /\ e = "Done" /\ done' = done + 1 /\ UNCHANGED <<cause, target>>
                  /\ pc' = IF done' = N THEN "handoff" ELSE "done"
               \/ e # "Done"
      BY <2>6 DEF WaitDone
    <3>2. e = "Done"
      <4>1. pc = "done"
        BY <2>6 DEF WaitDone
      <4>2. Gated => Cardinality(HasRead("Drain")) = N
        BY <1>0, <2>3, <4>1 DEF CountInv
      <4>3. Gated => w \in HasRead("Drain")
        BY <1>5, <4>2
      <4> QED BY <1>4, <2>4, <3>1, <4>3
    <3>3. done' = Cardinality(HasRead("Done")')
      BY <1>4, <2>3, <3>1, <3>2
    <3>4. done' = N => HasRead("Done")' = Workers
      <4>1. /\ IsFiniteSet(Workers) /\ Cardinality(Workers) = N
            /\ HasRead("Done")' \in SUBSET Workers
        BY ReadersFinite DEF HasRead
      <4> QED BY <3>3, <4>1, FS_Subset
    <3>5. UNCHANGED <<cause, target>> /\ pc' = IF done' = N THEN "handoff" ELSE "done"
      BY <3>1, <3>2
    <3>6. CalmMain'
      BY <1>0, <1>1, <2>1, <3>3, <3>4, <3>5 DEF CalmMain
    <3> QED BY <1>2, <3>6 DEF CalmInv
  <2> QED BY <1>10, <2>5, <2>6
<1> QED BY <1>8, <1>9, <1>10

-----------------------------------------------------------------------------
\* The first state of a run without faults, and every step of it.
LEMMA CalmStarts == Init => CalmInv
<1> SUFFICES ASSUME Init PROVE CalmInv
  OBVIOUS
<1>1. HasRead("Done") = {} /\ Cardinality(HasRead("Done")) = 0
  <2>1. HasRead("Done") = {}
    BY DEF Init, HasRead
  <2> QED BY <2>1, FS_EmptySet
<1>2. CalmMain
  BY <1>1 DEF Init, CalmMain
<1>3. ASSUME NEW w \in Workers PROVE CalmWorker(w) /\ CalmRecords(w)
  BY DEF Init, CalmWorker, CalmRecords, Early
<1> QED BY <1>2, <1>3 DEF CalmInv

LEMMA CalmStep == Faults = {} /\ IInv /\ VInv /\ CalmInv /\ [Next]_vars => CalmInv'
<1> SUFFICES ASSUME Faults = {}, IInv, VInv, CalmInv, [Next]_vars PROVE CalmInv'
  OBVIOUS
<1>1. CASE MainNext \/ ControlFails \/ Terminate
  BY <1>1, SilentMainStaysCalm, HandoffStaysCalm, ReadingMainStaysCalm DEF MainNext
<1>2. ASSUME NEW w \in Workers, WorkerNext(w) PROVE CalmInv'
  BY <1>2, WorkersStayCalm
<1>3. CASE UNCHANGED vars
  <2>1. UNCHANGED <<pc, installs, ready, done, clock, cause, target, stopErr, handoff, failures,
                    sent, read, wshut, stopped, mopen, wpc, phase, fault, gate, output, outcome>>
    BY <1>3 DEF vars, mainVars, control, busVars, workerVars, entryVars
  <2>2. HasRead("Done")' = HasRead("Done")
    BY <2>1 DEF HasRead
  <2>3. CalmMain'
    BY <2>1, <2>2 DEF CalmInv, CalmMain
  <2>4. ASSUME NEW w \in Workers PROVE CalmWorker(w)' /\ CalmRecords(w)'
    BY <2>1, MainKeepsCalmWorkers
  <2> QED BY <2>3, <2>4 DEF CalmInv
<1> QED BY <1>1, <1>2, <1>3 DEF Next, Returned

\* Error::finish: for any number of workers and in every mode, a run in which
\* no system call fails and every entry keeps the protocol is reported as Ok,
\* whatever order the signal, the records and the exits come in.
THEOREM CalmRunIsOk == Faults = {} => (Spec => []NoFalseAlarm)
<1> SUFFICES ASSUME Faults = {} PROVE Spec => []NoFalseAlarm
  OBVIOUS
<1>1. CalmInv => NoFalseAlarm
  BY DEF CalmInv, CalmMain, NoFalseAlarm, Ok, missing
<1>2. IInv /\ VInv /\ CalmInv /\ [Next]_vars => CalmInv'
  BY CalmStep
<1> QED BY <1>1, <1>2, CalmStarts, InitEstablishes, StepPreserves, VerdictStarts, VerdictStep, PTL
        DEF Spec
=============================================================================
