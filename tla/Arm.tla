--------------------------------- MODULE Arm --------------------------------
(***************************************************************************)
(* The phase of one multishot operation that an owner arms, probes and     *)
(* cancels again and again (layer0/core, driver/retained/arm.rs).  The     *)
(* operators say what each method of State makes of the phase; whether a   *)
(* flight is held is the business of the module that uses them.            *)
(***************************************************************************)

Phase == {"Ready", "Armed", "Deferred", "CancelDeferred", "Cancelling",
          "Idle", "Waiting", "Probing", "ProbeDeferred"}

\* State::progress: the arm asks for another turn by itself.
Runnable(p) == p \in {"Ready", "ProbeDeferred", "CancelDeferred"}

IsLive(p) == p \notin {"Ready", "Deferred", "ProbeDeferred", "Idle"}

\* State::begin, and State::begin_retry for an owner with a retry attempt.
Begins(p, retry) ==
  p \in {"Ready", "Deferred"} \cup (IF retry THEN {"ProbeDeferred"} ELSE {})

\* State::apply on the outcome of the submission.
Apply(retry, outcome) ==
  CASE outcome = "Armed"    -> IF retry THEN "Probing" ELSE "Armed"
    [] outcome = "Deferred" -> IF retry THEN "ProbeDeferred" ELSE "Deferred"
    [] outcome = "Failed"   -> "Idle"

\* State::stop submits a cancellation in these phases (State::cancel).
Cancels(p) == p \in {"Armed", "Probing", "CancelDeferred"}

\* State::stop; `full' is a submission queue that refuses the cancellation.
Stop(p, full) ==
  CASE Cancels(p)           -> IF full THEN "CancelDeferred" ELSE "Cancelling"
    [] p = "Cancelling"     -> "Cancelling"
    [] OTHER                -> "Idle"

\* State::wait, State::resume and State::settle_probe.
Wait(p) == IF p = "Ready" THEN "Waiting" ELSE p
Resume(p) == IF p = "Waiting" THEN "Ready" ELSE p
SettleProbe(p) == IF p = "Probing" THEN "Armed" ELSE p

\* State::complete: what becomes of a completion that names the flight...
Disposition(p) ==
  CASE p = "Armed"                            -> "Deliver"
    [] p = "Probing"                          -> "Probe"
    [] p \in {"CancelDeferred", "Cancelling"} -> "Retiring"
    [] OTHER                                  -> "Discard"

\* ... and the phase after the last one.
Completed(p) ==
  CASE p \in {"Armed", "Probing"}             -> "Ready"
    [] p \in {"CancelDeferred", "Cancelling"} -> "Idle"
    [] OTHER                                  -> p
=============================================================================
