--------------------------- MODULE MCRuntimeModes ---------------------------
(***************************************************************************)
(* The three entry points of the process runtime in one run of the model   *)
(* checker: watch_gated, run_watched and run, each with faults and, with   *)
(* more workers, without any (calm).  The mode is chosen at the start and  *)
(* never changes.  ProcessRuntimeProofs is ProcessRuntime with its         *)
(* theorems, which RuntimeModesProofs carries over to this module.         *)
(***************************************************************************)
EXTENDS Naturals

CONSTANTS
  N,            \* workers of a run with faults
  Faults,       \* the faults of a watched run
  PlainFaults,  \* the faults of a plain run
  Calm          \* workers of a run without faults

ASSUME ModesAssumption ==
  /\ N \in Nat \ {0} /\ Calm \in Nat \ {0}
  /\ Faults \cup PlainFaults \subseteq {"spawn", "affinity", "entry", "gate", "callback",
                                       "control", "stop", "read", "write"}

VARIABLES
  mode, calm, pc, started, idx, installs, ready, drained, done, retired, clock,
  cause, target, stopErr, handoff, failures, signal, sent, read, wshut,
  stopped, mopen, wpc, phase, fault, gate, output, outcome

gated   == INSTANCE ProcessRuntimeProofs WITH Gated <- TRUE, Watched <- TRUE
watched == INSTANCE ProcessRuntimeProofs WITH Gated <- FALSE, Watched <- TRUE
plain   == INSTANCE ProcessRuntimeProofs WITH Gated <- FALSE, Watched <- FALSE, Faults <- PlainFaults
calmGated   == INSTANCE ProcessRuntimeProofs WITH Gated <- TRUE, Watched <- TRUE, N <- Calm, Faults <- {}
calmWatched == INSTANCE ProcessRuntimeProofs WITH Gated <- FALSE, Watched <- TRUE, N <- Calm, Faults <- {}
calmPlain   == INSTANCE ProcessRuntimeProofs WITH Gated <- FALSE, Watched <- FALSE, N <- Calm, Faults <- {}

vars == <<mode, calm, gated!vars>>

Init ==
  \/ /\ calm = FALSE
     /\ \/ mode = "watch_gated" /\ gated!Init
        \/ mode = "run_watched" /\ watched!Init
        \/ mode = "run" /\ plain!Init
  \/ /\ calm = TRUE
     /\ \/ mode = "watch_gated" /\ calmGated!Init
        \/ mode = "run_watched" /\ calmWatched!Init
        \/ mode = "run" /\ calmPlain!Init

Next ==
  /\ \/ mode = "watch_gated" /\ ~calm /\ gated!Next
     \/ mode = "run_watched" /\ ~calm /\ watched!Next
     \/ mode = "run" /\ ~calm /\ plain!Next
     \/ mode = "watch_gated" /\ calm /\ calmGated!Next
     \/ mode = "run_watched" /\ calm /\ calmWatched!Next
     \/ mode = "run" /\ calm /\ calmPlain!Next
  /\ UNCHANGED <<mode, calm>>

Spec == Init /\ [][Next]_vars

\* In no mode is a run without faults reported as failed, whatever order the
\* signal, the records and the exits come in (Error::finish).
NoFalseAlarm ==
  calm =>
    /\ mode = "watch_gated" => calmGated!NoFalseAlarm
    /\ mode = "run_watched" => calmWatched!NoFalseAlarm
    /\ mode = "run" => calmPlain!NoFalseAlarm

\* In every mode an Ok verdict means that SIGTERM arrived and every worker
\* ran to a clean end (Error::finish).
OkIsHonest ==
  ~calm =>
    /\ mode = "watch_gated" => gated!OkIsHonest
    /\ mode = "run_watched" => watched!OkIsHonest
    /\ mode = "run" => plain!OkIsHonest
=============================================================================
