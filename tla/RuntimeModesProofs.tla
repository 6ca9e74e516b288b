------------------------- MODULE RuntimeModesProofs -------------------------
(***************************************************************************)
(* The theorems about the three entry points that a run of MCRuntimeModes  *)
(* checks together, carried over from ProcessRuntimeProofs.                *)
(***************************************************************************)
EXTENDS MCRuntimeModes, TLAPS

\* The invariant of ProcessRuntime for the mode that was chosen.
ModesInv ==
  /\ calm \in BOOLEAN
  /\ mode = "watch_gated" /\ ~calm => gated!IInv /\ gated!VInv
  /\ mode = "run_watched" /\ ~calm => watched!IInv /\ watched!VInv
  /\ mode = "run" /\ ~calm => plain!IInv /\ plain!VInv
  /\ mode = "watch_gated" /\ calm => calmGated!IInv /\ calmGated!VInv /\ calmGated!CalmInv
  /\ mode = "run_watched" /\ calm => calmWatched!IInv /\ calmWatched!VInv /\ calmWatched!CalmInv
  /\ mode = "run" /\ calm => calmPlain!IInv /\ calmPlain!VInv /\ calmPlain!CalmInv

\* The first state of each mode.
LEMMA ModesStart == Init => ModesInv
<1>1. gated!Init => gated!IInv /\ gated!VInv
  BY ModesAssumption, gated!InitEstablishes, gated!VerdictStarts
     DEF gated!FaultKind
<1>2. watched!Init => watched!IInv /\ watched!VInv
  BY ModesAssumption, watched!InitEstablishes, watched!VerdictStarts
     DEF watched!FaultKind
<1>3. plain!Init => plain!IInv /\ plain!VInv
  BY ModesAssumption, plain!InitEstablishes, plain!VerdictStarts
     DEF plain!FaultKind
<1>4. calmGated!Init => calmGated!IInv /\ calmGated!VInv /\ calmGated!CalmInv
  BY ModesAssumption, calmGated!InitEstablishes, calmGated!VerdictStarts, calmGated!CalmStarts
     DEF calmGated!FaultKind
<1>5. calmWatched!Init => calmWatched!IInv /\ calmWatched!VInv /\ calmWatched!CalmInv
  BY ModesAssumption, calmWatched!InitEstablishes, calmWatched!VerdictStarts, calmWatched!CalmStarts
     DEF calmWatched!FaultKind
<1>6. calmPlain!Init => calmPlain!IInv /\ calmPlain!VInv /\ calmPlain!CalmInv
  BY ModesAssumption, calmPlain!InitEstablishes, calmPlain!VerdictStarts, calmPlain!CalmStarts
     DEF calmPlain!FaultKind
<1> QED BY <1>1, <1>2, <1>3, <1>4, <1>5, <1>6 DEF Init, ModesInv

\* A step of MCRuntimeModes is a step of the chosen mode, or of none.
LEMMA ModesStep == ModesInv /\ [Next]_vars => ModesInv'
<1> SUFFICES ASSUME ModesInv, [Next]_vars PROVE ModesInv'
  OBVIOUS
<1>0. UNCHANGED <<mode, calm>>
  BY DEF Next, vars
<1>1. ASSUME mode = "watch_gated" /\ ~calm
      PROVE  gated!IInv' /\ gated!VInv'
  <2>1. [gated!Next]_(gated!vars)
    BY <1>1 DEF Next, vars, gated!vars, gated!mainVars, gated!control, gated!busVars,
       gated!workerVars, gated!entryVars
  <2> QED BY <1>1, <2>1, ModesAssumption, gated!StepPreserves, gated!VerdictStep
          DEF ModesInv, gated!FaultKind
<1>2. ASSUME mode = "run_watched" /\ ~calm
      PROVE  watched!IInv' /\ watched!VInv'
  <2>1. [watched!Next]_(watched!vars)
    BY <1>2 DEF Next, vars, watched!vars, watched!mainVars, watched!control, watched!busVars,
       watched!workerVars, watched!entryVars, gated!vars, gated!mainVars,
       gated!control, gated!busVars, gated!workerVars, gated!entryVars
  <2> QED BY <1>2, <2>1, ModesAssumption, watched!StepPreserves, watched!VerdictStep
          DEF ModesInv, watched!FaultKind
<1>3. ASSUME mode = "run" /\ ~calm
      PROVE  plain!IInv' /\ plain!VInv'
  <2>1. [plain!Next]_(plain!vars)
    BY <1>3 DEF Next, vars, plain!vars, plain!mainVars, plain!control, plain!busVars,
       plain!workerVars, plain!entryVars, gated!vars, gated!mainVars,
       gated!control, gated!busVars, gated!workerVars, gated!entryVars
  <2> QED BY <1>3, <2>1, ModesAssumption, plain!StepPreserves, plain!VerdictStep
          DEF ModesInv, plain!FaultKind
<1>4. ASSUME mode = "watch_gated" /\ calm
      PROVE  calmGated!IInv' /\ calmGated!VInv' /\ calmGated!CalmInv'
  <2>1. [calmGated!Next]_(calmGated!vars)
    BY <1>4 DEF Next, vars, calmGated!vars, calmGated!mainVars, calmGated!control, calmGated!busVars,
       calmGated!workerVars, calmGated!entryVars, gated!vars, gated!mainVars,
       gated!control, gated!busVars, gated!workerVars, gated!entryVars
  <2> QED BY <1>4, <2>1, ModesAssumption, calmGated!StepPreserves, calmGated!VerdictStep, calmGated!CalmStep
          DEF ModesInv, calmGated!FaultKind
<1>5. ASSUME mode = "run_watched" /\ calm
      PROVE  calmWatched!IInv' /\ calmWatched!VInv' /\ calmWatched!CalmInv'
  <2>1. [calmWatched!Next]_(calmWatched!vars)
    BY <1>5 DEF Next, vars, calmWatched!vars, calmWatched!mainVars, calmWatched!control, calmWatched!busVars,
       calmWatched!workerVars, calmWatched!entryVars, gated!vars, gated!mainVars,
       gated!control, gated!busVars, gated!workerVars, gated!entryVars
  <2> QED BY <1>5, <2>1, ModesAssumption, calmWatched!StepPreserves, calmWatched!VerdictStep, calmWatched!CalmStep
          DEF ModesInv, calmWatched!FaultKind
<1>6. ASSUME mode = "run" /\ calm
      PROVE  calmPlain!IInv' /\ calmPlain!VInv' /\ calmPlain!CalmInv'
  <2>1. [calmPlain!Next]_(calmPlain!vars)
    BY <1>6 DEF Next, vars, calmPlain!vars, calmPlain!mainVars, calmPlain!control, calmPlain!busVars,
       calmPlain!workerVars, calmPlain!entryVars, gated!vars, gated!mainVars,
       gated!control, gated!busVars, gated!workerVars, gated!entryVars
  <2> QED BY <1>6, <2>1, ModesAssumption, calmPlain!StepPreserves, calmPlain!VerdictStep, calmPlain!CalmStep
          DEF ModesInv, calmPlain!FaultKind
<1> QED BY <1>0, <1>1, <1>2, <1>3, <1>4, <1>5, <1>6 DEF ModesInv

LEMMA ModesInvariance == Spec => []ModesInv
BY ModesStart, ModesStep, PTL DEF Spec

\* Error::finish: in none of the three modes, and for any number of workers,
\* is a run without faults reported as failed.
THEOREM CalmModesAreOk == Spec => []NoFalseAlarm
<1>1. ModesInv => NoFalseAlarm
  BY DEF ModesInv, NoFalseAlarm,
     calmGated!CalmInv, calmGated!CalmMain, calmGated!NoFalseAlarm, calmGated!Ok, calmGated!missing,
     calmWatched!CalmInv, calmWatched!CalmMain, calmWatched!NoFalseAlarm, calmWatched!Ok, calmWatched!missing,
     calmPlain!CalmInv, calmPlain!CalmMain, calmPlain!NoFalseAlarm, calmPlain!Ok, calmPlain!missing
<1> QED BY <1>1, ModesInvariance, PTL

\* Error::finish: in each of the three modes, for any number of workers and
\* under every set of faults, an Ok verdict means that SIGTERM arrived and
\* every worker ran to a clean end.
THEOREM OkModesAreHonest == Spec => []OkIsHonest
<1>1. gated!IInv /\ gated!VInv => gated!OkIsHonest
  BY ModesAssumption, gated!HonestInvariant DEF gated!FaultKind
<1>2. watched!IInv /\ watched!VInv => watched!OkIsHonest
  BY ModesAssumption, watched!HonestInvariant DEF watched!FaultKind
<1>3. plain!IInv /\ plain!VInv => plain!OkIsHonest
  BY ModesAssumption, plain!HonestInvariant DEF plain!FaultKind
<1>4. ModesInv => OkIsHonest
  BY <1>1, <1>2, <1>3 DEF ModesInv, OkIsHonest
<1> QED BY <1>4, ModesInvariance, PTL
=============================================================================
