-------------------------------- MODULE Permit ------------------------------
(***************************************************************************)
(* The slot of one receive in the table of exhausted registrations         *)
(* (layer0/core, driver/receive/mod.rs over layer0/uring, system/permit):  *)
(* vacant, queued until a buffer comes back, or parked with a grant that   *)
(* was not consumed.  The operators say what each operation makes of the   *)
(* slot and what it answers.  A receive keeps its ready key for as long as *)
(* it lives, so the key of an occupied slot is always its own.             *)
(***************************************************************************)

Slot == {"vacant", "queued", "parked"}

\* Fifo::take_inner: what the slot answers, and what a take leaves of it.
Answer(s) ==
  CASE s = "vacant" -> "Gone" [] s = "queued" -> "Waiting" [] s = "parked" -> "Granted"

Take(s) == IF Answer(s) = "Granted" THEN "vacant" ELSE s

\* A cancellation clears a queued slot too.
Cancel(s) == IF Answer(s) = "Waiting" THEN "vacant" ELSE Take(s)

\* Fifo::try_arm.
Arms(s) == s = "vacant"

\* Registration::exhausted registers before it permits one optimistic retry;
\* an occupied slot is taken instead.
Exhausted(s) == IF Arms(s) THEN "queued" ELSE Take(s)
Retries(s) == Arms(s) \/ Answer(s) = "Granted"

\* Registration::resume.
Resumes(s) == Answer(s) = "Granted"
Stale(s) == Answer(s) = "Gone"

\* Fifo::grant_one.
Grantable(s) == s = "queued"
Grant(s) == IF Grantable(s) THEN "parked" ELSE s
=============================================================================
