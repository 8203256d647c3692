--------------------------- MODULE MCRunLifecycle ---------------------------
(* Small instances of RunLifecycle for TLC. *)
EXTENDS RunLifecycle, TLC

\* Processes of a kind are interchangeable.
Symmetry == Permutations(Preparer) \cup Permutations(Host)

\* A process may die anywhere.
Everywhere == Steps

\* The steps before which the death of a process leaves a run that a later call
\* can finish.
Resumable ==
  {"allocate", "dispatch", "prior", "stage_prior", "bind_prior", "collect", "fetch",
   "bind_collection", "freeze", "quality", "stage_quality", "bind_quality",
   "packet", "load_packet", "stage_packet", "reload", "fail",
   "stage_attempt", "bind_attempt", "publish", "bind_brief", "stage_reason"}
=============================================================================
