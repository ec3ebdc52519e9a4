----------------------------- MODULE GrpcServer -----------------------------
(***************************************************************************)
(* What the three services have in common as processes: each call runs in  *)
(* a goroutine of its own, and a restart ends them all.                    *)
(***************************************************************************)

\* Where a call stands: on its way or at the lookup in Redis, before the mutex,
\* answered, answered before the last restart, never to be answered.
Pc == {"get", "lock", "done", "old", "lost"}

\* The calls a restart makes a difference to.
Current == {"get", "lock", "done"}

\* The process is killed and main runs again.  Calls that were under way are
\* lost (a request that arrives after all is one that was sent later); answers
\* that were given may still be on their way to the caller.
AfterRestart(pc) == CASE pc \in {"get", "lock"} -> "lost"
                      [] pc = "done"            -> "old"
                      [] OTHER                  -> pc

=============================================================================
