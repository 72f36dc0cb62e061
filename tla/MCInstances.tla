----------------------------- MODULE MCInstances -----------------------------
(***************************************************************************)
(* Model-checking instance of Instances, with its properties.             *)
(***************************************************************************)
EXTENDS Instances

CONSTANTS p1, p2, p3, p4

\* The doc comment of lock.rs: only one instance of open-sesame runs at a
\* time.  No two processes are in their session (past the lock and the IPC
\* server start, before App::run returns) at once.
SingleInstance ==
    \A p, q \in Procs : InSession(p) /\ InSession(q) => p = q

\* A launcher that starts after every other process has ended, normally or
\* killed with the lock file and a socket file left behind, becomes a
\* serving instance: the flock of a dead process is gone and
\* IpcServer::start removes the stale socket before binding.
RecoversAfterCrash ==
    \A p \in Procs :
        (pc[p] = "start" /\ \A q \in Procs \ {p} : pc[q] \in {"done", "crashed"})
            ~> (Serving(p) \/ pc[p] = "crashed")

====
