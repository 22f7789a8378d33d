----------------------------- MODULE MCScheduler -----------------------------
(* Instances of Scheduler: values of the constants that a .cfg cannot write. *)
EXTENDS Scheduler

\* One cheap job that start() leaves alone and one expensive job.
CheapJob == <<"health_check">>
OneJob  == <<"autonomous_research">>

\* Threads are named after their process: web workers a and b, command c.
OwnerOf == [t \in Threads |->
    CASE t \in {"a_loop", "a_loop2", "a_req", "a_req2"} -> "a"
      [] t \in {"b_loop", "b_req"} -> "b"
      [] OTHER -> "c"]

Bounds(boot, crash, force, admin, restart) ==
    [k \in Kinds |-> CASE k = "boot" -> boot [] k = "crash" -> crash
                       [] k = "force" -> force [] k = "admin" -> admin
                       [] k = "restart" -> restart]

WorkerBounds == Bounds(2, 1, 0, 0, 0)
OneCrash   == Bounds(2, 1, 0, 0, 0)
LifeBounds == Bounds(2, 1, 1, 1, 2)

=============================================================================
