---------------------------- MODULE SingletonJob ----------------------------
(***************************************************************************)
(* What a lease is for: of all the invocations on all the replicas, one at *)
(* a time executes the job's handler.  An execution ends when the handler  *)
(* returns or throws, or when its process dies.                            *)
(***************************************************************************)
CONSTANT Workers
VARIABLE executing

TypeOK == executing \subseteq Workers

Init == executing = {}

Start(w) ==
    /\ executing = {}
    /\ executing' = {w}

Stop(w) ==
    /\ executing = {w}
    /\ executing' = {}

Next == \E w \in Workers : Start(w) \/ Stop(w)

Spec == Init /\ [][Next]_executing
=============================================================================
