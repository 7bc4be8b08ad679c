------------------------------ MODULE ModelLife ------------------------------
(***************************************************************************)
(* What onnxr promises about the native objects behind its models, without *)
(* a loader, wrappers, reference counts or a collector: environments and   *)
(* sessions are made once, a session is made in an environment, what the   *)
(* user holds is never freed, an environment is never freed under one of   *)
(* its sessions, and the process ends when nothing is left.  ModelLifetime *)
(* implements it as long as it has a library that it can use.              *)
(***************************************************************************)
EXTENDS Naturals

VARIABLES
    phase,      \* "running", "exiting", "exited", or "lost": nothing promised
    made,       \* the number of objects made so far
    envs,       \* the environments that exist, by number
    sessions,   \* the sessions that exist, as [id, env]
    held        \* the sessions behind the models that the user holds

vars == <<phase, made, envs, sessions, held>>

Init ==
    /\ phase = "running"
    /\ made = 0
    /\ envs = {} /\ sessions = {} /\ held = {}

MakeEnv ==
    /\ phase = "running"
    /\ made' = made + 1
    /\ envs' = envs \cup {made'}
    /\ UNCHANGED <<phase, sessions, held>>

MakeSession ==
    /\ phase = "running"
    /\ made' = made + 1
    /\ \E e \in envs : sessions' = sessions \cup {[id |-> made', env |-> e]}
    /\ UNCHANGED <<phase, envs, held>>

Hold ==
    /\ phase = "running"
    /\ \E s \in sessions : held' = held \cup {s.id}
    /\ UNCHANGED <<phase, made, envs, sessions>>

Drop ==
    /\ phase = "running"
    /\ \E id \in held : held' = held \ {id}
    /\ UNCHANGED <<phase, made, envs, sessions>>

FreeSession ==
    /\ phase \in {"running", "exiting"}
    /\ \E s \in sessions : s.id \notin held /\ sessions' = sessions \ {s}
    /\ UNCHANGED <<phase, made, envs, held>>

FreeEnv ==
    /\ phase \in {"running", "exiting"}
    /\ \E e \in envs : (\A s \in sessions : s.env # e) /\ envs' = envs \ {e}
    /\ UNCHANGED <<phase, made, sessions, held>>

Quit ==
    /\ phase = "running"
    /\ phase' = "exiting"
    /\ held' = {}
    /\ UNCHANGED <<made, envs, sessions>>

Exit ==
    /\ phase = "exiting"
    /\ envs = {} /\ sessions = {}
    /\ phase' = "exited"
    /\ UNCHANGED <<made, envs, sessions, held>>

\* The library is unloaded, or turns out to be too old.
Lose ==
    /\ phase = "running"
    /\ phase' = "lost"
    /\ made' = 0
    /\ envs' = {} /\ sessions' = {} /\ held' = {}

Next ==
    \/ MakeEnv \/ MakeSession
    \/ Hold \/ Drop
    \/ FreeSession \/ FreeEnv
    \/ Quit \/ Exit
    \/ Lose

Spec == Init /\ [][Next]_vars

==============================================================================
