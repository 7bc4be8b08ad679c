---------------------------- MODULE ModelLifetime ----------------------------
(***************************************************************************)
(* The life of the native objects behind onnxr's models, in one R process: *)
(* the namespace hooks that load and unload the runtime (.onLoad,          *)
(* .onUnload), onnx_model() step by step, onnx_run(), R's garbage          *)
(* collector, which runs the C++ destructors, and the end of the process,  *)
(* which runs the remaining ones.                                          *)
(*                                                                         *)
(* R is single threaded, but its collector may run between any two calls   *)
(* of onnx_model().  Each Ort::Env and Ort::Session lives behind a         *)
(* cpp11::external_pointer; pointers are numbered in creation order, which *)
(* is the order of R's list of finalizers: the newest garbage goes first.  *)
(*                                                                         *)
(* Calling ONNX Runtime through a null or a stale table of functions is    *)
(* undefined.  Through NULL the process ends ("crashed"); through a stale  *)
(* one it ends, or the call works by luck, when the code is still, or      *)
(* again, mapped where it was.                                             *)
(***************************************************************************)
EXTENDS OrtLoader, FiniteSets

CONSTANTS
    MaxPtrs,       \* bound on the external pointers one process creates
    MaxEpochs      \* bound on how often the namespace is loaded

ASSUME BoundsAssumption == MaxPtrs \in Nat /\ MaxEpochs \in Nat

VARIABLES
    epoch,      \* how many times .onLoad has run in this process
    nsLoaded,   \* is the onnxr namespace loaded?
    apiInit,    \* has the static of Ort::detail::Global::Api been initialised?
    api,        \* the value it was initialised with, forever
    ptrs,       \* the external pointers created so far, oldest first
    live,       \* those whose finalizer has not run
    frame,      \* the locals env and sess of the running onnx_model()
    models,     \* the onnx_model objects the user can reach
    envRefs,    \* reference count of the library's one OrtEnv
    sessions,   \* the native sessions that exist in the open image
    status      \* "running", "exiting", "exited" or "crashed"

natVars == <<envRefs, sessions>>
heapVars == <<ptrs, live, frame, models>>
apiVars == <<apiInit, api>>
vars == <<loaderVars, epoch, nsLoaded, apiVars, heapVars, natVars, status>>

NoFrame == [env |-> NULL, sess |-> NULL]

Init ==
    /\ LoaderInit
    /\ epoch = 0
    /\ nsLoaded = FALSE
    /\ apiInit = FALSE
    /\ api = NULL
    /\ ptrs = <<>>
    /\ live = {}
    /\ frame = NoFrame
    /\ models = {}
    /\ envRefs = 0
    /\ sessions = {}
    /\ status = "running"

----------------------------------------------------------------------------
(* What R can reach, and what its collector may therefore finalize.        *)

Reachable ==
    ({frame.env, frame.sess} \cup UNION {{m.env, m.ptr} : m \in models})
        \ {NULL}

Garbage == live \ Reachable

\* R runs the finalizers of what it collected from the newest to the oldest.
IsNewest(p, S) == p \in S /\ \A q \in S : q <= p

Envs(S) == {p \in S : ptrs[p].kind = "env"}

\* The wrappers that hold a reference to the OrtEnv of the open image.
EnvHolders == {p \in Envs(live) : ptrs[p].image = handle}

----------------------------------------------------------------------------
(* Calls into the library.                                                 *)

Running == status = "running"
Idle == Running /\ nsLoaded /\ frame = NoFrame

\* The user's R process ends: a null or dangling pointer was called.
Crash ==
    /\ status' = "crashed"
    /\ UNCHANGED <<loaderVars, epoch, nsLoaded, apiVars, heapVars, natVars>>

\* Ort::GetApi(): the first call in the process asks the library, and every
\* later one gets the same answer.
ApiInUse == IF apiInit THEN api ELSE LibraryApi

\* A call on session s through the table is defined behaviour iff the table
\* is that of the open image, the session was created there and not released,
\* and the OrtEnv it refers to exists.
CallIsDefined(s) ==
    /\ api = handle
    /\ s \in sessions
    /\ envRefs > 0

\* Mutant: the wrapper is not cleared, so its destructor can run again.
ReleaseTwice(p) ==
    /\ envRefs' = IF ptrs[p].kind = "env" THEN envRefs - 1 ELSE envRefs
    /\ UNCHANGED <<live, sessions, status>>

\* Mutant: the wrapper goes away without ReleaseEnv or ReleaseSession.
ReleaseLeaks(p) ==
    /\ live' = live \ {p}
    /\ UNCHANGED <<envRefs, sessions, status>>

\* Drop the reference to p, by running its C++ destructor (Base<T>::~Base).
Release(p) ==
    \/ /\ ptrs[p].kind = "env"
       /\ live' = live \ {p}
       /\ envRefs' = IF ptrs[p].image = handle THEN envRefs - 1 ELSE envRefs
       /\ UNCHANGED <<sessions, status>>
    \/ /\ ptrs[p].kind = "session"
       /\ live' = live \ {p}
       /\ sessions' = sessions \ {p}
       /\ UNCHANGED <<envRefs, status>>
    \/ /\ \/ api # handle
          \/ ptrs[p].image # handle
          \/ ptrs[p].kind = "session" /\ ~CallIsDefined(p)
       /\ status' = "crashed"
       /\ UNCHANGED <<live, envRefs, sessions>>

----------------------------------------------------------------------------
(* The package's hooks and onnx_install(), when R is at top level.         *)

\* .onLoad: load the library onnx_find_lib() found, if it found one.  Its
\* warnings may be errors (options(warn = 2)), and package_version() may
\* reject the library's version: then the namespace is not loaded, and
\* .onUnload does not run, but the library stays loaded for the next attempt.
OnLoad(probe) ==
    /\ Running
    /\ ~nsLoaded
    /\ epoch < MaxEpochs
    /\ epoch' = epoch + 1
    /\ \/ nsLoaded' = TRUE /\ UNCHANGED loaderVars      \* lib_path is NULL
       \/ nsLoaded' \in BOOLEAN /\ LoadLib(probe)
    /\ UNCHANGED <<apiVars, heapVars, natVars, status>>

\* The last step of onnx_install(): load what was installed, unless loaded.
InstallLoads(probe) ==
    /\ Idle
    /\ ~IsLoaded
    /\ LoadLib(probe)
    /\ UNCHANGED <<epoch, nsLoaded, apiVars, heapVars, natVars, status>>

\* .onUnload: the package's own shared object stays, and with it the statics
\* and the user's models; what the library held in its image goes with it.
OnUnload ==
    /\ Idle
    /\ nsLoaded' = FALSE
    /\ UnloadLib
    /\ envRefs' = 0
    /\ sessions' = {}
    /\ UNCHANGED <<epoch, apiVars, heapVars, status>>

----------------------------------------------------------------------------
(* onnx_model(): an env, a session that uses it, the queries, the list.    *)

\* onnx_create_env().  CreateEnv of the C API counts references to one OrtEnv.
CreateEnv ==
    /\ Idle
    /\ IsLoaded                                 \* onnx_check_loaded
    /\ Len(ptrs) < MaxPtrs
    /\ apiInit' = TRUE
    /\ api' = ApiInUse
    /\ \/ /\ ApiInUse # NULL
          /\ ptrs' = Append(ptrs,
                 [kind |-> "env", image |-> handle, env |-> NULL])
          /\ live' = live \cup {Len(ptrs')}
          /\ frame' = [NoFrame EXCEPT !.env = Len(ptrs')]
          /\ envRefs' = envRefs + 1
          /\ UNCHANGED status
       \/ /\ ApiInUse # handle
          /\ status' = "crashed"
          /\ UNCHANGED <<ptrs, live, frame, envRefs>>
    /\ UNCHANGED <<loaderVars, epoch, nsLoaded, models, sessions>>

\* onnx_create_session(): Ort::Session keeps a pointer to the native env.
CreateSession ==
    /\ Running
    /\ frame.env # NULL
    /\ frame.sess = NULL
    /\ IsLoaded                                 \* onnx_check_loaded
    /\ Len(ptrs) < MaxPtrs
    /\ \/ /\ ptrs' = Append(ptrs,
                 [kind |-> "session", image |-> handle, env |-> frame.env])
          /\ live' = live \cup {Len(ptrs')}
          /\ frame' = [frame EXCEPT !.sess = Len(ptrs')]
          /\ sessions' = sessions \cup {Len(ptrs')}
          /\ UNCHANGED status
       \/ /\ api # handle
          /\ status' = "crashed"
          /\ UNCHANGED <<ptrs, live, frame, sessions>>
    /\ UNCHANGED <<loaderVars, epoch, nsLoaded, apiVars, models, envRefs>>

\* An error (a missing file, a model ORT rejects) or the user's interrupt
\* unwinds onnx_model(): its locals become garbage.
ModelFails ==
    /\ Running
    /\ frame # NoFrame
    /\ frame' = NoFrame
    /\ UNCHANGED <<loaderVars, epoch, nsLoaded, apiVars, ptrs, live, models,
                   natVars, status>>

\* The onnx_session_* functions, each a call on the session: when defined,
\* they leave this state as it is.
QuerySession ==
    /\ Running
    /\ frame.sess # NULL
    /\ IsLoaded                                 \* onnx_check_loaded
    /\ \/ UNCHANGED vars
       \/ ~CallIsDefined(frame.sess) /\ Crash

\* Mutant: the list returned by onnx_model() has no `env` field.
ModelReturnsWithoutEnv ==
    /\ Running
    /\ frame.sess # NULL
    /\ models' = models \cup {[ptr |-> frame.sess, env |-> NULL]}
    /\ frame' = NoFrame
    /\ UNCHANGED <<loaderVars, epoch, nsLoaded, apiVars, ptrs, live, natVars,
                   status>>

\* The queries succeeded: onnx_model() returns a list that holds both pointers.
ModelReturns ==
    /\ Running
    /\ frame.sess # NULL
    /\ models' = models \cup {[ptr |-> frame.sess, env |-> frame.env]}
    /\ frame' = NoFrame
    /\ UNCHANGED <<loaderVars, epoch, nsLoaded, apiVars, ptrs, live, natVars,
                   status>>

----------------------------------------------------------------------------
(* The user's models.                                                      *)

\* onnx_run(m), whose one call is onnx_run_: when defined, Session::Run leaves
\* this state as it is.
RunModel(m) ==
    /\ Idle
    /\ IsLoaded                                 \* onnx_check_loaded
    /\ \/ UNCHANGED vars
       \/ ~CallIsDefined(m.ptr) /\ Crash

\* rm(model), or a new value for the variable that held it.
DropModel(m) ==
    /\ Running
    /\ models' = models \ {m}
    /\ UNCHANGED <<loaderVars, epoch, nsLoaded, apiVars, ptrs, live, frame,
                   natVars, status>>

----------------------------------------------------------------------------
(* The collector, and the end of the process.                              *)

Finalize ==
    /\ Running
    /\ \E p \in Garbage : IsNewest(p, Garbage) /\ Release(p)
    /\ UNCHANGED <<loaderVars, epoch, nsLoaded, apiVars, ptrs, frame, models>>

\* quit(): R does not run .onUnload, it runs every registered finalizer.
Quit ==
    /\ Running
    /\ frame = NoFrame
    /\ status' = "exiting"
    /\ UNCHANGED <<loaderVars, epoch, nsLoaded, apiVars, heapVars, natVars>>

\* Mutant: at exit an environment goes before the sessions made with it.
ExitFinalizeOldest ==
    /\ status = "exiting"
    /\ \E p \in live : (\A q \in live : p <= q) /\ Release(p)
    /\ UNCHANGED <<loaderVars, epoch, nsLoaded, apiVars, ptrs, frame, models>>

ExitFinalize ==
    /\ status = "exiting"
    /\ \E p \in live : IsNewest(p, live) /\ Release(p)
    /\ UNCHANGED <<loaderVars, epoch, nsLoaded, apiVars, ptrs, frame, models>>

Exit ==
    /\ status = "exiting"
    /\ live = {}
    /\ status' = "exited"
    /\ UNCHANGED <<loaderVars, epoch, nsLoaded, apiVars, heapVars, natVars>>

Ended ==
    /\ status \in {"exited", "crashed"}
    /\ UNCHANGED vars

Next ==
    \/ \E probe \in Probes : OnLoad(probe) \/ InstallLoads(probe)
    \/ OnUnload
    \/ CreateEnv
    \/ CreateSession
    \/ ModelFails
    \/ QuerySession
    \/ ModelReturns
    \/ \E m \in models : RunModel(m) \/ DropModel(m)
    \/ Finalize
    \/ Quit
    \/ ExitFinalize
    \/ Exit
    \/ Ended

\* Once quit() began, R runs the finalizers in a loop and then ends: nothing
\* else is scheduled.  No fairness is assumed of the user or the collector.
Fairness == WF_vars(ExitFinalize) /\ WF_vars(Exit)

Spec == Init /\ [][Next]_vars
FairSpec == Spec /\ Fairness

----------------------------------------------------------------------------
(* Properties.                                                             *)

PtrRecord == [kind : {"env", "session"}, image : Nat, env : Nat]

TypeOK ==
    /\ LoaderTypeOK
    /\ epoch \in 0..MaxEpochs
    /\ nsLoaded \in BOOLEAN
    /\ apiInit \in BOOLEAN
    /\ api \in 0..Len(images)
    /\ ptrs \in Seq(PtrRecord)
    /\ Len(ptrs) \in 0..MaxPtrs
    /\ \A p \in DOMAIN ptrs : ptrs[p].image \in 1..Len(images)
    /\ live \subseteq 1..Len(ptrs)
    /\ frame \in [env : Nat, sess : Nat]
    /\ models \subseteq [ptr : Nat, env : Nat]
    /\ envRefs \in Nat
    /\ sessions \subseteq 1..Len(ptrs)
    /\ status \in {"running", "exiting", "exited", "crashed"}

\* onnx_unload_lib() has closed no library yet.
NeverUnloaded ==
    \A i \in DOMAIN images : images[i] # "foreign" => i \in open

\* Every library this process opened is recent enough for the headers.
NoOldLibrary == \A i \in DOMAIN images : images[i] # "old"

\* The native reference count of the OrtEnv is the number of wrappers that
\* will still release it: the collector, errors inside onnx_model(), reloads
\* and the exit finalizers neither leak a reference nor drop one twice.
EnvRefsExact == envRefs = Cardinality(EnvHolders)

\* A native session is never left without the environment it was created in
\* (model.R keeps `env` in the list next to `ptr` for no other reason).  While
\* the list lives this is its doing; once both pointers are garbage, or R exits,
\* it is due to R, which finalizes the newer one, the session, first.
EnvOutlivesSessions ==
    \A s \in sessions : s \in live /\ ptrs[s].env \in EnvHolders

\* What onnx_model() returned can be run for as long as the user holds it,
\* whatever else was created, failed, dropped or collected meanwhile, until
\* the namespace is unloaded.
ModelsStayUsable ==
    NeverUnloaded /\ Running => \A m \in models : CallIsDefined(m.ptr)

\* A process that loaded a library of a compatible version, and has not
\* unloaded it, is not brought down by a call, a finalizer or its own exit.
NoCrashBeforeUnload ==
    NeverUnloaded /\ NoOldLibrary => status # "crashed"

\* With a library that it can use and has not unloaded, quit() runs to its end
\* and gives everything back to the library.  No release on the way may bring
\* the process down, as that of a session without its environment would: the
\* order in which R's exit finalizers run must be one that the pointers allow.
ExitReleasesEverything ==
    status = "exiting" /\ NeverUnloaded /\ NoOldLibrary ~>
        status = "exited" /\ live = {} /\ sessions = {} /\ envRefs = 0

\* OrtGetApiBase "forwards to the dynamically loaded implementation"
\* (ort_loader.cpp:24): the functions the C++ headers call are those of the
\* library that is loaded.  Not so after a reload: the headers ask once.
HeadersReachLoadedLibrary == Running /\ apiInit /\ IsLoaded => api = handle

\* With a library that it can use and has not unloaded, the process does with
\* its wrappers and its collector what ModelLife promises of the objects
\* behind them: each wrapper of an environment stands for one of its own.
Lost == ~NeverUnloaded \/ ~NoOldLibrary

Life == INSTANCE ModelLife WITH
    phase <- IF Lost THEN "lost" ELSE status,
    made <- IF Lost THEN 0 ELSE Len(ptrs),
    envs <- IF Lost THEN {} ELSE EnvHolders,
    sessions <- IF Lost THEN {}
                ELSE {[id |-> s, env |-> ptrs[s].env] : s \in sessions},
    held <- IF Lost \/ ~Running THEN {} ELSE {m.ptr : m \in models}

ImplementsModelLife == Life!Spec

==============================================================================
