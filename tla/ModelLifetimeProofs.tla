------------------------- MODULE ModelLifetimeProofs -------------------------
(***************************************************************************)
(* Theorems about ModelLifetime, for every value of its bounds: its        *)
(* invariants, and that it implements ModelLife.                           *)
(***************************************************************************)
EXTENDS ModelLifetime, FiniteSetTheorems, TLAPS

----------------------------------------------------------------------------
(* The inductive invariant, in named parts.                                *)

\* The handle never designates a library that lacks the symbol.
HandleInv == handle # NULL => images[handle] \in {"old", "current"}

\* No pointer exists before the headers asked for the table of functions,
\* and what they got is the open image for as long as no image was closed.
ApiInv ==
    /\ ~apiInit => ptrs = <<>>
    /\ NeverUnloaded /\ apiInit /\ status # "crashed"
           => handle # NULL /\ api = handle
    /\ NeverUnloaded => \A p \in DOMAIN ptrs : ptrs[p].image = handle

\* A session pointer is created after the pointer of its env, in one image.
PtrInv ==
    \A p \in DOMAIN ptrs :
        ptrs[p].kind = "session" =>
            /\ ptrs[p].env \in 1..(p - 1)
            /\ ptrs[ptrs[p].env].kind = "env"
            /\ ptrs[ptrs[p].env].image = ptrs[p].image

\* The locals of a running onnx_model() are alive and belong together.
FrameInv ==
    /\ frame.env # NULL =>
           /\ frame.env \in live
           /\ ptrs[frame.env].kind = "env"
           /\ ptrs[frame.env].image = handle
           /\ handle # NULL
           /\ apiInit
           /\ nsLoaded
    /\ frame.sess # NULL =>
           /\ frame.env # NULL
           /\ frame.sess \in live
           /\ ptrs[frame.sess].kind = "session"
           /\ ptrs[frame.sess].env = frame.env

\* So do the two pointers of each model the user holds.
ModelInv ==
    Running =>
        \A m \in models :
            /\ m.ptr \in live
            /\ m.env \in live
            /\ ptrs[m.ptr].kind = "session"
            /\ ptrs[m.env].kind = "env"
            /\ ptrs[m.ptr].env = m.env

\* A session wrapper is never finalized after the wrapper of its env.
PairInv == \A s \in live : ptrs[s].kind = "session" => ptrs[s].env \in live

\* The native sessions of the open image are those with a live wrapper.
SessionInv ==
    /\ \A s \in sessions :
           /\ s \in live
           /\ ptrs[s].kind = "session"
           /\ ptrs[s].image = handle
    /\ NeverUnloaded => \A s \in live : ptrs[s].kind = "session" => s \in sessions

\* quit() is called at top level, and ends when nothing is left to finalize.
ExitInv ==
    /\ status \in {"exiting", "exited"} => frame = NoFrame
    /\ status = "exited" => live = {}

IInv ==
    /\ TypeOK
    /\ OneOpenImage
    /\ HandleInv
    /\ ApiInv
    /\ PtrInv
    /\ FrameInv
    /\ ModelInv
    /\ PairInv
    /\ SessionInv
    /\ EnvRefsExact
    /\ NoCrashBeforeUnload
    /\ ExitInv

----------------------------------------------------------------------------
(* The reference count.                                                    *)

LEMMA HoldersFinite ==
    ASSUME TypeOK
    PROVE  /\ IsFiniteSet(live)
           /\ IsFiniteSet(EnvHolders)
           /\ Cardinality(EnvHolders) \in Nat
<1>1. /\ Len(ptrs) \in Int
      /\ live \subseteq 1..Len(ptrs)
  BY DEF TypeOK
<1>2. IsFiniteSet(1..Len(ptrs))
  BY <1>1, FS_Interval
<1>3. IsFiniteSet(live)
  BY <1>1, <1>2, FS_Subset
<1>4. EnvHolders \subseteq live
  BY DEF EnvHolders, Envs
<1>5. IsFiniteSet(EnvHolders)
  BY <1>3, <1>4, FS_Subset
<1> QED
  BY <1>3, <1>5, FS_CardinalityType

\* A wrapper that still holds its reference keeps the count above zero.
LEMMA HolderCounts ==
    ASSUME TypeOK, EnvRefsExact, EnvHolders # {}
    PROVE  envRefs > 0
<1>1. Cardinality(EnvHolders) # 0
  BY HoldersFinite, FS_EmptySet
<1> QED
  BY <1>1, HoldersFinite DEF EnvRefsExact

\* A session that the library has can be called through the right table.
LEMMA SessionIsUsable ==
    ASSUME IInv, NEW s \in sessions, api = handle
    PROVE  CallIsDefined(s)
<1>1. /\ s \in live
      /\ s \in DOMAIN ptrs
      /\ ptrs[s].kind = "session"
      /\ ptrs[s].image = handle
  BY DEF IInv, SessionInv, TypeOK
<1>2. ptrs[s].env \in live /\ ptrs[ptrs[s].env].kind = "env"
      /\ ptrs[ptrs[s].env].image = handle
  BY <1>1 DEF IInv, PairInv, PtrInv
<1>3. EnvHolders # {}
  BY <1>2 DEF EnvHolders, Envs
<1> QED
  BY <1>3, HolderCounts DEF IInv, CallIsDefined

----------------------------------------------------------------------------
(* The invariant holds at the start and is kept by every step.             *)

LEMMA InitIInv == Init => IInv
<1> SUFFICES ASSUME Init PROVE IInv
  OBVIOUS
<1>1. EnvHolders = {}
  BY DEF Init, EnvHolders, Envs
<1>2. EnvRefsExact
  BY <1>1, FS_EmptySet DEF Init, EnvRefsExact
<1>3. TypeOK
  <2>1. LoaderTypeOK
    BY MaxLoadsAssumption DEF Init, LoaderInit, LoaderTypeOK, NULL
  <2>2. epoch \in 0..MaxEpochs /\ api \in 0..Len(images)
    BY BoundsAssumption DEF Init, LoaderInit, NULL
  <2>3. Len(ptrs) \in 0..MaxPtrs /\ DOMAIN ptrs = {}
    BY BoundsAssumption DEF Init
  <2>4. ptrs \in Seq(PtrRecord)
    BY DEF Init
  <2> QED
    BY <2>1, <2>2, <2>3, <2>4 DEF Init, TypeOK, NoFrame, NULL
<1> QED
  BY <1>2, <1>3
  DEF Init, LoaderInit, IInv, OneOpenImage, HandleInv, ApiInv, PtrInv, FrameInv,
      ModelInv, PairInv, SessionInv, NoCrashBeforeUnload, ExitInv, NULL,
      NoFrame, NeverUnloaded, Running

\* Loading a library, from .onLoad or onnx_install(), when no onnx_model() runs.
LEMMA LoadKeeps ==
    ASSUME IInv, Running,
           frame.env = NULL, frame.sess = NULL,
           NEW probe \in Probes,
           LoadLib(probe) \/ UNCHANGED loaderVars,
           UNCHANGED <<apiVars, heapVars, natVars, status>>,
           epoch' \in 0..MaxEpochs,
           nsLoaded' \in BOOLEAN
    PROVE  IInv'
<1> USE DEF NULL, apiVars, heapVars, natVars
<1>0. /\ UNCHANGED <<apiInit, api, ptrs, live, frame, models, envRefs, sessions,
                     status>>
      /\ TypeOK /\ LoaderTypeOK /\ OneOpenImage
  BY DEF IInv, TypeOK
<1>1. CASE UNCHANGED loaderVars
  BY <1>0, <1>1
  DEF IInv, loaderVars, TypeOK, LoaderTypeOK, OneOpenImage, HandleInv, ApiInv,
      PtrInv, FrameInv, ModelInv, PairInv, SessionInv, EnvRefsExact,
      EnvHolders, Envs, NoCrashBeforeUnload, ExitInv, NeverUnloaded, Running
<1>2. CASE /\ handle = NULL
           /\ probe \in ImageKinds
           /\ Len(images) < MaxLoads
           /\ images' = Append(images, probe)
           /\ IF probe = "foreign"
                THEN UNCHANGED <<handle, baseFn, open>>
                ELSE /\ handle' = Len(images')
                     /\ baseFn' = Len(images')
                     /\ open' = open \cup {Len(images')}
  <2>1. /\ images' \in Seq(ImageKinds)
        /\ Len(images') = Len(images) + 1
        /\ Len(images) \in Nat
        /\ \A i \in 1..Len(images) : images'[i] = images[i]
        /\ images'[Len(images) + 1] = probe
    BY <1>0, <1>2 DEF LoaderTypeOK
  <2>2. TypeOK'
    <3>1. Len(images') \in 0..MaxLoads
      BY <1>2, <2>1, MaxLoadsAssumption
    <3>2. handle' \in 0..Len(images') /\ baseFn' \in 0..Len(images')
      BY <1>0, <1>2, <2>1 DEF LoaderTypeOK
    <3>3. open' \subseteq 1..Len(images')
      <4>1. open' \subseteq open \cup {Len(images')}
        BY <1>2
      <4>2. open \subseteq 1..Len(images)
        BY <1>0 DEF LoaderTypeOK
      <4> QED
        BY <2>1, <4>1, <4>2
    <3>4. LoaderTypeOK'
      BY <2>1, <3>1, <3>2, <3>3 DEF LoaderTypeOK
    <3>5. api' \in 0..Len(images')
      BY <1>0, <2>1 DEF TypeOK
    <3>6. (\A q \in DOMAIN ptrs : ptrs[q].image \in 1..Len(images))'
      BY <1>0, <2>1 DEF TypeOK
    <3> QED
      BY <1>0, <3>4, <3>5, <3>6 DEF TypeOK
  <2>3. OneOpenImage'
    BY <1>0, <1>2, <2>1 DEF OneOpenImage
  <2>4. HandleInv'
    BY <1>2, <2>1 DEF HandleInv, ImageKinds
  <2>5. NeverUnloaded' => NeverUnloaded
    BY <1>0, <1>2, <2>1 DEF NeverUnloaded, LoaderTypeOK
  <2>6. \A q \in DOMAIN ptrs : ptrs[q].image # handle /\ ptrs[q].image # handle'
    BY <1>0, <1>2, <2>1 DEF TypeOK
  <2>7. ApiInv'
    <3>1. NeverUnloaded' => ~apiInit /\ ptrs = <<>>
      BY <1>0, <1>2, <2>5 DEF IInv, ApiInv, Running
    <3> QED
      BY <1>0, <3>1 DEF IInv, ApiInv
  <2>8. live \subseteq DOMAIN ptrs
    BY <1>0 DEF TypeOK
  <2>9. sessions = {}
    BY <2>6, <2>8 DEF IInv, SessionInv
  <2>10. SessionInv'
    <3>1. NeverUnloaded' => live = {}
      BY <1>0, <1>2, <2>5, <2>8 DEF IInv, ApiInv, Running
    <3> QED
      BY <1>0, <2>9, <3>1 DEF SessionInv
  <2>11. EnvRefsExact'
    <3>1. EnvHolders = {} /\ EnvHolders' = {}
      BY <1>0, <2>6, <2>8 DEF EnvHolders, Envs
    <3> QED
      BY <1>0, <3>1 DEF IInv, EnvRefsExact
  <2>12. /\ PtrInv' /\ FrameInv' /\ ModelInv' /\ PairInv' /\ ExitInv'
         /\ NoCrashBeforeUnload'
    BY <1>0 DEF IInv, PtrInv, FrameInv, ModelInv, PairInv, ExitInv,
                NoCrashBeforeUnload, Running
  <2> QED
    BY <2>2, <2>3, <2>4, <2>7, <2>10, <2>11, <2>12 DEF IInv
<1> QED
  BY <1>1, <1>2 DEF LoadLib, Probes, ImageKinds, loaderVars

LEMMA OnLoadKeeps ==
    ASSUME IInv, NEW probe \in Probes, OnLoad(probe)
    PROVE  IInv'
<1>1. frame.env = NULL /\ frame.sess = NULL
  BY DEF IInv, FrameInv, OnLoad
<1>2. epoch' \in 0..MaxEpochs
  BY BoundsAssumption DEF OnLoad, IInv, TypeOK
<1>3. nsLoaded' \in BOOLEAN
  BY DEF OnLoad
<1> QED
  BY <1>1, <1>2, <1>3, LoadKeeps DEF OnLoad

LEMMA InstallLoadsKeeps ==
    ASSUME IInv, NEW probe \in Probes, InstallLoads(probe)
    PROVE  IInv'
<1>1. epoch' \in 0..MaxEpochs /\ nsLoaded' \in BOOLEAN
  BY DEF InstallLoads, IInv, TypeOK
<1> QED
  BY <1>1, LoadKeeps DEF InstallLoads, Idle, NoFrame

LEMMA OnUnloadKeeps ==
    ASSUME IInv, OnUnload
    PROVE  IInv'
<1> USE DEF NULL, apiVars, heapVars
<1>0. /\ UNCHANGED <<epoch, apiInit, api, ptrs, live, frame, models, status>>
      /\ TypeOK /\ LoaderTypeOK /\ OneOpenImage /\ Running
      /\ frame.env = NULL /\ frame.sess = NULL
      /\ envRefs' = 0 /\ sessions' = {} /\ nsLoaded' = FALSE
  BY DEF IInv, TypeOK, OnUnload, Idle, NoFrame
<1>1. /\ handle' = NULL /\ baseFn' = NULL /\ open' = {} /\ images' = images
  BY <1>0 DEF OnUnload, UnloadLib, loaderVars, OneOpenImage
<1>2. TypeOK'
  <2>1. LoaderTypeOK'
    BY <1>0, <1>1 DEF LoaderTypeOK
  <2> QED
    BY <1>0, <1>1, <2>1 DEF TypeOK
<1>3. OneOpenImage' /\ HandleInv'
  BY <1>1 DEF OneOpenImage, HandleInv
<1>4. \A q \in DOMAIN ptrs : ptrs[q].image # handle'
  BY <1>0, <1>1 DEF TypeOK
<1>5. live \subseteq DOMAIN ptrs
  BY <1>0 DEF TypeOK
<1>6. NeverUnloaded' => handle = NULL /\ NeverUnloaded
  BY <1>0, <1>1 DEF NeverUnloaded, OneOpenImage, IInv, HandleInv, LoaderTypeOK
<1>7. ApiInv' /\ SessionInv'
  <2>1. NeverUnloaded' => ~apiInit /\ ptrs = <<>>
    BY <1>0, <1>6 DEF IInv, ApiInv, Running
  <2>2. NeverUnloaded' => live = {}
    BY <2>1, <1>5
  <2> QED
    BY <1>0, <2>1, <2>2 DEF IInv, ApiInv, SessionInv
<1>8. EnvRefsExact'
  <2>1. EnvHolders' = {}
    BY <1>0, <1>4, <1>5 DEF EnvHolders, Envs
  <2> QED
    BY <1>0, <2>1, FS_EmptySet DEF EnvRefsExact
<1>9. /\ PtrInv' /\ FrameInv' /\ ModelInv' /\ PairInv' /\ ExitInv'
      /\ NoCrashBeforeUnload'
  BY <1>0 DEF IInv, PtrInv, FrameInv, ModelInv, PairInv, ExitInv,
              NoCrashBeforeUnload, Running, NoFrame
<1> QED
  BY <1>2, <1>3, <1>7, <1>8, <1>9 DEF IInv

\* While no library was unloaded, the headers have the table of the open one.
LEMMA ApiIsCurrent ==
    ASSUME IInv, NeverUnloaded, NoOldLibrary, apiInit
    PROVE  handle # NULL /\ api = handle
  BY DEF IInv, ApiInv, NoCrashBeforeUnload

\* A crash is accounted for by an earlier unload or an old library.
LEMMA CrashKeeps ==
    ASSUME IInv, Crash, ~(NeverUnloaded /\ NoOldLibrary)
    PROVE  IInv'
<1> USE DEF apiVars, heapVars, natVars, loaderVars
<1>0. /\ UNCHANGED <<handle, baseFn, images, open, epoch, nsLoaded, apiInit,
                     api, ptrs, live, frame, models, envRefs, sessions>>
      /\ status' = "crashed"
  BY DEF Crash
<1>1. TypeOK'
  BY <1>0 DEF IInv, TypeOK, LoaderTypeOK
<1>2. /\ OneOpenImage' /\ HandleInv' /\ ApiInv' /\ PtrInv' /\ FrameInv'
      /\ ModelInv' /\ PairInv' /\ SessionInv' /\ ExitInv'
  BY <1>0
     DEF IInv, OneOpenImage, HandleInv, ApiInv, PtrInv, FrameInv, ModelInv,
              PairInv, SessionInv, ExitInv, NeverUnloaded, Running
<1>3. EnvRefsExact'
  BY <1>0 DEF IInv, EnvRefsExact, EnvHolders, Envs
<1>4. NoCrashBeforeUnload'
  BY <1>0 DEF NoCrashBeforeUnload, NeverUnloaded, NoOldLibrary
<1> QED
  BY <1>1, <1>2, <1>3, <1>4 DEF IInv

\* Running one finalizer, in the collector or at exit.
LEMMA ReleaseKeeps ==
    ASSUME IInv, NEW p \in live, Release(p),
           UNCHANGED <<loaderVars, epoch, nsLoaded, apiVars, ptrs, frame, models>>,
           status \in {"running", "exiting"},
           Running => p \notin Reachable,
           \A q \in live : ptrs[q].kind = "session" => ptrs[q].env # p
    PROVE  IInv'
<1> USE DEF apiVars, loaderVars
<1>0. /\ UNCHANGED <<handle, baseFn, images, open, epoch, nsLoaded, apiInit,
                     api, ptrs, frame, models>>
      /\ TypeOK /\ p \in DOMAIN ptrs /\ apiInit
  BY DEF IInv, TypeOK, ApiInv
<1>1. CASE status' = "crashed" /\ UNCHANGED <<live, envRefs, sessions>>
           /\ \/ api # handle
              \/ ptrs[p].image # handle
              \/ ptrs[p].kind = "session" /\ ~CallIsDefined(p)
  <2>1. ~(NeverUnloaded /\ NoOldLibrary)
    <3>1. SUFFICES ASSUME NeverUnloaded, NoOldLibrary PROVE FALSE
      OBVIOUS
    <3>2. api = handle /\ ptrs[p].image = handle
      BY <1>0, <3>1, ApiIsCurrent DEF IInv, ApiInv
    <3>3. ptrs[p].kind = "session" => CallIsDefined(p)
      BY <3>1, <3>2, SessionIsUsable DEF IInv, SessionInv
    <3> QED
      BY <1>1, <3>2, <3>3
  <2> QED
    BY <1>0, <1>1, <2>1, CrashKeeps DEF Crash, heapVars, natVars
<1>2. CASE /\ live' = live \ {p}
           /\ UNCHANGED status
           /\ \/ /\ ptrs[p].kind = "env"
                 /\ envRefs' = IF ptrs[p].image = handle THEN envRefs - 1
                                                         ELSE envRefs
                 /\ UNCHANGED sessions
              \/ /\ ptrs[p].kind = "session"
                 /\ sessions' = sessions \ {p}
                 /\ UNCHANGED envRefs
  <2>1. EnvRefsExact' /\ envRefs' \in Nat
    <3>1. CASE p \in EnvHolders
      <4>1. EnvHolders' = EnvHolders \ {p} /\ envRefs' = envRefs - 1
        BY <1>0, <1>2, <3>1 DEF EnvHolders, Envs
      <4>2. envRefs > 0
        BY <1>0, <3>1, HolderCounts DEF IInv
      <4>3. Cardinality(EnvHolders \ {p}) = Cardinality(EnvHolders) - 1
        BY <1>0, <3>1, HoldersFinite, FS_RemoveElement
      <4> QED
        BY <1>0, <4>1, <4>2, <4>3 DEF IInv, TypeOK, EnvRefsExact
    <3>2. CASE p \notin EnvHolders
      <4>1. EnvHolders' = EnvHolders /\ envRefs' = envRefs
        BY <1>0, <1>2, <3>2 DEF EnvHolders, Envs
      <4> QED
        BY <1>0, <4>1 DEF IInv, TypeOK, EnvRefsExact
    <3> QED
      BY <3>1, <3>2
  <2>2. TypeOK'
    <3>1. LoaderTypeOK'
      BY <1>0 DEF TypeOK, LoaderTypeOK
    <3>2. live' \subseteq 1..Len(ptrs) /\ sessions' \subseteq 1..Len(ptrs)
      BY <1>0, <1>2 DEF TypeOK
    <3> QED
      BY <1>0, <1>2, <2>1, <3>1, <3>2 DEF TypeOK
  <2>3. OneOpenImage' /\ HandleInv' /\ ApiInv' /\ PtrInv' /\ NoCrashBeforeUnload'
    BY <1>0, <1>2 DEF IInv, OneOpenImage, HandleInv, ApiInv, PtrInv,
                      NoCrashBeforeUnload, NeverUnloaded, NoOldLibrary
  <2>4. FrameInv'
    <3>1. CASE Running
      <4>1. p # frame.env \/ frame.env = NULL
        BY <1>0, <3>1 DEF Reachable
      <4>2. p # frame.sess \/ frame.sess = NULL
        BY <1>0, <3>1 DEF Reachable
      <4> QED
        BY <1>0, <1>2, <4>1, <4>2 DEF IInv, FrameInv
    <3>2. CASE status = "exiting"
      BY <1>0, <3>2 DEF IInv, ExitInv, FrameInv, NoFrame
    <3> QED
      BY <3>1, <3>2 DEF Running
  <2>5. ModelInv'
    <3>1. SUFFICES ASSUME Running, NEW m \in models
                   PROVE  m.ptr # p /\ m.env # p
      BY <1>0, <1>2 DEF IInv, ModelInv, Running
    <3>2. {m.env, m.ptr} \subseteq UNION {{n.env, n.ptr} : n \in models}
      OBVIOUS
    <3>3. p # NULL
      BY <1>0 DEF TypeOK, NULL
    <3> QED
      BY <3>1, <3>2, <3>3 DEF Reachable
  <2>6. PairInv'
    BY <1>0, <1>2 DEF IInv, PairInv
  <2>7. SessionInv'
    BY <1>0, <1>2 DEF IInv, SessionInv, NeverUnloaded
  <2>8. ExitInv'
    BY <1>0, <1>2 DEF IInv, ExitInv
  <2> QED
    BY <2>1, <2>2, <2>3, <2>4, <2>5, <2>6, <2>7, <2>8 DEF IInv
<1> QED
  BY <1>1, <1>2 DEF Release

\* The collector takes the newest garbage first: a session before its env.
LEMMA NewestIsNoEnvOfLive ==
    ASSUME IInv, Running, NEW p \in Garbage, IsNewest(p, Garbage)
    PROVE  \A q \in live : ptrs[q].kind = "session" => ptrs[q].env # p
<1>1. p \in live /\ p \notin Reachable
  BY DEF Garbage
<1> SUFFICES ASSUME NEW q \in live, ptrs[q].kind = "session", ptrs[q].env = p
             PROVE  FALSE
  OBVIOUS
<1>2. q \in 1..Len(ptrs) /\ q \in DOMAIN ptrs
  BY DEF IInv, TypeOK
<1>3. p \in 1..(q - 1) /\ ptrs[p].kind = "env"
  BY <1>2 DEF IInv, PtrInv
<1>4. q \in Reachable
  BY <1>2, <1>3 DEF Garbage, IsNewest, IInv, TypeOK
<1>5. CASE q \in {frame.env, frame.sess} /\ q # NULL
  <2>1. frame.sess = q /\ frame.env = p
    BY <1>3, <1>5 DEF IInv, FrameInv
  <2> QED
    BY <1>1, <1>3, <2>1 DEF Reachable, NULL
<1>6. CASE \E m \in models : q \in {m.env, m.ptr}
  <2>1. PICK m \in models : q \in {m.env, m.ptr}
    BY <1>6
  <2>2. m.ptr = q /\ m.env = p
    BY <2>1 DEF IInv, ModelInv
  <2>3. {m.env, m.ptr} \subseteq UNION {{n.env, n.ptr} : n \in models}
    OBVIOUS
  <2> QED
    BY <1>1, <1>3, <2>2, <2>3 DEF Reachable, NULL
<1> QED
  BY <1>4, <1>5, <1>6 DEF Reachable

LEMMA FinalizeKeeps ==
    ASSUME IInv, Finalize
    PROVE  IInv'
<1>1. PICK p \in Garbage : IsNewest(p, Garbage) /\ Release(p)
  BY DEF Finalize
<1>2. p \in live /\ p \notin Reachable /\ Running
  BY <1>1 DEF Garbage, Finalize
<1>3. \A q \in live : ptrs[q].kind = "session" => ptrs[q].env # p
  BY <1>1, <1>2, NewestIsNoEnvOfLive
<1> QED
  BY <1>1, <1>2, <1>3, ReleaseKeeps DEF Finalize, Running

LEMMA ExitFinalizeKeeps ==
    ASSUME IInv, ExitFinalize
    PROVE  IInv'
<1>1. PICK p \in live : IsNewest(p, live) /\ Release(p)
  BY DEF ExitFinalize
<1>2. ASSUME NEW q \in live, ptrs[q].kind = "session", ptrs[q].env = p
      PROVE  FALSE
  <2>1. q \in 1..Len(ptrs) /\ p \in 1..(q - 1)
    BY <1>2 DEF IInv, PtrInv, TypeOK
  <2> QED
    BY <1>1, <2>1 DEF IsNewest, IInv, TypeOK
<1> QED
  BY <1>1, <1>2, ReleaseKeeps DEF ExitFinalize, Running

\* A new external pointer gets the next number and moves no older one.
LEMMA AppendPtr ==
    ASSUME TypeOK, NEW new \in PtrRecord, ptrs' = Append(ptrs, new)
    PROVE  /\ Len(ptrs') = Len(ptrs) + 1
           /\ Len(ptrs) + 1 \in Nat
           /\ Len(ptrs) + 1 # NULL
           /\ DOMAIN ptrs' = DOMAIN ptrs \cup {Len(ptrs) + 1}
           /\ ptrs'[Len(ptrs) + 1] = new
           /\ \A i \in DOMAIN ptrs : ptrs'[i] = ptrs[i] /\ i \in 1..Len(ptrs)
           /\ ptrs' \in Seq(PtrRecord)
<1>1. ptrs \in Seq(PtrRecord) /\ Len(ptrs) \in Nat
  BY DEF TypeOK, PtrRecord
<1>2. /\ Len(ptrs') = Len(ptrs) + 1
      /\ ptrs'[Len(ptrs) + 1] = new
      /\ ptrs' \in Seq(PtrRecord)
  BY <1>1
<1>3. DOMAIN ptrs = 1..Len(ptrs) /\ DOMAIN ptrs' = 1..(Len(ptrs) + 1)
  BY <1>1, <1>2
<1>4. \A i \in 1..Len(ptrs) : ptrs'[i] = ptrs[i]
  BY <1>1
<1>5. 1..(Len(ptrs) + 1) = (1..Len(ptrs)) \cup {Len(ptrs) + 1}
  BY <1>1
<1> QED
  BY <1>1, <1>2, <1>3, <1>4, <1>5 DEF NULL

\* The links of the older session pointers are not disturbed by it.
LEMMA AppendKeepsLinks ==
    ASSUME IInv, NEW new \in PtrRecord, ptrs' = Append(ptrs, new),
           NEW q \in DOMAIN ptrs, ptrs[q].kind = "session"
    PROVE  /\ ptrs'[q].env \in 1..(q - 1)
           /\ ptrs'[ptrs'[q].env].kind = "env"
           /\ ptrs'[ptrs'[q].env].image = ptrs'[q].image
<1>1. TypeOK
  BY DEF IInv
<1>2. /\ ptrs[q].env \in 1..(q - 1)
      /\ ptrs[ptrs[q].env].kind = "env"
      /\ ptrs[ptrs[q].env].image = ptrs[q].image
  BY DEF IInv, PtrInv
<1>3. ptrs[q].env \in DOMAIN ptrs
  BY <1>1, <1>2 DEF TypeOK
<1> QED
  BY <1>1, <1>2, <1>3, AppendPtr

LEMMA CreateEnvKeeps ==
    ASSUME IInv, CreateEnv
    PROVE  IInv'
<1> USE DEF NULL, loaderVars
<1>0. /\ UNCHANGED <<handle, baseFn, images, open, epoch, nsLoaded, models,
                     sessions>>
      /\ TypeOK /\ LoaderTypeOK /\ Running /\ nsLoaded
      /\ handle # NULL /\ Len(ptrs) < MaxPtrs
      /\ frame.env = NULL /\ frame.sess = NULL
      /\ apiInit' = TRUE /\ api' = ApiInUse
  BY DEF IInv, TypeOK, CreateEnv, Idle, NoFrame, IsLoaded
<1>1. NeverUnloaded /\ NoOldLibrary => ApiInUse = handle
  <2>1. SUFFICES ASSUME NeverUnloaded, NoOldLibrary PROVE ApiInUse = handle
    OBVIOUS
  <2>2. LibraryApi = handle
    BY <1>0, <2>1 DEF LibraryApi, IInv, OneOpenImage, HandleInv, NoOldLibrary,
                      LoaderTypeOK
  <2> QED
    BY <2>1, <2>2, ApiIsCurrent DEF ApiInUse
<1>2. ApiInUse \in 0..Len(images)
  BY <1>0 DEF ApiInUse, LibraryApi, TypeOK, LoaderTypeOK
<1>3. NeverUnloaded /\ ApiInUse # NULL => ApiInUse = handle
  BY <1>0 DEF ApiInUse, LibraryApi, IInv, ApiInv, OneOpenImage, Running
<1>4. CASE /\ ApiInUse # NULL
           /\ ptrs' = Append(ptrs, [kind |-> "env", image |-> handle, env |-> NULL])
           /\ live' = live \cup {Len(ptrs')}
           /\ frame' = [NoFrame EXCEPT !.env = Len(ptrs')]
           /\ envRefs' = envRefs + 1
           /\ UNCHANGED status
  <2> DEFINE n == Len(ptrs) + 1
  <2>0. [kind |-> "env", image |-> handle, env |-> NULL] \in PtrRecord
    BY <1>0 DEF LoaderTypeOK, PtrRecord
  <2>1. /\ Len(ptrs') = n /\ n \in Nat /\ n # NULL
        /\ DOMAIN ptrs' = DOMAIN ptrs \cup {n}
        /\ ptrs'[n] = [kind |-> "env", image |-> handle, env |-> NULL]
        /\ \A i \in DOMAIN ptrs : ptrs'[i] = ptrs[i] /\ i \in 1..Len(ptrs)
        /\ ptrs' \in Seq(PtrRecord)
    BY <1>0, <1>4, <2>0, AppendPtr
  <2>2. /\ n \notin live /\ n \notin DOMAIN ptrs /\ live \subseteq DOMAIN ptrs
        /\ live' = live \cup {n}
    BY <1>0, <1>4, <2>1 DEF TypeOK
  <2>3. frame'.env = n /\ frame'.sess = NULL /\ frame' \in [env : Nat, sess : Nat]
    BY <1>4, <2>1 DEF NoFrame
  <2> HIDE DEF n
  <2>4. EnvRefsExact'
    <3>1. EnvHolders' = EnvHolders \cup {n} /\ n \notin EnvHolders
      BY <1>0, <1>4, <2>1, <2>2 DEF EnvHolders, Envs
    <3>2. Cardinality(EnvHolders \cup {n}) = Cardinality(EnvHolders) + 1
      BY <1>0, <3>1, HoldersFinite, FS_AddElement
    <3> QED
      BY <1>4, <3>1, <3>2 DEF IInv, EnvRefsExact
  <2>5. TypeOK'
    <3>1. LoaderTypeOK'
      BY <1>0 DEF LoaderTypeOK
    <3>2. Len(ptrs') \in 0..MaxPtrs
      BY <1>0, <2>1, BoundsAssumption DEF n, TypeOK
    <3>3. (\A q \in DOMAIN ptrs : ptrs[q].image \in 1..Len(images))'
      BY <1>0, <2>1 DEF TypeOK, LoaderTypeOK
    <3>4. live' \subseteq 1..Len(ptrs') /\ sessions' \subseteq 1..Len(ptrs')
      BY <1>0, <2>1, <2>2 DEF TypeOK, n
    <3> QED
      BY <1>0, <1>2, <1>4, <2>1, <2>3, <3>1, <3>2, <3>3, <3>4 DEF TypeOK
  <2>6. OneOpenImage' /\ HandleInv'
    BY <1>0 DEF IInv, OneOpenImage, HandleInv
  <2>7. ApiInv'
    BY <1>0, <1>3, <1>4, <2>1 DEF IInv, ApiInv, NeverUnloaded
  <2>8. PtrInv'
    BY <1>4, <2>0, <2>1, AppendKeepsLinks DEF PtrInv
  <2>9. FrameInv'
    BY <1>0, <1>4, <2>1, <2>2, <2>3 DEF FrameInv
  <2>10. ModelInv' /\ PairInv'
    BY <1>0, <1>4, <2>1, <2>2 DEF IInv, ModelInv, PairInv, Running
  <2>11. SessionInv'
    BY <1>0, <2>1, <2>2 DEF IInv, SessionInv, NeverUnloaded
  <2>12. NoCrashBeforeUnload' /\ ExitInv'
    BY <1>0, <1>4 DEF IInv, NoCrashBeforeUnload, ExitInv, NeverUnloaded,
                      NoOldLibrary, Running
  <2> QED
    BY <2>4, <2>5, <2>6, <2>7, <2>8, <2>9, <2>10, <2>11, <2>12 DEF IInv
<1>5. CASE /\ ApiInUse # handle
           /\ status' = "crashed"
           /\ UNCHANGED <<ptrs, live, frame, envRefs>>
  <2>1. TypeOK'
    BY <1>0, <1>2, <1>5 DEF TypeOK, LoaderTypeOK
  <2>2. EnvRefsExact'
    BY <1>0, <1>5 DEF IInv, EnvRefsExact, EnvHolders, Envs
  <2>3. /\ OneOpenImage' /\ HandleInv' /\ ApiInv' /\ PtrInv' /\ FrameInv'
        /\ ModelInv' /\ PairInv' /\ SessionInv' /\ ExitInv'
    BY <1>0, <1>5 DEF IInv, OneOpenImage, HandleInv, ApiInv, PtrInv, FrameInv,
       ModelInv, PairInv, SessionInv, ExitInv, NeverUnloaded, Running
  <2>4. NoCrashBeforeUnload'
    BY <1>0, <1>1, <1>5 DEF NoCrashBeforeUnload, NeverUnloaded, NoOldLibrary
  <2> QED
    BY <2>1, <2>2, <2>3, <2>4 DEF IInv
<1> QED
  BY <1>4, <1>5 DEF CreateEnv

LEMMA CreateSessionKeeps ==
    ASSUME IInv, CreateSession
    PROVE  IInv'
<1> USE DEF NULL, loaderVars, apiVars
<1>0. /\ UNCHANGED <<handle, baseFn, images, open, epoch, nsLoaded, apiInit, api,
                     models, envRefs>>
      /\ TypeOK /\ LoaderTypeOK /\ Running
      /\ handle # NULL /\ Len(ptrs) < MaxPtrs
      /\ frame.env # NULL /\ frame.sess = NULL
      /\ frame.env \in live /\ ptrs[frame.env].kind = "env"
      /\ ptrs[frame.env].image = handle /\ apiInit /\ nsLoaded
  BY DEF IInv, TypeOK, CreateSession, IsLoaded, FrameInv
<1>1. CASE /\ ptrs' = Append(ptrs,
                 [kind |-> "session", image |-> handle, env |-> frame.env])
           /\ live' = live \cup {Len(ptrs')}
           /\ frame' = [frame EXCEPT !.sess = Len(ptrs')]
           /\ sessions' = sessions \cup {Len(ptrs')}
           /\ UNCHANGED status
  <2> DEFINE n == Len(ptrs) + 1
  <2>0. [kind |-> "session", image |-> handle, env |-> frame.env] \in PtrRecord
    BY <1>0 DEF LoaderTypeOK, TypeOK, PtrRecord
  <2>1. /\ Len(ptrs') = n /\ n \in Nat /\ n # NULL
        /\ DOMAIN ptrs' = DOMAIN ptrs \cup {n}
        /\ ptrs'[n] = [kind |-> "session", image |-> handle, env |-> frame.env]
        /\ \A i \in DOMAIN ptrs : ptrs'[i] = ptrs[i] /\ i \in 1..Len(ptrs)
        /\ ptrs' \in Seq(PtrRecord)
    BY <1>0, <1>1, <2>0, AppendPtr
  <2>2. /\ n \notin live /\ n \notin DOMAIN ptrs /\ live \subseteq DOMAIN ptrs
        /\ live' = live \cup {n} /\ sessions' = sessions \cup {n}
    BY <1>0, <1>1, <2>1 DEF TypeOK
  <2>3. /\ frame'.sess = n /\ frame'.env = frame.env
        /\ frame' \in [env : Nat, sess : Nat]
    BY <1>0, <1>1, <2>1 DEF TypeOK
  <2>4. frame.env \in 1..(n - 1) /\ frame.env \in DOMAIN ptrs
    BY <1>0, <2>2 DEF TypeOK
  <2> HIDE DEF n
  <2>5. EnvRefsExact'
    <3>1. EnvHolders' = EnvHolders
      BY <1>0, <2>1, <2>2 DEF EnvHolders, Envs
    <3> QED
      BY <1>0, <3>1 DEF IInv, EnvRefsExact
  <2>6. TypeOK'
    <3>1. LoaderTypeOK'
      BY <1>0 DEF LoaderTypeOK
    <3>2. Len(ptrs') \in 0..MaxPtrs
      BY <1>0, <2>1, BoundsAssumption DEF n, TypeOK
    <3>3. (\A q \in DOMAIN ptrs : ptrs[q].image \in 1..Len(images))'
      BY <1>0, <2>1 DEF TypeOK, LoaderTypeOK
    <3>4. live' \subseteq 1..Len(ptrs') /\ sessions' \subseteq 1..Len(ptrs')
      <4>1. live \subseteq 1..Len(ptrs) /\ sessions \subseteq 1..Len(ptrs)
        BY <1>0 DEF TypeOK
      <4>2. 1..Len(ptrs') = (1..Len(ptrs)) \cup {n}
        BY <1>0, <2>1 DEF TypeOK, n
      <4> QED
        BY <2>2, <4>1, <4>2
    <3>5. status' \in {"running", "exiting", "exited", "crashed"}
      BY <1>0, <1>1 DEF TypeOK
    <3> QED
      BY <1>0, <2>1, <2>3, <3>1, <3>2, <3>3, <3>4, <3>5 DEF TypeOK
  <2>7. OneOpenImage' /\ HandleInv'
    BY <1>0 DEF IInv, OneOpenImage, HandleInv
  <2>8. ApiInv'
    BY <1>0, <1>1, <2>1 DEF IInv, ApiInv, NeverUnloaded
  <2>9. PtrInv'
    <3>1. ASSUME NEW q \in DOMAIN ptrs', ptrs'[q].kind = "session"
          PROVE  /\ ptrs'[q].env \in 1..(q - 1)
                 /\ ptrs'[ptrs'[q].env].kind = "env"
                 /\ ptrs'[ptrs'[q].env].image = ptrs'[q].image
      <4>1. CASE q = n
        BY <1>0, <2>1, <2>4, <4>1
      <4>2. CASE q \in DOMAIN ptrs
        BY <1>1, <2>0, <2>1, <3>1, <4>2, AppendKeepsLinks
      <4> QED
        BY <2>1, <3>1, <4>1, <4>2
    <3> QED
      BY <3>1 DEF PtrInv
  <2>10. FrameInv'
    BY <1>0, <2>1, <2>2, <2>3, <2>4 DEF FrameInv
  <2>11. ModelInv'
    BY <1>0, <1>1, <2>1, <2>2 DEF IInv, ModelInv, Running
  <2>12. PairInv'
    BY <1>0, <2>1, <2>2 DEF IInv, PairInv
  <2>13. SessionInv'
    BY <1>0, <2>1, <2>2 DEF IInv, SessionInv, NeverUnloaded
  <2>14. NoCrashBeforeUnload' /\ ExitInv'
    BY <1>0, <1>1 DEF IInv, NoCrashBeforeUnload, ExitInv, NeverUnloaded,
                      NoOldLibrary, Running
  <2> QED
    BY <2>5, <2>6, <2>7, <2>8, <2>9, <2>10, <2>11, <2>12, <2>13, <2>14 DEF IInv
<1>2. CASE /\ api # handle
           /\ status' = "crashed"
           /\ UNCHANGED <<ptrs, live, frame, sessions>>
  <2>1. Crash
    BY <1>0, <1>2 DEF Crash, heapVars, natVars
  <2> QED
    BY <1>0, <1>2, <2>1, ApiIsCurrent, CrashKeeps
<1> QED
  BY <1>1, <1>2 DEF CreateSession

\* The steps that only move what the user and the running call can reach.
LEMMA ReachKeeps ==
    ASSUME IInv, Running,
           UNCHANGED <<loaderVars, epoch, nsLoaded, apiVars, ptrs, live, natVars,
                       status>>,
           frame' \in {frame, NoFrame},
           models' \subseteq [ptr : Nat, env : Nat],
           \A m \in models' : /\ m.ptr \in live
                             /\ m.env \in live
                             /\ ptrs[m.ptr].kind = "session"
                             /\ ptrs[m.env].kind = "env"
                             /\ ptrs[m.ptr].env = m.env
    PROVE  IInv'
<1> USE DEF loaderVars, apiVars, natVars
<1>0. /\ UNCHANGED <<handle, baseFn, images, open, epoch, nsLoaded, apiInit, api,
                     ptrs, live, envRefs, sessions, status>>
      /\ TypeOK /\ frame' \in [env : Nat, sess : Nat]
  BY DEF IInv, TypeOK, NoFrame, NULL
<1>1. TypeOK'
  BY <1>0 DEF TypeOK, LoaderTypeOK
<1>2. EnvRefsExact'
  BY <1>0 DEF IInv, EnvRefsExact, EnvHolders, Envs
<1>3. FrameInv' /\ ModelInv'
  BY <1>0 DEF IInv, FrameInv, ModelInv, NoFrame, NULL
<1>4. /\ OneOpenImage' /\ HandleInv' /\ ApiInv' /\ PtrInv' /\ PairInv'
      /\ SessionInv' /\ ExitInv' /\ NoCrashBeforeUnload'
  BY <1>0
     DEF IInv, OneOpenImage, HandleInv, ApiInv, PtrInv, PairInv, SessionInv,
     ExitInv, NoCrashBeforeUnload, NeverUnloaded, NoOldLibrary, Running
<1> QED
  BY <1>1, <1>2, <1>3, <1>4 DEF IInv

LEMMA ModelFailsKeeps ==
    ASSUME IInv, ModelFails
    PROVE  IInv'
  BY ReachKeeps DEF ModelFails, IInv, ModelInv, TypeOK

LEMMA ModelReturnsKeeps ==
    ASSUME IInv, ModelReturns
    PROVE  IInv'
<1>1. /\ Running /\ frame.env # NULL /\ frame.sess # NULL /\ TypeOK
      /\ frame.env \in live /\ ptrs[frame.env].kind = "env"
      /\ frame.sess \in live /\ ptrs[frame.sess].kind = "session"
      /\ ptrs[frame.sess].env = frame.env
  BY DEF ModelReturns, IInv, FrameInv
<1>2. models' \subseteq [ptr : Nat, env : Nat]
  BY <1>1 DEF ModelReturns, TypeOK
<1>3. \A m \in models' : /\ m.ptr \in live
                         /\ m.env \in live
                         /\ ptrs[m.ptr].kind = "session"
                         /\ ptrs[m.env].kind = "env"
                         /\ ptrs[m.ptr].env = m.env
  BY <1>1 DEF ModelReturns, IInv, ModelInv
<1> QED
  BY <1>1, <1>2, <1>3, ReachKeeps DEF ModelReturns

LEMMA UnchangedKeeps ==
    ASSUME IInv, UNCHANGED vars
    PROVE  IInv'
<1>0. UNCHANGED <<handle, baseFn, images, open, epoch, nsLoaded, apiInit, api,
                  ptrs, live, frame, models, envRefs, sessions, status>>
  BY DEF vars, loaderVars, apiVars, heapVars, natVars
<1>1. TypeOK'
  BY <1>0 DEF IInv, TypeOK, LoaderTypeOK
<1>2. EnvRefsExact'
  BY <1>0 DEF IInv, EnvRefsExact, EnvHolders, Envs
<1> QED
  BY <1>0, <1>1, <1>2
  DEF IInv, OneOpenImage, HandleInv, ApiInv, PtrInv, FrameInv, ModelInv, PairInv,
      SessionInv, ExitInv, NoCrashBeforeUnload, NeverUnloaded, NoOldLibrary, Running

LEMMA QuerySessionKeeps ==
    ASSUME IInv, QuerySession
    PROVE  IInv'
<1>1. CASE UNCHANGED vars
  BY <1>1, UnchangedKeeps
<1>2. CASE ~CallIsDefined(frame.sess) /\ Crash
  <2>1. /\ frame.sess \in live /\ ptrs[frame.sess].kind = "session" /\ apiInit
    BY DEF QuerySession, IInv, FrameInv
  <2>2. NeverUnloaded /\ NoOldLibrary => CallIsDefined(frame.sess)
    BY <2>1, ApiIsCurrent, SessionIsUsable DEF IInv, SessionInv
  <2> QED
    BY <1>2, <2>2, CrashKeeps
<1> QED
  BY <1>1, <1>2 DEF QuerySession

LEMMA RunModelKeeps ==
    ASSUME IInv, NEW m \in models, RunModel(m)
    PROVE  IInv'
<1>1. CASE UNCHANGED vars
  BY <1>1, UnchangedKeeps
<1>2. CASE ~CallIsDefined(m.ptr) /\ Crash
  <2>1. /\ m.ptr \in live /\ ptrs[m.ptr].kind = "session" /\ apiInit
    BY DEF RunModel, Idle, IInv, ModelInv, ApiInv, TypeOK
  <2>2. NeverUnloaded /\ NoOldLibrary => CallIsDefined(m.ptr)
    BY <2>1, ApiIsCurrent, SessionIsUsable DEF IInv, SessionInv
  <2> QED
    BY <1>2, <2>2, CrashKeeps
<1> QED
  BY <1>1, <1>2 DEF RunModel

LEMMA DropModelKeeps ==
    ASSUME IInv, NEW m \in models, DropModel(m)
    PROVE  IInv'
  BY ReachKeeps DEF DropModel, IInv, ModelInv, TypeOK

\* quit() and the end of its loop only move the status.
LEMMA EndKeeps ==
    ASSUME IInv, Quit \/ Exit
    PROVE  IInv'
<1>0. /\ UNCHANGED <<handle, baseFn, images, open, epoch, nsLoaded, apiInit, api,
                     ptrs, live, frame, models, envRefs, sessions>>
      /\ status' \in {"exiting", "exited"}
      /\ status \in {"running", "exiting"}
      /\ frame = NoFrame
      /\ status' = "exited" => live = {}
  BY DEF Quit, Exit, loaderVars, apiVars, heapVars, natVars, Running, IInv,
         ExitInv
<1>1. TypeOK'
  BY <1>0 DEF IInv, TypeOK, LoaderTypeOK
<1>2. EnvRefsExact'
  BY <1>0 DEF IInv, EnvRefsExact, EnvHolders, Envs
<1>3. /\ OneOpenImage' /\ HandleInv' /\ ApiInv' /\ PtrInv' /\ FrameInv'
      /\ ModelInv' /\ PairInv' /\ SessionInv' /\ ExitInv'
      /\ NoCrashBeforeUnload'
  BY <1>0
     DEF IInv, OneOpenImage, HandleInv, ApiInv, PtrInv, FrameInv, ModelInv,
     PairInv, SessionInv, ExitInv, NoCrashBeforeUnload, NeverUnloaded,
     NoOldLibrary, Running
<1> QED
  BY <1>1, <1>2, <1>3 DEF IInv

LEMMA NextIInv == IInv /\ [Next]_vars => IInv'
<1> SUFFICES ASSUME IInv, [Next]_vars PROVE IInv'
  OBVIOUS
<1>1. ASSUME NEW probe \in Probes, OnLoad(probe) \/ InstallLoads(probe) PROVE IInv'
  BY <1>1, OnLoadKeeps, InstallLoadsKeeps
<1>2. CASE OnUnload
  BY <1>2, OnUnloadKeeps
<1>3. CASE CreateEnv
  BY <1>3, CreateEnvKeeps
<1>4. CASE CreateSession
  BY <1>4, CreateSessionKeeps
<1>5. CASE ModelFails
  BY <1>5, ModelFailsKeeps
<1>6. CASE QuerySession \/ ModelReturns
  BY <1>6, QuerySessionKeeps, ModelReturnsKeeps
<1>7. ASSUME NEW m \in models, RunModel(m) \/ DropModel(m) PROVE IInv'
  BY <1>7, RunModelKeeps, DropModelKeeps
<1>8. CASE Finalize
  BY <1>8, FinalizeKeeps
<1>9. CASE ExitFinalize
  BY <1>9, ExitFinalizeKeeps
<1>10. CASE Quit \/ Exit
  BY <1>10, EndKeeps
<1>11. CASE Ended \/ UNCHANGED vars
  BY <1>11, UnchangedKeeps DEF Ended
<1> QED
  BY <1>1, <1>2, <1>3, <1>4, <1>5, <1>6, <1>7, <1>8, <1>9, <1>10, <1>11
     DEF Next

LEMMA InductiveInvariant == Spec => []IInv
  BY InitIInv, NextIInv, PTL DEF Spec

----------------------------------------------------------------------------
(* The theorems.                                                           *)

\* Every variable keeps its type; in particular the reference count of the
\* OrtEnv never falls below zero, so no wrapper releases it twice.
THEOREM TypeCorrect == Spec => []TypeOK
<1>1. IInv => TypeOK
  BY DEF IInv
<1> QED
  BY <1>1, InductiveInvariant, PTL

\* onnx_load_lib and onnx_unload_lib keep handle, symbol and open image in
\* step, however often the namespace is loaded, fails to load or is unloaded.
THEOREM LoaderCoherent == Spec => []OneOpenImage
<1>1. IInv => OneOpenImage
  BY DEF IInv
<1> QED
  BY <1>1, InductiveInvariant, PTL

\* The OrtEnv is destroyed with its last wrapper, neither before nor never.
THEOREM RefsMatchHolders == Spec => []EnvRefsExact
<1>1. IInv => EnvRefsExact
  BY DEF IInv
<1> QED
  BY <1>1, InductiveInvariant, PTL

\* A native session always has the environment it was created in: what the
\* list built by onnx_model() and R's order of finalization, the newest garbage
\* first, achieve together.  Neither is enough alone.
THEOREM SessionsHaveEnv == Spec => []EnvOutlivesSessions
<1>1. IInv => EnvOutlivesSessions
  BY DEF IInv, EnvOutlivesSessions, SessionInv, PairInv, PtrInv, TypeOK,
         EnvHolders, Envs
<1> QED
  BY <1>1, InductiveInvariant, PTL

\* A model stays usable until it is dropped or the namespace is unloaded, for
\* every number of models, libraries and loads of the namespace.
THEOREM ModelsUsable == Spec => []ModelsStayUsable
<1>1. IInv => ModelsStayUsable
  <2> SUFFICES ASSUME IInv, NeverUnloaded, Running, NEW m \in models
               PROVE  CallIsDefined(m.ptr)
    BY DEF ModelsStayUsable
  <2>1. m.ptr \in live /\ ptrs[m.ptr].kind = "session"
    BY DEF IInv, ModelInv
  <2>2. m.ptr \in sessions
    BY <2>1 DEF IInv, SessionInv
  <2>3. apiInit /\ status # "crashed"
    BY <2>1 DEF IInv, ApiInv, TypeOK, Running
  <2>4. api = handle
    BY <2>3 DEF IInv, ApiInv
  <2> QED
    BY <2>2, <2>4, SessionIsUsable
<1> QED
  BY <1>1, InductiveInvariant, PTL

\* Calls, finalizers and the exit of the process are safe as long as the
\* library is recent enough and was not unloaded.
THEOREM NoCrash == Spec => []NoCrashBeforeUnload
<1>1. IInv => NoCrashBeforeUnload
  BY DEF IInv
<1> QED
  BY <1>1, InductiveInvariant, PTL

\* What R left to the exit finalizers has been given back when the process has
\* ended, reloads and failed calls included: with NoCrash, the safe half of
\* ExitReleasesEverything.
THEOREM ExitLeavesNothing ==
    Spec => [](status = "exited" => live = {} /\ sessions = {} /\ envRefs = 0)
<1>1. IInv => (status = "exited" => live = {} /\ sessions = {} /\ envRefs = 0)
  <2> SUFFICES ASSUME IInv, status = "exited"
               PROVE  live = {} /\ sessions = {} /\ envRefs = 0
    OBVIOUS
  <2>1. live = {}
    BY DEF IInv, ExitInv
  <2>2. sessions = {} /\ EnvHolders = {}
    BY <2>1 DEF IInv, SessionInv, EnvHolders, Envs
  <2>3. envRefs = 0
    BY <2>2, FS_EmptySet DEF IInv, EnvRefsExact
  <2> QED
    BY <2>1, <2>2, <2>3
<1> QED
  BY <1>1, InductiveInvariant, PTL

\* The exit finalizers come to an end: each takes a wrapper off the list, of
\* which there are finitely many, until none is left or the process is down.
THEOREM ExitProgresses ==
    Spec => [][status = "exiting" =>
                   \/ live' \subseteq live /\ live' # live /\ IsFiniteSet(live)
                   \/ status' \in {"exited", "crashed"}]_vars
<1>1. ASSUME IInv, Next, status = "exiting"
      PROVE  \/ live' \subseteq live /\ live' # live /\ IsFiniteSet(live)
             \/ status' \in {"exited", "crashed"}
  <2>1. ExitFinalize \/ Exit
    BY <1>1 DEF IInv, Next, Running, Idle, OnLoad, InstallLoads, OnUnload,
       CreateEnv, CreateSession, ModelFails, QuerySession, ModelReturns,
       RunModel, DropModel, Finalize, Quit, Ended
  <2>2. CASE ExitFinalize
    <3>1. PICK p \in live : Release(p)
      BY <2>2 DEF ExitFinalize
    <3>2. live' = live \ {p} \/ status' = "crashed"
      BY <3>1 DEF Release
    <3> QED
      BY <1>1, <3>1, <3>2, HoldersFinite DEF IInv
  <2>3. CASE Exit
    BY <2>3 DEF Exit
  <2> QED
    BY <2>1, <2>2, <2>3
<1> QED
  BY <1>1, InductiveInvariant, PTL DEF Spec

----------------------------------------------------------------------------
(* ModelLifetime implements ModelLife, for every value of its bounds.        *)

\* What is lost stays lost: images are never forgotten, nor opened again.
LEMMA LostStays ==
    ASSUME IInv, Next, Lost
    PROVE  Lost'
<1>1. ASSUME UNCHANGED loaderVars PROVE Lost'
  BY <1>1 DEF loaderVars, Lost, NeverUnloaded, NoOldLibrary
<1>2. ASSUME NEW probe \in Probes, LoadLib(probe) PROVE Lost'
  <2>1. images \in Seq(ImageKinds) /\ open \subseteq 1..Len(images)
    BY DEF IInv, TypeOK, LoaderTypeOK
  <2>2. CASE UNCHANGED loaderVars
    BY <1>1, <2>2
  <2>3. CASE /\ probe \in ImageKinds
             /\ images' = Append(images, probe)
             /\ open' \subseteq open \cup {Len(images')}
    <3>1. /\ Len(images') = Len(images) + 1
          /\ \A i \in 1..Len(images) : images'[i] = images[i]
          /\ DOMAIN images = 1..Len(images) /\ DOMAIN images' = 1..Len(images')
          /\ Len(images) \in Nat
      BY <2>1, <2>3
    <3>2. PICK i \in DOMAIN images :
              images[i] = "old" \/ (images[i] # "foreign" /\ i \notin open)
      BY DEF Lost, NeverUnloaded, NoOldLibrary
    <3>3. i \in DOMAIN images' /\ images'[i] = images[i] /\ i # Len(images')
      BY <3>1
    <3> QED
      BY <2>3, <3>2, <3>3 DEF Lost, NeverUnloaded, NoOldLibrary
  <2> QED
    BY <1>2, <2>2, <2>3 DEF LoadLib, loaderVars, ImageKinds
<1>3. ASSUME UnloadLib PROVE Lost'
  BY <1>3 DEF UnloadLib, loaderVars, Lost, NeverUnloaded, NoOldLibrary
<1>4. \/ UNCHANGED loaderVars
      \/ \E probe \in Probes : LoadLib(probe)
      \/ UnloadLib
  BY DEF Next, OnLoad, InstallLoads, OnUnload, CreateEnv, CreateSession,
     ModelFails, QuerySession, ModelReturns, RunModel, DropModel, Finalize, Quit,
     ExitFinalize, Exit, Ended, Crash, vars
<1> QED
  BY <1>1, <1>2, <1>3, <1>4

\* While nothing is lost each live wrapper of an environment stands for one.
LEMMA HoldersAreEnvs ==
    ASSUME IInv, IInv', ~Lost, ~Lost'
    PROVE  EnvHolders = Envs(live) /\ EnvHolders' = Envs(live)'
<1>1. live \subseteq DOMAIN ptrs /\ (live \subseteq DOMAIN ptrs)'
  BY DEF IInv, TypeOK
<1>2. /\ \A p \in DOMAIN ptrs : ptrs[p].image = handle
      /\ (\A p \in DOMAIN ptrs : ptrs[p].image = handle)'
  BY DEF IInv, ApiInv, Lost
<1> QED
  BY <1>1, <1>2 DEF EnvHolders, Envs

\* The state of ModelLife, while nothing is lost.
Pairs == {[id |-> s, env |-> ptrs[s].env] : s \in sessions}
Held == IF Running THEN {m.ptr : m \in models} ELSE {}

LEMMA LifeInit == Init => Life!Init
<1> SUFFICES ASSUME Init PROVE Life!Init
  OBVIOUS
<1>1. ~Lost
  BY DEF Init, LoaderInit, Lost, NeverUnloaded, NoOldLibrary
<1>2. EnvHolders = {} /\ sessions = {} /\ models = {} /\ Len(ptrs) = 0
  BY DEF Init, EnvHolders, Envs
<1> QED
  BY <1>1, <1>2 DEF Init, Life!Init, Running

\* A step that changes nothing that ModelLife sees.
LEMMA Stutter ==
    ASSUME IInv, IInv', ~Lost, ~Lost',
           UNCHANGED <<status, ptrs, live, sessions, models>>
    PROVE  UNCHANGED Life!vars
<1>1. EnvHolders = Envs(live) /\ EnvHolders' = Envs(live)'
  BY HoldersAreEnvs
<1>2. UNCHANGED Envs(live)
  BY DEF Envs
<1> QED
  BY <1>1, <1>2 DEF Life!vars, Running

LEMMA StutterVars == ASSUME UNCHANGED vars PROVE UNCHANGED Life!vars
BY DEF vars, loaderVars, heapVars, natVars, Life!vars, Lost, NeverUnloaded,
   NoOldLibrary, EnvHolders, Envs, Running

LEMMA NoCrashStep == ASSUME IInv', ~Lost' PROVE status' # "crashed"
BY DEF IInv, NoCrashBeforeUnload, Lost

LEMMA LoseStep ==
    ASSUME IInv, Next, ~Lost, Lost'
    PROVE  Life!Lose
<1>1. ASSUME UNCHANGED loaderVars PROVE FALSE
  BY <1>1 DEF loaderVars, Lost, NeverUnloaded, NoOldLibrary
<1>2. Running
  BY <1>1 DEF Next, OnLoad, InstallLoads, OnUnload, CreateEnv, CreateSession,
     ModelFails, QuerySession, ModelReturns, RunModel, DropModel, Finalize, Quit,
     ExitFinalize, Exit, Ended, Crash, vars, Idle
<1> QED
  BY <1>2 DEF Life!Lose, Running

LEMMA LoadSteps ==
    ASSUME IInv, IInv', ~Lost, ~Lost', NEW probe \in Probes,
           OnLoad(probe) \/ InstallLoads(probe)
    PROVE  UNCHANGED Life!vars
BY Stutter DEF OnLoad, InstallLoads, heapVars, natVars

LEMMA UnloadStep ==
    ASSUME IInv, IInv', ~Lost, ~Lost', OnUnload
    PROVE  UNCHANGED Life!vars
<1>1. handle = NULL
  <2>1. SUFFICES ASSUME handle # NULL PROVE FALSE
    OBVIOUS
  <2>2. images' = images /\ open' = open \ {handle} /\ handle \in DOMAIN images
    BY <2>1 DEF OnUnload, UnloadLib, IInv, TypeOK, LoaderTypeOK, NULL
  <2>3. images[handle] # "foreign"
    BY <2>1 DEF IInv, HandleInv
  <2> QED
    BY <2>2, <2>3 DEF Lost, NeverUnloaded
<1>2. sessions = {}
  <2> SUFFICES ASSUME NEW s \in sessions PROVE FALSE
    OBVIOUS
  <2>1. s \in live /\ s \in 1..Len(ptrs) /\ ptrs[s].image = handle
    BY DEF IInv, SessionInv, TypeOK
  <2>2. ptrs[s].image \in 1..Len(images)
    BY <2>1 DEF IInv, TypeOK
  <2> QED
    BY <1>1, <2>1, <2>2 DEF NULL
<1> QED
  BY <1>2, Stutter DEF OnUnload, heapVars

LEMMA CreateEnvStep ==
    ASSUME IInv, IInv', ~Lost, ~Lost', CreateEnv
    PROVE  Life!MakeEnv
<1>1. /\ Running /\ status' = status /\ UNCHANGED <<models, sessions>>
      /\ ptrs' = Append(ptrs, [kind |-> "env", image |-> handle, env |-> NULL])
      /\ live' = live \cup {Len(ptrs')}
  BY NoCrashStep DEF CreateEnv, Idle
<1>2. ptrs \in Seq(PtrRecord) /\ live \subseteq 1..Len(ptrs)
      /\ sessions \subseteq 1..Len(ptrs)
  BY DEF IInv, TypeOK
<1>3. /\ Len(ptrs') = Len(ptrs) + 1
      /\ \A p \in 1..Len(ptrs) : ptrs'[p] = ptrs[p]
      /\ ptrs'[Len(ptrs')].kind = "env"
  BY <1>1, <1>2
<1>4. EnvHolders = Envs(live) /\ EnvHolders' = Envs(live)'
  BY HoldersAreEnvs
<1>5. Envs(live)' = Envs(live) \cup {Len(ptrs')}
  BY <1>1, <1>2, <1>3 DEF Envs
<1>6. Pairs' = Pairs
  BY <1>1, <1>2, <1>3 DEF Pairs
<1> QED
  BY <1>1, <1>3, <1>4, <1>5, <1>6 DEF Life!MakeEnv, Running, Pairs

LEMMA CreateSessionStep ==
    ASSUME IInv, IInv', ~Lost, ~Lost', CreateSession
    PROVE  Life!MakeSession
<1>1. /\ Running /\ status' = status /\ models' = models
      /\ ptrs' = Append(ptrs,
             [kind |-> "session", image |-> handle, env |-> frame.env])
      /\ live' = live \cup {Len(ptrs')}
      /\ sessions' = sessions \cup {Len(ptrs')}
  BY NoCrashStep DEF CreateSession
<1>2. ptrs \in Seq(PtrRecord) /\ live \subseteq 1..Len(ptrs)
      /\ sessions \subseteq 1..Len(ptrs)
  BY DEF IInv, TypeOK
<1>3. frame.env \in Envs(live) /\ frame.env \in Nat
  BY DEF CreateSession, IInv, FrameInv, Envs, TypeOK
<1>4. /\ Len(ptrs') = Len(ptrs) + 1
      /\ \A p \in 1..Len(ptrs) : ptrs'[p] = ptrs[p]
      /\ ptrs'[Len(ptrs')].kind = "session"
      /\ ptrs'[Len(ptrs')].env = frame.env
  <2>1. [kind |-> "session", image |-> handle, env |-> frame.env] \in PtrRecord
    BY <1>3 DEF PtrRecord, IInv, TypeOK, LoaderTypeOK
  <2> QED
    BY <1>1, <1>2, <2>1
<1>5. EnvHolders = Envs(live) /\ EnvHolders' = Envs(live)'
  BY HoldersAreEnvs
<1>6. Envs(live)' = Envs(live)
  BY <1>1, <1>2, <1>4 DEF Envs
<1>7. Pairs' = Pairs \cup {[id |-> Len(ptrs'), env |-> frame.env]}
  BY <1>1, <1>2, <1>4 DEF Pairs
<1> QED
  BY <1>1, <1>3, <1>4, <1>5, <1>6, <1>7 DEF Life!MakeSession, Running, Pairs

\* A call on the session of a model, or of a running onnx_model(), is defined.
LEMMA QuietSteps ==
    ASSUME IInv, IInv', ~Lost, ~Lost',
           \/ ModelFails
           \/ QuerySession
           \/ \E m \in models : RunModel(m)
    PROVE  UNCHANGED Life!vars
<1>1. UNCHANGED <<status, ptrs, live, sessions, models>>
  BY NoCrashStep
  DEF ModelFails, QuerySession, RunModel, Crash, vars, heapVars, natVars
<1> QED
  BY <1>1, Stutter

LEMMA ModelReturnsStep ==
    ASSUME IInv, IInv', ~Lost, ~Lost', ModelReturns
    PROVE  Life!Hold
<1>1. /\ Running /\ UNCHANGED <<status, ptrs, live, sessions>>
      /\ models' = models \cup {[ptr |-> frame.sess, env |-> frame.env]}
      /\ frame.sess # NULL
  BY DEF ModelReturns, natVars
<1>2. frame.sess \in sessions
  BY <1>1 DEF IInv, FrameInv, SessionInv, Lost
<1>3. EnvHolders' = EnvHolders
  BY <1>1, HoldersAreEnvs DEF Envs
<1>4. {m.ptr : m \in models'} = {m.ptr : m \in models} \cup {frame.sess}
  <2> DEFINE new == [ptr |-> frame.sess, env |-> frame.env]
  <2>1. new.ptr = frame.sess
    OBVIOUS
  <2> HIDE DEF new
  <2>2. models' = models \cup {new}
    BY <1>1 DEF new
  <2> QED
    BY <2>1, <2>2
<1>5. Pairs' = Pairs /\ [id |-> frame.sess, env |-> ptrs[frame.sess].env] \in Pairs
  BY <1>1, <1>2 DEF Pairs
<1> QED
  BY <1>1, <1>3, <1>4, <1>5 DEF Life!Hold, Running, Pairs

\* Two models never share a session, so that dropping one lets go of its own.
LEMMA DropModelStep ==
    ASSUME IInv, IInv', ~Lost, ~Lost', NEW m \in models, DropModel(m)
    PROVE  Life!Drop
<1>1. /\ Running /\ UNCHANGED <<status, ptrs, live, sessions>>
      /\ models' = models \ {m}
  BY DEF DropModel, natVars
<1>2. EnvHolders' = EnvHolders
  BY <1>1, HoldersAreEnvs DEF Envs
<1>3. \A n \in models : n.ptr = m.ptr => n = m
  <2>1. models \subseteq [ptr : Nat, env : Nat]
    BY DEF IInv, TypeOK
  <2>2. \A n \in models : ptrs[n.ptr].env = n.env
    BY <1>1 DEF IInv, ModelInv
  <2> QED
    BY <2>1, <2>2
<1>4. {n.ptr : n \in models'} = {n.ptr : n \in models} \ {m.ptr}
  BY <1>1, <1>3
<1>5. m.ptr \in {n.ptr : n \in models}
  OBVIOUS
<1>6. Pairs' = Pairs
  BY <1>1 DEF Pairs
<1> QED
  BY <1>1, <1>2, <1>4, <1>5, <1>6 DEF Life!Drop, Running, Pairs

\* Running a finalizer of a wrapper that nothing reaches any more.
LEMMA ReleaseStep ==
    ASSUME IInv, IInv', ~Lost, ~Lost', NEW p \in live, Release(p),
           UNCHANGED <<handle, ptrs, models>>,
           status \in {"running", "exiting"},
           Running => p \notin Reachable,
           \A q \in live : ptrs[q].kind = "session" => ptrs[q].env # p
    PROVE  Life!FreeSession \/ Life!FreeEnv
<1>1. status' = status /\ live' = live \ {p}
  BY NoCrashStep DEF Release
<1>2. p \in Nat \ {0} /\ ptrs[p].kind \in {"env", "session"}
  <2>1. ptrs \in Seq(PtrRecord) /\ p \in 1..Len(ptrs)
    BY DEF IInv, TypeOK
  <2>2. ptrs[p] \in PtrRecord
    BY <2>1
  <2> QED
    BY <2>1, <2>2 DEF PtrRecord
<1>3. EnvHolders = Envs(live) /\ EnvHolders' = Envs(live)'
  BY HoldersAreEnvs
<1>4. CASE ptrs[p].kind = "session"
  <2>1. p \in sessions /\ sessions' = sessions \ {p}
    BY <1>1, <1>4, NoCrashStep DEF Release, IInv, SessionInv, Lost
  <2>2. EnvHolders' = EnvHolders
    BY <1>1, <1>3, <1>4 DEF Envs
  <2>3. Running => p \notin {m.ptr : m \in models}
    <3>1. SUFFICES ASSUME Running, NEW m \in models, m.ptr = p PROVE FALSE
      OBVIOUS
    <3>2. {m.env, m.ptr} \subseteq UNION {{n.env, n.ptr} : n \in models}
      OBVIOUS
    <3> QED
      BY <1>2, <3>1, <3>2 DEF Reachable, NULL
  <2>4. Pairs' = Pairs \ {[id |-> p, env |-> ptrs[p].env]}
        /\ [id |-> p, env |-> ptrs[p].env] \in Pairs
    BY <2>1 DEF Pairs
  <2> QED
    BY <1>1, <2>2, <2>3, <2>4 DEF Life!FreeSession, Running, Pairs
<1>5. CASE ptrs[p].kind = "env"
  <2>1. sessions' = sessions
    BY <1>1, <1>5, NoCrashStep DEF Release
  <2>2. p \in EnvHolders /\ EnvHolders' = EnvHolders \ {p}
    BY <1>1, <1>3, <1>5 DEF Envs
  <2>3. \A s \in Pairs : s.env # p
    BY DEF Pairs, IInv, SessionInv
  <2>4. Pairs' = Pairs
    BY <2>1 DEF Pairs
  <2> QED
    BY <1>1, <2>2, <2>3, <2>4 DEF Life!FreeEnv, Running, Pairs
<1> QED
  BY <1>2, <1>4, <1>5

LEMMA FinalizeStep ==
    ASSUME IInv, IInv', ~Lost, ~Lost', Finalize
    PROVE  Life!FreeSession \/ Life!FreeEnv
<1>1. PICK p \in Garbage : IsNewest(p, Garbage) /\ Release(p)
  BY DEF Finalize
<1>2. p \in live /\ p \notin Reachable /\ Running
      /\ UNCHANGED <<handle, ptrs, models>>
  BY <1>1 DEF Garbage, Finalize, loaderVars
<1>3. \A q \in live : ptrs[q].kind = "session" => ptrs[q].env # p
  BY <1>1, <1>2, NewestIsNoEnvOfLive
<1> QED
  BY <1>1, <1>2, <1>3, ReleaseStep DEF Running

LEMMA ExitFinalizeStep ==
    ASSUME IInv, IInv', ~Lost, ~Lost', ExitFinalize
    PROVE  Life!FreeSession \/ Life!FreeEnv
<1>1. PICK p \in live : IsNewest(p, live) /\ Release(p)
  BY DEF ExitFinalize
<1>2. UNCHANGED <<handle, ptrs, models>> /\ status = "exiting"
  BY DEF ExitFinalize, loaderVars
<1>3. ASSUME NEW q \in live, ptrs[q].kind = "session", ptrs[q].env = p
      PROVE  FALSE
  <2>1. q \in 1..Len(ptrs) /\ p \in 1..(q - 1)
    <3>1. q \in 1..Len(ptrs) /\ DOMAIN ptrs = 1..Len(ptrs)
      BY DEF IInv, TypeOK
    <3> QED
      BY <1>3, <3>1 DEF IInv, PtrInv
  <2>2. q <= p
    BY <1>1 DEF IsNewest
  <2> QED
    BY <2>1, <2>2
<1> QED
  BY <1>1, <1>2, <1>3, ReleaseStep DEF Running

LEMMA QuitStep == ASSUME IInv, IInv', ~Lost, ~Lost', Quit PROVE Life!Quit
<1>1. UNCHANGED <<ptrs, live, sessions, models>> /\ Running /\ status' = "exiting"
  BY DEF Quit, heapVars, natVars
<1>2. EnvHolders' = EnvHolders
  BY <1>1, HoldersAreEnvs DEF Envs
<1> QED
  BY <1>1, <1>2 DEF Life!Quit, Running

LEMMA ExitStep == ASSUME IInv, IInv', ~Lost, ~Lost', Exit PROVE Life!Exit
<1>1. UNCHANGED <<ptrs, live, sessions, models>>
      /\ status = "exiting" /\ status' = "exited" /\ live = {}
  BY DEF Exit, heapVars, natVars
<1>2. EnvHolders = {} /\ EnvHolders' = {} /\ sessions = {}
  BY <1>1, HoldersAreEnvs DEF Envs, IInv, SessionInv
<1> QED
  BY <1>1, <1>2 DEF Life!Exit, Running

----------------------------------------------------------------------------
(* The refinement.                                                         *)

LEMMA LifeStep ==
    ASSUME IInv, IInv', [Next]_vars
    PROVE  [Life!Next]_(Life!vars)
<1>1. CASE UNCHANGED vars
  BY <1>1, StutterVars
<1>2. CASE Next /\ Lost
  <2>1. Lost'
    BY <1>2, LostStays
  <2> QED
    BY <1>2, <2>1 DEF Life!vars
<1>3. CASE Next /\ ~Lost /\ Lost'
  BY <1>3, LoseStep DEF Life!Next
<1>4. CASE Next /\ ~Lost /\ ~Lost'
  <2>1. ASSUME NEW probe \in Probes, OnLoad(probe) \/ InstallLoads(probe)
        PROVE  UNCHANGED Life!vars
    BY <1>4, <2>1, LoadSteps
  <2>2. CASE OnUnload
    BY <1>4, <2>2, UnloadStep
  <2>3. CASE CreateEnv
    BY <1>4, <2>3, CreateEnvStep DEF Life!Next
  <2>4. CASE CreateSession
    BY <1>4, <2>4, CreateSessionStep DEF Life!Next
  <2>5. CASE ModelFails \/ QuerySession \/ \E m \in models : RunModel(m)
    BY <1>4, <2>5, QuietSteps
  <2>6. CASE ModelReturns
    BY <1>4, <2>6, ModelReturnsStep DEF Life!Next
  <2>7. ASSUME NEW m \in models, DropModel(m) PROVE Life!Drop
    BY <1>4, <2>7, DropModelStep
  <2>8. CASE Finalize
    BY <1>4, <2>8, FinalizeStep DEF Life!Next
  <2>9. CASE Quit
    BY <1>4, <2>9, QuitStep DEF Life!Next
  <2>10. CASE ExitFinalize
    BY <1>4, <2>10, ExitFinalizeStep DEF Life!Next
  <2>11. CASE Exit
    BY <1>4, <2>11, ExitStep DEF Life!Next
  <2>12. CASE Ended
    BY <2>12, StutterVars DEF Ended
  <2> QED
    BY <1>4, <2>1, <2>2, <2>3, <2>4, <2>5, <2>6, <2>7, <2>8, <2>9, <2>10,
       <2>11, <2>12 DEF Next, Life!Next
<1> QED
  BY <1>1, <1>2, <1>3, <1>4

\* ModelLifetime implements ModelLife: what the collector, errors, reloads of
\* the namespace and quit() do to the objects behind the models is what the
\* package promises of them.
THEOREM ModelLifeImplemented == Spec => ImplementsModelLife
<1>1. Init => Life!Init
  BY LifeInit
<1>2. IInv /\ IInv' /\ [Next]_vars => [Life!Next]_(Life!vars)
  BY LifeStep
<1>3. Spec => []IInv
  BY InductiveInvariant
<1> QED
  BY <1>1, <1>2, <1>3, PTL DEF Spec, ImplementsModelLife, Life!Spec

=============================================================================
