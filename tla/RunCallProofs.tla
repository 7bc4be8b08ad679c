---------------------------- MODULE RunCallProofs ----------------------------
(***************************************************************************)
(* Theorems about RunCall, for every model, every call and every result.   *)
(***************************************************************************)
EXTENDS RunCall, SequenceTheorems, TLAPS

----------------------------------------------------------------------------
(* The inductive invariant, in named parts.                                *)

\* How far a call that has not ended has come.
Called    == pc \in {"match", "required", "validate", "tensors", "run", "read"}
Matched   == pc \in {"required", "validate", "tensors", "run", "read"}
Complete  == pc \in {"validate", "tensors", "run", "read"}
Validated == pc \in {"tensors", "run", "read"}

\* What the caller gave is among the arguments of `...`, in the same order.
InArgs(k) == Place(k) \in 1..Len(args) /\ args[Place(k)] = given[k]

ArgsInv ==
    Called =>
        \A k \in 1..Len(given) : given[k].name # "simplify" => InArgs(k)

\* No input is bound twice, but for a name that is repeated.
Apart ==
    \A k, m \in 1..Len(args) :
        k # m /\ order[k] = order[m] => args[k].name = args[m].name
                                        /\ args[k].name # NoName

OrderInv ==
    Matched =>
        /\ Len(order) = Len(args)
        /\ \A k \in 1..Len(args) : InPlaceOf(k)
        /\ Apart

RequiredInv == Complete => Required \subseteq Bound

\* Validation has accepted the arguments before the j-th.
ValidAt(k) ==
    /\ order[k] <= Len(inputs)
    /\ Fits(args[k].array, inputs[order[k]].shape)

ValidInv ==
    /\ pc = "validate" =>
           /\ j \in 1..Len(args) + 1
           /\ \A k \in 1..j - 1 : ValidAt(k)
    /\ Validated => \A k \in 1..Len(args) : ValidAt(k)

\* The tensors made so far each have a buffer of their own.
BuffersInv ==
    /\ pc = "tensors" => j \in 1..Len(args) + 1 /\ Len(tensors) = j - 1
    /\ pc \in {"run", "read"} => Len(tensors) = Len(args)
    /\ Validated =>
           /\ Len(buffers) = Len(args)
           /\ Len(tensors) <= Len(args)
           /\ \A k \in 1..Len(tensors) : tensors[k] = k /\ buffers[k] = k

\* The call holds nothing before it is native, and has no outputs before the
\* run; what an ended one holds it lost to a scalar.
HoldInv ==
    /\ ~Validated /\ pc \in Steps => buffers = <<>> /\ tensors = <<>>
    /\ pc \in Steps \ {"read"} => outputs = <<>> /\ results = 0
    /\ pc = "read" => j \in 1..Len(outputs) + 1 /\ results = j - 1
    /\ OnlyScalarsLeak

IInv ==
    /\ TypeOK
    /\ ArgsInv
    /\ OrderInv
    /\ RequiredInv
    /\ ValidInv
    /\ BuffersInv
    /\ HoldInv

----------------------------------------------------------------------------
(* Sequences of bounded length.                                            *)

LEMMA UpToIsSeq ==
    ASSUME NEW S, NEW n \in Nat, NEW s
    PROVE  s \in UpTo(S, n) <=> s \in Seq(S) /\ Len(s) \in 0..n
<1>1. ASSUME s \in UpTo(S, n) PROVE s \in Seq(S) /\ Len(s) \in 0..n
  <2>1. PICK k \in 0..n : s \in [1..k -> S]
    BY <1>1 DEF UpTo
  <2> QED
    BY <2>1
<1>2. ASSUME s \in Seq(S), Len(s) \in 0..n PROVE s \in UpTo(S, n)
  <2>1. s \in [1..Len(s) -> S]
    BY <1>2
  <2> QED
    BY <1>2, <2>1 DEF UpTo
<1> QED
  BY <1>1, <1>2

\* What the type invariant says of the sequences.
LEMMA Shapes ==
    ASSUME TypeOK
    PROVE  /\ inputs \in Seq(Declared) /\ Len(inputs) \in 0..Len(InputNames)
           /\ given \in Seq(Args) /\ Len(given) \in 0..MaxArgs
           /\ args \in Seq(Args) /\ Len(args) \in 0..MaxArgs
           /\ outputs \in Seq(Produced) /\ Len(outputs) \in 0..MaxOutputs
           /\ order \in Seq(Nat \ {0})
           /\ Len(args) \in Nat /\ Len(order) \in Nat /\ j \in Nat \ {0}
<1>0. InputNames \in Seq(STRING)
  BY RunCallAssumption
<1>1. Len(InputNames) \in Nat /\ MaxArgs \in Nat /\ MaxOutputs \in Nat
  BY <1>0, RunCallAssumption
<1>2. inputs \in UpTo(Declared, Len(InputNames))
  BY DEF TypeOK
<1>3. given \in UpTo(Args, MaxArgs) /\ args \in UpTo(Args, MaxArgs)
  BY DEF TypeOK
<1>4. outputs \in UpTo(Produced, MaxOutputs)
  BY DEF TypeOK
<1>5. inputs \in Seq(Declared) /\ Len(inputs) \in 0..Len(InputNames)
  BY <1>1, <1>2, UpToIsSeq
<1>6. /\ given \in Seq(Args) /\ Len(given) \in 0..MaxArgs
      /\ args \in Seq(Args) /\ Len(args) \in 0..MaxArgs
  BY <1>1, <1>3, UpToIsSeq
<1>7. outputs \in Seq(Produced) /\ Len(outputs) \in 0..MaxOutputs
  BY <1>1, <1>4, UpToIsSeq
<1>8. order \in Seq(Nat \ {0}) /\ j \in Nat \ {0}
  BY DEF TypeOK
<1> QED
  BY <1>5, <1>6, <1>7, <1>8

LEMMA EmptyUpTo == ASSUME NEW S, NEW n \in Nat PROVE <<>> \in UpTo(S, n)
<1>1. <<>> \in Seq(S) /\ Len(<<>>) \in 0..n
  OBVIOUS
<1> QED
  BY <1>1, UpToIsSeq

LEMMA InitIInv == Init => IInv
<1> SUFFICES ASSUME Init PROVE IInv
  OBVIOUS
<1>1. MaxArgs \in Nat /\ MaxOutputs \in Nat
  BY RunCallAssumption
<1>2. <<>> \in UpTo(Args, MaxArgs) /\ <<>> \in UpTo(Produced, MaxOutputs)
  BY <1>1, EmptyUpTo
<1>3. TypeOK
  BY <1>1, <1>2 DEF Init, TypeOK, Steps
<1> QED
  BY <1>3 DEF Init, IInv, ArgsInv, OrderInv, RequiredInv, ValidInv, BuffersInv,
     HoldInv, OnlyScalarsLeak, Called, Matched, Complete, Validated, Steps, Ends

----------------------------------------------------------------------------
(* Endings.                                                                *)

LEMMA ErrorKeeps ==
    ASSUME IInv, Error
    PROVE  IInv'
<1>1. UNCHANGED <<inputs, given, args, order, j, results>> /\ pc' = "error"
      /\ buffers' = <<>> /\ tensors' = <<>> /\ outputs' = <<>>
  BY DEF Error, call
<1>2. <<>> \in UpTo(Produced, MaxOutputs)
  BY EmptyUpTo, RunCallAssumption
<1>3. TypeOK'
  BY <1>1, <1>2 DEF IInv, TypeOK, Ends
<1> QED
  BY <1>1, <1>3 DEF IInv, ArgsInv, OrderInv, RequiredInv, ValidInv, BuffersInv,
     HoldInv, OnlyScalarsLeak, Called, Matched, Complete, Validated, Steps

\* An error of R's own, when one of the outputs is a scalar.
LEMMA JumpKeeps ==
    ASSUME IInv, Jump, NEW n \in 1..Len(outputs), outputs[n].shape = <<>>
    PROVE  IInv'
<1>1. pc' = "jumped"
      /\ UNCHANGED <<inputs, given, args, order, j, buffers, tensors, outputs,
                     results>>
  BY DEF Jump, call, native
<1>2. TypeOK'
  BY <1>1 DEF IInv, TypeOK, Ends
<1> QED
  BY <1>1, <1>2 DEF IInv, ArgsInv, OrderInv, RequiredInv, ValidInv, BuffersInv,
     HoldInv, OnlyScalarsLeak, Called, Matched, Complete, Validated, Steps

----------------------------------------------------------------------------
(* The arguments and their matching.                                       *)

LEMMA ArgsStay ==
    ASSUME IInv, Called, UNCHANGED <<given, args>>
    PROVE  ArgsInv'
<1>1. \A k \in 1..Len(given) : given[k].name # "simplify" => InArgs(k)
  BY DEF IInv, ArgsInv
<1>2. \A k \in 1..Len(given) : Place(k)' = Place(k)
  BY DEF Place
<1>3. \A k \in 1..Len(given) : InArgs(k)' = InArgs(k)
  BY <1>2 DEF InArgs
<1> QED
  BY <1>1, <1>3 DEF ArgsInv

LEMMA EnterCallKeeps ==
    ASSUME IInv, EnterCall
    PROVE  IInv'
<1>1. /\ pc = "call" /\ pc' = "match" /\ j' = 1
      /\ UNCHANGED <<inputs, given, order, buffers, tensors, outputs, results>>
  BY DEF EnterCall, Goto, native
<1>2. /\ given \in Seq(Args) /\ Len(given) \in 0..MaxArgs /\ MaxArgs \in Nat
  BY Shapes, RunCallAssumption DEF IInv
<1>3. CASE Simplify = {} /\ args' = given
  <2>1. args' \in UpTo(Args, MaxArgs)
    BY <1>3 DEF IInv, TypeOK
  <2>2. ASSUME NEW n \in 1..Len(given) PROVE InArgs(n)'
    <3>1. \A i \in 1..n : given[i].name # "simplify"
      BY <1>2, <1>3 DEF Simplify
    <3>2. Place(n)' = n
      BY <1>1, <3>1 DEF Place
    <3> QED
      BY <1>1, <1>3, <3>2 DEF InArgs
  <2>3. ArgsInv'
    BY <1>1, <2>2 DEF ArgsInv
  <2> QED
    BY <1>1, <2>1, <2>3 DEF IInv, TypeOK, OrderInv, RequiredInv, ValidInv,
       BuffersInv, HoldInv, OnlyScalarsLeak, Called, Matched, Complete,
       Validated, Steps, Ends
<1>4. ASSUME NEW k \in Simplify, args' = RemoveAt(given, k),
             \A m, n \in Simplify : m = n
      PROVE  IInv'
  <2>1. k \in 1..Len(given) /\ k \in Int
    BY DEF Simplify
  <2> DEFINE front == SubSeq(given, 1, k - 1)
             back == SubSeq(given, k + 1, Len(given))
  <2>2a. /\ front \in Seq(Args) /\ Len(front) = k - 1
        /\ \A m \in 1..k - 1 : front[m] = given[m]
    BY <1>2, <2>1, SubSeqProperties
  <2>2b. /\ back \in Seq(Args) /\ Len(back) = Len(given) - k
        /\ \A m \in 1..Len(given) - k : back[m] = given[k + m]
    BY <1>2, <2>1, SubSeqProperties
  <2> HIDE DEF front, back
  <2>2. args' = front \o back
    BY <1>4 DEF RemoveAt, front, back
  <2>3. args' \in Seq(Args) /\ Len(args') = Len(given) - 1
    BY <1>2, <2>1, <2>2, <2>2a, <2>2b
  <2>6. \A m \in 1..Len(args') :
            args'[m] = IF m < k THEN given[m] ELSE given[m + 1]
    BY <1>2, <2>1, <2>2, <2>3, <2>2a, <2>2b
  <2>4. args' \in UpTo(Args, MaxArgs)
    BY <1>2, <2>1, <2>3, UpToIsSeq
  <2>5. ASSUME NEW n \in 1..Len(given), given[n].name # "simplify"
        PROVE  InArgs(n)'
    <3>0. n # k
      BY <2>5 DEF Simplify
    <3>1. CASE n < k
      <4>1. \A i \in 1..n : given[i].name # "simplify"
        <5> SUFFICES ASSUME NEW i \in 1..n, given[i].name = "simplify" PROVE FALSE
          OBVIOUS
        <5>1. i \in Simplify /\ i # k
          BY <1>2, <2>1, <3>1 DEF Simplify
        <5> QED
          BY <1>4, <5>1
      <4>2. Place(n)' = n
        BY <1>1, <4>1 DEF Place
      <4>3. n \in 1..Len(args') /\ args'[n] = given[n]
        BY <1>2, <2>1, <2>3, <2>6, <3>1
      <4> QED
        BY <1>1, <4>2, <4>3 DEF InArgs
    <3>2. CASE n > k
      <4>1. k \in 1..n /\ given[k].name = "simplify"
        BY <1>2, <2>1, <3>2 DEF Simplify
      <4>2. Place(n)' = n - 1
        BY <1>1, <4>1 DEF Place
      <4>3. n - 1 \in 1..Len(args') /\ args'[n - 1] = given[n]
        BY <1>2, <2>1, <2>3, <2>6, <3>2
      <4> QED
        BY <1>1, <4>2, <4>3 DEF InArgs
    <3> QED
      BY <1>2, <2>1, <3>0, <3>1, <3>2
  <2>7. ArgsInv'
    BY <1>1, <2>5 DEF ArgsInv
  <2> QED
    BY <1>1, <2>4, <2>7 DEF IInv, TypeOK, OrderInv, RequiredInv, ValidInv,
       BuffersInv, HoldInv, OnlyScalarsLeak, Called, Matched, Complete,
       Validated, Steps, Ends
<1> QED
  BY <1>3, <1>4 DEF EnterCall, NotCallable

\* The three ways to match end in the same place, if each argument has come to
\* the input it is meant for.
LEMMA OrderKeeps ==
    ASSUME IInv, pc = "match", Goto("required"), UNCHANGED <<call, native>>,
           order' \in Seq(Nat \ {0}), Len(order') = Len(args),
           (\A k \in 1..Len(args) : InPlaceOf(k))',
           Apart'
    PROVE  IInv'
<1>1. /\ pc' = "required" /\ j' = 1
      /\ UNCHANGED <<inputs, given, args, buffers, tensors, outputs, results>>
  BY DEF Goto, call, native
<1>2. TypeOK'
  BY <1>1 DEF IInv, TypeOK, Steps
<1>3. ArgsInv'
  BY <1>1, ArgsStay DEF Called
<1>4. OrderInv'
  BY <1>1 DEF OrderInv
<1> QED
  BY <1>1, <1>2, <1>3, <1>4 DEF IInv, RequiredInv, ValidInv, BuffersInv, HoldInv,
     OnlyScalarsLeak, Complete, Validated, Steps, Ends

LEMMA MatchSingleKeeps ==
    ASSUME IInv, MatchSingle
    PROVE  IInv'
<1>0. pc = "match" /\ Goto("required") /\ UNCHANGED <<call, native>>
  BY DEF MatchSingle
<1>1. order' = <<1>> /\ Len(args) = 1 /\ args' = args /\ args[1].name = NoName
  BY DEF MatchSingle, Unnamed, call
<1>2. order' \in Seq(Nat \ {0}) /\ Len(order') = 1 /\ order'[1] = 1
  BY <1>1
<1>3. \A k \in 1..Len(args) : k = 1
  BY <1>1
<1>4. (\A k \in 1..Len(args) : InPlaceOf(k))'
  BY <1>1, <1>2, <1>3 DEF InPlaceOf
<1>5. Apart'
  BY <1>1, <1>3 DEF Apart
<1> QED
  BY <1>0, <1>1, <1>1, <1>2, <1>4, <1>5, OrderKeeps

\* What InputOf finds has the name.
LEMMA InputOfFinds ==
    ASSUME NEW name, InputOf(name) # 0
    PROVE  /\ InputOf(name) \in 1..Len(inputs)
           /\ InputNames[InputOf(name)] = name
<1> DEFINE found == {i \in 1..Len(inputs) : InputNames[i] = name}
<1>1. found # {} /\ InputOf(name) = CHOOSE i \in found : TRUE
  BY DEF InputOf
<1>2. InputOf(name) \in found
  BY <1>1
<1> QED
  BY <1>2

LEMMA MatchByNameKeeps ==
    ASSUME IInv, MatchByName
    PROVE  IInv'
<1>0. pc = "match" /\ Goto("required") /\ UNCHANGED <<call, native>>
  BY DEF MatchByName, MatchNames
<1>1. /\ order' = ByName /\ args' = args
      /\ \A k \in 1..Len(args) : InputOf(args[k].name) # 0 /\ args[k].name # NoName
  BY DEF MatchByName, MatchNames, AllNamed, call
<1>2. Len(args) \in Nat /\ Len(inputs) \in Nat
  BY Shapes DEF IInv
<1>3. \A k \in 1..Len(args) :
          /\ InputOf(args[k].name) \in Nat \ {0}
          /\ InputNames[InputOf(args[k].name)] = args[k].name
  BY <1>1, <1>2, InputOfFinds
<1>4. /\ order' \in Seq(Nat \ {0}) /\ Len(order') = Len(args)
      /\ \A k \in 1..Len(args) : order'[k] = InputOf(args[k].name)
  BY <1>1, <1>2, <1>3 DEF ByName
<1>5. (\A k \in 1..Len(args) : InPlaceOf(k))' /\ Apart'
  <2>1. (\A k \in 1..Len(args) : InPlaceOf(k))'
    BY <1>1, <1>3, <1>4 DEF InPlaceOf
  <2>2. Apart'
    BY <1>1, <1>3, <1>4 DEF Apart
  <2> QED
    BY <2>1, <2>2
<1> QED
  BY <1>1, <1>4, <1>5, <1>0, OrderKeeps

LEMMA MatchByPositionKeeps ==
    ASSUME IInv, MatchByPosition
    PROVE  IInv'
<1>0. pc = "match" /\ Goto("required") /\ UNCHANGED <<call, native>>
  BY DEF MatchByPosition
<1>1. /\ order' = InPlace /\ args' = args /\ ~AllNamed
  BY DEF MatchByPosition, ByPosition, call
<1>2. Len(args) \in Nat
  BY Shapes DEF IInv
<1>3. /\ order' \in Seq(Nat \ {0}) /\ Len(order') = Len(args)
      /\ \A k \in 1..Len(args) : order'[k] = k
  BY <1>1, <1>2 DEF InPlace
<1>4. \A k \in 1..Len(args) : \E m \in 1..Len(args) : args[m].name = NoName
  BY <1>1, <1>2 DEF AllNamed
<1>5. (\A k \in 1..Len(args) : InPlaceOf(k))' /\ Apart'
  <2>1. (\A k \in 1..Len(args) : InPlaceOf(k))'
    BY <1>1, <1>3, <1>4 DEF InPlaceOf
  <2>2. Apart'
    BY <1>1, <1>3, <1>4 DEF Apart
  <2> QED
    BY <2>1, <2>2
<1> QED
  BY <1>1, <1>3, <1>5, <1>0, OrderKeeps

LEMMA RequiredPresentKeeps ==
    ASSUME IInv, RequiredPresent
    PROVE  IInv'
<1>1. /\ pc = "required" /\ pc' = "validate" /\ j' = 1 /\ RequiredGiven
      /\ UNCHANGED <<inputs, given, args, order, buffers, tensors, outputs,
                     results>>
  BY DEF RequiredPresent, Goto, call, native
<1>2. TypeOK'
  BY <1>1 DEF IInv, TypeOK, Steps
<1>3. Len(args) \in Nat
  BY Shapes DEF IInv
<1>4. ValidInv'
  BY <1>1, <1>3 DEF ValidInv, Validated
<1>5. ArgsInv'
  BY <1>1, ArgsStay DEF Called
<1> QED
  BY <1>1, <1>2, <1>4, <1>5 DEF IInv, OrderInv, Apart, InPlaceOf, RequiredInv,
     RequiredGiven, Required, Bound, BuffersInv, HoldInv, OnlyScalarsLeak,
     Matched, Complete, Validated, Steps, Ends

----------------------------------------------------------------------------
(* Validation, tensors, the run and its results.                           *)

LEMMA ValidateArgKeeps ==
    ASSUME IInv, ValidateArg
    PROVE  IInv'
<1>1. /\ pc = "validate" /\ pc' = pc /\ j' = j + 1 /\ j <= Len(args) /\ ValidAt(j)
      /\ UNCHANGED <<inputs, given, args, order, buffers, tensors, outputs,
                     results>>
  BY DEF ValidateArg, Valid, ValidAt, Iterate, call, native
<1>2. Len(args) \in Nat /\ j \in Nat \ {0}
  BY Shapes DEF IInv
<1>3. TypeOK'
  BY <1>1, <1>2 DEF IInv, TypeOK
<1>4. ValidInv'
  <2>1. \A k \in 1..j - 1 : ValidAt(k)
    BY <1>1 DEF IInv, ValidInv
  <2>2. \A k \in 1..j : ValidAt(k)
    BY <1>1, <1>2, <2>1
  <2>3. j' \in 1..Len(args') + 1 /\ j' - 1 = j
    BY <1>1, <1>2
  <2> QED
    BY <1>1, <2>2, <2>3 DEF ValidInv, ValidAt, Validated
<1>5. ArgsInv'
  BY <1>1, ArgsStay DEF Called
<1> QED
  BY <1>1, <1>3, <1>4, <1>5 DEF IInv, OrderInv, Apart, InPlaceOf, RequiredInv,
     Required, Bound, BuffersInv, HoldInv, OnlyScalarsLeak, Matched, Complete,
     Validated, Steps, Ends

LEMMA EnterNativeKeeps ==
    ASSUME IInv, EnterNative
    PROVE  IInv'
<1>1. /\ pc = "validate" /\ pc' = "tensors" /\ j' = 1 /\ j > Len(args)
      /\ buffers' = [k \in 1..Len(args) |-> 0]
      /\ UNCHANGED <<inputs, given, args, order, tensors, outputs, results>>
  BY DEF EnterNative, Goto, call
<1>2. Len(args) \in Nat /\ j \in Nat \ {0} /\ order \in Seq(Nat \ {0})
  BY Shapes DEF IInv
<1>3. buffers' \in Seq(0..Len(args)) /\ Len(buffers') = Len(args)
  BY <1>1, <1>2
<1>4. \A k \in 1..Len(args) : ValidAt(k)
  <2>1. j - 1 = Len(args) /\ \A k \in 1..j - 1 : ValidAt(k)
    BY <1>1, <1>2 DEF IInv, ValidInv
  <2> QED
    BY <2>1
<1>5. Len(order) = Len(args) /\ Bound \subseteq 1..Len(inputs)
  <2>1. Len(order) = Len(args)
    BY <1>1 DEF IInv, OrderInv, Matched
  <2>2. Len(inputs) \in Nat
    BY Shapes DEF IInv
  <2> QED
    BY <1>2, <1>4, <2>1, <2>2 DEF Bound, ValidAt
<1>6. TypeOK'
  BY <1>1, <1>3, <1>5 DEF IInv, TypeOK, Steps, Bound
<1>7. tensors' = <<>> /\ outputs' = <<>> /\ results' = 0
  BY <1>1 DEF IInv, HoldInv, Validated, Steps
<1>8. BuffersInv'
  BY <1>1, <1>2, <1>3, <1>7 DEF BuffersInv, Validated
<1>9. ValidInv'
  BY <1>1, <1>4 DEF ValidInv, ValidAt
<1>10. ArgsInv'
  BY <1>1, ArgsStay DEF Called
<1> QED
  BY <1>1, <1>6, <1>7, <1>8, <1>9, <1>10 DEF IInv, OrderInv, Apart, InPlaceOf,
     RequiredInv, Required, Bound, HoldInv, OnlyScalarsLeak, Matched, Complete,
     Validated, Steps, Ends

\* What the steps of the native code leave alone.
LEMMA NativeKeeps ==
    ASSUME IInv, Validated, Validated', UNCHANGED <<call, order>>,
           BuffersInv', HoldInv', j' \in Nat \ {0},
           buffers' \in Seq(0..Len(args)), tensors' \in Seq(1..Len(args)),
           outputs' \in UpTo(Produced, MaxOutputs), results' \in 0..MaxOutputs
    PROVE  IInv'
<1>1. UNCHANGED <<inputs, given, args, order>>
  BY DEF call
<1>2. TypeOK'
  BY <1>1 DEF IInv, TypeOK, Validated, Steps, Bound
<1>3. ArgsInv' /\ OrderInv'
  <2>1. ArgsInv'
    BY <1>1, ArgsStay DEF Called, Validated
  <2>2. OrderInv'
    BY <1>1 DEF IInv, OrderInv, Apart, InPlaceOf, Matched, Validated
  <2> QED
    BY <2>1, <2>2
<1>5. ValidInv'
  <2>1. \A k \in 1..Len(args) : ValidAt(k)
    BY DEF IInv, ValidInv
  <2> QED
    BY <1>1, <2>1 DEF ValidInv, ValidAt, Validated
<1>4. RequiredInv'
  BY <1>1 DEF IInv, RequiredInv, Required, Bound, Complete, Validated
<1> QED
  BY <1>2, <1>3, <1>4, <1>5 DEF IInv

LEMMA MakeInputTensorKeeps ==
    ASSUME IInv, MakeInputTensor
    PROVE  IInv'
<1>1. /\ pc = "tensors" /\ pc' = pc /\ j' = j + 1 /\ j <= Len(args)
      /\ buffers' = [buffers EXCEPT ![j] = j] /\ tensors' = Append(tensors, j)
      /\ UNCHANGED <<args, outputs, results>> /\ UNCHANGED <<call, order>>
  BY DEF MakeInputTensor, MakeTensor, Iterate, call
<1>2. /\ Len(args) \in Nat /\ j \in 1..Len(args) /\ j + 1 \in Nat \ {0}
      /\ buffers \in Seq(0..Len(args)) /\ Len(buffers) = Len(args)
      /\ tensors \in Seq(1..Len(args)) /\ Len(tensors) = j - 1
      /\ \A k \in 1..j - 1 : tensors[k] = k /\ buffers[k] = k
  <2>1. Len(args) \in Nat /\ j \in Nat \ {0}
    BY Shapes DEF IInv
  <2>2. buffers \in Seq(0..Len(args)) /\ tensors \in Seq(1..Len(args))
    BY DEF IInv, TypeOK
  <2>3. /\ Len(buffers) = Len(args) /\ Len(tensors) = j - 1
        /\ \A k \in 1..Len(tensors) : tensors[k] = k /\ buffers[k] = k
    BY <1>1 DEF IInv, BuffersInv, Validated
  <2> QED
    BY <1>1, <2>1, <2>2, <2>3
<1>3. /\ buffers' \in Seq(0..Len(args)) /\ Len(buffers') = Len(args)
      /\ \A k \in 1..Len(args) : buffers'[k] = IF k = j THEN j ELSE buffers[k]
  BY <1>1, <1>2
<1>4. /\ tensors' \in Seq(1..Len(args)) /\ Len(tensors') = j
      /\ \A k \in 1..j : tensors'[k] = IF k = j THEN j ELSE tensors[k]
  BY <1>1, <1>2
<1>5. BuffersInv'
  BY <1>1, <1>2, <1>3, <1>4 DEF BuffersInv, Validated
<1>6. HoldInv'
  BY <1>1 DEF IInv, HoldInv, Validated, OnlyScalarsLeak, Steps, Ends
<1>7. results' \in 0..MaxOutputs /\ outputs' \in UpTo(Produced, MaxOutputs)
  BY <1>1 DEF IInv, TypeOK
<1> QED
  BY <1>1, <1>2, <1>3, <1>4, <1>5, <1>6, <1>7, NativeKeeps DEF Validated

LEMMA TensorsMadeKeeps ==
    ASSUME IInv, TensorsMade
    PROVE  IInv'
<1>1. /\ pc = "tensors" /\ pc' = "run" /\ j' = 1 /\ j > Len(args)
      /\ UNCHANGED <<args, buffers, tensors, outputs, results>>
      /\ UNCHANGED <<call, order>>
  BY DEF TensorsMade, Goto, call, native
<1>2. Len(tensors) = Len(args)
  BY <1>1, Shapes DEF IInv, BuffersInv
<1>3. BuffersInv'
  BY <1>1, <1>2 DEF IInv, BuffersInv, Validated
<1>4. HoldInv'
  BY <1>1 DEF IInv, HoldInv, Validated, OnlyScalarsLeak, Steps, Ends
<1> QED
  BY <1>1, <1>3, <1>4, NativeKeeps DEF Validated, IInv, TypeOK

LEMMA RunKeeps ==
    ASSUME IInv, Run
    PROVE  IInv'
<1>1. /\ pc = "run" /\ pc' = "read" /\ j' = 1
      /\ outputs' \in UpTo(Produced, MaxOutputs)
      /\ UNCHANGED <<args, buffers, tensors, results>>
      /\ UNCHANGED <<call, order>>
  BY DEF Run, Goto, call
<1>2. BuffersInv'
  BY <1>1 DEF IInv, BuffersInv, Validated
<1>3. HoldInv'
  <2>1. results = 0
    BY <1>1 DEF IInv, HoldInv, Steps
  <2>2. Len(outputs') \in Nat
    BY <1>1, UpToIsSeq, RunCallAssumption
  <2> QED
    BY <1>1, <2>1, <2>2 DEF HoldInv, Validated, OnlyScalarsLeak, Steps, Ends
<1> QED
  BY <1>1, <1>2, <1>3, NativeKeeps DEF Validated, IInv, TypeOK

LEMMA ReadOutputKeeps ==
    ASSUME IInv, ReadOutput
    PROVE  IInv'
<1>1. pc = "read" /\ j <= Len(outputs) /\ j \in 1..Len(outputs)
  BY Shapes DEF ReadOutput, IInv
<1>2. CASE outputs[j].shape = <<>>
  BY <1>1, <1>2, JumpKeeps DEF ReadOutput
<1>3. CASE outputs[j].shape # <<>>
  <2>1. /\ pc' = pc /\ j' = j + 1 /\ results' = results + 1
        /\ UNCHANGED <<args, buffers, tensors, outputs>>
        /\ UNCHANGED <<call, order>>
    BY <1>3 DEF ReadOutput, Iterate, call
  <2>2. BuffersInv'
    BY <1>1, <2>1 DEF IInv, BuffersInv, Validated
  <2>3. results = j - 1 /\ Len(outputs) \in 0..MaxOutputs /\ MaxOutputs \in Nat
    BY <1>1, Shapes, RunCallAssumption DEF IInv, HoldInv
  <2>4. HoldInv'
    BY <1>1, <2>1, <2>3 DEF HoldInv, Validated, OnlyScalarsLeak, Steps, Ends
  <2>5. results' \in 0..MaxOutputs /\ j' \in Nat \ {0}
    BY <1>1, <2>1, <2>3
  <2> QED
    BY <1>1, <2>1, <2>2, <2>4, <2>5, NativeKeeps DEF Validated, IInv, TypeOK
<1> QED
  BY <1>2, <1>3

LEMMA ReturnKeeps ==
    ASSUME IInv, Return
    PROVE  IInv'
<1>1. /\ pc' \in {"array", "list"}
      /\ UNCHANGED <<inputs, given, args, order, j, results>>
      /\ buffers' = <<>> /\ tensors' = <<>> /\ outputs' = <<>>
  BY DEF Return, call
<1>2. <<>> \in UpTo(Produced, MaxOutputs)
  BY EmptyUpTo, RunCallAssumption
<1>3. TypeOK'
  BY <1>1, <1>2 DEF IInv, TypeOK, Ends
<1> QED
  BY <1>1, <1>3 DEF IInv, ArgsInv, OrderInv, RequiredInv, ValidInv, BuffersInv,
     HoldInv, OnlyScalarsLeak, Called, Matched, Complete, Validated, Steps

----------------------------------------------------------------------------
(* The theorems.                                                           *)

LEMMA NextIInv == IInv /\ [Next]_vars => IInv'
<1> SUFFICES ASSUME IInv, [Next]_vars PROVE IInv'
  OBVIOUS
<1>1. CASE Error
  BY <1>1, ErrorKeeps
<1>2. CASE EnterCall
  BY <1>2, EnterCallKeeps
<1>3. CASE MatchSingle
  BY <1>3, MatchSingleKeeps
<1>4. CASE MatchByName
  BY <1>4, MatchByNameKeeps
<1>5. CASE MatchByPosition
  BY <1>5, MatchByPositionKeeps
<1>6. CASE RequiredPresent
  BY <1>6, RequiredPresentKeeps
<1>7. CASE ValidateArg
  BY <1>7, ValidateArgKeeps
<1>8. CASE EnterNative
  BY <1>8, EnterNativeKeeps
<1>9. CASE MakeInputTensor
  BY <1>9, MakeInputTensorKeeps
<1>10. CASE TensorsMade
  BY <1>10, TensorsMadeKeeps
<1>11. CASE Run
  BY <1>11, RunKeeps
<1>12. CASE ReadOutput
  BY <1>12, ReadOutputKeeps
<1>13. CASE Return
  BY <1>13, ReturnKeeps
<1>14. CASE UNCHANGED vars
  <2>1. UNCHANGED <<inputs, given, args, order, pc, j, buffers, tensors, outputs,
                    results>>
    BY <1>14 DEF vars
  <2>2. TypeOK'
    <3>1. TypeOK
      BY DEF IInv
    <3> QED
      BY <2>1, <3>1 DEF TypeOK, Bound
  <2>3. ArgsInv'
    BY <2>1 DEF IInv, ArgsInv, InArgs, Place, Called
  <2>4. OrderInv'
    BY <2>1 DEF IInv, OrderInv, Apart, InPlaceOf, Matched
  <2>5. RequiredInv'
    BY <2>1 DEF IInv, RequiredInv, Required, Bound, Complete
  <2>6. ValidInv'
    BY <2>1 DEF IInv, ValidInv, ValidAt, Validated
  <2>7. BuffersInv'
    BY <2>1 DEF IInv, BuffersInv, Validated
  <2>8. HoldInv'
    BY <2>1 DEF IInv, HoldInv, OnlyScalarsLeak, Validated
  <2> QED
    BY <2>2, <2>3, <2>4, <2>5, <2>6, <2>7, <2>8 DEF IInv
<1> QED
  BY <1>1, <1>2, <1>3, <1>4, <1>5, <1>6, <1>7, <1>8, <1>9, <1>10, <1>11, <1>12,
     <1>13, <1>14
  DEF Next, Match, Validate, Native, CallRefused, UnknownName, WrongNumber,
      RequiredMissing, InvalidArg, NothingToRun, TensorRefused, RefuseTensor,
      RunFails, OutputUnsupported

LEMMA InductiveInvariant == Spec => []IInv
BY InitIInv, NextIInv, PTL DEF Spec

\* The type invariant: in particular, loop variables stay in bounds, and what is
\* bound when tensors are made are inputs of the model.
THEOREM CallTypeCorrect == Spec => []TypeOK
<1>1. IInv => TypeOK
  BY DEF IInv
<1> QED
  BY <1>1, InductiveInvariant, PTL

\* Each argument comes to the input it is meant for: that of its name where all
\* arguments have names, otherwise that of its place among the arguments that
\* R has not taken for onnx_run()'s own.
THEOREM ArgumentsComeHome == Spec => []BoundAsMeant
<1>1. ASSUME IInv, pc = "run" PROVE BoundAsMeant
  <2>1. (\A m \in 1..Len(args) : InPlaceOf(m)) /\ Apart
    BY <1>1 DEF IInv, OrderInv, Matched
  <2>2. \A k \in 1..Len(given) : given[k].name # "simplify" => InArgs(k)
    BY <1>1 DEF IInv, ArgsInv, Called
  <2> QED
    BY <2>1, <2>2 DEF BoundAsMeant, Apart, InArgs
<1>2. IInv => BoundAsMeant
  BY <1>1 DEF BoundAsMeant
<1> QED
  BY <1>2, InductiveInvariant, PTL

\* What passes onnx_run()'s validation is acceptable to ORT, but for dimensions
\* that the model declares to be zero.
THEOREM ValidationSuffices == Spec => []OrtHasNoReasonToRefuse
<1>1. ASSUME IInv, pc = "run"
      PROVE  /\ Required \subseteq Bound
             /\ \A k \in 1..Len(args) : DimsAccepted(k, 1)
  <2>1. Required \subseteq Bound
    BY <1>1 DEF IInv, RequiredInv, Complete
  <2>2. ASSUME NEW k \in 1..Len(args) PROVE DimsAccepted(k, 1)
    <3>1. ValidAt(k) /\ Len(order) = Len(args)
      BY <1>1 DEF IInv, ValidInv, OrderInv, Matched, Validated
    <3>2. order[k] \in 1..Len(inputs)
      BY <1>1, <3>1 DEF Bound, IInv, TypeOK
    <3>3. inputs[order[k]] \in Declared
      BY <3>2, Shapes, <1>1 DEF IInv
    <3>4. inputs[order[k]].shape \in Seq(Int)
      BY <3>3, RunCallAssumption
    <3> DEFINE shape == inputs[order[k]].shape
    <3>5. \A m \in 1..Len(shape) : shape[m] >= 1 => shape[m] > 0
      BY <3>4
    <3> QED
      BY <3>1, <3>5 DEF ValidAt, Fits, DimsAccepted
  <2> QED
    BY <2>1, <2>2
<1>2. IInv => OrtHasNoReasonToRefuse
  BY <1>1 DEF OrtHasNoReasonToRefuse
<1> QED
  BY <1>2, InductiveInvariant, PTL

\* ORT reads from each tensor the data of its own argument.
THEOREM TensorsAreTheirOwn == Spec => []TensorsHoldTheirArguments
<1>1. IInv => TensorsHoldTheirArguments
  BY DEF IInv, BuffersInv, Validated, TensorsHoldTheirArguments
<1> QED
  BY <1>1, InductiveInvariant, PTL

\* Every ending but that of a scalar output releases what the call holds.
THEOREM EndingsRelease == Spec => []OnlyScalarsLeak
<1>1. IInv => OnlyScalarsLeak
  BY DEF IInv, HoldInv
<1> QED
  BY <1>1, InductiveInvariant, PTL

==============================================================================
