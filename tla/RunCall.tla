------------------------------- MODULE RunCall -------------------------------
(***************************************************************************)
(* One call of onnx_run(), on an onnx_model: R takes some arguments for     *)
(* onnx_run()'s own, the others are matched to the model's inputs          *)
(* and validated (src/R/run.R), become tensors, go through                 *)
(* Ort::Session::Run, and its results become arrays                        *)
(* (src/src/inference.cpp).  An error may end the call at every step.      *)
(*                                                                         *)
(* Of an array there are only its type, its dim attribute and whether it   *)
(* has an NA; Layout and Convert say what becomes of its elements.  ORT is *)
(* external: it may fail, and it returns tensors of any type and shape.    *)
(***************************************************************************)
EXTENDS Integers, SequencesExt, Types

CONSTANTS
    Arrays,       \* R objects, as [rtype, dim, na]; no dim attribute is <<>>
    Declared,     \* what a model declares of an input: [optional, etype, shape]
    Produced,     \* what it may return for an output: [etype, shape]
    InputNames,   \* the names of the inputs, in order
    OtherNames,   \* names that no input has
    ModelNames,   \* the names that begin `model`, or are it
    MaxArgs,      \* bound on the number of arguments
    MaxOutputs    \* bound on the number of outputs

\* What names() gives an argument that has no name: no name of an input.
NoName == "none"

ASSUME RunCallAssumption ==
    /\ \A a \in Arrays :
           /\ a.rtype \in RTypes \cup {"other"}
           /\ a.dim \in Seq(Nat)
           /\ a.na \in BOOLEAN
    /\ \A d \in Declared : d.optional \in BOOLEAN /\ d.shape \in Seq(Int)
    /\ \A o \in Produced : o.shape \in Seq(Nat)
    /\ InputNames \in Seq(STRING)
    /\ \A i, k \in 1..Len(InputNames) : InputNames[i] = InputNames[k] => i = k
    /\ \A i \in 1..Len(InputNames) : InputNames[i] \notin OtherNames \cup {NoName}
    /\ OtherNames \subseteq STRING \ {NoName}
    /\ ModelNames \subseteq STRING \ {NoName, "simplify"}
    /\ "model" \in ModelNames
    /\ MaxArgs \in Nat /\ MaxOutputs \in Nat

VARIABLES
    inputs,      \* what the model declares, in the order of InputNames
    given,       \* the arguments after the model: [name, array], NoName if none
    args,        \* list(...), those of them that R has not taken for others
    order,       \* input_order: the input that each argument is bound to
    pc,          \* the step the call is at
    j,           \* the loop variable of the step
    buffers,     \* bufs_*: which argument each was filled from; 0 is none
    tensors,     \* input_tensors: the buffer each one points into
    outputs,     \* output_tensors
    results      \* the number of outputs that have become R vectors

vars == <<inputs, given, args, order, pc, j, buffers, tensors, outputs, results>>

Steps == {"call", "match", "required", "validate", "tensors", "run", "read"}
Ends == {"list", "array", "error", "jumped"}

\* The sequences over S that are no longer than n.
UpTo(S, n) == UNION {[1..k -> S] : k \in 0..n}

Names == {InputNames[i] : i \in 1..Len(InputNames)} \cup OtherNames \cup {NoName}
Args == [name : Names, array : Arrays]

\* The inputs that are not optional, and the ones that have an argument.
Required == {i \in 1..Len(inputs) : ~inputs[i].optional}
Bound == {order[k] : k \in 1..Len(order)}

Init ==
    /\ inputs \in UpTo(Declared, Len(InputNames))
    /\ given \in UpTo(Args, MaxArgs)
    /\ args = <<>>
    /\ order = <<>>
    /\ pc = "call"
    /\ j = 1
    /\ buffers = <<>>
    /\ tensors = <<>>
    /\ outputs = <<>>
    /\ results = 0

\* The names of the call's arguments.
Unnamed == \A k \in 1..Len(args) : args[k].name = NoName
AllNamed == Len(args) > 0 /\ \A k \in 1..Len(args) : args[k].name # NoName

\* The input of that name; 0 is R's NA.
InputOf(name) ==
    LET found == {i \in 1..Len(inputs) : InputNames[i] = name}
    IN  IF found = {} THEN 0 ELSE CHOOSE i \in found : TRUE

----------------------------------------------------------------------------
(* How a call goes on, and how it ends.                                    *)

call == <<inputs, given, args>>
native == <<buffers, tensors, outputs, results>>

\* stop(), or a C++ exception, which cpp11 turns into an R error once the
\* destructors have released what the call holds.
Error ==
    /\ pc' = "error"
    /\ buffers' = <<>>
    /\ tensors' = <<>>
    /\ outputs' = <<>>
    /\ UNCHANGED <<call, order, j, results>>

\* An error of R's own, raised inside C++: a longjmp past the destructors.
Jump ==
    /\ pc' = "jumped"
    /\ UNCHANGED <<call, order, j, native>>

Goto(step) == pc' = step /\ j' = 1

\* From one iteration of a loop to the next.
Iterate == pc' = pc /\ j' = j + 1

----------------------------------------------------------------------------
(* The arguments of onnx_run() itself.                                     *)

\* Arguments named `simplify` are its own, as far as R can tell.
Simplify == {k \in 1..Len(given) : given[k].name = "simplify"}

\* An array that R takes for `model` is no onnx_model, and two arguments with
\* the name of one formal are an error of R's.  Where the caller has written
\* `model = ` in full, a name that only begins it is one of `...`.
NotCallable(byName) ==
    \/ \E k \in 1..Len(given) :
           given[k].name \in (IF byName THEN {"model"} ELSE ModelNames)
    \/ \E k, m \in Simplify : k # m

CallRefused ==
    /\ pc = "call"
    /\ \E byName \in BOOLEAN : NotCallable(byName)
    /\ Error

EnterCall ==
    /\ pc = "call"
    /\ \E byName \in BOOLEAN : ~NotCallable(byName)
    /\ \/ Simplify = {} /\ args' = given
       \/ \E k \in Simplify : args' = RemoveAt(given, k)
    /\ Goto("match")
    /\ UNCHANGED <<inputs, given, order, native>>

----------------------------------------------------------------------------
(* Matching (R).                                                           *)

MatchSingle ==
    /\ pc = "match"
    /\ Len(args) = 1 /\ Unnamed
    /\ order' = <<1>>
    /\ Goto("required")
    /\ UNCHANGED <<call, native>>

InPlace == [k \in 1..Len(args) |-> k]
ByName == [k \in 1..Len(args) |-> InputOf(args[k].name)]

\* All arguments have names, and all names are inputs: they go to `places`.
MatchNames(places) ==
    /\ pc = "match"
    /\ AllNamed
    /\ \A k \in 1..Len(args) : InputOf(args[k].name) # 0
    /\ order' = places
    /\ Goto("required")
    /\ UNCHANGED <<call, native>>

\* Mutant: named arguments are taken in the order in which they are given.
MatchByNameInOrder == MatchNames(InPlace)

MatchByName == MatchNames(ByName)

UnknownName ==
    /\ pc = "match"
    /\ AllNamed
    /\ \E k \in 1..Len(args) : InputOf(args[k].name) = 0
    /\ Error

ByPosition == ~AllNamed /\ ~(Len(args) = 1 /\ Unnamed)

MatchByPosition ==
    /\ pc = "match"
    /\ ByPosition
    /\ Len(args) \in Cardinality(Required)..Len(inputs)
    /\ order' = InPlace
    /\ Goto("required")
    /\ UNCHANGED <<call, native>>

WrongNumber ==
    /\ pc = "match"
    /\ ByPosition
    /\ Len(args) \notin Cardinality(Required)..Len(inputs)
    /\ Error

\* Mutant: the number of arguments is all that is looked at.
RequiredGivenCounted == Cardinality(Required) <= Len(order)

RequiredGiven == Required \subseteq Bound

RequiredPresent ==
    /\ pc = "required"
    /\ RequiredGiven
    /\ Goto("validate")
    /\ UNCHANGED <<call, order, native>>

RequiredMissing ==
    /\ pc = "required"
    /\ ~RequiredGiven
    /\ Error

----------------------------------------------------------------------------
(* Validation (R).                                                         *)

\* Dynamic dimensions are negative.  A scalar has no dim attribute, and an
\* array without one is refused.
Fits(array, shape) ==
    /\ Len(array.dim) > 0
    /\ Len(array.dim) = Len(shape)
    /\ \A k \in 1..Len(shape) : shape[k] > 0 => array.dim[k] = shape[k]

\* order[j] is beyond the inputs for the one argument of a model without
\* inputs; then input_shapes[[i]] is an error as well.
Valid ==
    /\ args[j].array.rtype \in RTypes
    /\ order[j] <= Len(inputs)
    /\ Fits(args[j].array, inputs[order[j]].shape)

ValidateArg ==
    /\ pc = "validate"
    /\ j <= Len(args)
    /\ Valid
    /\ Iterate
    /\ UNCHANGED <<call, order, native>>

InvalidArg ==
    /\ pc = "validate"
    /\ j <= Len(args)
    /\ ~Valid
    /\ Error

\* onnx_run_() refuses to go on without a library or a session.
NothingToRun ==
    /\ pc = "validate"
    /\ j > Len(args)
    /\ Error

\* Then it makes room for one buffer of each type per input.
EnterNative ==
    /\ pc = "validate"
    /\ j > Len(args)
    /\ buffers' = [k \in 1..Len(args) |-> 0]
    /\ Goto("tensors")
    /\ UNCHANGED <<call, order, tensors, outputs, results>>

----------------------------------------------------------------------------
(* Tensors, the run and the results (C++).                                 *)

\* What make_input_tensor refuses.
Accepted(array, etype) ==
    /\ ~(array.na /\ array.rtype \in {"integer", "logical"})
    /\ Convertible(array.rtype, etype)

\* The next tensor: its buffer is the one of number `buffer`, and it points to
\* the one of number `target`.
MakeTensor(buffer, target) ==
    /\ pc = "tensors"
    /\ j <= Len(args)
    /\ Accepted(args[j].array, inputs[order[j]].etype)
    /\ buffers' = [buffers EXCEPT ![buffer] = j]
    /\ tensors' = Append(tensors, target)
    /\ Iterate
    /\ UNCHANGED <<call, order, outputs, results>>

\* Mutants: buffers are counted from 0; there is one buffer for all inputs.
MakeInputTensorFromZero == MakeTensor(j, j - 1)
MakeInputTensorShared == MakeTensor(1, 1)

MakeInputTensor == MakeTensor(j, j)

RefuseTensor(ending) ==
    /\ pc = "tensors"
    /\ j <= Len(args)
    /\ ~Accepted(args[j].array, inputs[order[j]].etype)
    /\ ending

\* Mutant: the error is R's own.
TensorRefusedByR == RefuseTensor(Jump)

TensorRefused == RefuseTensor(Error)

TensorsMade ==
    /\ pc = "tensors"
    /\ j > Len(args)
    /\ Goto("run")
    /\ UNCHANGED <<call, order, native>>

\* Has the k-th argument the dimensions of its input, of those that are
\* declared, and at least `least`?
DimsAccepted(k, least) ==
    LET d == args[k].array.dim
        shape == inputs[order[k]].shape
    IN  /\ Len(d) = Len(shape)
        /\ \A m \in 1..Len(shape) : shape[m] >= least => d[m] = shape[m]

\* What ORT accepts: every required input, and the declared dimensions.
OrtAccepts ==
    /\ Required \subseteq Bound
    /\ \A k \in 1..Len(args) : DimsAccepted(k, 0)

Run ==
    /\ pc = "run"
    /\ OrtAccepts
    /\ outputs' \in UpTo(Produced, MaxOutputs)
    /\ Goto("read")
    /\ UNCHANGED <<call, order, buffers, tensors, results>>

RunFails ==
    /\ pc = "run"
    /\ Error

\* read_output_tensor; set_dim_attr refuses a shape of no dimensions, with an
\* error of R's own.
ReadOutput ==
    /\ pc = "read"
    /\ j <= Len(outputs)
    /\ outputs[j].etype \in ElementTypes
    /\ IF outputs[j].shape = <<>> THEN Jump
       ELSE /\ results' = results + 1
            /\ Iterate
            /\ UNCHANGED <<call, order, buffers, tensors, outputs>>

OutputUnsupported ==
    /\ pc = "read"
    /\ j <= Len(outputs)
    /\ outputs[j].etype \notin ElementTypes
    /\ Error

\* onnx_run_() returns and releases what it holds; onnx_run() may unwrap the
\* list.
Return ==
    /\ pc = "read"
    /\ j > Len(outputs)
    /\ \E simplify \in BOOLEAN :
           pc' = IF simplify /\ results = 1 THEN "array" ELSE "list"
    /\ buffers' = <<>>
    /\ tensors' = <<>>
    /\ outputs' = <<>>
    /\ UNCHANGED <<call, order, j, results>>

Match ==
    \/ CallRefused \/ EnterCall
    \/ MatchSingle \/ MatchByName \/ UnknownName \/ MatchByPosition \/ WrongNumber
    \/ RequiredPresent \/ RequiredMissing

Validate == ValidateArg \/ InvalidArg

Native ==
    \/ NothingToRun \/ EnterNative
    \/ MakeInputTensor \/ TensorRefused \/ TensorsMade
    \/ Run \/ RunFails \/ ReadOutput \/ OutputUnsupported \/ Return

Next == Match \/ Validate \/ Native

Spec == Init /\ [][Next]_vars

----------------------------------------------------------------------------
(* Properties.                                                             *)

TypeOK ==
    /\ inputs \in UpTo(Declared, Len(InputNames))
    /\ given \in UpTo(Args, MaxArgs)
    /\ args \in UpTo(Args, MaxArgs)
    /\ order \in Seq(Nat \ {0})
    /\ pc \in Steps \cup Ends
    /\ j \in Nat \ {0}
    /\ buffers \in Seq(0..Len(args))
    /\ tensors \in Seq(1..Len(args))
    /\ outputs \in UpTo(Produced, MaxOutputs)
    /\ results \in 0..MaxOutputs
    /\ pc \in {"tensors", "run", "read"} =>
           Len(order) = Len(args) /\ Bound \subseteq 1..Len(inputs)

\* Where an argument that is not taken for `simplify` stands among the others.
Place(k) ==
    IF \E i \in 1..k : given[i].name = "simplify" THEN k - 1 ELSE k

\* An argument without a name is bound where it stands.  One with a name is
\* bound to the input of that name, or, in a call that leaves another argument
\* unnamed, where it stands (run.R:56-70).
InPlaceOf(m) ==
    \/ /\ order[m] = m
       /\ \E k \in 1..Len(args) : args[k].name = NoName
    \/ args[m].name # NoName /\ args[m].name = InputNames[order[m]]

\* When ORT runs, each argument that the caller gave, unless R took it for
\* `simplify`, has come to the input it is meant for, and no input has got two,
\* unless the call repeats a name.
BoundAsMeant ==
    pc = "run" =>
        /\ \A k \in 1..Len(given) :
               given[k].name # "simplify" =>
                   args[Place(k)] = given[k] /\ InPlaceOf(Place(k))
        /\ \A k, m \in 1..Len(args) :
               k # m /\ order[k] = order[m] => args[k].name = args[m].name
                                               /\ args[k].name # NoName

\* Whatever the call looks like, ORT has no reason to refuse what reaches it,
\* but for a dimension that is declared to be zero: it alone looks at those.
OrtHasNoReasonToRefuse ==
    pc = "run" =>
        /\ Required \subseteq Bound
        /\ \A k \in 1..Len(args) : DimsAccepted(k, 1)

\* Each tensor still holds, when ORT reads it, the data of its own argument,
\* which other tensors were made after.
TensorsHoldTheirArguments ==
    pc = "run" => \A k \in 1..Len(args) : buffers[tensors[k]] = k

\* A call that has ended holds no memory, however it ended, unless an output
\* was a scalar.
OnlyScalarsLeak ==
    pc \in Ends /\ (buffers # <<>> \/ tensors # <<>> \/ outputs # <<>>) =>
        \E k \in 1..Len(outputs) : outputs[k].shape = <<>>

\* "Handle ONNX models with arbitrary inputs and outputs" (NEWS.md:12): when
\* ORT returns tensors of types that are supported, so does onnx_run().
OutputsAreReturned ==
    (\A k \in 1..Len(outputs) : outputs[k].etype \in ElementTypes) => pc # "jumped"

==============================================================================
