------------------------------ MODULE OrtLoader ------------------------------
(***************************************************************************)
(* The dynamic loader of onnxr (src/src/ort_loader.cpp): the two statics   *)
(* that say which ONNX Runtime library, if any, this R process has loaded, *)
(* and the two functions that assign them.                                 *)
(*                                                                         *)
(* An image is one successful dlopen.  Images are numbered by the order in *)
(* which they were opened, so a pointer obtained from an image that was    *)
(* since closed can be told from one obtained from the image that is open  *)
(* now.  What the operating system answers to dlopen and dlsym is an input.*)
(***************************************************************************)
EXTENDS Integers, Sequences

CONSTANT MaxLoads      \* bound on the successful dlopen calls of one process

ASSUME MaxLoadsAssumption == MaxLoads \in Nat

VARIABLES
    handle,     \* ort_lib_handle: the image it designates, or NULL
    baseFn,     \* ort_get_api_base_fn: the image it points into, or NULL
    images,     \* what each image opened so far is
    open        \* images opened by dlopen and not given to dlclose yet

loaderVars == <<handle, baseFn, images, open>>

NULL == 0

\* "foreign": no OrtGetApiBase symbol.  "old": its GetApi refuses the version
\* the headers were written for.  "current": a library onnxr can use.
ImageKinds == {"foreign", "old", "current"}

\* What a path can turn out to be when dlopen is called on it.
Probes == ImageKinds \cup {"refused"}

LoaderInit ==
    /\ handle = NULL
    /\ baseFn = NULL
    /\ images = <<>>
    /\ open = {}

\* Mutant: a library without the symbol is not given back to dlclose.
LoadLibLeaks(probe) ==
    /\ handle = NULL
    /\ probe # "refused"
    /\ Len(images) < MaxLoads
    /\ images' = Append(images, probe)
    /\ open' = open \cup {Len(images')}
    /\ IF probe = "foreign" THEN UNCHANGED <<handle, baseFn>>
       ELSE handle' = Len(images') /\ baseFn' = Len(images')

\* onnx_load_lib(path), where dlopen and dlsym find `probe` at that path.
LoadLib(probe) ==
    \/ /\ handle # NULL                         \* already loaded: return true
       /\ UNCHANGED loaderVars
    \/ /\ handle = NULL
       /\ probe = "refused"                     \* dlopen fails: return false
       /\ UNCHANGED loaderVars
    \/ /\ handle = NULL
       /\ probe = "foreign"                     \* no symbol: close it again
       /\ Len(images) < MaxLoads
       /\ images' = Append(images, probe)
       /\ UNCHANGED <<handle, baseFn, open>>
    \/ /\ handle = NULL
       /\ probe \in {"old", "current"}
       /\ Len(images) < MaxLoads
       /\ images' = Append(images, probe)
       /\ handle' = Len(images')
       /\ baseFn' = Len(images')
       /\ open' = open \cup {Len(images')}

\* onnx_unload_lib()
UnloadLib ==
    \/ /\ handle = NULL
       /\ UNCHANGED loaderVars
    \/ /\ handle # NULL
       /\ open' = open \ {handle}
       /\ handle' = NULL
       /\ baseFn' = NULL
       /\ UNCHANGED images

\* onnx_is_loaded(), and what onnx_check_loaded() tests.
IsLoaded == handle # NULL

\* OrtGetApiBase()->GetApi(ORT_API_VERSION): the table of functions the
\* loaded library hands to the C++ headers, NULL if it is too old for them.
LibraryApi ==
    IF baseFn # NULL /\ images[baseFn] = "current" THEN baseFn ELSE NULL

LoaderTypeOK ==
    /\ images \in Seq(ImageKinds)
    /\ Len(images) \in 0..MaxLoads
    /\ handle \in 0..Len(images)
    /\ baseFn \in 0..Len(images)
    /\ open \subseteq 1..Len(images)

\* The loader keeps one image open at most, it is the one the handle names,
\* and the symbol the C++ headers call was taken from it: no handle is leaked
\* by a second load or a failed one ("Prevent double-loading and handle
\* leak", ort_loader.cpp:44), and past onnx_check_loaded OrtGetApiBase never
\* returns the null pointer of lines 26-28.
OneOpenImage ==
    /\ open = {handle} \ {NULL}
    /\ baseFn = handle

==============================================================================
