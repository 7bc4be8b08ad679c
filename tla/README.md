# A TLA+ verification of onnxr

onnxr is an R package that runs ONNX models. It is a small program with two
halves: R code that installs and finds the ONNX Runtime (ORT) library and
checks the user's inputs, and C++ code that loads the library, keeps ORT's
objects alive behind R pointers, and converts arrays between R's column-major
layout and ORT's row-major one. Paths below are relative to the repository.

The state that matters is spread over four places that know little of each
other: two statics in `src/ort_loader.cpp`, one static inside the C++ headers
of ORT, external pointers that R's garbage collector finalizes when it wants
to, and a per-user directory that all R processes share.

## Inventory

| Component | State | Operations | Hard behaviour | What makes it correct |
|---|---|---|---|---|
| Dynamic loader, `src/ort_loader.cpp` | `ort_lib_handle`, `ort_get_api_base_fn` | `onnx_load_lib`, `onnx_unload_lib`, `onnx_check_loaded`, `OrtGetApiBase` | load, failed load, unload and reload in any order | one open image at most, and the symbol comes from it |
| C++ headers of ORT, `src/onnxruntime/onnxruntime_cxx_api.h` | the block-level static of `Global::Api` | first call asks the library, later ones reuse the answer | the answer outlives the library | calls go to the library that is loaded |
| Models, `R/model.R`, `src/session.cpp` | `Ort::Env` and `Ort::Session` behind external pointers; the `onnx_model` list | `onnx_create_env`, `onnx_create_session`, the queries | the collector runs between any two steps; errors and interrupts half way; `quit()` | sessions never outlive their environment, nothing leaks, models stay usable |
| Namespace hooks, `R/onnxr-package.R` | the loaded namespace | `.onLoad`, `.onUnload` | `.onLoad` fails after loading the library | as above, over reloads |
| Installer, `R/runtime.R` | archive, extracted tree and library in the per-user directory | `onnx_install`, `onnx_find_lib` | several processes, interrupts, failed downloads, all without locks | what is reported as installed can be loaded |
| External data, `src/session.cpp:19-177` | scan position, locations, buffers that ORT keeps pointers into | `find_external_data_locations`, `onnx_create_session` | bytes that look like a location; files that change while they are read | every location found once, reads in bounds, ORT sees the whole file |
| `onnx_run()`, `R/run.R` | arguments matched to inputs | matching by position or name, validation | optional inputs, names repeated or mixed with positions | each input gets the argument meant for it, or the call fails before ORT is reached |
| Tensors, `src/inference.cpp` | buffers, strides | permute, cast, read | index arithmetic, zero dimensions, integer widths, NA | every element lands where the reference says, no read out of bounds |

The remaining parts keep no state and are listed in `PROJECT.json` as not
modelled: the glue that cpp11 generates, printing, the vendored headers, the
scripts and the CI configuration.

## How the parts interact

`.onLoad` and `onnx_install()` call `onnx_find_lib()`, which looks at the disk,
and `onnx_load_lib()`, which sets the two statics. `onnx_model()` creates an
environment and a session through the C++ headers, which ask `OrtGetApiBase()`
for a table of functions once. The list that `onnx_model()` returns is the only
thing that keeps either alive. R's collector, or the end of the process, runs
the C++ destructors; they call through the same table. `.onUnload` closes the
library and leaves all of the rest as it is.

## Modules

| Module | Models | Composes |
|---|---|---|
| `OrtLoader` | the statics of `src/ort_loader.cpp` and the two functions that assign them | |
| `ModelLifetime` | one R process: hooks, `onnx_model()` step by step, `onnx_run()`, collector, `quit()` | `OrtLoader`, `ModelLife` |
| `ModelLife` | what the package promises of environments and sessions, without loader, wrappers or collector | |
| `ModelLifetimeProofs` | theorems about it, one of them that it implements `ModelLife` | `ModelLifetime` |
| `Install` | `onnx_install()` and the search for the library, in several processes over one directory | |
| `MCInstall` | symmetry for TLC | `Install` |
| `InstallProofs` | theorems about it | `Install` |
| `ExternalData` | the search of a model file for the names of external data | |
| `MCExternalData` | a set of files for TLC | `ExternalData` |
| `ExternalDataProofs` | theorems about it | `ExternalData` |
| `Preload` | `onnx_create_session`: the files it reads, beside others who write them, and what ORT is given | `ExternalData` |
| `MCPreload` | names and contents of files for TLC | `Preload`, `MCExternalData` |
| `PreloadProofs` | theorems about it | `Preload`, `ExternalDataProofs` |
| `Types` | the R types, the element types, and which goes with which | |
| `RunCall` | one call of `onnx_run()`, from its arguments to its results | `Types` |
| `MCRunCall` | arrays, models and results for TLC | `RunCall` |
| `RunCallProofs` | theorems about it | `RunCall` |
| `Layout` | the two permutations between column-major and row-major order | |
| `LayoutProofs` | theorems about them, for any number of dimensions of any size | `Layout` |
| `Tensors` | what one element becomes in a tensor and on its way back | `Types` |
| `Convert` | one element through `make_input_tensor`, a model and `read_output_tensor` | `Tensors` |
| `ConvertProofs` | theorems about it, for all widths | `Convert` |
| `DataLemmas` | induction, recursive functions, division and powers of two, for the three modules of proofs about data | |

### OrtLoader and ModelLifetime

Images (successful `dlopen`s) and external pointers are numbered in the order in
which they come about. That makes stale ones visible: a pointer of a closed
image differs from one of the open image even where the addresses might agree.
`handle` and `baseFn` are the two statics; `api` and `apiInit` the static of the
headers; `ptrs`, `live`, `frame` and `models` R's heap, the locals of
`onnx_model()` and the user's variables; `envRefs` and `sessions` what exists
inside ORT, whose `CreateEnv` counts references to a single environment.

What `dlopen` and `dlsym` find is an input: nothing, a library without the
symbol, an ORT that is too old for the headers, or a current one. A call through
a null table ends the process. A call through a stale table is undefined: the
model lets it end the process, or work by luck.

`Finalize` may run between any two steps. It takes the newest garbage first, as
R's list of weak references does, which is what makes sessions go before the
environment they use when both are garbage at once. The theorems rest on this
order: `EnvOutlivesSessions` is false of a collector that takes the oldest first.

Assumed of R and of the user: nobody takes `model$ptr` out of its list and drops
the rest; models restored with `readRDS()` have null pointers, which each call
refuses without a change of state; `quit()` runs the registered finalizers and
not `.onUnload`.

Run `lifetime` checks, with three images, five pointers and three loads of the
namespace:

- `OneOpenImage`: the loader leaks no image and never keeps a handle without its
  symbol.
- `EnvRefsExact`: ORT's reference count is the number of wrappers that will
  release it.
- `EnvOutlivesSessions`: no session is left without its environment.
- `ModelsStayUsable`: what the user holds can be run until the namespace is
  unloaded.
- `NoCrashBeforeUnload`: with a compatible library and no unload no call,
  finalizer or exit ends the process.
- `ExitReleasesEverything`: with a compatible library and no unload `quit()` runs
  to its end, and everything has been released by then. A crash does not satisfy
  it, so the exit's finalizers must run in an order that the pointers allow.
- `ImplementsModelLife`: what the process does with wrappers, reference counts
  and a collector is what `ModelLife` promises.

`ModelLife` knows environments, the sessions made in them, and the sessions the
user holds. What is held is not freed, an environment is not freed under one of
its sessions, and the process ends with nothing left. ORT has a single
environment and counts references to it; the abstract one has as many as there
are wrappers. The mapping therefore takes a live wrapper for an environment of
its own, the native sessions for the sessions, and what `models` names for what
is held. `NoCrashBeforeUnload` alone would allow a session to be freed while it
is held; the refinement does not. The promise has a condition that the code has
too: when the namespace has been unloaded, or an old library loaded, the state
maps to "lost", which `ModelLife` enters at most once and never leaves.

Five pointers are two models and a failed attempt between them; three images are
enough for a failed load, a load, and a reload. The fairness is that of R's exit
loop alone, `WF(ExitFinalize)` and `WF(Exit)`: once `quit()` has begun R does
nothing else. Nothing is assumed of the user or of the collector.

Run `reload` finds `HeadersReachLoadedLibrary` violated: after
`unloadNamespace("onnxr")` and a new load, the headers still use the table of
the closed library.

### Install

Each process is at one of the steps of `onnx_install()` (`pc`). A step that
writes a file is two actions, a beginning and an end, because nothing is written
under a temporary name: a file is good when the process that last began it has
also ended it, from a good source. `source[p]` says whether what `p` is reading
is still intact. Processes fail, are interrupted at every step and restart; a
kill is an interrupt and a restart. What writes may fail at any point though
nothing is wrong with its source, for a disk may be full or a destination not be
writable. Only `file.copy()` is asked how it went, and the code stops
(`CopyFails`, `CopyLibFails`); a download or an extraction that comes short ends
with a warning and the installation goes on (`DownloadEnds`, `ExtractEnds`). Where
`file.copy()` says that it has copied a file the model takes its word.

Two variables are history. `undisturbed[p]`: nobody has overlapped or interrupted
the last installation of `p`. `fault[p]`: something it wrote was cut short though
its source was good.

The platform decides whether there is a CUDA build, and whether the library is
signed between the removal of the tree and the loading. What the search finds is
decided by three places, in the code's order: `ORT_ROOT` and the system
directories, which are one place here, the per-user directory, and what
pkg-config names. The first and the last have no library, an old one or a current
one, and keep it. `codesign` leaves a library as whole as it was; that it may fail
shows in a warning alone.

Run `install` (two processes, which are interchangeable) checks that an
installation that runs alone and without such a fault installs what was asked and
loads it, whatever earlier attempts left (`AloneInstalls`); that one that runs
alone cleans up behind itself and behind earlier attempts, fault or not
(`AloneCleansUp`); that a torn library is the work of an installation that was
interrupted, overlapped or cut short, so that no archive or tree that an earlier
attempt left is ever taken for a whole one (`TornLibraryHasCause`); and that a
library is overwritten while it is mapped only after an interrupt or an overlap
(`DamageHasCause`). Two processes are enough for each overlap of a pair; the
theorems hold for any number.

Two runs show where the code does less than its words:

| Run | What happens |
|---|---|
| `makes_loadable` | after a copy that failed or was interrupted every `onnx_install()` says "already installed" and nothing can be loaded |
| `success_lasts` | two overlapping installations report success and leave a torn library |

More follows from the same definitions without a run of its own. An
extraction that fails on a good archive (a full disk, a killed `tar`) only warns,
and `onnx_install()` says "installed successfully." (`R/runtime.R:144`) over a
library that is not whole, with nobody else at work: that is why `AloneInstalls`
needs the condition `~fault[p]`. Three more divergences are in the first lines of
`onnx_install()` (`R/runtime.R:108-111`), for whatever copy of the library is found
ends the call there. A process that finds the library another one has
installed is told so and is not given it (`R/runtime.R:93-94` promises that it is
loaded immediately), an old library is never replaced although the package's own
warning sends the user to `onnx_install()` for a compatible one
(`R/onnxr-package.R:19`), and `cuda = TRUE` after a CPU build does nothing
(`R/runtime.R:101`). The last is in a comment: `onnx_find_lib()` is said to look
for the Python package (`R/runtime.R:33-34`), and does not.

### ExternalData

A file is made of segments: the entry of a tensor's `external_data` with the key
"location", an entry of the model's metadata with that key, which protobuf
encodes in the same way, or any other byte. The search runs over the bytes alone,
one iteration of its loops at a time. `Base`, `MaxWeight` and `MaxValue` are the
128 values of a varint's group, the weight 2^35 at which the loop stops, and the
1024 that a length must not reach; TLC has 2, 4 and 3, and a prefix of two bytes
that, like the real one, is no suffix of itself. Up to three segments (two in the
run of `ExternalData` alone) are enough for a name that contains the prefix, a
name repeated with another one between, a length that is cut short by the end of
the file, and one that is too long; the theorems hold for files of any length.

In `ExternalData` the file is given. `Preload` is the call around it: it opens
and reads the model, searches it, reads each data file into a buffer, gives ORT
the names with pointers into the buffers, and has ORT read the model a second
time. `disk` and `model` are the files, which others may write in place, replace
or delete at any step (`Others`). Opening a stream takes the size; reading may get
what the file was then or what it is now, cut off or filled up with zeros to that
size. `changed` and `raced` are history: what others have written, and what they
wrote between its opening and its reading. At the end of the block `file_names`,
`buffer_ptrs` and `buffer_lengths` are destroyed and `data_buffers` is not.

Run `preload` checks, for all models of up to three segments, two names, two
contents and one write by others:

- `CallTypeOK`, `LocationsApart`: the search stays inside the file and takes
  nothing twice, whatever it reads, a torn model included.
- `FindsAll`: it returns each name once, in order, in all files where nothing
  else looks like an entry.
- `PointersValid`: until ORT has read them its pointers point to buffers of the
  right length that are not freed, each to its own.
- `OnlyRacesTear`: a buffer that is neither an old nor a new version of its file
  is that of a file written between opening and reading, which nothing in the code
  guards against.
- `SessionHasItsData`: a session has each file that its model names, under its
  name, even if the model was replaced in the middle of the call.
- `OrtOpensNoFile`: when nobody interferes ORT opens no file itself, which is what
  the search is for, but for names of 1024 bytes and more.
- `CallProgresses`: each step of the call brings it nearer to its end by a measure
  (the parts that are left, the bytes in front of the search, the data files in front
  of the loop), and no write by others puts it back. `CallEnds`: so the call ends.

Three segments are two data files and something between them, before them or
behind them, or a name that repeats; one write is enough to hit each window
between two reads of one file, and the theorems hold for any number. The fairness
is `WF(Call)`, that of a function that runs until it returns; the others may stop
at any time. Within one `read()` the model takes the file at a single moment, so
a write in the middle of a large read is not told from one just before it. On
Windows the bytes of a name are widened one by one, which changes a name that is
not ASCII; the model keeps names as they are, as on other systems. Which options a
provider gets is left out.

Run `metadata_location`, of `ExternalData` alone, drops the condition of
`FindsAll`, and finds that metadata are taken for the name of a file, without
which the model cannot be loaded.

### RunCall

One call, alone: R evaluates one at a time. Of an array the module keeps the
type, the `dim` attribute and whether there is an NA; of a model what it declares
of each input. `ORT` is external: it refuses what lacks a required input or does
not fit the declared dimensions, may fail at will, and returns tensors of any
supported or unsupported type, scalars among them. An error is `stop()` or a C++
exception, after which destructors have run (`Error`), or R's own error inside C++,
which jumps over them (`Jump`).

R takes arguments for `onnx_run()`'s own formals before the code sees them
(`EnterCall`): one whose name is `simplify`, and one whose name begins `model`,
which is then no model. An input named `simplify` can only be given by position.
One named like the beginning of `model` can be given by name where the model itself
is given as `model = `, in full; the module has the model given by position, as
the documentation's example does. A call that mixes names and positions is matched
by position, and the names are passed over.

Run `run_call` checks, for all models with up to three inputs, one of them named
`simplify`, and all calls with up to two arguments:

- `BoundAsMeant`: unless R took it for `simplify`, an argument without a name comes
  to the input at its place among the arguments that are left, and one with a name
  to the input of that name or, in a call that leaves another argument unnamed, to
  the one at its place. No two arguments come to one input, unless the call repeats
  a name.
- `OrtHasNoReasonToRefuse`: what gets past the checks has all required inputs and
  fits the declared dimensions, each of them but one declared to be zero.
- `TensorsHoldTheirArguments`: when ORT reads the tensors, each still has the data
  of its own argument.
- `OnlyScalarsLeak`: however the call ends, it holds nothing, unless an output was
  a scalar.

That is enough for a repeated name, an order that differs from the model's, an
optional input before a required one, an input that is left out between two, a
mixed call, and a tensor that is refused after another was made; the repository's
tests use models with a single input only. Run `scalar_output` finds that a model
with a scalar output cannot be run.

`BoundAsMeant` has a case for calls that leave an argument unnamed, and there the
code falls short of its documentation, which takes no run to see: the names of the
other arguments are neither used nor checked, and a named argument may come to
another input than that of its name (`R/run.R:69`), while `R/run.R:13-14` says that
named arguments are matched by name.

### Layout, Tensors and Convert

`Layout` carries an array whose elements are their own positions into a tensor and
back, one iteration of the outer loops at a time, for every shape of rank 0 to 4
with dimensions 0 to 3. The reference is the textbook definition of the two orders
over multi-indices. Rank 4 is enough to tell the loop that must run downwards from
one that runs upwards, and zero dimensions are where the code would divide by zero.

`Tensors` counts numbers in halves, so that truncation shows, and has the widths of
the types as constants; TLC has 4 bits for `int`, 7 for `int64`, 2 for a byte, and
significands of 3 and 5 bits, in the same order as the real ones. A cast that C++
leaves undefined may give any value. R's NA of integers and logicals is a value of
its own, no number; C++ reads it as the lowest int (`Stored`), and R reads the
lowest int as NA (`Shown`).

Run `convert` goes through every value of every R type and element type:

- `ComesBack`: from a model that returns its input comes the number that went in,
  if the element type can hold it, and for an NA no number. It names the two cases
  in which the code does otherwise: the double -2^31 comes back from an int32 as NA,
  and an NA among doubles is cast to an integer.
- `OutputExact`: what a model returns is the same number in R, but for an int64
  beyond 2^53, and for the int32 -2^31.

Run `na_real` finds that an NA among doubles becomes an integer of the model. The
other exceptions are written into the properties. Of them `R/run.R:7-9` names the
loss for int64 only, not that the int32 -2^31 which a model returns is NA in R. A
last divergence is seen from `ToTensor` alone, and no property
covers it: an integer goes into a tensor of bools by its low byte, so that `256L`,
TRUE in R, is false to the model.

A call ends, and with it the behaviours of `ExternalData`, `RunCall`, `Layout` and
`Convert`: their configurations say `CHECK_DEADLOCK FALSE`. In `ModelLifetime` and
`Install` TLC checks for deadlock.

## Proofs

Each invariant that a passing run checks is also a theorem, and so are the one
refinement, `ImplementsModelLife`, and the action property `CallProgresses`. The theorems hold for every value of the
constants: any number of images, pointers and reloads, any set of R processes, all
files, prefixes and limits, any number of writes by others, all models and calls,
arrays of any rank and size, all widths of the types. Each module of proofs uses an
inductive invariant in named parts (`IInv`, `CallInv`, `NamesInv`, `Copied`), one
lemma per action that shows that the action keeps it, and a last step in temporal
logic. The assumptions are the `ASSUME`s of the modules alone.

For `ModelLifetime` the invariant has to say more than the properties do: which
pointers are an environment and which a session, that a session's environment is
older than it, that what `frame` and `models` name is live and of the right kind,
and that the wrappers of the open image are exactly what `envRefs` counts. The
order of the collector, newest first, is needed for `EnvOutlivesSessions`: if it
took the oldest garbage first the step would not preserve it.

From the same invariant follows `Spec => ImplementsModelLife`: each step is one of
`ModelLife`, or leaves its state as it is, or loses the library. What is lost stays
lost, because an image that was closed is never opened again. The one step that
needs more than the invariant's parts one by one is `Release`: that the newest
garbage is no environment of a live session (`NewestIsNoEnvOfLive`).

For `Install` it says what an undisturbed installation has removed and that no
other one runs beside it (`AloneInv`), that what it has written is whole unless it
had a fault (`IntactInv`), what it leaves (`DoneInv`), and that nobody installs
where a library is found in another place (`NoneFoundInv`). Of `Procs` nothing is
assumed.

`RunCallProofs` proves all five invariants of `RunCall`. The steps are those of
the call: what is given is among the arguments (`ArgsInv`), what is matched is
matched as meant (`OrderInv`), the required inputs are bound (`RequiredInv`), the
arguments before the j-th are valid (`ValidInv`), the tensors before the j-th have
a buffer of their own (`BuffersInv`), and what is not yet needed is not yet held
(`HoldInv`).

### Induction over data

The other modules are about recursive functions of files, shapes and numbers. The
library's induction theorems take a predicate as a parameter, which the provers at
hand cannot instantiate. `DataLemmas` therefore has induction in a form in which a
predicate is a set: a set of numbers that is not empty has a least element
(`LeastNumber`, from the library's theorem that < is well-founded), hence a set
that contains 0 and with k also k + 1 contains every number up to a bound (`UpTo`,
`DownTo`, `FromSmaller`). From that follow that a function with a given recurrence
exists (`AscentExists`, `DescentExists`) and that there is one only (`SameUpwards`,
`SameDownwards`), which is what each definition by `CHOOSE` or by a recursive
function needs before anything can be said of it. Powers of two grow as they should
because 2^n is the number of subsets of 1..n (`NextPower`).

`LayoutProofs` proves all five invariants of `Layout` for arrays of any rank. The
definitions are first given recurrences: `Products` and `Suffixes` for sizes and
strides, `RowDigits` and `ColDigits` for the two orders. A position and a
multi-index determine each other, and the loop of the code, which takes the
position apart from one end and puts the other one together, walks along both
(`Tails`, `Heads`). That the two permutations undo each other is then a statement
about one multi-index (`RowIndexUndoesColIndex`).

`ConvertProofs` proves the three invariants of run `convert` for all widths. The unit of
the last place that `Rounded` chooses exists (`HasUnit`); a rounded number has a
significand that is short enough (`NearestHolds`), and a number that has one is its
own rounding (`NearestExact`), whichever unit was chosen. So the floating-point
numbers are NaN and the numbers that their significands hold (`RealsAre`), floats
are doubles, ints are doubles, and an int64 is one up to 2^53. `ThereAndBack` goes
through the pairs of types of the two switches, `NaNComesBack` through those in
which an NA gets past the tests.

For `ExternalData` the first invariant adds that the varint is behind the prefix
(`BehindPrefix`) and that the search is ahead of what it has taken
(`SearchIsAhead`); it holds in every file and gives `TypeOK` and `LocationsApart`.
`FindsAll` needs `SearchMeans`, about files in which nothing else looks like an
entry: between two entries the search has not passed into one (`AtSegments`),
within an entry the rest of the varint in front of it encodes what is missing of
the length (`ReadsGroups`), and what was passed has been found (`Found`). Below it
lie lemmas that take the bytes apart (`VarintStep`, `ContentsIs`, `ExternalIs`),
above it one that `unique` keeps the order of the first occurrences
(`DistinctKeepsOrder`). The assumptions are a prefix that is not empty, a base of
at least two, and values shorter than the weight 2^35 at which the varint is cut
off: protobuf refuses messages of 2^31 bytes.

`PreloadProofs` extends it to the call. The search's invariants have to hold of
whatever bytes were read, torn ones included. `ListedInv` and `RegisteredInv` say
what holds of each name with its pointer: the k-th points to the k-th buffer,
which has the announced length, a version of the file unless somebody raced, and
the present version unless somebody has written it. `StreamInv` says the same of
the open stream, which is where `raced` is needed. `KeysInv` says that the k-th
name listed, and later registered, is the k-th that the search returned; with
`FindsAll` that gives `OrtOpensNoFile`, which thus rests on every step of the call.

### What only TLC checks

`ExitReleasesEverything` and `CallEnds`, since liveness under fairness is out of the
prover's reach, and the runs that end in a violation. What the prover can say of the
two properties is proved: that every step of a call lowers a measure which others
cannot raise (`CallsProgress`), in a search of at most three steps for each byte
(`SearchIsLinear`); that each step of the exit takes a wrapper off a finite list
(`ExitProgresses`), and that nothing is left when the process has ended
(`ExitLeavesNothing`). What remains to TLC is that an action that is enabled, and
fair, is taken.

## Not modelled

- The vendored headers of ONNX Runtime are 19768 of the 20659 lines in `src/src`
  and `R`. They belong to another project: declarations of functions whose code is
  not in the repository, and C++ wrappers that pass each call on and turn a status
  into an exception. Of the wrappers the package uses about thirty. The two
  definitions in which the package's own state lives, `Global::Api` and
  `Base::~Base`, are in `ModelLifetime`; the rest enters the modules as what ORT
  may do. Modelling more of them would say nothing about onnxr. Of what remains
  almost all that is not printing or generated is modelled.
- What ORT does: it accepts or refuses a model, fails a run, returns tensors of any
  type and shape. Of its inside only the count of references to the environment is
  modelled, and that a session uses its environment. An output that is no tensor
  gives the queries a null pointer (`src/session.cpp:234`); what follows is decided
  inside ORT.
- Generated glue (`cpp11.cpp`, `cpp11.R`): it converts arguments, and turns
  exceptions into R errors, which is modelled where it matters (`Error` and `Jump`
  in `RunCall`).
- Printing: `print.onnx_model()` and its helpers format text.
- The tools, the CI configuration, the vignette and the scripts that made the test
  models.
- Several threads: R evaluates in one, ORT's threads are inside `Session::Run`.
  Several R processes share nothing but the files that `Install` and `Preload`
  model.
- Errors of the disk while a file is read (`src/session.cpp:104`, `:133`): a `read()`
  that comes short because the device fails passes for a whole file.
- Changes of `ORT_ROOT`, the system directories or pkg-config while R processes
  run.
