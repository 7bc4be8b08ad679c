------------------------------- MODULE Install -------------------------------
(***************************************************************************)
(* onnx_install() and the search for the library (src/R/runtime.R), in     *)
(* several R processes of one user.  The per-user directory is shared: the *)
(* archive, the tree extracted from it and lib/ have the same path in each *)
(* process, nothing is locked, and every file is written in place.         *)
(*                                                                         *)
(* A file is good when the process that last began to write it has also    *)
(* finished, from a good source.  A process may be interrupted (or killed, *)
(* which is an interrupt followed by a restart) between any two steps, and *)
(* what writes a file may fail at any point of it: the disk is full, the   *)
(* destination cannot be written, a tool is killed.  Only a failure that   *)
(* the code looks for ends the installation.                               *)
(***************************************************************************)
EXTENDS FiniteSets

CONSTANTS Procs         \* the R processes of the user

Builds == {"cpu", "cuda"}
Libraries == {"none", "old", "current"}

\* linux-x64 and win-x64, for which there is a CUDA build, linux-aarch64, and
\* the two of macOS, where libraries are signed.
Platforms == {"x64", "aarch64", "osx"}

VARIABLES
    os,          \* onnx_detect_os()
    system,      \* what ORT_ROOT and the system directories hold
    pkgConfig,   \* what pkg-config names, where nothing else is found
    archive,     \* <dest>/onnxruntime-<os>[-gpu]-<version>.tgz, per build
    extracted,   \* the tree extracted from it, per build
    lib,         \* <dest>/lib/libonnxruntime.so
    pc,          \* where each process is in onnx_install(); "top": R's prompt
    want,        \* the build its onnx_install() downloads
    source,      \* is the file it is reading from intact so far?
    loaded,      \* the library it has loaded: "none", "old", "current", or
                 \* "damaged", when the file was overwritten while mapped
    result,      \* how its last onnx_install() ended
    undisturbed, \* history: no other one overlapped its last real
                 \* installation, and nobody interrupted it
    fault        \* history: something its last real installation wrote was
                 \* not all written, though nothing was wrong with its source

machine == <<os, system, pkgConfig>>
disk == <<archive, extracted, lib>>
vars == <<machine, disk, pc, want, source, loaded, result, undisturbed, fault>>

\* Files of the per-user directory.
Absent == [exists |-> FALSE]
Written(p, b, d) == [exists |-> TRUE, by |-> p, build |-> b, done |-> d]
File == {Absent} \cup {Written(p, b, d) : p \in Procs, b \in Builds, d \in BOOLEAN}

Good(f) == f.exists /\ f.done

\* What the file f can be when p has written the last byte of build b, from
\* an intact source or not: it may have been removed, or begun anew by another
\* process, whose bytes p's do not harm when they are the same ones.
Finished(f, p, b, intact) ==
    IF ~f.exists THEN {f}
    ELSE IF f.by = p THEN {Written(p, f.build, intact)}
    ELSE IF intact /\ f.build = b THEN {f}
    ELSE {f, Written(p, b, FALSE)}

----------------------------------------------------------------------------
(* Finding and loading.                                                    *)

\* onnx_find_lib() tests for existence: the system's directories first, then
\* the per-user one, then pkg-config's.
IsInstalled == system # "none" \/ lib.exists \/ pkgConfig # "none"

\* Mutant: a torn file is loaded as it is.
FoundLibraryTorn ==
    IF system # "none" THEN system
    ELSE IF lib.exists THEN (IF Good(lib) THEN "current" ELSE "torn")
    ELSE pkgConfig

\* What onnx_load_lib(onnx_find_lib()) gives a process that has none: dlopen
\* refuses a file that is not whole, and nobody looks any further.
FoundLibrary ==
    IF system # "none" THEN system
    ELSE IF lib.exists THEN (IF Good(lib) THEN "current" ELSE "none")
    ELSE pkgConfig

Init ==
    /\ os \in Platforms
    /\ system \in Libraries
    /\ pkgConfig \in Libraries
    /\ archive = [b \in Builds |-> Absent]
    /\ extracted = [b \in Builds |-> Absent]
    /\ lib = Absent
    /\ pc = [p \in Procs |-> "top"]
    /\ want = [p \in Procs |-> "cpu"]
    /\ source = [p \in Procs |-> FALSE]
    /\ loaded = [p \in Procs |-> FoundLibrary]    \* .onLoad
    /\ result = [p \in Procs |-> "none"]
    /\ undisturbed = [p \in Procs |-> TRUE]
    /\ fault = [p \in Procs |-> FALSE]

----------------------------------------------------------------------------
(* onnx_install().                                                         *)

Goto(p, from, to) ==
    /\ pc[p] = from
    /\ pc' = [pc EXCEPT ![p] = to]

Returns(p, from, how) ==
    /\ Goto(p, from, "top")
    /\ result' = [result EXCEPT ![p] = how]

\* Reading processes whose file is overwritten or removed under them.
Spoil(readers) == [q \in Procs |-> source[q] /\ q \notin readers]

Installing(p) == pc[p] # "top"

AlreadyInstalled(p, b) ==
    /\ IsInstalled
    /\ Returns(p, "top", "already")
    /\ want' = [want EXCEPT ![p] = b]
    /\ UNCHANGED <<machine, disk, source, loaded, undisturbed, fault>>

\* Mutant: the library that is already there is not looked for.
StartAnyway(p, b) ==
    /\ Goto(p, "top", "download")
    /\ want' = [want EXCEPT ![p] = b]
    /\ result' = [result EXCEPT ![p] = "none"]
    /\ undisturbed' =
           [q \in Procs |->
               IF q = p THEN \A r \in Procs \ {p} : ~Installing(r)
               ELSE undisturbed[q] /\ ~Installing(q)]
    /\ fault' = [fault EXCEPT ![p] = FALSE]
    /\ UNCHANGED <<machine, disk, source, loaded>>

Start(p, b) ==
    /\ ~IsInstalled
    /\ b = "cuda" => os = "x64"
    /\ Goto(p, "top", "download")
    /\ want' = [want EXCEPT ![p] = b]
    /\ result' = [result EXCEPT ![p] = "none"]
    /\ undisturbed' =
           [q \in Procs |->
               IF q = p THEN \A r \in Procs \ {p} : ~Installing(r)
               ELSE undisturbed[q] /\ ~Installing(q)]
    /\ fault' = [fault EXCEPT ![p] = FALSE]
    /\ UNCHANGED <<machine, disk, source, loaded>>

\* cuda = TRUE where there is no such build.
CudaRefused(p) ==
    /\ ~IsInstalled
    /\ os # "x64"
    /\ Returns(p, "top", "error")
    /\ UNCHANGED <<machine, disk, want, source, loaded, undisturbed, fault>>

\* Mutant: an archive that is there already is not downloaded again.
DownloadReuses(p) ==
    \/ /\ archive[want[p]].exists
       /\ Goto(p, "download", "extract")
       /\ UNCHANGED <<machine, disk, want, source, loaded, result, undisturbed,
                      fault>>
    \/ /\ ~archive[want[p]].exists
       /\ Goto(p, "download", "downloading")
       /\ archive' = [archive EXCEPT ![want[p]] = Written(p, want[p], FALSE)]
       /\ UNCHANGED <<machine, extracted, lib, want, source, loaded, result,
                      undisturbed, fault>>

\* download.file() opens the archive for writing ...
DownloadBegins(p) ==
    /\ Goto(p, "download", "downloading")
    /\ archive' = [archive EXCEPT ![want[p]] = Written(p, want[p], FALSE)]
    /\ source' = Spoil({q \in Procs : pc[q] = "extracting" /\ want[q] = want[p]})
    /\ UNCHANGED <<machine, extracted, lib, want, loaded, result, undisturbed,
                   fault>>

\* ... and has received all of it, or only part and warns, its value being
\* looked at by nobody,
DownloadEnds(p) ==
    /\ Goto(p, "downloading", "extract")
    /\ \E whole \in BOOLEAN :
           /\ \E f \in Finished(archive[want[p]], p, want[p], whole) :
                  archive' = [archive EXCEPT ![want[p]] = f]
           /\ fault' = [fault EXCEPT ![p] = @ \/ ~whole]
    /\ UNCHANGED <<machine, extracted, lib, want, source, loaded, result,
                   undisturbed>>

\* or it stops, or times out, leaving what it received or nothing.
DownloadFails(p) ==
    /\ Returns(p, "downloading", "error")
    /\ \/ UNCHANGED archive
       \/ archive' = [archive EXCEPT ![want[p]] = Absent]
    /\ UNCHANGED <<machine, extracted, lib, want, source, loaded, undisturbed,
                   fault>>

\* untar() or unzip() writes the tree; without an archive it only warns.
ExtractBegins(p) ==
    /\ Goto(p, "extract", "extracting")
    /\ IF archive[want[p]].exists
       THEN /\ extracted' =
                   [extracted EXCEPT ![want[p]] = Written(p, want[p], FALSE)]
            /\ source' =
                   [Spoil({q \in Procs : pc[q] = "copying" /\ want[q] = want[p]})
                       EXCEPT ![p] = Good(archive[want[p]])]
       ELSE UNCHANGED extracted /\ source' = [source EXCEPT ![p] = FALSE]
    /\ UNCHANGED <<machine, archive, lib, want, loaded, result, undisturbed,
                   fault>>

\* A damaged archive gives a warning and part of the tree, and so may a good
\* one: the value of untar() or unzip() is not looked at.  Then the archive is
\* removed.
ExtractEnds(p) ==
    /\ Goto(p, "extracting", "copy include")
    /\ \E whole \in BOOLEAN :
           /\ \E f \in Finished(extracted[want[p]], p, want[p],
                               source[p] /\ whole) :
                  extracted' = [extracted EXCEPT ![want[p]] = f]
           /\ fault' = [fault EXCEPT ![p] = @ \/ ~whole]
    /\ archive' = [archive EXCEPT ![want[p]] = Absent]
    /\ UNCHANGED <<machine, lib, want, source, loaded, result, undisturbed>>

\* file.copy(include) ...
CopiesInclude(p) ==
    /\ extracted[want[p]].exists
    /\ Goto(p, "copy include", "copy lib")
    /\ UNCHANGED <<machine, disk, want, source, loaded, result, undisturbed,
                   fault>>

\* ... or stop: the tree is not there, or lacks a directory, or nothing can be
\* written to its destination.
CopyFails(p) ==
    /\ \/ Returns(p, "copy include", "error")
       \/ Returns(p, "copy lib", "error")
    /\ UNCHANGED <<machine, disk, want, source, loaded, undisturbed, fault>>

\* file.copy(lib) truncates the file that is there, under the processes that
\* have it mapped, ...
CopyLibBegins(p) ==
    /\ extracted[want[p]].exists
    /\ Goto(p, "copy lib", "copying")
    /\ lib' = Written(p, want[p], FALSE)
    /\ source' = [source EXCEPT ![p] = Good(extracted[want[p]])]
    /\ loaded' = [q \in Procs |-> IF loaded[q] = "none" THEN "none" ELSE "damaged"]
    /\ UNCHANGED <<machine, archive, extracted, want, result, undisturbed, fault>>

\* ... and copies all files there are, of a damaged tree too,
CopyLibEnds(p) ==
    /\ Goto(p, "copying", "finish")
    /\ lib' \in Finished(lib, p, want[p], source[p])
    /\ UNCHANGED <<machine, archive, extracted, want, source, loaded, result,
                   undisturbed, fault>>

\* or cannot read or write one of them all, this one or another, and stop.
\* Where file.copy() says that it has copied a file, it has.
CopyLibFails(p) ==
    /\ Returns(p, "copying", "error")
    /\ lib' \in {lib} \cup Finished(lib, p, want[p], source[p])
    /\ fault' = [fault EXCEPT ![p] = TRUE]
    /\ UNCHANGED <<machine, archive, extracted, want, source, loaded, undisturbed>>

\* Mutant: the extracted tree stays.
KeepsTree(p) ==
    /\ Goto(p, "finish", IF os = "osx" THEN "sign" ELSE "load")
    /\ UNCHANGED <<machine, disk, want, source, loaded, result, undisturbed,
                   fault>>

RemovesTree(p) ==
    /\ Goto(p, "finish", IF os = "osx" THEN "sign" ELSE "load")
    /\ extracted' = [extracted EXCEPT ![want[p]] = Absent]
    /\ source' = Spoil({q \in Procs : pc[q] = "copying" /\ want[q] = want[p]})
    /\ UNCHANGED <<machine, archive, lib, want, loaded, result, undisturbed,
                   fault>>

\* xattr and codesign replace the library by a signed copy of it.  Where they
\* fail there is a warning, and onnx_install() goes on.
Sign(p) ==
    /\ Goto(p, "sign", "load")
    /\ UNCHANGED <<machine, disk, want, source, loaded, result, undisturbed,
                   fault>>

\* Mutant: the library is not loaded.
LoadsNothing(p) ==
    /\ Returns(p, "load", "installed")
    /\ UNCHANGED <<machine, disk, want, source, loaded, undisturbed, fault>>

\* Report success, and load the library if none is loaded; the value of
\* onnx_load_lib() is not looked at.
Loads(p) ==
    /\ Returns(p, "load", "installed")
    /\ loaded' = [loaded EXCEPT ![p] = IF @ = "none" THEN FoundLibrary ELSE @]
    /\ UNCHANGED <<machine, disk, want, source, undisturbed, fault>>

----------------------------------------------------------------------------
(* Interrupts and restarts.                                                *)

\* The user's interrupt, at any step: R is back at its prompt.
Interrupt(p) ==
    /\ Installing(p)
    /\ Returns(p, pc[p], "interrupted")
    /\ undisturbed' = [undisturbed EXCEPT ![p] = FALSE]
    /\ UNCHANGED <<machine, disk, want, source, loaded, fault>>

\* A new R session in place of p: .onLoad loads what it finds.
Restart(p) ==
    /\ pc[p] = "top"
    /\ loaded' = [loaded EXCEPT ![p] = FoundLibrary]
    /\ result' = [result EXCEPT ![p] = "none"]
    /\ UNCHANGED <<machine, disk, pc, want, source, undisturbed, fault>>

Step(p) ==
    \/ \E b \in Builds : AlreadyInstalled(p, b) \/ Start(p, b)
    \/ CudaRefused(p)
    \/ DownloadBegins(p)
    \/ DownloadEnds(p)
    \/ DownloadFails(p)
    \/ ExtractBegins(p)
    \/ ExtractEnds(p)
    \/ CopiesInclude(p)
    \/ CopyFails(p)
    \/ CopyLibBegins(p)
    \/ CopyLibEnds(p)
    \/ CopyLibFails(p)
    \/ RemovesTree(p)
    \/ Sign(p)
    \/ Loads(p)
    \/ Interrupt(p)
    \/ Restart(p)

Next == \E p \in Procs : Step(p)

Spec == Init /\ [][Next]_vars

----------------------------------------------------------------------------
(* Properties.                                                             *)

Pcs == {"top", "download", "downloading", "extract", "extracting",
        "copy include", "copy lib", "copying", "finish", "sign", "load"}

TypeOK ==
    /\ os \in Platforms
    /\ system \in Libraries
    /\ pkgConfig \in Libraries
    /\ archive \in [Builds -> File]
    /\ extracted \in [Builds -> File]
    /\ lib \in File
    /\ pc \in [Procs -> Pcs]
    /\ want \in [Procs -> Builds]
    /\ source \in [Procs -> BOOLEAN]
    /\ loaded \in [Procs -> {"none", "old", "current", "damaged"}]
    /\ result \in [Procs -> {"none", "already", "installed", "error",
                             "interrupted"}]
    /\ undisturbed \in [Procs -> BOOLEAN]
    /\ fault \in [Procs -> BOOLEAN]

\* An installation that no other overlapped and nobody interrupted, and that
\* had all it wrote written, succeeds in what it reports: the library of the
\* requested build is whole, and this process has it, whatever earlier attempts
\* left in the directory.
AloneInstalls ==
    \A p \in Procs :
        undisturbed[p] /\ ~fault[p] /\ result[p] = "installed" =>
            Good(lib) /\ lib.build = want[p] /\ loaded[p] = "current"

\* With or without such a fault, it leaves nothing of its own behind, nor what
\* earlier attempts at the same build left.
AloneCleansUp ==
    \A p \in Procs :
        undisturbed[p] /\ result[p] = "installed" =>
            ~archive[want[p]].exists /\ ~extracted[want[p]].exists

\* A library that is incomplete, and that nobody is copying, is the work of an
\* installation that was interrupted or overlapped, or in which a download, an
\* extraction or a copy was cut short.  Nothing an earlier attempt left leads
\* there: what it left of an archive or a tree is never taken for a whole one.
TornLibraryHasCause ==
    lib.exists /\ ~lib.done /\ pc[lib.by] # "copying" =>
        ~undisturbed[lib.by] \/ fault[lib.by]

\* No process has the library overwritten under it unless an installation was
\* overlapped by another one, or interrupted: onnx_install() never replaces a
\* library it can find.
DamageHasCause ==
    \A p \in Procs :
        loaded[p] = "damaged" => \E q \in Procs : ~undisturbed[q]

Succeeded(p) == result[p] \in {"already", "installed"}

\* "Run onnx_install() to download it" (ort_loader.cpp:37): after
\* onnx_install() there is a library that can be loaded.
InstallMakesLoadable ==
    \A p \in Procs : Succeeded(p) => FoundLibrary # "none"

\* A library that was "installed successfully" (runtime.R:144) is still whole
\* when no installation is running, where everything that was written was
\* written in full.
SuccessLasts ==
    /\ \E p \in Procs : result[p] = "installed"
    /\ \A p \in Procs : ~Installing(p) /\ ~fault[p]
    => Good(lib)

==============================================================================
