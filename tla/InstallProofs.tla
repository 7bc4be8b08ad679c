---------------------------- MODULE InstallProofs ----------------------------
(***************************************************************************)
(* Theorems about Install, for every set of processes.                     *)
(***************************************************************************)
EXTENDS Install, TLAPS

----------------------------------------------------------------------------
(* The inductive invariant, in named parts.                                *)

Before == {"download", "downloading", "extract", "extracting", "copy include",
           "copy lib"}
Copied == {"finish", "sign", "load"}

\* How far an undisturbed installation has come, and that it has the disk to
\* itself.
AloneInv(p) ==
    undisturbed[p] /\ Installing(p) =>
        /\ \A q \in Procs \ {p} : ~Installing(q)
        /\ loaded[p] = "none"
        /\ pc[p] \in Before => ~lib.exists
        /\ pc[p] \in {"copying"} \cup Copied => lib.exists /\ lib.by = p
        /\ pc[p] \in {"copy include", "copy lib", "copying"} \cup Copied =>
               ~archive[want[p]].exists
        /\ pc[p] \in {"sign", "load"} => ~extracted[want[p]].exists

\* What it has written, and is writing, where all of it was written.
IntactInv(p) ==
    undisturbed[p] /\ ~fault[p] =>
        /\ pc[p] = "downloading" => archive[want[p]] = Written(p, want[p], FALSE)
        /\ pc[p] = "extract" => archive[want[p]] = Written(p, want[p], TRUE)
        /\ pc[p] = "extracting" =>
               source[p] /\ extracted[want[p]] = Written(p, want[p], FALSE)
        /\ pc[p] \in {"copy include", "copy lib"} =>
               extracted[want[p]] = Written(p, want[p], TRUE)
        /\ pc[p] = "copying" => source[p] /\ lib = Written(p, want[p], FALSE)
        /\ pc[p] \in Copied => lib = Written(p, want[p], TRUE)

\* What it leaves.  Nobody starts another one then.
DoneInv(p) ==
    result[p] = "installed" =>
        /\ system = "none" /\ pkgConfig = "none"
        /\ ~Installing(p)
        /\ undisturbed[p] =>
               /\ \A q \in Procs : ~Installing(q)
               /\ lib.exists
               /\ ~archive[want[p]].exists /\ ~extracted[want[p]].exists
        /\ undisturbed[p] /\ ~fault[p] =>
               Good(lib) /\ lib.build = want[p] /\ loaded[p] = "current"

\* Installations start only where no library is found, and none is loaded
\* from where none is found.
NoneFoundInv ==
    /\ \A p \in Procs : Installing(p) => system = "none" /\ pkgConfig = "none"
    /\ system = "none" /\ pkgConfig = "none" /\ ~lib.exists =>
           \A p \in Procs : loaded[p] = "none"

IInv ==
    /\ TypeOK
    /\ NoneFoundInv
    /\ \A p \in Procs : AloneInv(p) /\ IntactInv(p) /\ DoneInv(p)
    /\ TornLibraryHasCause
    /\ DamageHasCause

----------------------------------------------------------------------------
(* Files.                                                                  *)

LEMMA WrittenFile ==
    ASSUME NEW p \in Procs, NEW b \in Builds, NEW d \in BOOLEAN
    PROVE  /\ Written(p, b, d) \in File
           /\ Written(p, b, d).exists
           /\ Written(p, b, d).by = p
           /\ Written(p, b, d).build = b
           /\ Written(p, b, d).done = d
<1>1. Written(p, b, d) \in File
  BY DEF File
<1>2. /\ Written(p, b, d).exists
      /\ Written(p, b, d).by = p
      /\ Written(p, b, d).build = b
      /\ Written(p, b, d).done = d
  BY DEF Written
<1> QED
  BY <1>1, <1>2

LEMMA FileShape ==
    /\ Absent \in File /\ ~Absent.exists
    /\ \A f \in File :
           /\ f.exists \in BOOLEAN
           /\ f.exists => /\ f.by \in Procs
                          /\ f.build \in Builds
                          /\ f.done \in BOOLEAN
                          /\ f = Written(f.by, f.build, f.done)
<1>1. Absent \in File /\ ~Absent.exists
  BY DEF File, Absent
<1>2. ASSUME NEW f \in File
      PROVE  /\ f.exists \in BOOLEAN
             /\ f.exists => /\ f.by \in Procs
                            /\ f.build \in Builds
                            /\ f.done \in BOOLEAN
                            /\ f = Written(f.by, f.build, f.done)
  <2>1. CASE f = Absent
    BY <2>1 DEF Absent
  <2>2. CASE \E p \in Procs, b \in Builds, d \in BOOLEAN : f = Written(p, b, d)
    <3>1. PICK p \in Procs, b \in Builds, d \in BOOLEAN : f = Written(p, b, d)
      BY <2>2
    <3>2. f.by = p /\ f.build = b /\ f.done = d /\ f.exists = TRUE
      BY <3>1 DEF Written
    <3> QED
      BY <3>1, <3>2
  <2> QED
    BY <2>1, <2>2 DEF File
<1> QED
  BY <1>1, <1>2

\* What can be said of a file g that Finished gives.
IsFinished(g, f, p, b, intact) ==
    /\ g \in File
    /\ g.exists = f.exists
    /\ f.exists /\ f.by = p => g = Written(p, f.build, intact)
    /\ g.exists /\ f.by # p => g = f \/ g = Written(p, b, FALSE)

LEMMA FinishedFile ==
    ASSUME NEW f \in File, NEW p \in Procs, NEW b \in Builds,
           NEW intact \in BOOLEAN,
           NEW g \in Finished(f, p, b, intact)
    PROVE  IsFinished(g, f, p, b, intact)
<1> USE DEF IsFinished
<1>1. CASE ~f.exists
  BY <1>1 DEF Finished
<1>2. CASE f.exists /\ f.by = p
  <2>1. g = Written(p, f.build, intact)
    BY <1>2 DEF Finished
  <2>2. f.build \in Builds
    BY <1>2, FileShape
  <2>3. g \in File /\ g.exists
    BY <2>1, <2>2, WrittenFile
  <2>4. f.exists \in BOOLEAN /\ g.exists \in BOOLEAN
    BY <2>3, FileShape
  <2>5. g.exists = f.exists
    BY <1>2, <2>3, <2>4
  <2> QED
    BY <1>2, <2>1, <2>3, <2>5
<1>3. CASE f.exists /\ f.by # p
  <2>1. g = f \/ g = Written(p, b, FALSE)
    BY <1>3 DEF Finished
  <2>2. Written(p, b, FALSE) \in File /\ Written(p, b, FALSE).exists
    BY WrittenFile
  <2>3. f.exists \in BOOLEAN /\ Written(p, b, FALSE).exists \in BOOLEAN
    BY <2>2, FileShape
  <2> QED
    BY <1>3, <2>1, <2>2, <2>3
<1> QED
  BY <1>1, <1>2, <1>3

----------------------------------------------------------------------------
(* Every step keeps it.                                                    *)

LEMMA OnlyOneAlone ==
    ASSUME IInv, NEW p \in Procs, NEW r \in Procs, r # p, Installing(p)
    PROVE  ~(undisturbed[r] /\ Installing(r))
  BY DEF IInv, AloneInv

LEMMA AlreadyInstalledKeeps ==
    ASSUME IInv, NEW p \in Procs, NEW b \in Builds, AlreadyInstalled(p, b)
    PROVE  IInv'
<1> USE DEF AlreadyInstalled, Returns, Goto, machine, disk, Installing
<1>l. lib \in File /\ (lib.exists => lib.by \in Procs /\ lib.done \in BOOLEAN)
  BY FileShape DEF IInv, TypeOK
<1>1. TypeOK'
  BY DEF IInv, TypeOK
<1>2. NoneFoundInv'
  BY DEF IInv, NoneFoundInv
<1>3. ASSUME NEW r \in Procs PROVE AloneInv(r)'
  BY DEF IInv, TypeOK, AloneInv
<1>4. ASSUME NEW r \in Procs PROVE IntactInv(r)'
  BY DEF IInv, TypeOK, AloneInv, IntactInv, Copied
<1>5. ASSUME NEW r \in Procs PROVE DoneInv(r)'
  BY DEF IInv, TypeOK, DoneInv
<1>6. TornLibraryHasCause'
  BY DEF IInv, TornLibraryHasCause
<1>7. DamageHasCause'
  BY DEF IInv, DamageHasCause
<1> QED
  BY <1>1, <1>2, <1>3, <1>4, <1>5, <1>6, <1>7 DEF IInv

LEMMA StartKeeps ==
    ASSUME IInv, NEW p \in Procs, NEW b \in Builds, Start(p, b)
    PROVE  IInv'
<1> USE DEF Start, Goto, machine, disk, Installing
<1>l. lib \in File /\ (lib.exists => lib.by \in Procs /\ lib.done \in BOOLEAN)
  BY FileShape DEF IInv, TypeOK
<1>1. TypeOK'
  BY DEF IInv, TypeOK, Pcs
<1>2. NoneFoundInv'
  BY DEF IInv, NoneFoundInv, IsInstalled
<1>3. ASSUME NEW r \in Procs PROVE AloneInv(r)'
  <2>1. CASE r # p
    BY <2>1 DEF IInv, TypeOK, AloneInv
  <2>2. CASE r = p
    <3>1. pc'[p] = "download"
      BY DEF IInv, TypeOK
    <3>2. loaded[p] = "none" /\ ~lib.exists
      BY DEF IInv, NoneFoundInv, IsInstalled
    <3>3. undisturbed'[p] => \A q \in Procs \ {p} : ~Installing(q)'
      BY DEF IInv, TypeOK
    <3> QED
      BY <2>2, <3>1, <3>2, <3>3 DEF AloneInv, Copied
  <2> QED
    BY <2>1, <2>2
<1>4. ASSUME NEW r \in Procs PROVE IntactInv(r)'
  BY DEF IInv, TypeOK, IntactInv, Copied
<1>5. ASSUME NEW r \in Procs PROVE DoneInv(r)'
  BY DEF IInv, TypeOK, NoneFoundInv, DoneInv, IsInstalled
<1>6. TornLibraryHasCause'
  BY DEF TornLibraryHasCause, IsInstalled
<1>7. DamageHasCause'
  BY DEF IInv, DamageHasCause, NoneFoundInv, IsInstalled
<1> QED
  BY <1>1, <1>2, <1>3, <1>4, <1>5, <1>6, <1>7 DEF IInv

LEMMA CudaRefusedKeeps ==
    ASSUME IInv, NEW p \in Procs, CudaRefused(p)
    PROVE  IInv'
<1> USE DEF CudaRefused, Returns, Goto, machine, disk, Installing
<1>l. lib \in File /\ (lib.exists => lib.by \in Procs /\ lib.done \in BOOLEAN)
  BY FileShape DEF IInv, TypeOK
<1>1. TypeOK'
  BY DEF IInv, TypeOK, Pcs
<1>2. NoneFoundInv'
  BY DEF IInv, NoneFoundInv
<1>3. ASSUME NEW r \in Procs PROVE AloneInv(r)'
  BY DEF IInv, TypeOK, AloneInv
<1>4. ASSUME NEW r \in Procs PROVE IntactInv(r)'
  BY DEF IInv, TypeOK, AloneInv, IntactInv, Copied
<1>5. ASSUME NEW r \in Procs PROVE DoneInv(r)'
  BY DEF IInv, TypeOK, DoneInv
<1>6. TornLibraryHasCause'
  BY <1>l DEF IInv, TypeOK, TornLibraryHasCause
<1>7. DamageHasCause'
  BY DEF IInv, DamageHasCause
<1> QED
  BY <1>1, <1>2, <1>3, <1>4, <1>5, <1>6, <1>7 DEF IInv

LEMMA DownloadBeginsKeeps ==
    ASSUME IInv, NEW p \in Procs, DownloadBegins(p)
    PROVE  IInv'
<1> USE DEF DownloadBegins, Goto, Spoil, machine, disk, Installing
<1>b. want[p] \in Builds
  BY DEF IInv, TypeOK
<1>w. /\ Written(p, want[p], FALSE) \in File
      /\ Written(p, want[p], FALSE).exists
      /\ Written(p, want[p], FALSE).by = p
      /\ Written(p, want[p], FALSE).build = want[p]
      /\ ~Written(p, want[p], FALSE).done
  BY <1>b, WrittenFile
<1>v. /\ Written(p, want[p], TRUE).exists
      /\ Written(p, want[p], TRUE).by = p
      /\ Written(p, want[p], TRUE).build = want[p]
      /\ Written(p, want[p], TRUE).done
  BY <1>b, WrittenFile
<1>l. lib \in File /\ (lib.exists => lib.by \in Procs /\ lib.done \in BOOLEAN)
  BY FileShape DEF IInv, TypeOK
<1>1. TypeOK'
  BY <1>w DEF IInv, TypeOK, Pcs
<1>2. NoneFoundInv'
  BY DEF IInv, NoneFoundInv
<1>3. ASSUME NEW r \in Procs PROVE AloneInv(r)'
  BY DEF IInv, TypeOK, AloneInv, Before, Copied
<1>4. ASSUME NEW r \in Procs PROVE IntactInv(r)'
  BY DEF IInv, TypeOK, AloneInv, IntactInv, Copied
<1>5. ASSUME NEW r \in Procs PROVE DoneInv(r)'
  BY DEF IInv, TypeOK, DoneInv
<1>6. TornLibraryHasCause'
  BY DEF IInv, TornLibraryHasCause
<1>7. DamageHasCause'
  BY DEF IInv, DamageHasCause
<1> QED
  BY <1>1, <1>2, <1>3, <1>4, <1>5, <1>6, <1>7 DEF IInv

LEMMA DownloadEndsKeeps ==
    ASSUME IInv, NEW p \in Procs, DownloadEnds(p)
    PROVE  IInv'
<1> USE DEF DownloadEnds, Goto, machine, disk, Installing
<1>b. want[p] \in Builds
  BY DEF IInv, TypeOK
<1>w. /\ Written(p, want[p], FALSE) \in File
      /\ Written(p, want[p], FALSE).exists
      /\ Written(p, want[p], FALSE).by = p
      /\ Written(p, want[p], FALSE).build = want[p]
      /\ ~Written(p, want[p], FALSE).done
  BY <1>b, WrittenFile
<1>v. /\ Written(p, want[p], TRUE).exists
      /\ Written(p, want[p], TRUE).by = p
      /\ Written(p, want[p], TRUE).build = want[p]
      /\ Written(p, want[p], TRUE).done
  BY <1>b, WrittenFile
<1>f. PICK whole \in BOOLEAN :
            /\ \E f \in Finished(archive[want[p]], p, want[p], whole) :
                   archive' = [archive EXCEPT ![want[p]] = f]
            /\ fault' = [fault EXCEPT ![p] = @ \/ ~whole]
  OBVIOUS
<1>e. PICK f \in Finished(archive[want[p]], p, want[p], whole) :
            archive' = [archive EXCEPT ![want[p]] = f]
  BY <1>f
<1>t. archive[want[p]] \in File
  BY <1>b DEF IInv, TypeOK
<1>h. IsFinished(f, archive[want[p]], p, want[p], whole)
  BY <1>b, <1>e, <1>t, FinishedFile
<1>d. fault'[p] = (fault[p] \/ ~whole) /\ fault' \in [Procs -> BOOLEAN]
  BY <1>f DEF IInv, TypeOK
<1>l. lib \in File /\ (lib.exists => lib.by \in Procs /\ lib.done \in BOOLEAN)
  BY FileShape DEF IInv, TypeOK
<1>1. TypeOK'
  <2>1. archive' \in [Builds -> File]
    BY <1>b, <1>e, <1>h DEF IInv, TypeOK, IsFinished
  <2>2. pc' \in [Procs -> Pcs]
    BY DEF IInv, TypeOK, Pcs
  <2> QED
    BY <1>d, <2>1, <2>2 DEF IInv, TypeOK
<1>2. NoneFoundInv'
  BY DEF IInv, NoneFoundInv
<1>3. ASSUME NEW r \in Procs PROVE AloneInv(r)'
  <2>1. CASE r # p
    BY <2>1 DEF IInv, TypeOK, AloneInv
  <2>2. CASE r = p /\ ~undisturbed[p]
    BY <2>2 DEF AloneInv
  <2>3. CASE r = p /\ undisturbed[p]
    BY <2>3 DEF IInv, TypeOK, AloneInv, Before, Copied
  <2> QED
    BY <2>1, <2>2, <2>3
<1>4. ASSUME NEW r \in Procs PROVE IntactInv(r)'
  <2>1. CASE r # p
    BY <1>f, <2>1 DEF IInv, TypeOK, AloneInv, IntactInv, Copied
  <2>2. CASE r = p /\ ~(undisturbed[p] /\ ~fault[p])
    BY <1>d, <2>2 DEF IntactInv
  <2>3. CASE r = p /\ undisturbed[p] /\ ~fault[p]
    <3>1. archive[want[p]] = Written(p, want[p], FALSE)
      BY <2>3 DEF IInv, IntactInv
    <3>2. ASSUME whole PROVE f = Written(p, want[p], TRUE)
      <4>1. whole = TRUE
        BY <3>2
      <4> QED
        BY <1>w, <1>h, <3>1, <4>1 DEF IsFinished
    <3>3. archive'[want'[p]] = f
      BY <1>b, <1>e DEF IInv, TypeOK
    <3>4. pc'[p] = "extract" /\ want'[p] = want[p]
      BY DEF IInv, TypeOK
    <3>5. ~fault'[p] => whole
      BY <1>d
    <3> QED
      BY <2>3, <3>2, <3>3, <3>4, <3>5 DEF IntactInv, Copied
  <2> QED
    BY <2>1, <2>2, <2>3
<1>5. ASSUME NEW r \in Procs PROVE DoneInv(r)'
  BY <1>f DEF IInv, TypeOK, DoneInv
<1>6. TornLibraryHasCause'
  BY <1>f, <1>l DEF IInv, TypeOK, TornLibraryHasCause
<1>7. DamageHasCause'
  BY DEF IInv, DamageHasCause
<1> QED
  BY <1>1, <1>2, <1>3, <1>4, <1>5, <1>6, <1>7 DEF IInv

LEMMA DownloadFailsKeeps ==
    ASSUME IInv, NEW p \in Procs, DownloadFails(p)
    PROVE  IInv'
<1> USE DEF DownloadFails, Returns, Goto, machine, disk, Installing
<1>a. Absent \in File /\ ~Absent.exists
  BY FileShape
<1>l. lib \in File /\ (lib.exists => lib.by \in Procs /\ lib.done \in BOOLEAN)
  BY FileShape DEF IInv, TypeOK
<1>1. TypeOK'
  BY <1>a DEF IInv, TypeOK, Pcs
<1>2. NoneFoundInv'
  BY DEF IInv, NoneFoundInv
<1>3. ASSUME NEW r \in Procs PROVE AloneInv(r)'
  BY DEF IInv, TypeOK, AloneInv
<1>4. ASSUME NEW r \in Procs PROVE IntactInv(r)'
  BY DEF IInv, TypeOK, AloneInv, IntactInv, Copied
<1>5. ASSUME NEW r \in Procs PROVE DoneInv(r)'
  BY DEF IInv, DoneInv
<1>6. TornLibraryHasCause'
  BY DEF IInv, TornLibraryHasCause
<1>7. DamageHasCause'
  BY DEF IInv, DamageHasCause
<1> QED
  BY <1>1, <1>2, <1>3, <1>4, <1>5, <1>6, <1>7 DEF IInv

LEMMA ExtractBeginsKeeps ==
    ASSUME IInv, NEW p \in Procs, ExtractBegins(p)
    PROVE  IInv'
<1> USE DEF ExtractBegins, Goto, Spoil, machine, disk, Installing
<1>b. want[p] \in Builds
  BY DEF IInv, TypeOK
<1>w. /\ Written(p, want[p], FALSE) \in File
      /\ Written(p, want[p], FALSE).exists
      /\ Written(p, want[p], FALSE).by = p
      /\ Written(p, want[p], FALSE).build = want[p]
      /\ ~Written(p, want[p], FALSE).done
  BY <1>b, WrittenFile
<1>v. /\ Written(p, want[p], TRUE).exists
      /\ Written(p, want[p], TRUE).by = p
      /\ Written(p, want[p], TRUE).build = want[p]
      /\ Written(p, want[p], TRUE).done
  BY <1>b, WrittenFile
<1>g. /\ Good(archive[want[p]]) \in BOOLEAN
      /\ archive[want[p]] = Written(p, want[p], TRUE) => Good(archive[want[p]])
  <2>1. archive[want[p]] \in File
    BY <1>b DEF IInv, TypeOK
  <2> QED
    BY <2>1, <1>v, FileShape DEF Good
<1>l. lib \in File /\ (lib.exists => lib.by \in Procs /\ lib.done \in BOOLEAN)
  BY FileShape DEF IInv, TypeOK
<1>1. TypeOK'
  <2>1. extracted' \in [Builds -> File]
    BY <1>b, <1>w DEF IInv, TypeOK
  <2>2. source' \in [Procs -> BOOLEAN]
    BY <1>g DEF IInv, TypeOK
  <2>3. pc' \in [Procs -> Pcs]
    BY DEF IInv, TypeOK, Pcs
  <2> QED
    BY <2>1, <2>2, <2>3 DEF IInv, TypeOK
<1>2. NoneFoundInv'
  BY DEF IInv, NoneFoundInv
<1>3. ASSUME NEW r \in Procs PROVE AloneInv(r)'
  <2>1. CASE r # p
    BY <2>1 DEF IInv, TypeOK, AloneInv
  <2>2. CASE r = p /\ ~undisturbed[p]
    BY <2>2 DEF AloneInv
  <2>3. CASE r = p /\ undisturbed[p]
    BY <2>3 DEF IInv, TypeOK, AloneInv, Before, Copied
  <2> QED
    BY <2>1, <2>2, <2>3
<1>4. ASSUME NEW r \in Procs PROVE IntactInv(r)'
  <2>1. CASE r # p
    BY <2>1 DEF IInv, TypeOK, AloneInv, IntactInv, Copied
  <2>2. CASE r = p /\ ~(undisturbed[p] /\ ~fault[p])
    BY <2>2 DEF IInv, TypeOK, IntactInv
  <2>3. CASE r = p /\ undisturbed[p] /\ ~fault[p]
    <3>1. archive[want[p]].exists /\ Good(archive[want[p]])
      BY <1>v, <1>g, <2>3 DEF IInv, IntactInv
    <3>2. extracted'[want'[p]] = Written(p, want[p], FALSE)
      BY <1>b, <3>1 DEF IInv, TypeOK
    <3>3. source'[p]
      BY <3>1 DEF IInv, TypeOK
    <3>4. pc'[p] = "extracting" /\ want'[p] = want[p]
      BY DEF IInv, TypeOK
    <3> QED
      BY <2>3, <3>2, <3>3, <3>4 DEF IntactInv, Copied
  <2> QED
    BY <2>1, <2>2, <2>3
<1>5. ASSUME NEW r \in Procs PROVE DoneInv(r)'
  BY DEF IInv, DoneInv
<1>6. TornLibraryHasCause'
  BY DEF IInv, TornLibraryHasCause
<1>7. DamageHasCause'
  BY DEF IInv, DamageHasCause
<1> QED
  BY <1>1, <1>2, <1>3, <1>4, <1>5, <1>6, <1>7 DEF IInv

LEMMA ExtractEndsKeeps ==
    ASSUME IInv, NEW p \in Procs, ExtractEnds(p)
    PROVE  IInv'
<1> USE DEF ExtractEnds, Goto, machine, disk, Installing
<1>b. want[p] \in Builds
  BY DEF IInv, TypeOK
<1>w. /\ Written(p, want[p], FALSE) \in File
      /\ Written(p, want[p], FALSE).exists
      /\ Written(p, want[p], FALSE).by = p
      /\ Written(p, want[p], FALSE).build = want[p]
      /\ ~Written(p, want[p], FALSE).done
  BY <1>b, WrittenFile
<1>v. /\ Written(p, want[p], TRUE).exists
      /\ Written(p, want[p], TRUE).by = p
      /\ Written(p, want[p], TRUE).build = want[p]
      /\ Written(p, want[p], TRUE).done
  BY <1>b, WrittenFile
<1>f. PICK whole \in BOOLEAN :
            /\ \E f \in Finished(extracted[want[p]], p, want[p],
                                source[p] /\ whole) :
                   extracted' = [extracted EXCEPT ![want[p]] = f]
            /\ fault' = [fault EXCEPT ![p] = @ \/ ~whole]
  OBVIOUS
<1>e. PICK f \in Finished(extracted[want[p]], p, want[p], source[p] /\ whole) :
            extracted' = [extracted EXCEPT ![want[p]] = f]
  BY <1>f
<1>t. extracted[want[p]] \in File /\ source[p] \in BOOLEAN
  BY <1>b DEF IInv, TypeOK
<1>h. IsFinished(f, extracted[want[p]], p, want[p], source[p] /\ whole)
  BY <1>b, <1>e, <1>t, FinishedFile
<1>d. fault'[p] = (fault[p] \/ ~whole) /\ fault' \in [Procs -> BOOLEAN]
  BY <1>f DEF IInv, TypeOK
<1>a. Absent \in File /\ ~Absent.exists
  BY FileShape
<1>l. lib \in File /\ (lib.exists => lib.by \in Procs /\ lib.done \in BOOLEAN)
  BY FileShape DEF IInv, TypeOK
<1>1. TypeOK'
  <2>1. extracted' \in [Builds -> File]
    BY <1>b, <1>e, <1>h DEF IInv, TypeOK, IsFinished
  <2>2. archive' \in [Builds -> File]
    BY <1>a DEF IInv, TypeOK
  <2>3. pc' \in [Procs -> Pcs]
    BY DEF IInv, TypeOK, Pcs
  <2> QED
    BY <1>d, <2>1, <2>2, <2>3 DEF IInv, TypeOK
<1>2. NoneFoundInv'
  BY DEF IInv, NoneFoundInv
<1>3. ASSUME NEW r \in Procs PROVE AloneInv(r)'
  <2>1. CASE r # p
    BY <2>1 DEF IInv, TypeOK, AloneInv
  <2>2. CASE r = p /\ ~undisturbed[p]
    BY <2>2 DEF AloneInv
  <2>3. CASE r = p /\ undisturbed[p]
    <3>1. archive'[want'[p]] = Absent
      BY <1>b DEF IInv, TypeOK
    <3> QED
      BY <1>a, <2>3, <3>1 DEF IInv, TypeOK, AloneInv, Before, Copied
  <2> QED
    BY <2>1, <2>2, <2>3
<1>4. ASSUME NEW r \in Procs PROVE IntactInv(r)'
  <2>1. CASE r # p
    BY <1>f, <2>1 DEF IInv, TypeOK, AloneInv, IntactInv, Copied
  <2>2. CASE r = p /\ ~(undisturbed[p] /\ ~fault[p])
    BY <1>d, <2>2 DEF IntactInv
  <2>3. CASE r = p /\ undisturbed[p] /\ ~fault[p]
    <3>1. extracted[want[p]] = Written(p, want[p], FALSE) /\ source[p]
      BY <2>3 DEF IInv, IntactInv
    <3>2. ASSUME whole PROVE f = Written(p, want[p], TRUE)
      <4>1. (source[p] /\ whole) = TRUE
        BY <3>1, <3>2
      <4> QED
        BY <1>w, <1>h, <3>1, <4>1 DEF IsFinished
    <3>3. extracted'[want'[p]] = f
      BY <1>b, <1>e DEF IInv, TypeOK
    <3>4. pc'[p] = "copy include" /\ want'[p] = want[p]
      BY DEF IInv, TypeOK
    <3>5. ~fault'[p] => whole
      BY <1>d
    <3> QED
      BY <2>3, <3>2, <3>3, <3>4, <3>5 DEF IntactInv, Copied
  <2> QED
    BY <2>1, <2>2, <2>3
<1>5. ASSUME NEW r \in Procs PROVE DoneInv(r)'
  BY <1>f DEF IInv, TypeOK, DoneInv
<1>6. TornLibraryHasCause'
  BY <1>f, <1>l DEF IInv, TypeOK, TornLibraryHasCause
<1>7. DamageHasCause'
  BY DEF IInv, DamageHasCause
<1> QED
  BY <1>1, <1>2, <1>3, <1>4, <1>5, <1>6, <1>7 DEF IInv

LEMMA CopiesIncludeKeeps ==
    ASSUME IInv, NEW p \in Procs, CopiesInclude(p)
    PROVE  IInv'
<1> USE DEF CopiesInclude, Goto, machine, disk, Installing
<1>l. lib \in File /\ (lib.exists => lib.by \in Procs /\ lib.done \in BOOLEAN)
  BY FileShape DEF IInv, TypeOK
<1>1. TypeOK'
  BY DEF IInv, TypeOK, Pcs
<1>2. NoneFoundInv'
  BY DEF IInv, NoneFoundInv
<1>3. ASSUME NEW r \in Procs PROVE AloneInv(r)'
  BY DEF IInv, TypeOK, AloneInv, Before, Copied
<1>4. ASSUME NEW r \in Procs PROVE IntactInv(r)'
  BY DEF IInv, TypeOK, AloneInv, IntactInv, Copied
<1>5. ASSUME NEW r \in Procs PROVE DoneInv(r)'
  BY DEF IInv, TypeOK, DoneInv
<1>6. TornLibraryHasCause'
  BY <1>l DEF IInv, TypeOK, TornLibraryHasCause
<1>7. DamageHasCause'
  BY DEF IInv, DamageHasCause
<1> QED
  BY <1>1, <1>2, <1>3, <1>4, <1>5, <1>6, <1>7 DEF IInv

LEMMA CopyFailsKeeps ==
    ASSUME IInv, NEW p \in Procs, CopyFails(p)
    PROVE  IInv'
<1> USE DEF CopyFails, Returns, Goto, machine, disk, Installing
<1>l. lib \in File /\ (lib.exists => lib.by \in Procs /\ lib.done \in BOOLEAN)
  BY FileShape DEF IInv, TypeOK
<1>1. TypeOK'
  BY DEF IInv, TypeOK, Pcs
<1>2. NoneFoundInv'
  BY DEF IInv, NoneFoundInv
<1>3. ASSUME NEW r \in Procs PROVE AloneInv(r)'
  <2>1. CASE r = p
    <3>1. pc'[p] = "top"
      BY DEF IInv, TypeOK
    <3> QED
      BY <2>1, <3>1 DEF AloneInv
  <2>2. CASE r # p
    <3>1. AloneInv(r) /\ pc'[r] = pc[r]
      BY <2>2 DEF IInv, TypeOK
    <3>2. \A q \in Procs : Installing(q)' => Installing(q)
      BY DEF IInv, TypeOK
    <3>3. UNCHANGED <<archive, extracted, lib, want, loaded, undisturbed>>
      OBVIOUS
    <3> QED
      BY <3>1, <3>2, <3>3 DEF AloneInv
  <2> QED
    BY <2>1, <2>2
<1>4. ASSUME NEW r \in Procs PROVE IntactInv(r)'
  <2>1. CASE r = p
    <3>1. pc'[p] = "top"
      BY DEF IInv, TypeOK
    <3> QED
      BY <2>1, <3>1 DEF IntactInv, Copied
  <2>2. CASE r # p
    <3>1. IntactInv(r) /\ pc'[r] = pc[r]
      BY <2>2 DEF IInv, TypeOK
    <3>2. UNCHANGED <<archive, extracted, lib, want, source, undisturbed, fault>>
      OBVIOUS
    <3> QED
      BY <3>1, <3>2 DEF IntactInv
  <2> QED
    BY <2>1, <2>2
<1>5. ASSUME NEW r \in Procs PROVE DoneInv(r)'
  BY DEF IInv, TypeOK, DoneInv
<1>6. TornLibraryHasCause'
  BY <1>l DEF IInv, TypeOK, TornLibraryHasCause
<1>7. DamageHasCause'
  BY DEF IInv, DamageHasCause
<1> QED
  BY <1>1, <1>2, <1>3, <1>4, <1>5, <1>6, <1>7 DEF IInv

LEMMA CopyLibBeginsKeeps ==
    ASSUME IInv, NEW p \in Procs, CopyLibBegins(p)
    PROVE  IInv'
<1> USE DEF CopyLibBegins, Goto, machine, disk, Installing
<1>b. want[p] \in Builds
  BY DEF IInv, TypeOK
<1>w. /\ Written(p, want[p], FALSE) \in File
      /\ Written(p, want[p], FALSE).exists
      /\ Written(p, want[p], FALSE).by = p
      /\ Written(p, want[p], FALSE).build = want[p]
      /\ ~Written(p, want[p], FALSE).done
  BY <1>b, WrittenFile
<1>v. /\ Written(p, want[p], TRUE).exists
      /\ Written(p, want[p], TRUE).by = p
      /\ Written(p, want[p], TRUE).build = want[p]
      /\ Written(p, want[p], TRUE).done
  BY <1>b, WrittenFile
<1>g. /\ Good(extracted[want[p]]) \in BOOLEAN
      /\ extracted[want[p]] = Written(p, want[p], TRUE) => Good(extracted[want[p]])
  <2>1. extracted[want[p]] \in File
    BY <1>b DEF IInv, TypeOK
  <2> QED
    BY <2>1, <1>v, FileShape DEF Good
<1>l. lib \in File /\ (lib.exists => lib.by \in Procs /\ lib.done \in BOOLEAN)
  BY FileShape DEF IInv, TypeOK
<1>1. TypeOK'
  BY <1>w, <1>g DEF IInv, TypeOK, Pcs
<1>2. NoneFoundInv'
  BY <1>w DEF IInv, NoneFoundInv
<1>3. ASSUME NEW r \in Procs PROVE AloneInv(r)'
  <2>1. CASE r # p
    BY <2>1 DEF IInv, TypeOK, AloneInv
  <2>2. CASE r = p /\ ~undisturbed[p]
    BY <2>2 DEF AloneInv
  <2>3. CASE r = p /\ undisturbed[p]
    BY <1>w, <2>3 DEF IInv, TypeOK, AloneInv, Before, Copied
  <2> QED
    BY <2>1, <2>2, <2>3
<1>4. ASSUME NEW r \in Procs PROVE IntactInv(r)'
  <2>1. CASE r # p
    BY <2>1 DEF IInv, TypeOK, AloneInv, IntactInv, Copied
  <2>2. CASE r = p /\ ~(undisturbed[p] /\ ~fault[p])
    BY <2>2 DEF IInv, TypeOK, IntactInv
  <2>3. CASE r = p /\ undisturbed[p] /\ ~fault[p]
    <3>1. extracted[want[p]] = Written(p, want[p], TRUE)
      BY <2>3 DEF IInv, IntactInv
    <3>2. source'[p] /\ pc'[p] = "copying" /\ want'[p] = want[p]
      BY <1>g, <3>1 DEF IInv, TypeOK
    <3> QED
      BY <2>3, <3>2 DEF IntactInv, Copied
  <2> QED
    BY <2>1, <2>2, <2>3
<1>5. ASSUME NEW r \in Procs PROVE DoneInv(r)'
  BY DEF IInv, TypeOK, DoneInv
<1>6. TornLibraryHasCause'
  <2>1. lib'.by = p
    BY <1>w
  <2>2. pc'[p] = "copying"
    BY DEF IInv, TypeOK
  <2> QED
    BY <2>1, <2>2 DEF TornLibraryHasCause
<1>7. DamageHasCause'
  BY DEF IInv, DamageHasCause, NoneFoundInv, AloneInv, Before, Copied
<1> QED
  BY <1>1, <1>2, <1>3, <1>4, <1>5, <1>6, <1>7 DEF IInv

\* The library when p ends its copy.
LEMMA CopiedFile ==
    ASSUME IInv, NEW p \in Procs, NEW f \in Finished(lib, p, want[p], source[p])
    PROVE  /\ f \in File
           /\ f.exists = lib.exists
           /\ lib.exists /\ lib.by = p =>
                  f = Written(p, lib.build, source[p]) /\ f.by = p
           /\ f.exists /\ lib.by # p => f = lib \/ f = Written(p, want[p], FALSE)
<1>1. want[p] \in Builds /\ lib \in File /\ source[p] \in BOOLEAN
  BY DEF IInv, TypeOK
<1>2. IsFinished(f, lib, p, want[p], source[p])
  BY <1>1, FinishedFile
<1>3. lib.exists /\ lib.by = p => Written(p, lib.build, source[p]).by = p
  <2>1. lib.exists => lib.build \in Builds
    BY <1>1, FileShape
  <2> QED
    BY <1>1, <2>1, WrittenFile
<1> QED
  BY <1>2, <1>3 DEF IsFinished

LEMMA CopyLibEndsKeeps ==
    ASSUME IInv, NEW p \in Procs, CopyLibEnds(p)
    PROVE  IInv'
<1>b. want[p] \in Builds
  BY DEF IInv, TypeOK
<1>w. /\ Written(p, want[p], FALSE) \in File
      /\ Written(p, want[p], FALSE).exists
      /\ Written(p, want[p], FALSE).by = p
      /\ Written(p, want[p], FALSE).build = want[p]
      /\ ~Written(p, want[p], FALSE).done
  BY <1>b, WrittenFile
<1>v. /\ Written(p, want[p], TRUE).exists
      /\ Written(p, want[p], TRUE).by = p
      /\ Written(p, want[p], TRUE).build = want[p]
      /\ Written(p, want[p], TRUE).done
  BY <1>b, WrittenFile
<1>f. lib' \in Finished(lib, p, want[p], source[p])
  BY DEF CopyLibEnds
<1>h. /\ lib' \in File
      /\ lib'.exists = lib.exists
      /\ lib.exists /\ lib.by = p =>
             lib' = Written(p, lib.build, source[p]) /\ lib'.by = p
      /\ lib'.exists /\ lib.by # p => lib' = lib \/ lib' = Written(p, want[p], FALSE)
  BY <1>f, CopiedFile
<1> USE DEF CopyLibEnds, Goto, machine, disk, Installing
<1>l. lib \in File /\ (lib.exists => lib.by \in Procs /\ lib.done \in BOOLEAN)
  BY FileShape DEF IInv, TypeOK
<1>1. TypeOK'
  BY <1>h DEF IInv, TypeOK, Pcs
<1>2. NoneFoundInv'
  BY <1>h DEF IInv, NoneFoundInv
<1>3. ASSUME NEW r \in Procs PROVE AloneInv(r)'
  <2>1. CASE r # p
    BY <2>1 DEF IInv, TypeOK, AloneInv
  <2>2. CASE r = p /\ ~undisturbed[p]
    BY <2>2 DEF AloneInv
  <2>3. CASE r = p /\ undisturbed[p]
    BY <1>h, <2>3 DEF IInv, TypeOK, AloneInv, Before, Copied
  <2> QED
    BY <2>1, <2>2, <2>3
<1>i. ASSUME undisturbed[p], ~fault[p]
      PROVE  lib' = Written(p, want[p], TRUE)
  <2>1. source[p] /\ lib = Written(p, want[p], FALSE)
    BY <1>i DEF IInv, IntactInv
  <2>2. source[p] = TRUE
    BY <2>1 DEF IInv, TypeOK
  <2> QED
    BY <1>w, <1>h, <2>1, <2>2
<1>4. ASSUME NEW r \in Procs PROVE IntactInv(r)'
  <2>1. CASE r # p
    BY <2>1 DEF IInv, TypeOK, AloneInv, IntactInv, Copied
  <2>2. CASE r = p
    <3>1. pc'[p] = "finish"
      BY DEF IInv, TypeOK
    <3> QED
      BY <1>i, <2>2, <3>1 DEF IntactInv
  <2> QED
    BY <2>1, <2>2
<1>5. ASSUME NEW r \in Procs PROVE DoneInv(r)'
  BY DEF IInv, DoneInv
<1>6. TornLibraryHasCause'
  <2> SUFFICES ASSUME lib'.exists, ~lib'.done, undisturbed'[lib'.by],
                      ~fault'[lib'.by], pc'[lib'.by] # "copying"
               PROVE  FALSE
    BY DEF TornLibraryHasCause
  <2>1. lib.exists /\ lib.by \in Procs
    BY <1>h, <1>l
  <2>2. lib'.by # p
    <3> SUFFICES ASSUME lib'.by = p PROVE FALSE
      OBVIOUS
    <3>1. lib' = Written(p, want[p], TRUE)
      BY <1>i
    <3> QED
      BY <1>v, <3>1
  <2>3. lib' = lib
    BY <1>h, <1>w, <2>1, <2>2
  <2> QED
    BY <2>2, <2>3 DEF IInv, TornLibraryHasCause
<1>7. DamageHasCause'
  BY DEF IInv, DamageHasCause
<1> QED
  BY <1>1, <1>2, <1>3, <1>4, <1>5, <1>6, <1>7 DEF IInv

LEMMA CopyLibFailsKeeps ==
    ASSUME IInv, NEW p \in Procs, CopyLibFails(p)
    PROVE  IInv'
<1>b. want[p] \in Builds
  BY DEF IInv, TypeOK
<1>w. /\ Written(p, want[p], FALSE) \in File
      /\ Written(p, want[p], FALSE).exists
      /\ Written(p, want[p], FALSE).by = p
      /\ Written(p, want[p], FALSE).build = want[p]
      /\ ~Written(p, want[p], FALSE).done
  BY <1>b, WrittenFile
<1>l. lib \in File /\ (lib.exists => lib.by \in Procs /\ lib.done \in BOOLEAN)
  BY FileShape DEF IInv, TypeOK
<1>h. /\ lib' \in File
      /\ lib'.exists = lib.exists
      /\ lib'.exists => lib' = lib \/ lib'.by = p
  <2>1. CASE lib' = lib
    BY <1>l, <2>1
  <2>2. CASE lib' \in Finished(lib, p, want[p], source[p])
    BY <1>w, <2>2, CopiedFile
  <2> QED
    BY <2>1, <2>2 DEF CopyLibFails
<1> USE DEF CopyLibFails, Returns, Goto, machine, disk, Installing
<1>1. TypeOK'
  BY <1>h DEF IInv, TypeOK, Pcs
<1>2. NoneFoundInv'
  BY <1>h DEF IInv, NoneFoundInv
<1>3. ASSUME NEW r \in Procs PROVE AloneInv(r)'
  <2>1. CASE r # p
    BY <2>1 DEF IInv, TypeOK, AloneInv
  <2>2. CASE r = p
    BY <2>2 DEF IInv, TypeOK, AloneInv
  <2> QED
    BY <2>1, <2>2
<1>4. ASSUME NEW r \in Procs PROVE IntactInv(r)'
  <2>1. CASE r # p
    BY <2>1 DEF IInv, TypeOK, AloneInv, IntactInv, Copied
  <2>2. CASE r = p
    <3>1. fault'[p]
      BY DEF IInv, TypeOK
    <3> QED
      BY <2>2, <3>1 DEF IntactInv
  <2> QED
    BY <2>1, <2>2
<1>5. ASSUME NEW r \in Procs PROVE DoneInv(r)'
  <2>1. CASE r = p
    <3>1. result'[p] = "error"
      BY DEF IInv, TypeOK
    <3> QED
      BY <2>1, <3>1 DEF DoneInv
  <2>2. CASE r # p
    BY <2>2 DEF IInv, TypeOK, DoneInv
  <2> QED
    BY <2>1, <2>2
<1>6. TornLibraryHasCause'
  <2> SUFFICES ASSUME lib'.exists, ~lib'.done, undisturbed'[lib'.by],
                      ~fault'[lib'.by], pc'[lib'.by] # "copying"
               PROVE  FALSE
    BY DEF TornLibraryHasCause
  <2>1. fault'[p]
    BY DEF IInv, TypeOK
  <2>2. lib' = lib /\ lib.by # p
    BY <1>h, <2>1
  <2> QED
    BY <1>l, <2>2 DEF IInv, TypeOK, TornLibraryHasCause
<1>7. DamageHasCause'
  BY DEF IInv, DamageHasCause
<1> QED
  BY <1>1, <1>2, <1>3, <1>4, <1>5, <1>6, <1>7 DEF IInv

LEMMA RemovesTreeKeeps ==
    ASSUME IInv, NEW p \in Procs, RemovesTree(p)
    PROVE  IInv'
<1> USE DEF RemovesTree, Goto, Spoil, machine, disk, Installing
<1>b. want[p] \in Builds
  BY DEF IInv, TypeOK
<1>a. Absent \in File /\ ~Absent.exists
  BY FileShape
<1>l. lib \in File /\ (lib.exists => lib.by \in Procs /\ lib.done \in BOOLEAN)
  BY FileShape DEF IInv, TypeOK
<1>1. TypeOK'
  BY <1>a DEF IInv, TypeOK, Pcs
<1>2. NoneFoundInv'
  BY DEF IInv, NoneFoundInv
<1>3. ASSUME NEW r \in Procs PROVE AloneInv(r)'
  <2>1. CASE r # p
    <3>1. ~(undisturbed[r] /\ Installing(r))
      BY <2>1, OnlyOneAlone
    <3>2. pc'[r] = pc[r] /\ undisturbed'[r] = undisturbed[r]
      BY <2>1 DEF IInv, TypeOK
    <3> QED
      BY <3>1, <3>2 DEF AloneInv
  <2>2. CASE r = p /\ ~undisturbed[p]
    BY <2>2 DEF AloneInv
  <2>3. CASE r = p /\ undisturbed[p]
    <3>1. AloneInv(p)
      BY DEF IInv
    <3>2. ~extracted'[want'[p]].exists
      BY <1>a, <1>b DEF IInv, TypeOK
    <3>3. pc'[p] \in {"sign", "load"}
      BY DEF IInv, TypeOK
    <3> QED
      BY <2>3, <3>1, <3>2, <3>3 DEF IInv, TypeOK, AloneInv, Before, Copied
  <2> QED
    BY <2>1, <2>2, <2>3
<1>4. ASSUME NEW r \in Procs PROVE IntactInv(r)'
  <2>1. CASE r # p
    BY <2>1 DEF IInv, TypeOK, AloneInv, IntactInv, Copied
  <2>2. CASE r = p /\ ~(undisturbed[p] /\ ~fault[p])
    BY <2>2 DEF IInv, TypeOK, IntactInv
  <2>3. CASE r = p /\ undisturbed[p] /\ ~fault[p]
    <3>1. lib = Written(p, want[p], TRUE)
      BY <2>3 DEF IInv, IntactInv, Copied
    <3>2. pc'[p] \in {"sign", "load"}
      BY DEF IInv, TypeOK
    <3> QED
      BY <2>3, <3>1, <3>2 DEF IntactInv
  <2> QED
    BY <2>1, <2>2, <2>3
<1>5. ASSUME NEW r \in Procs PROVE DoneInv(r)'
  BY DEF IInv, TypeOK, DoneInv
<1>6. TornLibraryHasCause'
  BY <1>l DEF IInv, TypeOK, TornLibraryHasCause
<1>7. DamageHasCause'
  BY DEF IInv, DamageHasCause
<1> QED
  BY <1>1, <1>2, <1>3, <1>4, <1>5, <1>6, <1>7 DEF IInv

LEMMA SignKeeps ==
    ASSUME IInv, NEW p \in Procs, Sign(p)
    PROVE  IInv'
<1> USE DEF Sign, Goto, machine, disk, Installing
<1>l. lib \in File /\ (lib.exists => lib.by \in Procs /\ lib.done \in BOOLEAN)
  BY FileShape DEF IInv, TypeOK
<1>1. TypeOK'
  BY DEF IInv, TypeOK, Pcs
<1>2. NoneFoundInv'
  BY DEF IInv, NoneFoundInv
<1>3. ASSUME NEW r \in Procs PROVE AloneInv(r)'
  <2>1. CASE r # p
    <3>1. ~(undisturbed[r] /\ Installing(r))
      BY <2>1, OnlyOneAlone
    <3>2. pc'[r] = pc[r] /\ undisturbed'[r] = undisturbed[r]
      BY <2>1 DEF IInv, TypeOK
    <3> QED
      BY <3>1, <3>2 DEF AloneInv
  <2>2. CASE r = p
    <3>1. pc[p] = "sign" /\ pc'[p] = "load"
      BY DEF IInv, TypeOK
    <3>2. AloneInv(p)
      BY DEF IInv
    <3>3. \A q \in Procs \ {p} : pc'[q] = pc[q]
      BY DEF IInv, TypeOK
    <3>4. UNCHANGED <<archive, extracted, lib, want, loaded, undisturbed>>
      OBVIOUS
    <3> QED
      BY <2>2, <3>1, <3>2, <3>3, <3>4 DEF AloneInv, Before, Copied
  <2> QED
    BY <2>1, <2>2
<1>4. ASSUME NEW r \in Procs PROVE IntactInv(r)'
  BY DEF IInv, TypeOK, AloneInv, IntactInv, Copied
<1>5. ASSUME NEW r \in Procs PROVE DoneInv(r)'
  BY DEF IInv, TypeOK, DoneInv
<1>6. TornLibraryHasCause'
  BY <1>l DEF IInv, TypeOK, TornLibraryHasCause
<1>7. DamageHasCause'
  BY DEF IInv, DamageHasCause
<1> QED
  BY <1>1, <1>2, <1>3, <1>4, <1>5, <1>6, <1>7 DEF IInv

LEMMA LoadsKeeps ==
    ASSUME IInv, NEW p \in Procs, Loads(p)
    PROVE  IInv'
<1> USE DEF Loads, Returns, Goto, FoundLibrary, machine, disk, Installing
<1>b. want[p] \in Builds
  BY DEF IInv, TypeOK
<1>w. /\ Written(p, want[p], FALSE) \in File
      /\ Written(p, want[p], FALSE).exists
      /\ Written(p, want[p], FALSE).by = p
      /\ Written(p, want[p], FALSE).build = want[p]
      /\ ~Written(p, want[p], FALSE).done
  BY <1>b, WrittenFile
<1>v. /\ Written(p, want[p], TRUE).exists
      /\ Written(p, want[p], TRUE).by = p
      /\ Written(p, want[p], TRUE).build = want[p]
      /\ Written(p, want[p], TRUE).done
  BY <1>b, WrittenFile
<1>a. Absent \in File /\ ~Absent.exists
  BY FileShape
<1>l. lib \in File /\ (lib.exists => lib.by \in Procs /\ lib.done \in BOOLEAN)
  BY FileShape DEF IInv, TypeOK
<1>1. TypeOK'
  BY DEF IInv, TypeOK, Pcs, Libraries, Good
<1>2. NoneFoundInv'
  BY DEF IInv, NoneFoundInv, Good
<1>3. ASSUME NEW r \in Procs PROVE AloneInv(r)'
  BY DEF IInv, TypeOK, AloneInv
<1>4. ASSUME NEW r \in Procs PROVE IntactInv(r)'
  BY DEF IInv, TypeOK, IntactInv, Copied
<1>5. ASSUME NEW r \in Procs PROVE DoneInv(r)'
  <2>1. CASE r # p
    BY <2>1 DEF IInv, TypeOK, DoneInv
  <2>2. CASE r = p /\ ~undisturbed[p]
    BY <2>2 DEF IInv, TypeOK, DoneInv, NoneFoundInv
  <2>3. CASE r = p /\ undisturbed[p]
    <3>1. system = "none" /\ pkgConfig = "none" /\ ~Installing(p)'
      BY DEF IInv, TypeOK, NoneFoundInv
    <3>2. /\ \A q \in Procs \ {p} : ~Installing(q)
          /\ loaded[p] = "none"
          /\ lib.exists
          /\ ~archive[want[p]].exists /\ ~extracted[want[p]].exists
      BY <2>3 DEF IInv, AloneInv, Copied
    <3>3. ASSUME ~fault[p] PROVE Good(lib) /\ lib.build = want[p]
      <4>1. lib = Written(p, want[p], TRUE)
        BY <2>3, <3>3 DEF IInv, IntactInv, Copied
      <4> QED
        BY <1>v, <4>1 DEF Good
    <3>4. ASSUME ~fault[p] PROVE loaded'[p] = "current"
      BY <3>1, <3>2, <3>3, <3>4 DEF IInv, TypeOK, Good
    <3>5. \A q \in Procs : ~Installing(q)'
      BY <3>1, <3>2 DEF IInv, TypeOK
    <3>6. UNCHANGED <<archive, extracted, lib, want, fault, system, pkgConfig>>
      OBVIOUS
    <3> QED
      BY <2>3, <3>1, <3>2, <3>3, <3>4, <3>5, <3>6 DEF DoneInv, Good
  <2> QED
    BY <2>1, <2>2, <2>3
<1>6. TornLibraryHasCause'
  BY DEF IInv, TornLibraryHasCause
<1>7. DamageHasCause'
  BY DEF IInv, DamageHasCause, NoneFoundInv
<1> QED
  BY <1>1, <1>2, <1>3, <1>4, <1>5, <1>6, <1>7 DEF IInv

LEMMA InterruptKeeps ==
    ASSUME IInv, NEW p \in Procs, Interrupt(p)
    PROVE  IInv'
<1> USE DEF Interrupt, Returns, Goto, machine, disk, Installing
<1>l. lib \in File /\ (lib.exists => lib.by \in Procs /\ lib.done \in BOOLEAN)
  BY FileShape DEF IInv, TypeOK
<1>1. TypeOK'
  BY DEF IInv, TypeOK, Pcs
<1>2. NoneFoundInv'
  BY DEF IInv, NoneFoundInv
<1>3. ASSUME NEW r \in Procs PROVE AloneInv(r)'
  BY DEF IInv, TypeOK, AloneInv
<1>4. ASSUME NEW r \in Procs PROVE IntactInv(r)'
  BY DEF IInv, TypeOK, AloneInv, IntactInv, Copied
<1>5. ASSUME NEW r \in Procs PROVE DoneInv(r)'
  BY DEF IInv, DoneInv
<1>6. TornLibraryHasCause'
  BY DEF IInv, TypeOK, TornLibraryHasCause
<1>7. DamageHasCause'
  BY DEF IInv, DamageHasCause
<1> QED
  BY <1>1, <1>2, <1>3, <1>4, <1>5, <1>6, <1>7 DEF IInv

LEMMA RestartKeeps ==
    ASSUME IInv, NEW p \in Procs, Restart(p)
    PROVE  IInv'
<1> USE DEF Restart, FoundLibrary, machine, disk, Installing
<1>l. lib \in File /\ (lib.exists => lib.by \in Procs /\ lib.done \in BOOLEAN)
  BY FileShape DEF IInv, TypeOK
<1>1. TypeOK'
  BY DEF IInv, TypeOK, Libraries
<1>2. NoneFoundInv'
  BY DEF IInv, NoneFoundInv, Good
<1>3. ASSUME NEW r \in Procs PROVE AloneInv(r)'
  <2>1. CASE r # p
    BY <2>1 DEF IInv, TypeOK, AloneInv
  <2>2. CASE r = p
    BY <2>2 DEF AloneInv
  <2> QED
    BY <2>1, <2>2
<1>4. ASSUME NEW r \in Procs PROVE IntactInv(r)'
  BY DEF IInv, TypeOK, AloneInv, IntactInv, Copied
<1>5. ASSUME NEW r \in Procs PROVE DoneInv(r)'
  <2>1. CASE r # p
    <3>1. result'[r] = result[r] /\ loaded'[r] = loaded[r]
      BY <2>1 DEF IInv, TypeOK
    <3> QED
      BY <3>1 DEF IInv, DoneInv, Good
  <2>2. CASE r = p
    <3>1. result'[r] = "none"
      BY <2>2 DEF IInv, TypeOK
    <3> QED
      BY <3>1 DEF DoneInv
  <2> QED
    BY <2>1, <2>2
<1>6. TornLibraryHasCause'
  BY DEF IInv, TornLibraryHasCause
<1>7. DamageHasCause'
  BY DEF IInv, TypeOK, DamageHasCause, Libraries
<1> QED
  BY <1>1, <1>2, <1>3, <1>4, <1>5, <1>6, <1>7 DEF IInv

----------------------------------------------------------------------------
(* The theorems.                                                           *)

LEMMA InitIInv == Init => IInv
<1> SUFFICES ASSUME Init PROVE IInv
  OBVIOUS
<1> USE DEF Init, Installing
<1>a. Absent \in File /\ ~Absent.exists
  BY FileShape
<1>1. TypeOK
  BY <1>a DEF TypeOK, Pcs, Libraries, Builds, FoundLibrary, Good
<1>2. NoneFoundInv
  BY <1>a DEF NoneFoundInv, FoundLibrary
<1>3. ASSUME NEW p \in Procs PROVE AloneInv(p) /\ IntactInv(p) /\ DoneInv(p)
  BY DEF AloneInv, IntactInv, DoneInv, Copied
<1>4. TornLibraryHasCause
  BY <1>a DEF TornLibraryHasCause
<1>5. DamageHasCause
  BY <1>a DEF DamageHasCause, Libraries, FoundLibrary
<1> QED
  BY <1>1, <1>2, <1>3, <1>4, <1>5 DEF IInv

LEMMA StutterIInv == IInv /\ UNCHANGED vars => IInv'
<1> SUFFICES ASSUME IInv, UNCHANGED vars PROVE IInv'
  OBVIOUS
<1> USE DEF vars, machine, disk
<1>1. TypeOK'
  BY DEF IInv, TypeOK
<1>2. NoneFoundInv'
  BY DEF IInv, NoneFoundInv, Installing
<1>3. ASSUME NEW p \in Procs PROVE AloneInv(p)' /\ DoneInv(p)'
  BY DEF IInv, AloneInv, DoneInv, Installing
<1>5. ASSUME NEW p \in Procs PROVE IntactInv(p)'
  BY DEF IInv, IntactInv
<1>4. TornLibraryHasCause' /\ DamageHasCause'
  BY DEF IInv, TornLibraryHasCause, DamageHasCause
<1> QED
  BY <1>1, <1>2, <1>3, <1>4, <1>5 DEF IInv

LEMMA NextIInv == IInv /\ [Next]_vars => IInv'
<1> SUFFICES ASSUME IInv, [Next]_vars PROVE IInv'
  OBVIOUS
<1>1. CASE UNCHANGED vars
  BY <1>1, StutterIInv
<1>2. ASSUME NEW p \in Procs, Step(p) PROVE IInv'
  <2>1. ASSUME NEW b \in Builds, AlreadyInstalled(p, b) PROVE IInv'
    BY <2>1, AlreadyInstalledKeeps
  <2>2. ASSUME NEW b \in Builds, Start(p, b) PROVE IInv'
    BY <2>2, StartKeeps
  <2>3. CASE DownloadBegins(p)
    BY <2>3, DownloadBeginsKeeps
  <2>4. CASE DownloadEnds(p)
    BY <2>4, DownloadEndsKeeps
  <2>5. CASE DownloadFails(p)
    BY <2>5, DownloadFailsKeeps
  <2>6. CASE ExtractBegins(p)
    BY <2>6, ExtractBeginsKeeps
  <2>7. CASE ExtractEnds(p)
    BY <2>7, ExtractEndsKeeps
  <2>8. CASE CopiesInclude(p)
    BY <2>8, CopiesIncludeKeeps
  <2>9. CASE CopyFails(p)
    BY <2>9, CopyFailsKeeps
  <2>10. CASE CopyLibBegins(p)
    BY <2>10, CopyLibBeginsKeeps
  <2>11. CASE CopyLibEnds(p)
    BY <2>11, CopyLibEndsKeeps
  <2>12. CASE CopyLibFails(p)
    BY <2>12, CopyLibFailsKeeps
  <2>13. CASE RemovesTree(p)
    BY <2>13, RemovesTreeKeeps
  <2>14. CASE Interrupt(p)
    BY <2>14, InterruptKeeps
  <2>15. CASE Restart(p)
    BY <2>15, RestartKeeps
  <2>16. CASE CudaRefused(p)
    BY <2>16, CudaRefusedKeeps
  <2>17. CASE Sign(p)
    BY <2>17, SignKeeps
  <2>18. CASE Loads(p)
    BY <2>18, LoadsKeeps
  <2> QED
    BY <1>2, <2>1, <2>2, <2>3, <2>4, <2>5, <2>6, <2>7, <2>8, <2>9, <2>10,
       <2>11, <2>12, <2>13, <2>14, <2>15, <2>16, <2>17, <2>18 DEF Step
<1> QED
  BY <1>1, <1>2 DEF Next

LEMMA InvariantHolds == Spec => []IInv
  BY InitIInv, NextIInv, PTL DEF Spec

\* Every state of every process and every file is one the code can be in:
\* what onnx_load_lib() maps is never a file that is not whole.
THEOREM TypeCorrect == Spec => []TypeOK
<1>1. IInv => TypeOK
  BY DEF IInv
<1> QED
  BY <1>1, InvariantHolds, PTL

\* However many R processes there are, an onnx_install() that nobody overlaps
\* or interrupts, and that has all it wrote written, installs the requested
\* build and loads it, whatever earlier attempts left in the directory.
THEOREM AloneSucceeds == Spec => []AloneInstalls
<1>1. IInv => AloneInstalls
  BY DEF IInv, AloneInstalls, DoneInv
<1> QED
  BY <1>1, InvariantHolds, PTL

\* It also leaves neither the archive nor the extracted tree in place.
THEOREM AloneLeavesNothing == Spec => []AloneCleansUp
<1>1. IInv => AloneCleansUp
  BY DEF IInv, AloneCleansUp, DoneInv
<1> QED
  BY <1>1, InvariantHolds, PTL

\* A torn library is always the work of an interrupted or overlapped
\* installation, or of one in which something was not all written; what
\* earlier attempts left is never the cause.
THEOREM TornOnlyWithCause == Spec => []TornLibraryHasCause
<1>1. IInv => TornLibraryHasCause
  BY DEF IInv
<1> QED
  BY <1>1, InvariantHolds, PTL

\* A process loses the library it has mapped only where two installations
\* overlapped, or one was interrupted.
THEOREM DamagedOnlyWithCause == Spec => []DamageHasCause
<1>1. IInv => DamageHasCause
  BY DEF IInv
<1> QED
  BY <1>1, InvariantHolds, PTL

==============================================================================
