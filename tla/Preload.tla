------------------------------- MODULE Preload -------------------------------
(***************************************************************************)
(* onnx_create_session (src/src/session.cpp) and the files it reads: the   *)
(* model, in which ExternalData searches for the names of data files, the  *)
(* data files beside it, which are read into buffers for ORT, and the      *)
(* model once more, by ORT.  Others may write, replace or delete the files *)
(* at any time; nothing is locked.                                         *)
(*                                                                         *)
(* Opening a file stream takes the file's size; reading fills a buffer of  *)
(* that size.  In between the stream has what the file was when opened (a  *)
(* file that is replaced by another, or deleted) or what it is now (a file *)
(* written in place).  How much was read is not looked at.                 *)
(*                                                                         *)
(* The search reads memory alone, so that what others do during it they    *)
(* may as well do right after it.                                          *)
(***************************************************************************)
EXTENDS ExternalData

CONSTANTS
    Names,        \* the names under which there may be files by the model
    Blobs,        \* what the data files may hold
    Rewrites,     \* what others may write over the model, a subset of Files
    NoFile,       \* what is read of a file that does not exist
    MaxChanges    \* bound on what others write during the call

ASSUME PreloadAssumption ==
    /\ Names \subseteq Seq(Byte)
    /\ Blobs \subseteq Seq(Byte)
    /\ Rewrites \subseteq Files
    /\ NoFile \notin Files \cup Seq(Byte)
    /\ MaxChanges \in Nat

VARIABLES
    model,        \* the model file
    disk,         \* the data files
    changes,      \* how often others have written
    changed,      \* history: the data files they have written
    raced,        \* history: those written between their opening and reading
    step,         \* where the call is
    stream,       \* what the open file held when its size was taken
    buffers,      \* data_buffers
    listed,       \* file_names, buffer_ptrs and buffer_lengths, zipped
    registered,   \* what the session options say of files in memory
    loaded        \* the data of the session, by file

worldVars == <<model, disk, changes, changed, raced>>
bufferVars == <<buffers, listed, registered>>
callVars == <<step, stream, bufferVars, loaded>>
sessionVars == <<vars, worldVars, callVars>>

Steps == {"open_model", "read_model", "search", "open", "read", "provider",
          "construct", "created", "failed"}
Ended == step \in {"created", "failed"}

\* model.R has seen the model; the session's options are set.
CallInit ==
    /\ SearchInit
    /\ file = <<>> /\ bytes = <<>>
    /\ model \in Files
    /\ disk \in [Names -> Blobs \cup {NoFile}]
    /\ changes = 0 /\ changed = {} /\ raced = {}
    /\ step = "open_model"
    /\ stream = NoFile
    /\ buffers = <<>> /\ listed = <<>> /\ registered = <<>> /\ loaded = <<>>

Exists(name) == name \in Names /\ disk[name] # NoFile

\* The data file that is next, and its number.
Turn == Len(listed) + 1
Current == Returned[Turn]

----------------------------------------------------------------------------
(* The other processes.                                                    *)

RewriteModel ==
    /\ model' \in (Rewrites \cup {NoFile}) \ {model}
    /\ UNCHANGED <<disk, changed, raced>>

RewriteData(name) ==
    /\ \E content \in (Blobs \cup {NoFile}) \ {disk[name]} :
           disk' = [disk EXCEPT ![name] = content]
    /\ changed' = changed \cup {name}
    /\ raced' = raced \cup {nm \in {name} : step = "read" /\ Current = nm}
    /\ UNCHANGED model

Others ==
    /\ ~Ended /\ step # "search"
    /\ changes < MaxChanges
    /\ changes' = changes + 1
    /\ RewriteModel \/ \E name \in Names : RewriteData(name)
    /\ UNCHANGED <<vars, callVars>>

----------------------------------------------------------------------------
(* The call.                                                               *)

\* stop() or an exception: the destructors release all that the call holds.
Fail ==
    /\ step' = "failed"
    /\ stream' = NoFile
    /\ buffers' = <<>> /\ listed' = <<>> /\ registered' = <<>>
    /\ UNCHANGED <<vars, worldVars, loaded>>

\* A buffer of a size, zeros at first, after content was read into it.
Filled(size, content) ==
    [k \in 1..size |-> IF k <= Len(content) THEN content[k] ELSE 0]

\* Mutant: the stream is read from its end.
FilledFromEnd(size, content) == [k \in 1..size |-> 0]

\* What the stream may read, if the file is as `now`.
Readable(now) == {stream, now} \ {NoFile}

OpenModel ==
    /\ step = "open_model"
    /\ model # NoFile
    /\ file' = model
    /\ stream' = Contents(model)
    /\ step' = "read_model"
    /\ UNCHANGED <<bytes, i, j, len, weight, locations, pc, worldVars,
                   bufferVars, loaded>>

NoModel == step = "open_model" /\ model = NoFile /\ Fail

ReadModel ==
    /\ step = "read_model"
    /\ \E content \in
           Readable(IF model = NoFile THEN NoFile ELSE Contents(model)) :
               bytes' = Filled(Len(stream), content)
    /\ stream' = NoFile
    /\ step' = "search"
    /\ UNCHANGED <<file, i, j, len, weight, locations, pc, worldVars,
                   bufferVars, loaded>>

\* find_external_data_locations().
Search ==
    /\ step = "search"
    /\ Next
    /\ UNCHANGED <<worldVars, callVars>>

\* Without a name the whole part is skipped.
Searched ==
    /\ step = "search"
    /\ pc = "done"
    /\ step' = IF DOMAIN Returned = {} THEN "provider" ELSE "open"
    /\ buffers' = [k \in DOMAIN Returned |-> <<>>]
    /\ UNCHANGED <<vars, worldVars, stream, listed, registered, loaded>>

OpenData ==
    /\ step = "open"
    /\ Turn \in DOMAIN Returned
    /\ Exists(Current)
    /\ stream' = disk[Current]
    /\ step' = "read"
    /\ UNCHANGED <<vars, worldVars, bufferVars, loaded>>

NoData ==
    /\ step = "open"
    /\ Turn \in DOMAIN Returned
    /\ ~Exists(Current)
    /\ Fail

TakeData(key, ptr, Fill(_, _)) ==
    /\ step = "read"
    /\ \E content \in Readable(disk[Current]) :
           buffers' = [buffers EXCEPT ![Turn] = Fill(Len(stream), content)]
    /\ listed' = Append(listed,
           [key |-> key, ptr |-> ptr, length |-> Len(stream)])
    /\ stream' = NoFile
    /\ step' = "open"
    /\ UNCHANGED <<vars, worldVars, registered, loaded>>

\* Mutants: the name is that of the path; all names get the first buffer; the
\* stream is read from its end.
ReadDataByPath == TakeData(<<0>> \o Current, Turn, Filled)
ReadDataOneBuffer == TakeData(Current, 1, Filled)
ReadDataFromEnd == TakeData(Current, Turn, FilledFromEnd)

\* The name is passed on verbatim, with a pointer into data_buffers.
ReadData == TakeData(Current, Turn, Filled)

RegisterKeeping(kept) ==
    /\ step = "open"
    /\ Turn \notin DOMAIN Returned
    /\ registered' = listed
    /\ listed' = <<>>
    /\ buffers' = kept
    /\ step' = "provider"
    /\ UNCHANGED <<vars, worldVars, stream, loaded>>

\* Mutant: data_buffers is declared inside the block.
RegisterFreesBuffers == RegisterKeeping(<<>>)

\* AddExternalInitializersFromFilesInMemory(): the pointers are kept, and at the
\* end of the block the three vectors go, but not data_buffers.
Register == RegisterKeeping(buffers)

\* AppendExecutionProvider(), unless the provider is the CPU.
Provide ==
    /\ step = "provider"
    /\ step' = "construct"
    /\ UNCHANGED <<vars, worldVars, stream, bufferVars, loaded>>

NoProvider == step = "provider" /\ Fail

\* What ORT takes for a data file: the memory registered under its name, and the
\* file itself if there is none.
Served(name) ==
    LET entries == {r \in ToSet(registered) : r.key = name}
    IN  IF entries = {} THEN [from |-> "disk", data |-> disk[name]]
        ELSE LET r == CHOOSE r \in entries : TRUE
             IN  [from |-> "memory",
                  data |-> [k \in 1..r.length |-> buffers[r.ptr][k]]]

IsServed(name) == name \in {r.key : r \in ToSet(registered)} \/ Exists(name)

\* Ort::Session: ORT reads the model and copies the data of its files; the call
\* returns, and releases its buffers.
Construct ==
    /\ step = "construct"
    /\ model # NoFile
    /\ \A name \in DataFiles(model) : IsServed(name)
    /\ loaded' = [name \in DataFiles(model) |-> Served(name)]
    /\ buffers' = <<>> /\ registered' = <<>>
    /\ step' = "created"
    /\ UNCHANGED <<vars, worldVars, stream, listed>>

\* ORT may refuse any model, and does so if it lacks a file.
Refused == step = "construct" /\ Fail

Call ==
    \/ OpenModel \/ NoModel \/ ReadModel
    \/ Search \/ Searched
    \/ OpenData \/ NoData \/ ReadData \/ Register
    \/ Provide \/ NoProvider \/ Construct \/ Refused

CallNext == Call \/ Others

CallSpec == CallInit /\ [][CallNext]_sessionVars

\* The call runs until it returns, whatever the others do.
FairCallSpec == CallSpec /\ WF_sessionVars(Call)

----------------------------------------------------------------------------
(* Properties.                                                             *)

Entries == [key : Seq(Byte), ptr : Nat, length : Nat]

CallTypeOK ==
    /\ TypeOK
    /\ disk \in [Names -> Blobs \cup {NoFile}]
    /\ changes \in 0..MaxChanges
    /\ changed \subseteq Names /\ raced \subseteq changed
    /\ step \in Steps
    /\ stream \in Seq(Byte) \cup {NoFile}
    /\ buffers \in [DOMAIN buffers -> Seq(Byte)]
    /\ listed \in Seq(Entries) /\ registered \in Seq(Entries)
    /\ DOMAIN loaded \subseteq Seq(Byte)

\* Until the session exists each pointer that ORT was given points to a buffer
\* of the length ORT was told, which nobody has freed, and to another one than
\* the pointers of the other files.
PointersValid ==
    /\ \A k \in DOMAIN registered :
           /\ registered[k].ptr \in DOMAIN buffers
           /\ Len(buffers[registered[k].ptr]) = registered[k].length
    /\ \A k, m \in DOMAIN registered :
           registered[k].ptr = registered[m].ptr => k = m

\* What ORT gets for a file is something the file has held as a whole, unless
\* somebody wrote it between its opening and its reading: neither cut off nor
\* filled up with zeros.
OnlyRacesTear ==
    \A k \in DOMAIN registered :
        registered[k].key \notin raced => buffers[registered[k].ptr] \in Blobs

\* A session has the data of all files that its model needs, and of each the
\* present ones, unless somebody has written that file during the call; also
\* when the model was replaced between the search and ORT's reading.
SessionHasItsData ==
    step = "created" =>
        /\ DOMAIN loaded = DataFiles(model)
        /\ \A name \in DOMAIN loaded \ changed : loaded[name].data = disk[name]

\* "so that non-CPU backends (especially CoreML) can access them without
\* resolving relative paths at session-construction time" (session.cpp:93): if
\* the model stays as it is, ORT opens no file whose name is short enough.
OrtOpensNoFile ==
    step = "created" /\ file = model /\ bytes = Contents(file) /\ Unambiguous =>
        \A name \in DOMAIN loaded : Short(name) => loaded[name].from = "memory"

\* The parts of the call that are ahead, and how many steps of the present one.
PartsLeft ==
    CASE step = "open_model" -> 6
      [] step = "read_model" -> 5
      [] step = "search" -> 4
      [] step \in {"open", "read"} -> 3
      [] step = "provider" -> 2
      [] step = "construct" -> 1
      [] Ended -> 0

StepsLeft ==
    CASE step = "search" -> SearchRemaining
      [] step = "open" -> 2 * (Len(Returned) - Len(listed))
      [] step = "read" -> 2 * (Len(Returned) - Len(listed)) - 1
      [] OTHER -> 0

\* Every step of the call brings it nearer to its end, and none that others take
\* puts it back: whatever was read of the model, the search leaves each byte
\* behind once, and each data file is read once.
CallProgresses ==
    [][\/ /\ StepsLeft' \in Nat
          /\ \/ PartsLeft' < PartsLeft
             \/ PartsLeft' = PartsLeft /\ StepsLeft' < StepsLeft
       \/ changes' > changes /\ UNCHANGED <<PartsLeft, StepsLeft>>]_sessionVars

\* The call ends, whatever the files hold and the others do.
CallEnds == <>Ended

==============================================================================
