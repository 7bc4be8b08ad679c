---------------------------- MODULE PreloadProofs ----------------------------
(***************************************************************************)
(* What onnx_create_session hands to ORT, for every set of files, every    *)
(* prefix, base and limit, and any number of writes by others.             *)
(***************************************************************************)
EXTENDS Preload, ExternalDataProofs

\* What holds of a name that is given with a buffer.
Carries(r) ==
    /\ r.key \in Names
    /\ r.ptr \in DOMAIN buffers
    /\ Len(buffers[r.ptr]) = r.length
    /\ r.key \notin raced => buffers[r.ptr] \in Blobs
    /\ r.key \notin changed => buffers[r.ptr] = disk[r.key]

ListedInv ==
    /\ step \notin {"open", "read"} => listed = <<>>
    /\ step \in {"open", "read"} => DOMAIN buffers = DOMAIN Returned
    /\ \A k \in DOMAIN listed : listed[k].ptr = k /\ Carries(listed[k])

RegisteredInv ==
    /\ step \notin {"provider", "construct"} => registered = <<>>
    /\ \A k \in DOMAIN registered :
           registered[k].ptr = k /\ Carries(registered[k])

\* The stream is that of the current file, and has what the file has unless
\* somebody has written it since.
StreamInv ==
    /\ step \in {"read_model", "read"} => stream \in Seq(Byte)
    /\ step = "read" =>
           /\ Turn \in DOMAIN Returned
           /\ Current \in Names
           /\ Current \notin raced => stream = disk[Current] /\ stream \in Blobs

\* The search has not begun before the model has been read.
FreshInv == step \in {"open_model", "read_model"} => SearchInit

CallInv ==
    /\ IInv
    /\ FreshInv
    /\ model \in Files \cup {NoFile}
    /\ CallTypeOK
    /\ ListedInv
    /\ RegisteredInv
    /\ StreamInv
    /\ SessionHasItsData

----------------------------------------------------------------------------

LEMMA ZeroIsByte == 0 \in Byte
BY ExternalDataAssumption DEF Byte

LEMMA FilledIsBytes ==
    ASSUME NEW size \in Nat, NEW content \in Seq(Byte)
    PROVE  Filled(size, content) \in Seq(Byte) /\ Len(Filled(size, content)) = size
<1>1. Filled(size, content) \in [1..size -> Byte]
  BY ZeroIsByte DEF Filled
<1> QED
  BY <1>1

LEMMA FilledIsContent ==
    ASSUME NEW content \in Seq(Byte)
    PROVE  Filled(Len(content), content) = content
BY DEF Filled

LEMMA SearchUntouched ==
    ASSUME UNCHANGED vars
    PROVE  UNCHANGED Returned /\ (IInv => IInv') /\ (TypeOK => TypeOK')
<1>1. UNCHANGED <<bytes, locations>>
  BY DEF vars
<1>2. UNCHANGED Returned
  BY <1>1 DEF Returned, Slice
<1>3. IInv => IInv'
  <2>1. [Next]_vars
    OBVIOUS
  <2> QED
    BY <2>1, Inductive
<1>4. TypeOK => TypeOK'
  BY DEF vars, TypeOK, n
<1> QED
  BY <1>2, <1>3, <1>4

LEMMA FilesAreBytes == ASSUME NEW f \in Files PROVE Contents(f) \in Seq(Byte)
BY ContentsAreBytes, ExternalDataAssumption

LEMMA NamesAreBytes == ASSUME NEW f \in Files PROVE DataFiles(f) \subseteq Seq(Byte)
<1>1. f \in Seq(Segment)
  BY ExternalDataAssumption
<1> QED
  BY <1>1, SegmentIs DEF DataFiles

LEMMA CallStarts == CallInit => CallInv
<1> SUFFICES ASSUME CallInit PROVE CallInv
  OBVIOUS
<1>1. bytes \in Seq(Byte)
  BY DEF CallInit
<1>2. IInv
  BY <1>1, Starts DEF CallInit
<1>3. CallTypeOK
  BY <1>2, PreloadAssumption DEF CallInit, CallTypeOK, IInv, Steps
<1> QED
  BY <1>2, <1>3 DEF CallInit, CallInv, FreshInv, ListedInv, RegisteredInv, StreamInv,
     SessionHasItsData

----------------------------------------------------------------------------

LEMMA OthersKeep == CallInv /\ Others => CallInv'
<1> SUFFICES ASSUME CallInv, Others PROVE CallInv'
  OBVIOUS
<1>1. /\ UNCHANGED <<vars, callVars>>
      /\ raced \subseteq raced' /\ changed \subseteq changed'
      /\ model' \in Files \cup {NoFile}
      /\ disk' \in [Names -> Blobs \cup {NoFile}]
      /\ changed' \subseteq Names /\ raced' \subseteq changed'
      /\ \A name \in Names \ changed' : disk'[name] = disk[name]
      /\ step = "read" /\ Current \notin raced' => disk'[Current] = disk[Current]
      /\ changes' \in 0..MaxChanges
      /\ ~Ended
  <2>1. /\ ~Ended /\ changes < MaxChanges /\ changes' = changes + 1
        /\ UNCHANGED <<vars, callVars>>
    BY DEF Others
  <2>2. changes' \in 0..MaxChanges
    BY <2>1, PreloadAssumption DEF CallInv, CallTypeOK
  <2>3. CASE RewriteModel
    BY <2>1, <2>2, <2>3, PreloadAssumption
       DEF RewriteModel, CallInv, CallTypeOK
  <2>4. ASSUME NEW name \in Names, RewriteData(name)
        PROVE  /\ raced \subseteq raced' /\ changed \subseteq changed'
               /\ model' \in Files \cup {NoFile}
               /\ disk' \in [Names -> Blobs \cup {NoFile}]
               /\ changed' \subseteq Names /\ raced' \subseteq changed'
               /\ \A nm \in Names \ changed' : disk'[nm] = disk[nm]
               /\ step = "read" /\ Current \notin raced' =>
                      disk'[Current] = disk[Current]
    BY <2>4 DEF RewriteData, CallInv, CallTypeOK, StreamInv
  <2> QED
    BY <2>1, <2>2, <2>3, <2>4 DEF Others
<1>2. UNCHANGED <<Returned, step, stream, buffers, listed, registered, loaded>>
  BY <1>1, SearchUntouched DEF callVars, bufferVars
<1>3. UNCHANGED <<Turn, Current>>
  BY <1>2 DEF Turn, Current
<1>4. IInv' /\ TypeOK'
  BY <1>1, SearchUntouched DEF CallInv, IInv
<1>5. CallTypeOK'
  BY <1>1, <1>2, <1>4 DEF CallInv, CallTypeOK
<1>6. ASSUME NEW r, Carries(r) PROVE Carries(r)'
  BY <1>1, <1>2, <1>6 DEF Carries
<1>7. ListedInv' /\ RegisteredInv'
  BY <1>2, <1>6 DEF CallInv, ListedInv, RegisteredInv
<1>8. StreamInv'
  BY <1>1, <1>2, <1>3 DEF CallInv, StreamInv
<1>9. SessionHasItsData' /\ FreshInv'
  BY <1>1, <1>2 DEF CallInv, SessionHasItsData, Ended, FreshInv, SearchInit, vars
<1> QED
  BY <1>1, <1>4, <1>5, <1>7, <1>8, <1>9 DEF CallInv

LEMMA FailKeeps == CallInv /\ Fail => CallInv'
<1> SUFFICES ASSUME CallInv, Fail PROVE CallInv'
  OBVIOUS
<1>1. UNCHANGED <<vars, worldVars, loaded>>
  BY DEF Fail
<1>2. IInv' /\ TypeOK'
  BY <1>1, SearchUntouched DEF CallInv, IInv
<1>3. CallTypeOK'
  BY <1>1, <1>2 DEF CallInv, CallTypeOK, Fail, worldVars, Steps
<1> QED
  BY <1>1, <1>2, <1>3 DEF CallInv, FreshInv, Fail, worldVars, ListedInv,
     RegisteredInv, StreamInv, SessionHasItsData

LEMMA OpenModelKeeps == CallInv /\ OpenModel => CallInv'
<1> SUFFICES ASSUME CallInv, OpenModel PROVE CallInv'
  OBVIOUS
<1>1. /\ UNCHANGED <<bytes, i, j, len, weight, locations, pc, worldVars,
                     bufferVars, loaded>>
      /\ step' = "read_model" /\ stream' = Contents(model)
      /\ step = "open_model"
  BY DEF OpenModel
<1>2. stream' \in Seq(Byte)
  BY <1>1, FilesAreBytes DEF OpenModel, CallInv
<1>3. IInv' /\ TypeOK'
  BY <1>1 DEF CallInv, IInv, TypeOK, BehindPrefix, SearchIsAhead,
     LocationsApart, n
<1>4. CallTypeOK'
  BY <1>1, <1>2, <1>3 DEF CallInv, CallTypeOK, worldVars, bufferVars, Steps
<1>5. ListedInv' /\ RegisteredInv'
  BY <1>1 DEF CallInv, ListedInv, RegisteredInv, bufferVars
<1> QED
  BY <1>1, <1>2, <1>3, <1>4, <1>5 DEF CallInv, FreshInv, SearchInit, worldVars,
     StreamInv, SessionHasItsData

LEMMA ReadModelKeeps == CallInv /\ ReadModel => CallInv'
<1> SUFFICES ASSUME CallInv, ReadModel PROVE CallInv'
  OBVIOUS
<1>1. /\ UNCHANGED <<worldVars, bufferVars, loaded>>
      /\ step = "read_model" /\ step' = "search" /\ stream' = NoFile
  BY DEF ReadModel
<1>2. stream \in Seq(Byte)
  BY <1>1 DEF CallInv, StreamInv
<1>3. bytes' \in Seq(Byte)
  <2>1. PICK content \in
            Readable(IF model = NoFile THEN NoFile ELSE Contents(model)) :
                bytes' = Filled(Len(stream), content)
    BY DEF ReadModel
  <2>2. content \in Seq(Byte)
    BY <1>2, FilesAreBytes DEF Readable, CallInv
  <2> QED
    BY <1>2, <2>1, <2>2, FilledIsBytes
<1>4. SearchInit'
  BY <1>1 DEF ReadModel, CallInv, FreshInv, SearchInit
<1>5. IInv' /\ TypeOK'
  BY <1>3, <1>4 DEF SearchInit, IInv, TypeOK, BehindPrefix, SearchIsAhead,
     LocationsApart, n
<1>6. CallTypeOK'
  BY <1>1, <1>5 DEF CallInv, CallTypeOK, worldVars, bufferVars, Steps
<1>7. ListedInv' /\ RegisteredInv'
  BY <1>1 DEF CallInv, ListedInv, RegisteredInv, bufferVars
<1> QED
  BY <1>1, <1>4, <1>5, <1>6, <1>7
     DEF CallInv, FreshInv, worldVars, StreamInv, SessionHasItsData

LEMMA SearchKeeps == CallInv /\ Search => CallInv'
<1> SUFFICES ASSUME CallInv, Search PROVE CallInv'
  OBVIOUS
<1>1. UNCHANGED <<worldVars, callVars>> /\ step = "search"
  BY DEF Search
<1>2. IInv' /\ TypeOK'
  BY Inductive DEF Search, CallInv, IInv
<1> QED
  BY <1>1, <1>2 DEF CallInv, CallTypeOK, FreshInv, ListedInv, RegisteredInv,
     StreamInv, SessionHasItsData, worldVars, callVars, bufferVars

LEMMA SearchedKeeps == CallInv /\ Searched => CallInv'
<1> SUFFICES ASSUME CallInv, Searched PROVE CallInv'
  OBVIOUS
<1>1. /\ UNCHANGED <<vars, worldVars, stream, listed, registered, loaded>>
      /\ step = "search" /\ step' \in {"provider", "open"}
      /\ buffers' = [k \in DOMAIN Returned |-> <<>>]
  BY DEF Searched
<1>2. listed = <<>> /\ registered = <<>>
  BY <1>1 DEF CallInv, ListedInv, RegisteredInv
<1>3. IInv' /\ TypeOK' /\ UNCHANGED Returned
  BY <1>1, SearchUntouched DEF CallInv, IInv
<1>4. CallTypeOK'
  BY <1>1, <1>3 DEF CallInv, CallTypeOK, worldVars, Steps
<1>5. ListedInv' /\ RegisteredInv'
  BY <1>1, <1>2, <1>3 DEF ListedInv, RegisteredInv
<1> QED
  BY <1>1, <1>3, <1>4, <1>5
     DEF CallInv, FreshInv, worldVars, StreamInv, SessionHasItsData

LEMMA OpenDataKeeps == CallInv /\ OpenData => CallInv'
<1> SUFFICES ASSUME CallInv, OpenData PROVE CallInv'
  OBVIOUS
<1>1. /\ UNCHANGED <<vars, worldVars, bufferVars, loaded>>
      /\ step = "open" /\ step' = "read"
      /\ stream' = disk[Current]
      /\ Turn \in DOMAIN Returned /\ Current \in Names
      /\ disk[Current] # NoFile
  BY DEF OpenData, Exists
<1>2. disk[Current] \in Blobs
  BY <1>1 DEF CallInv, CallTypeOK
<1>3. IInv' /\ TypeOK' /\ UNCHANGED Returned
  BY <1>1, SearchUntouched DEF CallInv, IInv
<1>4. UNCHANGED <<Turn, Current>>
  BY <1>1, <1>3 DEF Turn, Current, bufferVars
<1>5. CallTypeOK'
  BY <1>1, <1>2, <1>3, PreloadAssumption
     DEF CallInv, CallTypeOK, worldVars, bufferVars, Steps
<1>6. ASSUME NEW r, Carries(r) PROVE Carries(r)'
  BY <1>1, <1>6 DEF Carries, worldVars, bufferVars
<1>7. ListedInv' /\ RegisteredInv'
  BY <1>1, <1>3, <1>6 DEF CallInv, ListedInv, RegisteredInv, bufferVars
<1>8. StreamInv'
  BY <1>1, <1>2, <1>3, <1>4, PreloadAssumption DEF StreamInv, worldVars
<1> QED
  BY <1>1, <1>3, <1>5, <1>7, <1>8
     DEF CallInv, FreshInv, worldVars, SessionHasItsData

LEMMA ReadDataKeeps == CallInv /\ ReadData => CallInv'
<1> SUFFICES ASSUME CallInv, ReadData PROVE CallInv'
  OBVIOUS
<1>1. /\ UNCHANGED <<vars, worldVars, registered, loaded>>
      /\ step = "read" /\ step' = "open" /\ stream' = NoFile
      /\ listed' = Append(listed,
             [key |-> Current, ptr |-> Turn, length |-> Len(stream)])
  BY DEF ReadData, TakeData
<1>2. /\ stream \in Seq(Byte) /\ Current \in Names /\ Turn \in DOMAIN Returned
      /\ Current \notin raced => stream = disk[Current] /\ stream \in Blobs
      /\ DOMAIN buffers = DOMAIN Returned
      /\ listed \in Seq(Entries)
  BY <1>1 DEF CallInv, StreamInv, ListedInv, CallTypeOK
<1>3. PICK content \in Readable(disk[Current]) :
          buffers' = [buffers EXCEPT ![Turn] = Filled(Len(stream), content)]
  BY DEF ReadData, TakeData
<1>4. content \in Seq(Byte) /\ (Current \notin raced => content = stream)
  BY <1>2, <1>3, PreloadAssumption DEF Readable, CallInv, CallTypeOK
<1>5. /\ DOMAIN buffers' = DOMAIN buffers
      /\ \A k \in DOMAIN buffers : k # Turn => buffers'[k] = buffers[k]
      /\ buffers'[Turn] \in Seq(Byte)
      /\ Len(buffers'[Turn]) = Len(stream)
      /\ Current \notin raced => buffers'[Turn] = stream
  BY <1>2, <1>3, <1>4, FilledIsBytes, FilledIsContent
<1>6. IInv' /\ TypeOK' /\ UNCHANGED Returned
  BY <1>1, SearchUntouched DEF CallInv, IInv
<1>7. [key |-> Current, ptr |-> Turn, length |-> Len(stream)] \in Entries
  BY <1>2, PreloadAssumption DEF Entries, Turn
<1>8. listed' \in Seq(Entries) /\ Len(listed') = Turn
      /\ \A k \in DOMAIN listed : listed'[k] = listed[k]
      /\ listed'[Turn] = [key |-> Current, ptr |-> Turn, length |-> Len(stream)]
  BY <1>1, <1>2, <1>7 DEF Turn
<1>9. buffers' \in [DOMAIN buffers' -> Seq(Byte)]
  BY <1>3, <1>5 DEF CallInv, CallTypeOK
<1>10. CallTypeOK'
  BY <1>1, <1>6, <1>8, <1>9 DEF CallInv, CallTypeOK, worldVars, Steps
<1>11. ASSUME NEW k \in DOMAIN listed'
       PROVE  listed'[k].ptr = k /\ Carries(listed[k])'
  <2>1. CASE k = Turn
    BY <1>1, <1>2, <1>5, <1>8, <2>1 DEF Carries, CallInv, CallTypeOK, worldVars
  <2>2. CASE k # Turn
    <3>1. k \in DOMAIN listed
      BY <1>2, <1>8, <2>2 DEF Turn
    <3>2. listed[k].ptr = k /\ Carries(listed[k]) /\ listed'[k] = listed[k]
      BY <1>8, <3>1 DEF CallInv, ListedInv
    <3> QED
      BY <1>1, <1>5, <2>2, <3>2 DEF Carries, worldVars
  <2> QED
    BY <2>1, <2>2
<1>12. ListedInv'
  BY <1>1, <1>2, <1>5, <1>6, <1>11 DEF ListedInv
<1>13. RegisteredInv'
  BY <1>1 DEF CallInv, RegisteredInv
<1> QED
  BY <1>1, <1>6, <1>10, <1>12, <1>13
     DEF CallInv, FreshInv, worldVars, StreamInv, SessionHasItsData

LEMMA RegisterKeeps == CallInv /\ Register => CallInv'
<1> SUFFICES ASSUME CallInv, Register PROVE CallInv'
  OBVIOUS
<1>1. /\ UNCHANGED <<vars, worldVars, stream, buffers, loaded>>
      /\ step = "open" /\ step' = "provider"
      /\ registered' = listed /\ listed' = <<>>
  BY DEF Register, RegisterKeeping
<1>2. IInv' /\ TypeOK'
  BY <1>1, SearchUntouched DEF CallInv, IInv
<1>3. CallTypeOK'
  BY <1>1, <1>2 DEF CallInv, CallTypeOK, worldVars, Steps
<1>4. ASSUME NEW r, Carries(r) PROVE Carries(r)'
  BY <1>1, <1>4 DEF Carries, worldVars
<1>5. ListedInv' /\ RegisteredInv'
  BY <1>1, <1>4 DEF CallInv, ListedInv, RegisteredInv
<1> QED
  BY <1>1, <1>2, <1>3, <1>5
     DEF CallInv, FreshInv, worldVars, StreamInv, SessionHasItsData

LEMMA ProvideKeeps == CallInv /\ Provide => CallInv'
<1> SUFFICES ASSUME CallInv, Provide PROVE CallInv'
  OBVIOUS
<1>1. /\ UNCHANGED <<vars, worldVars, stream, bufferVars, loaded>>
      /\ step = "provider" /\ step' = "construct"
  BY DEF Provide
<1>2. IInv' /\ TypeOK'
  BY <1>1, SearchUntouched DEF CallInv, IInv
<1>3. CallTypeOK'
  BY <1>1, <1>2 DEF CallInv, CallTypeOK, worldVars, bufferVars, Steps
<1>4. ASSUME NEW r, Carries(r) PROVE Carries(r)'
  BY <1>1, <1>4 DEF Carries, worldVars, bufferVars
<1>5. ListedInv' /\ RegisteredInv'
  BY <1>1, <1>4 DEF CallInv, ListedInv, RegisteredInv, bufferVars
<1> QED
  BY <1>1, <1>2, <1>3, <1>5
     DEF CallInv, FreshInv, worldVars, StreamInv, SessionHasItsData

\* A sequence is the function that lists its elements.
LEMMA Restated ==
    ASSUME NEW S, NEW seq \in Seq(S)
    PROVE  [k \in 1..Len(seq) |-> seq[k]] = seq
<1>1. seq \in [1..Len(seq) -> S]
  OBVIOUS
<1> QED
  BY <1>1

\* What ORT takes for a file that nobody has written is what the file holds,
\* whether it takes it from memory or from the disk.
LEMMA ServedIsOnDisk ==
    ASSUME CallInv, NEW name \in Names, name \notin changed
    PROVE  Served(name).data = disk[name]
<1> DEFINE entries == {r \in ToSet(registered) : r.key = name}
           entry == CHOOSE r \in entries : TRUE
<1>1. CASE entries = {}
  BY <1>1 DEF Served
<1>2. CASE entries # {}
  <2>1. entry \in entries
    BY <1>2
  <2>2. PICK place \in DOMAIN registered : entry = registered[place]
    BY <2>1 DEF ToSet
  <2>3. Carries(entry) /\ entry.key = name
    BY <2>1, <2>2 DEF CallInv, RegisteredInv
  <2>4. /\ buffers[entry.ptr] \in Seq(Byte)
        /\ Len(buffers[entry.ptr]) = entry.length
        /\ buffers[entry.ptr] = disk[name]
    BY <2>3 DEF Carries, CallInv, CallTypeOK
  <2>5. [k \in 1..entry.length |-> buffers[entry.ptr][k]] = buffers[entry.ptr]
    BY <2>4, Restated
  <2>6. Served(name).data = [k \in 1..entry.length |-> buffers[entry.ptr][k]]
    BY <1>2 DEF Served
  <2> QED
    BY <2>4, <2>5, <2>6
<1> QED
  BY <1>1, <1>2

LEMMA ConstructKeeps == CallInv /\ Construct => CallInv'
<1> SUFFICES ASSUME CallInv, Construct PROVE CallInv'
  OBVIOUS
<1>1. /\ UNCHANGED <<vars, worldVars, stream, listed>>
      /\ step = "construct" /\ step' = "created"
      /\ buffers' = <<>> /\ registered' = <<>>
      /\ loaded' = [name \in DataFiles(model) |-> Served(name)]
      /\ model \in Files
      /\ \A name \in DataFiles(model) : IsServed(name)
  BY DEF Construct, CallInv
<1>2. IInv' /\ TypeOK'
  BY <1>1, SearchUntouched DEF CallInv, IInv
<1>3. CallTypeOK'
  BY <1>1, <1>2, NamesAreBytes DEF CallInv, CallTypeOK, worldVars, Steps
<1>4. ListedInv' /\ RegisteredInv'
  BY <1>1 DEF CallInv, ListedInv, RegisteredInv
<1>5. DataFiles(model) \subseteq Names
  BY <1>1 DEF IsServed, Exists, ToSet, CallInv, RegisteredInv, Carries
<1>6. SessionHasItsData'
  BY <1>1, <1>5, ServedIsOnDisk DEF SessionHasItsData, worldVars
<1> QED
  BY <1>1, <1>2, <1>3, <1>4, <1>6
     DEF CallInv, FreshInv, worldVars, StreamInv

LEMMA CallInductive == CallInv /\ [CallNext]_sessionVars => CallInv'
<1> SUFFICES ASSUME CallInv, [CallNext]_sessionVars PROVE CallInv'
  OBVIOUS
<1>1. CASE UNCHANGED sessionVars
  <2>1. UNCHANGED vars /\ UNCHANGED worldVars /\ UNCHANGED callVars
    BY <1>1 DEF sessionVars
  <2>2. IInv' /\ TypeOK' /\ UNCHANGED Returned
    BY <2>1, SearchUntouched DEF CallInv, IInv
  <2>3. UNCHANGED <<Turn, Current>>
    BY <2>1, <2>2 DEF Turn, Current, callVars, bufferVars
  <2>4. ASSUME NEW r, Carries(r) PROVE Carries(r)'
    BY <2>1, <2>4 DEF Carries, worldVars, callVars, bufferVars
  <2>5. ListedInv' /\ RegisteredInv' /\ StreamInv'
    BY <2>1, <2>2, <2>3, <2>4 DEF CallInv, ListedInv, RegisteredInv, StreamInv,
       worldVars, callVars, bufferVars
  <2> QED
    BY <2>1, <2>2, <2>5 DEF CallInv, CallTypeOK, FreshInv, SearchInit, vars,
       SessionHasItsData, worldVars, callVars, bufferVars
<1> QED
  BY <1>1, OthersKeep, FailKeeps, OpenModelKeeps, ReadModelKeeps, SearchKeeps,
     SearchedKeeps, OpenDataKeeps, ReadDataKeeps, RegisterKeeps, ProvideKeeps,
     ConstructKeeps
     DEF CallNext, Call, NoModel, NoData, NoProvider, Refused

LEMMA CallInvariant == CallSpec => []CallInv
BY CallStarts, CallInductive, PTL DEF CallSpec

\* The call's variables have their types, and its search stays inside what was
\* read of the model, whatever others write and whatever the files hold.
THEOREM CallTypeCorrect == CallSpec => []CallTypeOK
<1>1. CallInv => CallTypeOK
  BY DEF CallInv
<1> QED
  BY <1>1, CallInvariant, PTL

\* The names that the search takes are apart in what was read of the model, cut
\* off or not.
THEOREM CallNamesApart == CallSpec => []LocationsApart
<1>1. CallInv => LocationsApart
  BY DEF CallInv, IInv
<1> QED
  BY <1>1, CallInvariant, PTL

\* ORT's pointers are good until the session exists.
THEOREM PointersStayValid == CallSpec => []PointersValid
<1>1. CallInv => PointersValid
  BY DEF CallInv, RegisteredInv, Carries, PointersValid
<1> QED
  BY <1>1, CallInvariant, PTL

\* Only who writes a file between its opening and its reading makes ORT get
\* something that the file never held.
THEOREM TornByRacesOnly == CallSpec => []OnlyRacesTear
<1>1. CallInv => OnlyRacesTear
  BY DEF CallInv, RegisteredInv, Carries, OnlyRacesTear
<1> QED
  BY <1>1, CallInvariant, PTL

\* A session has all data of the model that ORT has read, and the present ones
\* of each file that nobody has written during the call.
THEOREM SessionsHaveTheirData == CallSpec => []SessionHasItsData
<1>1. CallInv => SessionHasItsData
  BY DEF CallInv
<1> QED
  BY <1>1, CallInvariant, PTL

----------------------------------------------------------------------------
(* What is registered with ORT are the names that the search returns.      *)

Loading == step \in {"provider", "construct"}

DoneInv ==
    step \in {"open", "read", "provider", "construct", "created"} => pc = "done"

\* The names are listed in their order, and registered when they are complete.
KeysInv ==
    /\ step \in {"open", "read"} =>
           /\ Len(listed) <= Len(Returned)
           /\ \A k \in 1..Len(listed) : listed[k].key = Returned[k]
    /\ Loading =>
           /\ Len(registered) = Len(Returned)
           /\ \A k \in 1..Len(registered) : registered[k].key = Returned[k]

NamesInv ==
    /\ file \in Files \cup {<<>>}
    /\ SearchMeans
    /\ DoneInv
    /\ KeysInv
    /\ OrtOpensNoFile

LEMMA ReturnedIs == ASSUME IInv PROVE Returned \in Seq(Seq(Byte))
<1>1. /\ bytes \in Seq(Byte) /\ locations \in Seq([from : 0..n, to : 0..n])
      /\ n = Len(bytes) /\ n \in Nat /\ Len(locations) \in Nat
  BY LenProperties DEF IInv, TypeOK, n
<1>2. ASSUME NEW l \in 1..Len(locations)
      PROVE  Slice(locations[l].from, locations[l].to) \in Seq(Byte)
  <2> DEFINE from == locations[l].from
             to == locations[l].to
  <2>1. from \in 0..n /\ to \in 0..n
    <3>1. locations[l] \in [from : 0..n, to : 0..n]
      BY <1>1, ElementOfSeq
    <3> QED
      BY <3>1
  <2> HIDE DEF from, to
  <2>2. from + 1 \in Int /\ to \in Int /\ \A x \in from + 1..to : x \in 1..Len(bytes)
    BY <1>1, <2>1
  <2>3. \A x \in from + 1..to : bytes[x] \in Byte
    BY <1>1, <2>2, ElementOfSeq
  <2>4. SubSeq(bytes, from + 1, to) \in Seq(Byte)
    BY <2>2, <2>3, SubSeqProperties
  <2> QED
    BY <2>4 DEF Slice, from, to
<1>3. Slices \in [1..Len(locations) -> Seq(Byte)]
  BY <1>2 DEF Slices
<1>4. Slices \in Seq(Seq(Byte))
  <2>1. Len(locations) \in Nat
    BY <1>1
  <2> QED
    BY <1>3, <2>1
<1>5. Returned = Distinct(Slices)
  BY DEF Returned, Slices
<1> QED
  BY <1>4, <1>5, DistinctKeepsOrder

LEMMA SearchStartsNext ==
    SearchInit' /\ (bytes \in Seq(Byte))' => SearchMeans'
BY SearchStarts, PTL

LEMMA NamesStart == CallInit => NamesInv
<1> SUFFICES ASSUME CallInit PROVE NamesInv
  OBVIOUS
<1>1. SearchInit /\ bytes \in Seq(Byte) /\ file = <<>> /\ step = "open_model"
  BY EmptySeq DEF CallInit
<1>2. SearchMeans
  BY <1>1, SearchStarts
<1> QED
  BY <1>1, <1>2 DEF NamesInv, DoneInv, KeysInv, Loading, OrtOpensNoFile

\* A step that leaves the search alone.
LEMMA NamesUntouched ==
    ASSUME NamesInv, UNCHANGED vars
    PROVE  /\ UNCHANGED <<Returned, file, pc>>
           /\ (file \in Files \cup {<<>>})' /\ SearchMeans'
<1>1. UNCHANGED <<file, pc>>
  BY DEF vars
<1>2. SearchMeans'
  BY SearchStays DEF NamesInv
<1>3. UNCHANGED Returned
  BY SearchUntouched
<1> QED
  BY <1>1, <1>2, <1>3 DEF NamesInv

LEMMA OthersKeepNames == CallInv /\ NamesInv /\ Others => NamesInv'
<1> SUFFICES ASSUME CallInv, NamesInv, Others PROVE NamesInv'
  OBVIOUS
<1>1. UNCHANGED vars /\ UNCHANGED callVars /\ step # "created"
  BY DEF Others, Ended
<1>2. UNCHANGED <<step, listed, registered>>
  BY <1>1 DEF callVars, bufferVars
<1> QED
  BY <1>1, <1>2, NamesUntouched
     DEF NamesInv, DoneInv, KeysInv, Loading, OrtOpensNoFile

LEMMA FailKeepsNames == CallInv /\ NamesInv /\ Fail => NamesInv'
<1> SUFFICES ASSUME CallInv, NamesInv, Fail PROVE NamesInv'
  OBVIOUS
<1>1. UNCHANGED vars /\ step' = "failed"
  BY DEF Fail
<1> QED
  BY <1>1, NamesUntouched
     DEF NamesInv, DoneInv, KeysInv, Loading, OrtOpensNoFile

LEMMA OpenModelKeepsNames == CallInv /\ NamesInv /\ OpenModel => NamesInv'
<1> SUFFICES ASSUME CallInv, NamesInv, OpenModel PROVE NamesInv'
  OBVIOUS
<1>1. /\ UNCHANGED <<bytes, i, j, len, weight, locations, pc>>
      /\ step = "open_model" /\ step' = "read_model" /\ file' \in Files
  BY DEF OpenModel, CallInv
<1>2. SearchInit'
  BY <1>1 DEF CallInv, FreshInv, SearchInit
<1>3. bytes' \in Seq(Byte)
  BY <1>1 DEF CallInv, IInv, TypeOK
<1>4. SearchMeans'
  BY <1>2, <1>3, SearchStartsNext
<1> QED
  BY <1>1, <1>4 DEF NamesInv, DoneInv, KeysInv, Loading, OrtOpensNoFile

LEMMA ReadModelKeepsNames == CallInv /\ NamesInv /\ ReadModel => NamesInv'
<1> SUFFICES ASSUME CallInv, NamesInv, ReadModel PROVE NamesInv'
  OBVIOUS
<1>1. /\ UNCHANGED <<file, i, j, len, weight, locations, pc>>
      /\ step = "read_model" /\ step' = "search"
  BY DEF ReadModel
<1>2. SearchInit'
  BY <1>1 DEF CallInv, FreshInv, SearchInit
<1>3. bytes' \in Seq(Byte)
  <2>1. IInv'
    BY ReadModelKeeps DEF CallInv
  <2> QED
    BY <2>1 DEF IInv, TypeOK
<1>4. SearchMeans'
  BY <1>2, <1>3, SearchStartsNext
<1> QED
  BY <1>1, <1>4 DEF NamesInv, DoneInv, KeysInv, Loading, OrtOpensNoFile

LEMMA SearchKeepsNames == CallInv /\ NamesInv /\ Search => NamesInv'
<1> SUFFICES ASSUME CallInv, NamesInv, Search PROVE NamesInv'
  OBVIOUS
<1>1. UNCHANGED callVars /\ step = "search" /\ [Next]_vars
  BY DEF Search
<1>2. step' = step
  BY <1>1 DEF callVars
<1>3. SearchMeans'
  BY <1>1, SearchInductive DEF CallInv, NamesInv
<1>4. file' = file
  BY <1>1 DEF Next, vars, Skip, Match, Group, TakeGroup, VarintEnds, Value,
     TakeValue, Finish
<1> QED
  BY <1>1, <1>2, <1>3, <1>4
     DEF NamesInv, DoneInv, KeysInv, Loading, OrtOpensNoFile

LEMMA SearchedKeepsNames == CallInv /\ NamesInv /\ Searched => NamesInv'
<1> SUFFICES ASSUME CallInv, NamesInv, Searched PROVE NamesInv'
  OBVIOUS
<1>1. /\ UNCHANGED vars /\ UNCHANGED <<listed, registered>>
      /\ step = "search" /\ pc = "done"
      /\ step' = IF DOMAIN Returned = {} THEN "provider" ELSE "open"
  BY DEF Searched
<1>2. listed = <<>> /\ registered = <<>>
  BY <1>1 DEF CallInv, ListedInv, RegisteredInv
<1>3. Len(Returned) \in Nat /\ DOMAIN Returned = 1..Len(Returned)
  BY ReturnedIs, LenProperties DEF CallInv
<1>4. /\ UNCHANGED <<Returned, file, pc>>
      /\ (file \in Files \cup {<<>>})' /\ SearchMeans'
  BY <1>1, NamesUntouched
<1>5. Loading' => Len(Returned) = 0
  BY <1>1, <1>3 DEF Loading
<1>6. KeysInv'
  BY <1>1, <1>2, <1>3, <1>4, <1>5 DEF KeysInv
<1> QED
  BY <1>1, <1>4, <1>6 DEF NamesInv, DoneInv, OrtOpensNoFile

LEMMA OpenDataKeepsNames == CallInv /\ NamesInv /\ OpenData => NamesInv'
<1> SUFFICES ASSUME CallInv, NamesInv, OpenData PROVE NamesInv'
  OBVIOUS
<1>1. /\ UNCHANGED vars /\ UNCHANGED <<listed, registered>>
      /\ step = "open" /\ step' = "read"
  BY DEF OpenData, bufferVars
<1> QED
  BY <1>1, NamesUntouched
     DEF NamesInv, DoneInv, KeysInv, Loading, OrtOpensNoFile

LEMMA ReadDataKeepsNames == CallInv /\ NamesInv /\ ReadData => NamesInv'
<1> SUFFICES ASSUME CallInv, NamesInv, ReadData PROVE NamesInv'
  OBVIOUS
<1>1. /\ UNCHANGED vars /\ step = "read" /\ step' = "open"
      /\ listed' = Append(listed,
             [key |-> Current, ptr |-> Turn, length |-> Len(stream)])
  BY DEF ReadData, TakeData
<1>2. /\ listed \in Seq(Entries) /\ Turn \in DOMAIN Returned
      /\ Current \in Names /\ stream \in Seq(Byte)
  BY <1>1 DEF CallInv, CallTypeOK, StreamInv
<1>3. Len(Returned) \in Nat /\ DOMAIN Returned = 1..Len(Returned)
  BY ReturnedIs, LenProperties DEF CallInv
<1>4. [key |-> Current, ptr |-> Turn, length |-> Len(stream)] \in Entries
  BY <1>2, PreloadAssumption DEF Entries, Turn
<1>5. /\ Len(listed') = Turn
      /\ \A k \in 1..Len(listed) : listed'[k] = listed[k]
      /\ listed'[Turn].key = Returned[Turn]
      /\ Len(listed) \in Nat
  BY <1>1, <1>2, <1>4 DEF Turn, Current
<1>6. /\ UNCHANGED <<Returned, file, pc>>
      /\ (file \in Files \cup {<<>>})' /\ SearchMeans'
  BY <1>1, NamesUntouched
<1>7. Len(listed') <= Len(Returned)
  BY <1>2, <1>3, <1>5
<1>8. ASSUME NEW k \in 1..Len(listed') PROVE listed'[k].key = Returned[k]
  <2>1. k \in 1..Len(listed) \/ k = Turn
    BY <1>5 DEF Turn
  <2>2. \A x \in 1..Len(listed) : listed[x].key = Returned[x]
    BY <1>1 DEF NamesInv, KeysInv
  <2> QED
    BY <1>5, <2>1, <2>2
<1>9. KeysInv'
  BY <1>1, <1>6, <1>7, <1>8 DEF KeysInv, Loading
<1> QED
  BY <1>1, <1>6, <1>9 DEF NamesInv, DoneInv, OrtOpensNoFile

LEMMA RegisterKeepsNames == CallInv /\ NamesInv /\ Register => NamesInv'
<1> SUFFICES ASSUME CallInv, NamesInv, Register PROVE NamesInv'
  OBVIOUS
<1>1. /\ UNCHANGED vars /\ step = "open" /\ step' = "provider"
      /\ registered' = listed /\ Turn \notin DOMAIN Returned
  BY DEF Register, RegisterKeeping
<1>2. Len(Returned) \in Nat /\ DOMAIN Returned = 1..Len(Returned)
  BY ReturnedIs, LenProperties DEF CallInv
<1>3. Len(listed) \in Nat
  BY LenProperties DEF CallInv, CallTypeOK
<1>4. /\ Len(listed) <= Len(Returned)
      /\ \A k \in 1..Len(listed) : listed[k].key = Returned[k]
  BY <1>1 DEF NamesInv, KeysInv
<1>5. Len(listed) = Len(Returned)
  BY <1>1, <1>2, <1>3, <1>4 DEF Turn
<1>6. /\ UNCHANGED <<Returned, file, pc>>
      /\ (file \in Files \cup {<<>>})' /\ SearchMeans'
  BY <1>1, NamesUntouched
<1>7. KeysInv'
  BY <1>1, <1>4, <1>5, <1>6 DEF KeysInv
<1> QED
  BY <1>1, <1>6, <1>7 DEF NamesInv, DoneInv, OrtOpensNoFile

LEMMA ProvideKeepsNames == CallInv /\ NamesInv /\ Provide => NamesInv'
<1> SUFFICES ASSUME CallInv, NamesInv, Provide PROVE NamesInv'
  OBVIOUS
<1>1. /\ UNCHANGED vars /\ UNCHANGED <<listed, registered>>
      /\ step = "provider" /\ step' = "construct"
  BY DEF Provide, bufferVars
<1> QED
  BY <1>1, NamesUntouched
     DEF NamesInv, DoneInv, KeysInv, Loading, OrtOpensNoFile

\* All short names of the model that was searched are registered.
LEMMA MemoryServes ==
    ASSUME CallInv, NamesInv, step = "construct", file = model,
           bytes = Contents(file), Unambiguous,
           NEW name \in DataFiles(model), Short(name)
    PROVE  Served(name).from = "memory"
<1>1. FindsAll
  BY ReturnsAll DEF CallInv, NamesInv
<1>2. pc = "done"
  BY DEF NamesInv, DoneInv
<1>3. name \in ToSet(Returned)
  BY <1>1, <1>2 DEF FindsAll, IsListOfMeant, Meant
<1>4. DOMAIN Returned = 1..Len(Returned)
  BY ReturnedIs, LenProperties DEF CallInv
<1>5. PICK k \in 1..Len(Returned) : Returned[k] = name
  BY <1>3, <1>4 DEF ToSet
<1>6. k \in 1..Len(registered) /\ registered[k].key = name
  BY <1>5 DEF NamesInv, KeysInv, Loading
<1>7. DOMAIN registered = 1..Len(registered)
  BY LenProperties DEF CallInv, CallTypeOK
<1>8. registered[k] \in {r \in ToSet(registered) : r.key = name}
  BY <1>6, <1>7 DEF ToSet
<1> QED
  BY <1>8 DEF Served

LEMMA ConstructKeepsNames == CallInv /\ NamesInv /\ Construct => NamesInv'
<1> SUFFICES ASSUME CallInv, NamesInv, Construct PROVE NamesInv'
  OBVIOUS
<1>1. /\ UNCHANGED vars /\ UNCHANGED worldVars
      /\ step = "construct" /\ step' = "created"
      /\ loaded' = [name \in DataFiles(model) |-> Served(name)]
  BY DEF Construct
<1>2. /\ UNCHANGED <<Returned, file, pc>>
      /\ (file \in Files \cup {<<>>})' /\ SearchMeans'
  BY <1>1, NamesUntouched
<1>3. UNCHANGED <<file, bytes, model>>
  BY <1>1 DEF vars, worldVars
<1>4. Unambiguous' <=> Unambiguous
  BY <1>3, MeaningStays
<1>5. OrtOpensNoFile'
  <2> SUFFICES ASSUME file = model, bytes = Contents(file), Unambiguous,
                      NEW name \in DataFiles(model), Short(name)
               PROVE  Served(name).from = "memory"
    BY <1>1, <1>3, <1>4 DEF OrtOpensNoFile, Short
  <2> QED
    BY <1>1, MemoryServes
<1> QED
  BY <1>1, <1>2, <1>5 DEF NamesInv, DoneInv, KeysInv, Loading

LEMMA NamesInductive ==
    CallInv /\ NamesInv /\ [CallNext]_sessionVars => NamesInv'
<1> SUFFICES ASSUME CallInv, NamesInv, [CallNext]_sessionVars PROVE NamesInv'
  OBVIOUS
<1>1. CASE UNCHANGED sessionVars
  <2>1. UNCHANGED vars /\ UNCHANGED worldVars /\ UNCHANGED callVars
    BY <1>1 DEF sessionVars
  <2>2. UNCHANGED <<file, bytes, model, step, listed, registered, loaded>>
    BY <2>1 DEF vars, worldVars, callVars, bufferVars
  <2>3. Unambiguous' <=> Unambiguous
    BY <2>2, MeaningStays
  <2>4. OrtOpensNoFile'
    BY <2>2, <2>3 DEF NamesInv, OrtOpensNoFile, Short
  <2> QED
    BY <2>1, <2>2, <2>4, NamesUntouched DEF NamesInv, DoneInv, KeysInv, Loading
<1> QED
  BY <1>1, OthersKeepNames, FailKeepsNames, OpenModelKeepsNames,
     ReadModelKeepsNames, SearchKeepsNames, SearchedKeepsNames,
     OpenDataKeepsNames, ReadDataKeepsNames, RegisterKeepsNames,
     ProvideKeepsNames, ConstructKeepsNames
     DEF CallNext, Call, NoModel, NoData, NoProvider, Refused

LEMMA NamesInvariant == CallSpec => [](CallInv /\ NamesInv)
BY CallStarts, NamesStart, CallInductive, NamesInductive, PTL DEF CallSpec

\* In a model that was read as it was opened the call finds every name that the
\* search is meant to find, whatever others write.
THEOREM CallFindsAllNames == CallSpec => []FindsAll
<1>1. CallInv /\ NamesInv => FindsAll
  BY ReturnsAll DEF CallInv, NamesInv
<1> QED
  BY <1>1, NamesInvariant, PTL

\* If nobody replaces the model during the call, ORT gets all data files with
\* short names from memory and opens none of them.
THEOREM OrtGetsMemory == CallSpec => []OrtOpensNoFile
<1>1. NamesInv => OrtOpensNoFile
  BY DEF NamesInv
<1> QED
  BY <1>1, NamesInvariant, PTL

----------------------------------------------------------------------------
(* The call ends.                                                          *)

\* How much of a part is left is a number.
LEMMA StepsAreNumbers ==
    ASSUME CallInv, NamesInv
    PROVE  StepsLeft \in Nat
<1>1. SearchRemaining \in Nat
  BY RemainingIs DEF CallInv
<1>2. /\ Len(Returned) \in Nat /\ DOMAIN Returned = 1..Len(Returned)
      /\ Len(listed) \in Nat
  BY ReturnedIs, LenProperties DEF CallInv, CallTypeOK
<1>3. CASE step = "open"
  BY <1>2, <1>3 DEF NamesInv, KeysInv, StepsLeft
<1>4. CASE step = "read"
  <2>1. Len(listed) + 1 <= Len(Returned)
    BY <1>2, <1>4 DEF CallInv, StreamInv, Turn
  <2> QED
    BY <1>2, <1>4, <2>1 DEF StepsLeft
<1> QED
  BY <1>1, <1>3, <1>4 DEF StepsLeft

LEMMA StepsAreNumbersNext ==
    (CallInv /\ NamesInv)' => (StepsLeft \in Nat)'
BY StepsAreNumbers, PTL

\* A step to a later part.
LEMMA PartsLower ==
    ASSUME CallInv,
           \/ Fail /\ ~Ended
           \/ OpenModel \/ ReadModel \/ Searched \/ Register
           \/ Provide \/ Construct
    PROVE  PartsLeft' < PartsLeft
<1>1. step \in Steps
  BY DEF CallInv, CallTypeOK
<1>2. CASE Fail /\ ~Ended
  BY <1>1, <1>2 DEF Fail, PartsLeft, Ended, Steps
<1>3. CASE OpenModel \/ ReadModel
  BY <1>3 DEF OpenModel, ReadModel, PartsLeft, Ended
<1>4. CASE Searched
  BY <1>4 DEF Searched, PartsLeft, Ended
<1>5. CASE Register \/ Provide \/ Construct
  BY <1>5 DEF Register, RegisterKeeping, Provide, Construct, PartsLeft, Ended
<1> QED
  BY <1>2, <1>3, <1>4, <1>5

\* A step in a loop: that of the search, or that over the names.
LEMMA StepsLower ==
    ASSUME CallInv, NamesInv, Search \/ OpenData \/ ReadData
    PROVE  PartsLeft' = PartsLeft /\ StepsLeft' < StepsLeft
<1>1. CASE Search
  <2>1. step = "search" /\ step' = "search" /\ Next
    BY <1>1 DEF Search, callVars
  <2>2. SearchRemaining' < SearchRemaining
    BY <2>1, NextLowers DEF CallInv
  <2> QED
    BY <2>1, <2>2 DEF PartsLeft, StepsLeft, Ended
<1>2. CASE OpenData
  <2>1. /\ UNCHANGED vars /\ UNCHANGED listed
        /\ step = "open" /\ step' = "read"
    BY <1>2 DEF OpenData, bufferVars
  <2>2. UNCHANGED Returned
    BY <2>1, SearchUntouched DEF CallInv
  <2>3. Len(Returned) \in Nat /\ Len(listed) \in Nat
    BY ReturnedIs, LenProperties DEF CallInv, CallTypeOK
  <2> QED
    BY <2>1, <2>2, <2>3 DEF PartsLeft, StepsLeft, Ended
<1>3. CASE ReadData
  <2>1. /\ UNCHANGED vars /\ step = "read" /\ step' = "open"
        /\ listed' = Append(listed,
               [key |-> Current, ptr |-> Turn, length |-> Len(stream)])
    BY <1>3 DEF ReadData, TakeData
  <2>2. UNCHANGED Returned
    BY <2>1, SearchUntouched DEF CallInv
  <2>3. /\ Len(Returned) \in Nat /\ Len(listed) \in Nat
        /\ listed \in Seq(Entries)
    BY ReturnedIs, LenProperties DEF CallInv, CallTypeOK
  <2>4. Len(listed') = Len(listed) + 1
    BY <2>1, <2>3
  <2> QED
    BY <2>1, <2>2, <2>3, <2>4 DEF PartsLeft, StepsLeft, Ended
<1> QED
  BY <1>1, <1>2, <1>3

LEMMA OthersPutNothingBack ==
    ASSUME CallInv, Others
    PROVE  changes' > changes /\ UNCHANGED <<PartsLeft, StepsLeft>>
<1>1. changes' = changes + 1 /\ UNCHANGED vars /\ UNCHANGED callVars
  BY DEF Others
<1>2. UNCHANGED <<step, listed>>
  BY <1>1 DEF callVars, bufferVars
<1>3. UNCHANGED Returned /\ UNCHANGED SearchRemaining
  BY <1>1, SearchUntouched DEF CallInv, SearchRemaining, vars, n
<1>4. changes \in Nat
  BY PreloadAssumption DEF CallInv, CallTypeOK
<1> QED
  BY <1>1, <1>2, <1>3, <1>4 DEF PartsLeft, StepsLeft, Ended

\* Whatever the files hold and the others do, a call that goes on comes to its
\* end: it has finitely many steps, of which none is undone.
THEOREM CallsProgress == CallSpec => CallProgresses
<1> DEFINE Progress ==
        \/ /\ StepsLeft' \in Nat
           /\ \/ PartsLeft' < PartsLeft
              \/ PartsLeft' = PartsLeft /\ StepsLeft' < StepsLeft
        \/ changes' > changes /\ UNCHANGED <<PartsLeft, StepsLeft>>
<1>1. ASSUME CallInv, NamesInv, CallNext, (CallInv /\ NamesInv)'
      PROVE  Progress
  <2>1. StepsLeft' \in Nat
    BY <1>1, StepsAreNumbersNext
  <2>2. CASE Others
    BY <1>1, <2>2, OthersPutNothingBack
  <2>3. CASE Search \/ OpenData \/ ReadData
    BY <1>1, <2>1, <2>3, StepsLower
  <2>4. CASE NoModel \/ NoData \/ NoProvider \/ Refused
    <3>1. Fail /\ ~Ended
      BY <2>4 DEF NoModel, NoData, NoProvider, Refused, Ended
    <3> QED
      BY <1>1, <2>1, <3>1, PartsLower
  <2>5. CASE \/ OpenModel \/ ReadModel \/ Searched \/ Register
             \/ Provide \/ Construct
    BY <1>1, <2>1, <2>5, PartsLower
  <2> QED
    BY <1>1, <2>2, <2>3, <2>4, <2>5 DEF CallNext, Call
<1>2. /\ CallInv /\ NamesInv /\ [CallNext]_sessionVars /\ (CallInv /\ NamesInv)'
      => [Progress]_sessionVars
  BY <1>1
<1> QED
  BY <1>2, NamesInvariant, PTL DEF CallSpec, CallProgresses

=============================================================================
