---------------------------- MODULE ExternalData ----------------------------
(***************************************************************************)
(* find_external_data_locations (src/src/session.cpp): the search of a     *)
(* model file, without a parser, for the names of the files that hold its  *)
(* external data.                                                          *)
(*                                                                         *)
(* A file is a sequence of segments.  An "external" segment is the entry   *)
(* of a tensor's external_data with the key "location"; a "metadata"       *)
(* segment is an entry of the model's metadata_props with the same key,    *)
(* which protobuf encodes alike; an "other" segment is any other byte.     *)
(* The code's constants are constants of the module: the 11 bytes of the   *)
(* prefix, a varint's base of 128, the weight 2^35 that no group has that  *)
(* is read, and the limit of 1024.                                         *)
(***************************************************************************)
EXTENDS Integers, SequencesExt

CONSTANTS
    Files,        \* the model files, as sequences of segments
    Prefix,       \* prefix
    Base,         \* the values of a varint's group
    MaxWeight,    \* a varint's groups are read as long as they weigh less
    MaxValue      \* the length that a location does not reach

Byte == 0..2 * Base - 1
Kinds == {"external", "metadata", "other"}

\* A length as a varint: the lowest group first, all but the last one marked.
Varint(length) ==
    LET varint[v \in 0..length] ==
            IF v < Base THEN <<v>>
            ELSE <<Base + (v % Base)>> \o varint[v \div Base]
    IN  varint[length]

Encode(s) ==
    IF s.kind = "other" THEN s.value
    ELSE Prefix \o Varint(Len(s.value)) \o s.value

Contents(file) == FlattenSeq([k \in 1..Len(file) |-> Encode(file[k])])

Segment == [kind : Kinds, value : Seq(Byte)]

\* No value is as long as 2^35: protobuf's messages are smaller than 2^31.
ASSUME ExternalDataAssumption ==
    /\ Base \in Nat \ {0, 1}
    /\ MaxWeight \in Nat \ {0, 1} /\ MaxValue \in Nat
    /\ Prefix \in Seq(Byte) /\ Len(Prefix) > 0
    /\ \A file \in Files :
           /\ file \in Seq(Segment)
           /\ \A k \in 1..Len(file) : Len(file[k].value) < MaxWeight

VARIABLES
    file,         \* history: what the file was made from
    bytes,        \* the file
    i, j,         \* positions in it, counted from 0
    len,          \* the length decoded so far
    weight,       \* the weight of its next group: 2^shift
    locations,    \* the locations found, as [from, to]: bytes from..to - 1
    pc            \* "scan", "varint", "value" or "done"

vars == <<file, bytes, i, j, len, weight, locations, pc>>

n == Len(bytes)
plen == Len(Prefix)
At(k) == bytes[k + 1]

\* The bytes from..to - 1.
Slice(from, to) == SubSeq(bytes, from + 1, to)

SearchInit ==
    /\ i = 0 /\ j = 0
    /\ len = 0
    /\ weight = 1
    /\ locations = <<>>
    /\ pc = "scan"

Init ==
    /\ file \in Files
    /\ bytes = Contents(file)
    /\ SearchInit

----------------------------------------------------------------------------
(* The loop.                                                               *)

PrefixAt(k) == Slice(k, k + plen) = Prefix

Skip ==
    /\ pc = "scan"
    /\ i + plen < n
    /\ ~PrefixAt(i)
    /\ i' = i + 1
    /\ UNCHANGED <<file, bytes, j, len, weight, locations, pc>>

Match ==
    /\ pc = "scan"
    /\ i + plen < n
    /\ PrefixAt(i)
    /\ j' = i + plen
    /\ len' = 0
    /\ weight' = 1
    /\ pc' = "varint"
    /\ UNCHANGED <<file, bytes, i, locations>>

\* One group of the varint; an unmarked one is the last.
TakeGroup(value) ==
    /\ pc = "varint"
    /\ j < n /\ weight < MaxWeight
    /\ len' = value
    /\ j' = j + 1
    /\ IF At(j) < Base THEN pc' = "value" /\ UNCHANGED weight
       ELSE weight' = weight * Base /\ UNCHANGED pc
    /\ UNCHANGED <<file, bytes, i, locations>>

\* Mutant: the highest group comes first.
GroupHighFirst == TakeGroup((len * Base) + (At(j) % Base))

Group == TakeGroup(len + (At(j) % Base) * weight)

VarintEnds ==
    /\ pc = "varint"
    /\ ~(j < n /\ weight < MaxWeight)
    /\ pc' = "value"
    /\ UNCHANGED <<file, bytes, i, j, len, weight, locations>>

\* Mutant: the end of the file is not looked at.
IsLocationUnbounded == 0 < len /\ len < MaxValue

IsLocation == 0 < len /\ len < MaxValue /\ j + len <= n

TakeValue(next) ==
    /\ pc = "value"
    /\ locations' = IF IsLocation
                    THEN Append(locations, [from |-> j, to |-> j + len])
                    ELSE locations
    /\ i' = next
    /\ pc' = "scan"
    /\ UNCHANGED <<file, bytes, j, len, weight>>

\* Mutant: the value is looked at again.
ValueRescanned == TakeValue(j)

\* Mutant: the search goes on from the position of the prefix.
ValueNotSkipped == TakeValue(i + len)

\* Mutant: what the prefix was found in is searched once more.
ValueSearchedAgain == TakeValue(i + 1)

\* What follows the prefix is skipped, whether it is taken or not.
Value == TakeValue(j + len)

Finish ==
    /\ pc = "scan"
    /\ ~(i + plen < n)
    /\ pc' = "done"
    /\ UNCHANGED <<file, bytes, i, j, len, weight, locations>>

\* Each value once, in the order of the first ones.
Distinct(s) ==
    LET distinct[k \in 0..Len(s)] ==
            IF k = 0 THEN <<>>
            ELSE IF s[k] \in ToSet(distinct[k - 1]) THEN distinct[k - 1]
            ELSE Append(distinct[k - 1], s[k])
    IN  distinct[Len(s)]

\* unique, the names that are returned.
Returned ==
    Distinct([k \in 1..Len(locations) |->
                 Slice(locations[k].from, locations[k].to)])

Next == Skip \/ Match \/ Group \/ VarintEnds \/ Value \/ Finish

Spec == Init /\ [][Next]_vars

----------------------------------------------------------------------------
(* What the file means.                                                    *)

\* Where its k-th segment begins.
Start(k) == Len(Contents(SubSeq(file, 1, k - 1)))

Externals == {k \in 1..Len(file) : file[k].kind = "external"}

\* Nothing but the tensors' entries looks like one.
Unambiguous ==
    \A p \in 0..n - plen :
        PrefixAt(p) => \E k \in Externals : p \in Start(k)..Start(k + 1) - 1

\* The names of the files that a model keeps data in.
DataFiles(f) ==
    {f[k].value : k \in {m \in 1..Len(f) : f[m].kind = "external"}} \ {<<>>}

Meant == DataFiles(file)

\* A name as long as MaxValue is not looked for.
Short(v) == Len(v) < MaxValue

\* The place of a name's first entry.
FirstEntry(v) ==
    CHOOSE k \in Externals :
        file[k].value = v /\ \A m \in Externals : file[m].value = v => k <= m

\* A sequence has each of the short names once, and in the order in which they
\* come first.
IsListOfMeant(s) ==
    /\ ToSet(s) = {v \in Meant : Short(v)}
    /\ \A k, m \in 1..Len(s) : k < m => FirstEntry(s[k]) < FirstEntry(s[m])

----------------------------------------------------------------------------
(* Properties.                                                             *)

TypeOK ==
    /\ bytes \in Seq(Byte)
    /\ i \in Nat /\ j \in 0..n
    /\ len \in Nat
    /\ weight \in Nat \ {0}
    /\ locations \in Seq([from : 0..n, to : 0..n])
    /\ pc \in {"scan", "varint", "value", "done"}

\* The locations are names of a length that is allowed, inside the file, and
\* no two of them share a byte, nor do a name and the prefix of the next one.
LocationsApart ==
    /\ \A k \in 1..Len(locations) :
           /\ plen <= locations[k].from /\ locations[k].from < locations[k].to
           /\ locations[k].to - locations[k].from < MaxValue
    /\ \A k, m \in 1..Len(locations) :
           k < m => locations[k].to + plen < locations[m].from

\* In a file where nothing else looks like an entry, and which was read as it
\* is, the search finds all names and nothing else, whatever they contain.
FindsAll ==
    pc = "done" /\ bytes = Contents(file) /\ Unambiguous => IsListOfMeant(Returned)

\* How many steps the search still takes at most: three for each byte ahead, and
\* those that it has yet to do where it is.
SearchRemaining ==
    LET position == IF pc = "scan" THEN i ELSE j
        ahead == IF position < n THEN n - position ELSE 0
        here == CASE pc = "scan" -> 1 [] pc = "value" -> 2 [] pc = "varint" -> 3
    IN  IF pc = "done" THEN 0 ELSE 3 * ahead + here

\* "Scanning for that fixed prefix is robust without linking protobuf"
\* (session.cpp:18): the same for every file.
IsRobust == pc = "done" => IsListOfMeant(Returned)

==============================================================================
