------------------------------ MODULE GlobalHeap ------------------------------
(***************************************************************************)
(* The global heap: GlobalHeapWriter (oxih5-format, global_heap_writer.rs) *)
(* packs the variable-length values of a file into collections of bounded  *)
(* size and says where each value went; GlobalHeap::parse (global_heap.rs) *)
(* walks a collection from object header to object header to find one      *)
(* again.  A value is its ordinal; only its length matters here.           *)
(***************************************************************************)
EXTENDS Integers, Sequences

CONSTANTS
    Length,             \* lengths a value may have
    MaxObjects,         \* values registered at most; a bound on the model
    Start,              \* addresses the first collection may get, aligned or not
    ALIGN,              \* alignment of objects within a collection (8 in the code)
    COLLECTION_HEADER,  \* 16 in the code
    OBJECT_HEADER,      \* 16 in the code
    H5HG_MINSIZE,       \* smallest collection (4096 in the code)
    H5HG_MAXSIZE,       \* largest collection of more than one object (65536)
    MAX_OBJECTS_PER_COLLECTION  \* 65535 in the code

ASSUME LengthAssumption == Length \subseteq Nat
ASSUME MaxObjectsAssumption == MaxObjects \in Nat
ASSUME StartAssumption == Start \subseteq Nat
ASSUME AlignAssumption == ALIGN \in Nat \ {0}
ASSUME HeaderAssumption == /\ COLLECTION_HEADER \in Nat /\ COLLECTION_HEADER % ALIGN = 0
                           /\ OBJECT_HEADER \in Nat \ {0}
ASSUME SizeAssumption == /\ H5HG_MINSIZE \in Nat \ {0} /\ H5HG_MAXSIZE \in Nat
                         /\ H5HG_MINSIZE <= H5HG_MAXSIZE
ASSUME CapAssumption == MAX_OBJECTS_PER_COLLECTION \in Nat \ {0}

VARIABLES
    start,         \* address of the first collection
    objects,       \* lengths of the values registered; a value's position is its ordinal
    phase,         \* "register", "pack" or "built"
    collections,   \* the collections closed so far: the ordinals each holds, in order
    filled,        \* what content_used had come to when each of them was closed
    current,       \* the collection being filled
    content_used,  \* bytes of it in use, header included
    locations,     \* where each value placed so far went
    asked,         \* the ordinal a reader is resolving, or 0
    pos,           \* where it stands in the collection
    parsed,        \* the objects it has read there, by heap object index
    answer         \* what its last question was, and the value it came back with

packing == <<collections, filled, current, content_used, locations>>
reading == <<asked, pos, parsed, answer>>
vars == <<start, objects, phase, packing, reading>>

Align(n) == ((n + ALIGN - 1) \div ALIGN) * ALIGN

NoAnswer == [ordinal |-> 0, value |-> 0]

Need(ordinal) == Align(OBJECT_HEADER + objects[ordinal])

-----------------------------------------------------------------------------
(* Registering and packing *)

Init == /\ start \in Start
        /\ objects = <<>>
        /\ phase = "register"
        /\ collections = <<>>
        /\ filled = <<>>
        /\ current = <<>>
        /\ content_used = COLLECTION_HEADER
        /\ locations = <<>>
        /\ asked = 0
        /\ pos = 0
        /\ parsed = <<>>
        /\ answer = NoAnswer

\* write_bytes, write_string: the ordinal handed back is the value's position.
WriteBytes(length) == /\ phase = "register"
                      /\ Len(objects) < MaxObjects
                      /\ objects' = Append(objects, length)
                      /\ UNCHANGED <<start, phase, packing, reading>>

StartBuild == /\ phase = "register"
              /\ phase' = "pack"
              /\ UNCHANGED <<start, objects, packing, reading>>

Ordinal == Len(locations) + 1

\* Mutant: only the number of objects is watched.
OverflowsByCountOnly(ordinal) ==
    current # <<>> /\ Len(current) >= MAX_OBJECTS_PER_COLLECTION

Overflows(ordinal) ==
    /\ current # <<>>
    /\ \/ content_used + Need(ordinal) > H5HG_MAXSIZE
       \/ Len(current) >= MAX_OBJECTS_PER_COLLECTION

\* Mutant: the index goes on counting across collections.
LocationInFileWide(closed, filling, ordinal) ==
    [collection |-> Len(closed), index |-> ordinal]

LocationIn(closed, filling, ordinal) ==
    [collection |-> Len(closed), index |-> Len(filling) + 1]

\* One value joins the collection being filled, or opens the next one.
Place ==
    /\ phase = "pack" /\ Ordinal <= Len(objects)
    /\ \/ /\ Overflows(Ordinal)
          /\ collections' = Append(collections, current)
          /\ filled' = Append(filled, content_used)
          /\ locations' = Append(locations, LocationIn(collections', <<>>, Ordinal))
          /\ current' = <<Ordinal>>
          /\ content_used' = COLLECTION_HEADER + Need(Ordinal)
       \/ /\ ~Overflows(Ordinal)
          /\ locations' = Append(locations, LocationIn(collections, current, Ordinal))
          /\ current' = Append(current, Ordinal)
          /\ content_used' = content_used + Need(Ordinal)
          /\ UNCHANGED <<collections, filled>>
    /\ UNCHANGED <<start, objects, phase, reading>>

\* The collections closed and the one being filled, if there is one.
AllCollections == IF current = <<>> THEN collections ELSE Append(collections, current)

\* The last collection is closed, unless nothing was registered at all.
FinishBuild ==
    /\ phase = "pack" /\ Ordinal > Len(objects)
    /\ phase' = "built"
    /\ collections' = AllCollections
    /\ filled' = IF current = <<>> THEN filled ELSE Append(filled, content_used)
    /\ current' = <<>>
    /\ UNCHANGED <<start, objects, content_used, locations, reading>>

-----------------------------------------------------------------------------
(* The collections in the file (serialize_collection) *)

\* content_end of the first n objects of a collection.
ContentEnd(collection, n) ==
    LET end[k \in 0..n] == IF k = 0 THEN COLLECTION_HEADER
                           ELSE end[k - 1] + Need(collection[k])
    IN  end[n]

\* Mutant: the size is doubled past the content only once.
CollectionSizeDoubledOnce(content_end) ==
    IF content_end <= H5HG_MINSIZE THEN H5HG_MINSIZE
    ELSE IF content_end <= H5HG_MAXSIZE THEN 2 * H5HG_MINSIZE ELSE Align(content_end)

\* collection_size: a power of two times the minimum, or the exact length of one
\* object too large for the cap.
CollectionSize(content_end) ==
    LET doubled[size \in 1..(2 * content_end + H5HG_MINSIZE)] ==
            IF size < content_end THEN doubled[2 * size] ELSE size
    IN  IF content_end <= H5HG_MAXSIZE THEN doubled[H5HG_MINSIZE] ELSE Align(content_end)

SizeOf(collection) == CollectionSize(ContentEnd(collection, Len(collection)))

\* build_bytes lays the collections out one after another.
AddrOf(c) ==
    LET addr[k \in 0..c] == IF k = 0 THEN start ELSE addr[k - 1] + SizeOf(collections[k])
    IN  addr[c]

\* The object whose header lies `rel` bytes into a collection: its index and length,
\* index 0 for the free space and for padding; NotAHeader within an object.
NotAHeader == [index |-> -1, length |-> 0]
HeaderAt(collection, rel) ==
    IF \E k \in 1..Len(collection) : ContentEnd(collection, k - 1) = rel
    THEN LET k == CHOOSE k \in 1..Len(collection) : ContentEnd(collection, k - 1) = rel
         IN  [index |-> k, length |-> objects[collection[k]]]
    ELSE IF rel >= ContentEnd(collection, Len(collection))
    THEN [index |-> 0, length |-> 0]
    ELSE NotAHeader

-----------------------------------------------------------------------------
(* A reader resolves a reference: GlobalHeap::parse, then object *)

Base == AddrOf(locations[asked].collection)
Collection == collections[locations[asked].collection + 1]
HeapEnd == Base + SizeOf(Collection)

StartRead(ordinal) ==
    /\ phase = "built" /\ asked = 0
    /\ asked' = ordinal
    /\ pos' = AddrOf(locations[ordinal].collection) + COLLECTION_HEADER
    /\ parsed' = <<>>
    /\ UNCHANGED <<start, objects, phase, packing, answer>>

\* Mutant: the file position is aligned, not the offset in the collection.
NextPosAbsolute(data_end) == Align(data_end)

\* Objects are aligned relative to the start of their collection.
NextPos(data_end) == Base + Align(data_end - Base)

Header == HeaderAt(Collection, pos - Base)

ParseObject ==
    /\ asked # 0
    /\ pos + OBJECT_HEADER <= HeapEnd
    /\ Header.index # 0
    /\ parsed' = Append(parsed, Header.index)
    /\ pos' = NextPos(pos + OBJECT_HEADER + Header.length)
    /\ UNCHANGED <<start, objects, phase, packing, asked, answer>>

\* The walk stops at the free space, or where no header fits; then the index the
\* reference names is looked up among the objects read.
FinishRead ==
    /\ asked # 0
    /\ \/ pos + OBJECT_HEADER > HeapEnd
       \/ Header.index = 0
    /\ LET index == locations[asked].index
       IN  answer' = [ordinal |-> asked,
                      value |-> IF \E k \in 1..Len(parsed) : parsed[k] = index
                                THEN Collection[index] ELSE 0]
    /\ asked' = 0
    /\ UNCHANGED <<start, objects, phase, packing, pos, parsed>>

-----------------------------------------------------------------------------

Next == \/ \E length \in Length : WriteBytes(length)
        \/ StartBuild
        \/ Place
        \/ FinishBuild
        \/ \E ordinal \in 1..Len(objects) : StartRead(ordinal)
        \/ ParseObject
        \/ FinishRead

Spec == Init /\ [][Next]_vars

-----------------------------------------------------------------------------
(* Properties *)

PackingTypeOK ==
    /\ objects \in Seq(Length) /\ Len(objects) <= MaxObjects
    /\ phase \in {"register", "pack", "built"}
    /\ collections \in Seq(Seq(1..Len(objects)))
    /\ filled \in Seq(Nat) /\ Len(filled) = Len(collections)
    /\ current \in Seq(1..Len(objects))
    /\ content_used \in Nat
    /\ locations \in Seq([collection: Nat, index: Nat])
    /\ Len(locations) <= Len(objects)

TypeOK ==
    /\ PackingTypeOK
    /\ start \in Start
    /\ asked \in 0..Len(objects)
    /\ pos \in Nat
    /\ parsed \in Seq(1..Len(objects))
    /\ answer \in [ordinal: 0..Len(objects), value: 0..Len(objects)]

\* Where the writer says a value went is where it is: each location names one
\* collection, closed or being filled, and the value's own place in it.
LocationsExact ==
    \A o \in 1..Len(locations) :
        /\ locations[o].collection + 1 \in 1..Len(AllCollections)
        /\ locations[o].index \in 1..Len(AllCollections[locations[o].collection + 1])
        /\ AllCollections[locations[o].collection + 1][locations[o].index] = o

\* A collection of more than one object keeps to the cap, none holds more objects
\* than there are 16-bit indices, and none is empty.
CollectionsBounded ==
    \A c \in 1..Len(collections) :
        /\ Len(collections[c]) \in 1..MAX_OBJECTS_PER_COLLECTION
        /\ Len(collections[c]) > 1 => filled[c] <= H5HG_MAXSIZE

\* What a collection is serialized to is what the packing counted, lies within the
\* size the collection declares, and that size is one libhdf5 accepts.
CollectionsHoldTheirObjects ==
    \A c \in 1..Len(collections) :
        /\ filled[c] = ContentEnd(collections[c], Len(collections[c]))
        /\ SizeOf(collections[c]) >= filled[c]
        /\ SizeOf(collections[c]) >= H5HG_MINSIZE

\* Every reference resolves to the value it was made for, wherever the collections
\* begin: what parse reads as object headers are object headers.
ReferencesResolve == answer.value = answer.ordinal
=============================================================================
