-------------------------------- MODULE InPlace --------------------------------
(***************************************************************************)
(* write_dataset_in_place and its typed variants (inplace.rs).  A call     *)
(* finds a dataset's data area through a mapping of the file, drops the    *)
(* mapping, checks type and length, opens the file by its path once more,  *)
(* and writes, flushes and syncs.  Between any two of these another        *)
(* process may put another file at the path, the process may be killed or  *)
(* the machine stop; every system call may fail.                           *)
(*                                                                         *)
(* A file is the bytes of the page cache and those on the disk.  A byte is *)
(* known by where it was to begin with, or by the call, the value and the  *)
(* byte of the value that it was written from.                             *)
(***************************************************************************)
EXTENDS Integers, Sequences

CONSTANTS
    Image,        \* the files: [length, objects], objects by path
    Request,      \* [path, want, count]; want: [class, width] of the elements, or RawBytes
    MaxCalls

VARIABLES
    named,     \* the file that is at the path
    cached,    \* what a file reads as
    stored,    \* what is left of it if the machine stops
    pc,        \* "idle", "checked", "writing"
    write,     \* the call
    target,    \* resolve_target's answer: address, size, and the datatype
    from,      \* the file it is of
    handle,    \* the file that is open
    done,      \* bytes written so far
    outcome,   \* of the last call
    calls,     \* calls made
    mistaken,  \* history: files opened for a target that is of another
    kept       \* history: the last call acknowledged for a dataset

RawBytes == [class |-> "raw", width |-> 1]

overwriteVars ==
    <<named, cached, stored, pc, write, target, from, handle, done, outcome, calls, mistaken, kept>>

Inodes == DOMAIN Image
Size(f) == Image[f].length
Original(f, i) == [file |-> f, at |-> i]
Originals == [f \in Inodes |-> [i \in 0..(Size(f) - 1) |-> Original(f, i)]]
Hole == [zero |-> TRUE]

\* Data areas that calls may write to, as the file itself describes them.
Areas(f) ==
    {o \in {Image[f].objects[p] : p \in DOMAIN Image[f].objects} :
        o.kind = "dataset" /\ o.layout = "contiguous" /\ ~o.filtered /\ o.class # "vlen"}

\* What a file's description and a call are.
Described ==
    /\ \A f \in Inodes : Size(f) \in Nat
    /\ \A f \in Inodes : \A p \in DOMAIN Image[f].objects :
          LET o == Image[f].objects[p]
          IN  /\ o.address \in Nat /\ o.size \in Nat
              /\ o.kind \in {"dataset", "group", "external"} /\ o.filtered \in BOOLEAN
    /\ \A c \in Request : c.count \in Nat /\ c.want.width \in Nat \ {0}

\* No two datasets of a file share a byte.
AreasApart ==
    \A f \in Inodes : \A p, q \in DOMAIN Image[f].objects :
        LET o == Image[f].objects[p]
            r == Image[f].objects[q]
        IN  p # q /\ o \in Areas(f) /\ r \in Areas(f) =>
                (o.address..(o.address + o.size - 1)) \cap (r.address..(r.address + r.size - 1)) = {}

ASSUME ImagesAreDescribed == Described /\ AreasApart

OverwriteInit ==
    /\ named \in Inodes
    /\ cached = Originals /\ stored = Originals
    /\ pc = "idle" /\ write = <<>> /\ target = <<>> /\ from = named /\ handle = named
    /\ done = 0 /\ outcome = "none" /\ calls = 0
    /\ mistaken = {} /\ kept = <<>>

-----------------------------------------------------------------------------
(* Resolution: the first refusal is the answer *)

Refusals(objects, c) ==
    LET o == objects[c.path]
    IN  IF c.path \notin DOMAIN objects THEN <<"NotFound">>
        ELSE <<IF o.kind = "external" THEN "NotImplemented" ELSE "ok",
               IF o.kind = "group" THEN "TypeMismatch" ELSE "ok",
               IF o.filtered THEN "NotImplemented" ELSE "ok",
               IF o.class = "vlen" THEN "NotImplemented" ELSE "ok",
               IF o.layout # "contiguous" THEN "NotImplemented" ELSE "ok">>

FirstOf(answers) ==
    IF \E i \in DOMAIN answers : answers[i] # "ok"
    THEN answers[CHOOSE i \in DOMAIN answers :
                    answers[i] # "ok" /\ \A j \in 1..(i - 1) : answers[j] = "ok"]
    ELSE "ok"

\* Mutant: the end of the file is not looked at.
AnyExtent(f, o) == "ok"

\* A wrapped 64-bit sum is refused like one beyond the end.
WithinFile(f, o) == IF o.address + o.size <= Size(f) THEN "ok" ELSE "Format"

resolve_target(f, c) ==
    LET refusal == FirstOf(Refusals(Image[f].objects, c))
    IN  IF refusal # "ok" THEN refusal ELSE WithinFile(f, Image[f].objects[c.path])

\* expect_elem: a typed call must be of the datatype's class and width.
expect_elem(o, want) ==
    IF want = RawBytes \/ want = [class |-> o.class, width |-> o.width] THEN "ok" ELSE "TypeMismatch"

\* The bytes of the k-th call's values, in the dataset's own order.
Encoded(k, c, order) ==
    LET width == c.want.width
    IN  [i \in 1..(c.count * width) |->
            LET byte == (i - 1) % width
            IN  [call |-> k, value |-> (i - 1) \div width,
                 byte |-> IF order = "big" THEN width - 1 - byte ELSE byte]]

check_len(data, size) == IF Len(data) = size THEN "ok" ELSE "Format"

\* The whole of a call up to the reopening: it reads through the mapping only.
Resolve(c) ==
    /\ pc = "idle" /\ calls < MaxCalls
    /\ LET o == Image[named].objects[c.path]
           refusal == FirstOf(<<resolve_target(named, c)>>)
           answer == IF refusal # "ok" THEN refusal
                     ELSE FirstOf(<<expect_elem(o, c.want),
                                    check_len(Encoded(calls + 1, c, o.order), o.size)>>)
       IN  IF answer = "ok"
           THEN pc' = "checked" /\ write' = c /\ target' = o /\ from' = named /\ outcome' = "none"
           ELSE outcome' = answer /\ UNCHANGED <<pc, write, target, from>>
    /\ calls' = calls + 1 /\ done' = 0
    /\ UNCHANGED <<named, cached, stored, handle, mistaken, kept>>

-----------------------------------------------------------------------------
(* write_at *)

\* What the dataset held as a whole is gone from here on.
Open ==
    /\ pc = "checked"
    /\ pc' = "writing" /\ handle' = named
    /\ mistaken' = IF from = named THEN mistaken ELSE mistaken \cup {named}
    /\ kept' = [d \in DOMAIN kept \ {<<named, write.path>>} |-> kept[d]]
    /\ UNCHANGED <<named, cached, stored, write, target, from, done, outcome, calls>>

Data == Encoded(calls, write, target.order)

\* Beyond the end the file grows, by zeros up to the byte.
Put(bytes, at, byte) ==
    [i \in (DOMAIN bytes) \cup 0..at |->
        IF i = at THEN byte ELSE IF i \in DOMAIN bytes THEN bytes[i] ELSE Hole]

WriteByte ==
    /\ pc = "writing" /\ done < Len(Data)
    /\ cached' = [cached EXCEPT ![handle] = Put(@, target.address + done, Data[done + 1])]
    /\ done' = done + 1
    /\ UNCHANGED <<named, stored, pc, write, target, from, handle, outcome, calls, mistaken, kept>>

\* Mutant: the call returns once the bytes are in the cache.
NoSync == cached[handle] = cached[handle] /\ stored' = stored

\* flush and sync_all
Sync == stored' = [stored EXCEPT ![handle] = cached[handle]]

Acknowledge ==
    /\ pc = "writing" /\ done = Len(Data)
    /\ Sync
    /\ pc' = "idle" /\ outcome' = "ok"
    /\ kept' = [d \in DOMAIN kept \cup {<<handle, write.path>>} |->
                    IF d = <<handle, write.path>> THEN [number |-> calls, call |-> write] ELSE kept[d]]
    /\ UNCHANGED <<named, cached, write, target, from, handle, done, calls, mistaken>>

\* Opening, seeking, write_all after any number of bytes, or sync_all fails.
FailWrite ==
    /\ pc \in {"checked", "writing"}
    /\ pc' = "idle" /\ outcome' = "Io"
    /\ UNCHANGED <<named, cached, stored, write, target, from, handle, done, calls, mistaken, kept>>

-----------------------------------------------------------------------------
(* The rest of the machine *)

\* Another process puts another file at the path, as FileWriter::build's rename does.
Replace ==
    /\ named' \in Inodes \ {named}
    /\ UNCHANGED <<cached, stored, pc, write, target, from, handle, done, outcome, calls, mistaken, kept>>

Dirty(f) ==
    {i \in DOMAIN cached[f] : i \in DOMAIN stored[f] => stored[f][i] # cached[f][i]}

\* The kernel writes back whatever it likes, whenever it likes.
WriteBack ==
    /\ \E f \in Inodes : \E i \in Dirty(f) :
          stored' = [stored EXCEPT ![f] = Put(@, i, cached[f][i])]
    /\ UNCHANGED <<named, cached, pc, write, target, from, handle, done, outcome, calls, mistaken, kept>>

\* The process is killed.
Killed ==
    /\ pc # "idle"
    /\ pc' = "idle" /\ outcome' = "killed"
    /\ UNCHANGED <<named, cached, stored, write, target, from, handle, done, calls, mistaken, kept>>

\* The machine stops, with the process; what was not written back is lost.
Crash ==
    /\ stored # cached
    /\ cached' = stored /\ pc' = "idle" /\ outcome' = "killed"
    /\ UNCHANGED <<named, stored, write, target, from, handle, done, calls, mistaken, kept>>

OverwriteNext ==
    \/ \E c \in Request : Resolve(c)
    \/ Open \/ WriteByte \/ Acknowledge \/ FailWrite
    \/ Replace \/ WriteBack \/ Killed \/ Crash

OverwriteSpec == OverwriteInit /\ [][OverwriteNext]_overwriteVars

-----------------------------------------------------------------------------
(* Properties *)

\* Bytes a typed or raw value may put at the i-th byte of a data area.
Belongs(byte, o, i) ==
    \/ byte.value = i /\ byte.byte = 0
    \/ /\ byte.value = i \div o.width
       /\ byte.byte = IF o.order = "big" THEN o.width - 1 - (i % o.width) ELSE i % o.width

Accounted(f, i, byte) ==
    \/ byte = Original(f, i)
    \/ \E o \in Areas(f) : /\ i \in o.address..(o.address + o.size - 1)
                           /\ "call" \in DOMAIN byte /\ Belongs(byte, o, i - o.address)

\* Whatever fails, is killed or crashes at any point, every file that was never taken for
\* another keeps its length, and each of its bytes, in the cache and on the disk, is the
\* original one or one that a call meant for just that place of a dataset's data area
\* (write_dataset_in_place).
BytesAreAccountedFor ==
    \A f \in Inodes \ mistaken : \A bytes \in {cached[f], stored[f]} :
        /\ DOMAIN bytes = 0..(Size(f) - 1)
        /\ \A i \in DOMAIN bytes : Accounted(f, i, bytes[i])

\* The byte b, counted from the least significant, of value v of a data area.
ValueByte(bytes, o, width, v, b) ==
    bytes[o.address + v * width + IF o.order = "big" THEN width - 1 - b ELSE b]

\* Once a call has succeeded, its values read back in the dataset's own byte order, after
\* a crash too, until a later call opens the file to write to the dataset (write_at).
AcknowledgedIsDurable ==
    \A d \in DOMAIN kept :
        LET o == Image[d[1]].objects[d[2]]
            put == kept[d]
            width == put.call.want.width
        IN  d[1] \notin mistaken =>
                \A v \in 0..(put.call.count - 1), b \in 0..(width - 1) :
                    ValueByte(stored[d[1]], o, width, v, b)
                        = [call |-> put.number, value |-> v, byte |-> b]
=============================================================================
