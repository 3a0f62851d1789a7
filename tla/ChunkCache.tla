------------------------------ MODULE ChunkCache ------------------------------
(***************************************************************************)
(* The chunk index cache of an open file (oxih5-format/src/chunked/):      *)
(* reads of chunked datasets by any number of threads, through a File and  *)
(* the Groups taken from it, which all hold clones of one cache.  A read   *)
(* resolves its dataset's index to chunk records (chunk_records), and      *)
(* get_or_insert keeps them: the probe is made under the read lock, the    *)
(* index is decoded with no lock held, and the records are put in under    *)
(* the write lock unless another thread was faster.                        *)
(*                                                                         *)
(* Nothing but a map lookup and a map insertion happens under the lock, so *)
(* no thread can panic there and the errors for a poisoned lock are left   *)
(* out; so is the uncached read (cache = None), which oxih5 never makes.   *)
(***************************************************************************)
EXTENDS Naturals, FiniteSets

CONSTANTS
    Thread,
    Index,      \* the indexes read: records of an index_address and ndims
    Records,    \* the chunk records of one index
    Empty,      \* no records
    Decoded,    \* what decoding each query's index gives: Records, or Corrupt
    Corrupt,
    UNDEFINED_ADDRESS,  \* u64::MAX in the code
    None

ASSUME IndexAssumption ==
    /\ Empty \in Records /\ Corrupt \notin Records
    /\ \A q \in Index : {"index_address", "ndims"} \subseteq DOMAIN q
    /\ Decoded \in [Index -> Records \cup {Corrupt}]

\* Mutant: the rank left out.
KeyByAddress(q) == <<q.index_address>>

KeyOf(q) == <<q.index_address, q.ndims>>

\* A file that keeps two indexes apart by their address and rank ("the same index
\* address with different ranks would produce different record sets").
ASSUME KeyAssumption ==
    \A p, q \in Index :
        p.index_address = q.index_address /\ p.ndims = q.ndims => Decoded[p] = Decoded[q]

Key == {KeyOf(q) : q \in Index}

ASSUME NoneAssumption == None \notin Index /\ None \notin Thread

VARIABLES
    store,     \* the map: for the keys in it, an allocation (Arc) of records
    readers,   \* threads that hold the read lock
    writer,    \* the thread that holds the write lock, or None
    at,        \* where each thread is
    asked,     \* the query it is answering, or answered last
    mine,      \* what it decoded
    answer     \* what it came back with

lock == <<readers, writer>>
cacheVars == <<store, lock, at, asked, mine, answer>>

\* An allocation of chunk records is known by the thread that made it.
Arc == [records: Records, by: Thread]
NoArc == [records |-> Empty, by |-> None]
Shared == [records: Records, by: Thread \cup {None}]

Place == {"returned", "probe", "probing", "decode", "insert", "entry", "vacant"}
Ok(arc) == [kind |-> "ok", arc |-> arc]
Failed == [kind |-> "error", arc |-> NoArc]
Unanswered == [kind |-> "pending", arc |-> NoArc]

CacheInit ==
    /\ store = [k \in {} |-> NoArc]
    /\ readers = {}
    /\ writer = None
    /\ at = [t \in Thread |-> "returned"]
    /\ asked = [t \in Thread |-> None]
    /\ mine = [t \in Thread |-> NoArc]
    /\ answer = [t \in Thread |-> Ok(NoArc)]

GoTo(t, place) == at' = [at EXCEPT ![t] = place]
ReturnFrom(t, outcome) ==
    /\ GoTo(t, "returned")
    /\ answer' = [answer EXCEPT ![t] = outcome]
    /\ mine' = [mine EXCEPT ![t] = NoArc]

-----------------------------------------------------------------------------
(* chunk_records *)

\* A dataset nothing was ever written to has no index: no records, no cache.
Call(t, q) ==
    /\ at[t] = "returned"
    /\ asked' = [asked EXCEPT ![t] = q]
    /\ IF q.index_address = UNDEFINED_ADDRESS
       THEN ReturnFrom(t, Ok(NoArc))
       ELSE /\ GoTo(t, "probe")
            /\ answer' = [answer EXCEPT ![t] = Unanswered]
            /\ UNCHANGED mine
    /\ UNCHANGED <<store, lock>>

-----------------------------------------------------------------------------
(* get_or_insert *)

AcquireRead(t) ==
    /\ at[t] = "probe"
    /\ writer = None
    /\ readers' = readers \cup {t}
    /\ GoTo(t, "probing")
    /\ UNCHANGED <<store, writer, asked, mine, answer>>

\* Mutant: the read guard lives on while the index is decoded.
ReleaseReadOnReturn(t) ==
    readers' = IF KeyOf(asked[t]) \in DOMAIN store THEN readers \ {t} ELSE readers

\* The guard's scope ends before the index is decoded.
ReleaseRead(t) == readers' = readers \ {t}

Hit(t) ==
    /\ at[t] = "probing"
    /\ KeyOf(asked[t]) \in DOMAIN store
    /\ ReturnFrom(t, Ok(store[KeyOf(asked[t])]))
    /\ ReleaseRead(t)
    /\ UNCHANGED <<store, writer, asked>>

Miss(t) ==
    /\ at[t] = "probing"
    /\ KeyOf(asked[t]) \notin DOMAIN store
    /\ GoTo(t, "decode")
    /\ ReleaseRead(t)
    /\ UNCHANGED <<store, writer, asked, mine, answer>>

\* Mutant: failures are remembered, as no records.
DecodeKeepingFailures(t) ==
    /\ at[t] = "decode"
    /\ mine' = IF Decoded[asked[t]] = Corrupt THEN mine
               ELSE [mine EXCEPT ![t] = [records |-> Decoded[asked[t]], by |-> t]]
    /\ GoTo(t, "insert")
    /\ UNCHANGED <<store, lock, asked, answer>>

\* compute(): an index that does not decode is an error, and not remembered.
Decode(t) ==
    /\ at[t] = "decode"
    /\ IF Decoded[asked[t]] = Corrupt
       THEN ReturnFrom(t, Failed)
       ELSE /\ mine' = [mine EXCEPT ![t] = [records |-> Decoded[asked[t]], by |-> t]]
            /\ GoTo(t, "insert")
            /\ UNCHANGED answer
    /\ UNCHANGED <<store, lock, asked>>

\* Mutant: the entry is filled under a lock that other fillers hold too.
FreeToWriteWithOthers == readers = {}

FreeToWrite == writer = None /\ readers = {}

AcquireWrite(t) ==
    /\ at[t] = "insert"
    /\ FreeToWrite
    /\ writer' = t
    /\ GoTo(t, "entry")
    /\ UNCHANGED <<store, readers, asked, mine, answer>>

\* entry(key): another thread was faster, and its records are the ones kept.
Occupied(t) ==
    /\ at[t] = "entry"
    /\ KeyOf(asked[t]) \in DOMAIN store
    /\ ReturnFrom(t, Ok(store[KeyOf(asked[t])]))
    /\ writer' = None
    /\ UNCHANGED <<store, readers, asked>>

Vacant(t) ==
    /\ at[t] = "entry"
    /\ KeyOf(asked[t]) \notin DOMAIN store
    /\ GoTo(t, "vacant")
    /\ UNCHANGED <<store, lock, asked, mine, answer>>

\* or_insert_with
Insert(t) ==
    /\ at[t] = "vacant"
    /\ store' = [k \in DOMAIN store \cup {KeyOf(asked[t])} |->
                     IF k = KeyOf(asked[t]) THEN mine[t] ELSE store[k]]
    /\ ReturnFrom(t, Ok(mine[t]))
    /\ writer' = None
    /\ UNCHANGED <<readers, asked>>

-----------------------------------------------------------------------------

GoOn(t) ==
    \/ AcquireRead(t)
    \/ Hit(t)
    \/ Miss(t)
    \/ Decode(t)
    \/ AcquireWrite(t)
    \/ Occupied(t)
    \/ Vacant(t)
    \/ Insert(t)

CacheNext == \E t \in Thread : GoOn(t) \/ \E q \in Index : Call(t, q)

CacheSpec == CacheInit /\ [][CacheNext]_cacheVars

\* Every thread is scheduled.  The lock promises no order among its waiters.
FairCacheSpec == CacheSpec /\ \A t \in Thread : WF_cacheVars(GoOn(t))

-----------------------------------------------------------------------------
(* Properties *)

CacheTypeOK ==
    /\ DOMAIN store \subseteq Key /\ \A k \in DOMAIN store : store[k] \in Arc
    /\ readers \subseteq Thread
    /\ writer \in Thread \cup {None}
    /\ at \in [Thread -> Place]
    /\ asked \in [Thread -> Index \cup {None}]
    /\ mine \in [Thread -> Shared]
    /\ answer \in [Thread -> [kind: {"ok", "error", "pending"}, arc: Shared]]

\* What a read of the file without a cache gives.
Uncached(q) ==
    CASE q.index_address = UNDEFINED_ADDRESS -> [kind |-> "ok", records |-> Empty]
      [] q.index_address # UNDEFINED_ADDRESS /\ Decoded[q] = Corrupt ->
             [kind |-> "error", records |-> Empty]
      [] OTHER -> [kind |-> "ok", records |-> Decoded[q]]

Answered(t) == at[t] = "returned" /\ asked[t] # None

\* Every call is answered as it would be without the cache, whatever other
\* threads asked, decoded or failed to decode in between: no dataset is given the
\* records of another, and the failure of one thread is not another's.
AnsweredAsUncached ==
    \A t \in Thread : Answered(t) =>
        [kind |-> answer[t].kind, records |-> answer[t].arc.records] = Uncached(asked[t])

\* Records that were handed out stay the ones the cache holds: of threads that
\* decode one index at the same time the first to insert wins, and all of them,
\* and all later readers, share its allocation.
AnswersAreShared ==
    \A t \in Thread : Answered(t) /\ answer[t].arc.by # None =>
        /\ KeyOf(asked[t]) \in DOMAIN store
        /\ store[KeyOf(asked[t])] = answer[t].arc

\* The cache grows only by what a call stored, and keeps what it holds; it never
\* holds anything for an index that could not be decoded.
OnlyDecodedIsKept ==
    [][\A k \in DOMAIN store' :
          IF k \in DOMAIN store THEN store'[k] = store[k]
          ELSE \E q \in Index : KeyOf(q) = k /\ Decoded[q] = store'[k].records]_cacheVars

Calls == \E t \in Thread, q \in Index : Call(t, q)

\* No call waits for ever: once no new ones arrive, every call under way returns.
\* (While they keep arriving, a reader-preferring lock may starve an insertion.)
EveryCallReturns ==
    <>[][~Calls]_cacheVars => \A t \in Thread : <>[](at[t] = "returned")
=============================================================================
