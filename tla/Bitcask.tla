------------------------------- MODULE Bitcask -------------------------------
(***************************************************************************)
(* The Bitcask store (BitcaskStore.cs) as the service uses it when         *)
(* NEMCACHE_USE_BITCASK is 1 (BitcaskPersistence.cs): one thread writes    *)
(* the notifications of the cache to numbered data files and keeps in      *)
(* memory where the newest record of each key is; the process ends at any  *)
(* point, in the middle of a record too; the next one reads the files.     *)
(*                                                                         *)
(* A file is the sequence of its records and the offset of a record its    *)
(* place in it.  A record cut short is the record ReadEntry makes of it:   *)
(* the bytes the file does not have read as zeros.                         *)
(***************************************************************************)
EXTENDS Integers, SequencesExt

CONSTANTS
    Keys, Values, Nil, Empty, Spoilt, Phantom,    \* as in DurableMap
    ValueSize,      \* ValueSize[v]: bytes of v
    Overhead,       \* bytes of a record's header and key
    MaxFileSize,    \* _maxFileSize
    Radix,          \* 10: file names are decimal
    MaxFiles        \* bound: data files

AllKeys == Keys \cup {Phantom}
AllValues == Values \cup {Empty, Spoilt}

Record == [key : AllKeys, val : AllValues]
Location == [file : Nat, pos : Nat]

ASSUME DistinctAssumption ==
    /\ Empty \notin Values \cup {Spoilt} /\ Spoilt \notin Values /\ Phantom \notin Keys
    /\ Nil \notin AllValues \cup Location
ASSUME NumbersAssumption ==
    /\ ValueSize \in [AllValues -> Nat]
    /\ {Overhead, MaxFileSize, MaxFiles} \subseteq Nat
    /\ Radix \in Nat \ {0}
    \* File names of at most two digits.
    /\ MaxFiles < Radix * Radix

VARIABLES
    disk,         \* disk[i]: the records of data.i
    up,           \* is the process running
    index,        \* _index: [AllKeys -> Location or Nil]
    currentId,    \* _currentFileId
    open,         \* _currentFile # null
    clearing      \* keys the ClearNotification in progress has still to delete

vars == <<disk, up, index, currentId, open, clearing>>

NoIndex == [k \in AllKeys |-> Nil]

Init ==
    /\ disk = <<>>
    /\ up = FALSE /\ index = NoIndex /\ currentId = 0 /\ open = FALSE /\ clearing = {}

-----------------------------------------------------------------------------
(* Reading *)

Locations == UNION {{[file |-> f, pos |-> p] : p \in DOMAIN disk[f]} : f \in DOMAIN disk}

At(l) == disk[l.file][l.pos]

RecordsOf(k) == {l \in Locations : At(l).key = k}

(* Mutant: the newest file is read first. *)
NameBefore_Reversed(i, j) == i > j

(* OrderBy(f => f) compares the names data.i as strings. *)
Padded(i) == IF i < Radix THEN i * Radix ELSE i
NameBefore(i, j) == Padded(i) < Padded(j) \/ (Padded(i) = Padded(j) /\ i < j)

ScannedBefore(l, m) ==
    NameBefore(l.file, m.file) \/ (l.file = m.file /\ l.pos < m.pos)

(* LoadIndex: of the records of a key the one read last stays, a tombstone  *)
(* like any other.                                                          *)
LoadedIndex ==
    [k \in AllKeys |->
        LET records == RecordsOf(k) IN
        IF records = {} THEN Nil
        ELSE CHOOSE l \in records : \A m \in records : m = l \/ ScannedBefore(m, l)]

(* Entries: TryGet of each key; a value of no bytes counts as none. *)
EntriesBy(ix) ==
    [k \in AllKeys |->
        IF ix[k] = Nil THEN Nil ELSE IF At(ix[k]).val = Empty THEN Nil ELSE At(ix[k]).val]

-----------------------------------------------------------------------------
(* Writing *)

Size(r) == Overhead + ValueSize[r.val]
FileLength(s) == FoldSeq(LAMBDA r, n : n + Size(r), 0, s)

Full == ~open \/ FileLength(disk[currentId]) >= MaxFileSize

(* Mutant: a new process writes on in the last file of the one before. *)
TargetId_Reuses == IF Full /\ (open \/ currentId = 0) THEN currentId + 1 ELSE currentId

(* EnsureFile: OpenOrCreate, then Seek to the end. *)
TargetId == IF Full THEN currentId + 1 ELSE currentId
Opened == IF TargetId \in DOMAIN disk THEN disk ELSE Append(disk, <<>>)

(* EnsureFile and WriteEntry, then Flush. *)
WriteEntry(k, v) ==
    /\ TargetId <= MaxFiles
    /\ disk' = [Opened EXCEPT ![TargetId] = Append(@, [key |-> k, val |-> v])]
    /\ currentId' = TargetId /\ open' = TRUE
    /\ UNCHANGED up

Idle == up /\ clearing = {}

Put(k, v) ==
    /\ WriteEntry(k, v)
    /\ index' = [index EXCEPT ![k] = [file |-> TargetId, pos |-> Len(Opened[TargetId]) + 1]]

(* Mutant: a delete is not logged. *)
Delete_Unlogged(k) ==
    /\ index' = [index EXCEPT ![k] = Nil]
    /\ UNCHANGED <<disk, currentId, open, up>>

Delete(k) ==
    /\ index' = [index EXCEPT ![k] = Nil]
    /\ WriteEntry(k, Empty)

(* BitcaskPersistence.OnNext.  It ignores touches and retrieves.            *)
OnStore(k, v) == Idle /\ Put(k, v) /\ UNCHANGED clearing

OnRemove(k) == Idle /\ Delete(k) /\ UNCHANGED clearing

(* On a ClearNotification the keys of the index are deleted one by one.     *)
OnClear ==
    /\ Idle
    /\ clearing' = {k \in AllKeys : index[k] # Nil}
    /\ UNCHANGED <<disk, up, index, currentId, open>>

ClearNext ==
    /\ up
    /\ \E k \in clearing : Delete(k) /\ clearing' = clearing \ {k}

-----------------------------------------------------------------------------
(* The process *)

(* Mutant: LoadIndex does not look at the ids of the files. *)
Start_NoId ==
    /\ ~up
    /\ up' = TRUE
    /\ index' = LoadedIndex
    /\ UNCHANGED <<disk, currentId, open, clearing>>

(* LoadIndex; then Restore adds EntriesBy(index) to the cache. *)
Start ==
    /\ ~up
    /\ up' = TRUE
    /\ index' = LoadedIndex
    /\ currentId' = Len(disk)
    /\ UNCHANGED <<disk, open, clearing>>

Lose ==
    /\ up' = FALSE /\ index' = NoIndex /\ currentId' = 0 /\ open' = FALSE /\ clearing' = {}

Stop == up /\ UNCHANGED disk /\ Lose

(* What a record of k and v reads as when the file ends inside it: in its   *)
(* header, in its key or in its value.                                      *)
CutShort(k, v) ==
    {[key |-> Phantom, val |-> Empty]}
        \cup IF v = Empty THEN {} ELSE {[key |-> Phantom, val |-> Spoilt],
                                        [key |-> k, val |-> Spoilt]}

(* The process ends in WriteEntry or Flush: none of the record or a part of *)
(* it is in the file.                                                       *)
StopWriting(k, v) ==
    /\ up
    /\ clearing # {} => k \in clearing /\ v = Empty
    /\ k = Phantom => v = Empty
    /\ TargetId <= MaxFiles
    /\ \/ disk' = Opened
       \/ \E r \in CutShort(k, v) : disk' = [Opened EXCEPT ![TargetId] = Append(@, r)]
    /\ Lose

Next ==
    \/ \E k \in Keys, v \in Values \cup {Empty} : OnStore(k, v)
    \/ \E k \in AllKeys : OnRemove(k)
    \/ OnClear \/ ClearNext
    \/ Start \/ Stop
    \/ \E k \in AllKeys, v \in Values \cup {Empty} : StopWriting(k, v)

Spec == Init /\ [][Next]_vars

-----------------------------------------------------------------------------
(* Properties *)

(* Besides the types: a process that runs knows how many files there are,   *)
(* whichever process made them, and one that does not run knows nothing.    *)
TypeOK ==
    /\ disk \in Seq(Seq(Record)) /\ Len(disk) <= MaxFiles
    /\ up \in BOOLEAN /\ open \in BOOLEAN
    /\ index \in [AllKeys -> Location \cup {Nil}]
    /\ clearing \in SUBSET AllKeys
    /\ up => currentId = Len(disk) /\ (open => disk # <<>>)
    /\ ~up => index = NoIndex /\ currentId = 0 /\ ~open /\ clearing = {}

(* As the README has it, the in-memory directory tracks the latest offset   *)
(* of each key; a key it does not have was never written or was deleted     *)
(* last.                                                                    *)
Older(l, m) == l.file < m.file \/ (l.file = m.file /\ l.pos < m.pos)
IsNewest(l, k) == l \in RecordsOf(k) /\ \A m \in RecordsOf(k) : m = l \/ Older(m, l)

IndexTracksNewest ==
    up => \A k \in AllKeys :
             IF index[k] # Nil THEN IsNewest(index[k], k)
             ELSE \A l \in RecordsOf(k) : IsNewest(l, k) => At(l).val = Empty

(* Data files are append-only: what is in a file stays there, and a file    *)
(* gets no record once a later one exists.                                  *)
AppendOnly ==
    [][\A f \in DOMAIN disk : /\ IsPrefix(disk[f], disk'[f])
                              /\ f < Len(disk) => disk'[f] = disk[f]]_vars

(* Nothing is written behind a record cut short: reading would lose step.   *)
CutShortLast ==
    \A l \in Locations : At(l).val = Spoilt => l.pos = Len(disk[l.file])

(* The store is a durable map: a value put, whatever files and records      *)
(* followed it and however often the process ended, is the one handed over  *)
(* at the next start, and what was deleted does not come back.              *)
DMap == INSTANCE DurableMap WITH map <- EntriesBy(IF up THEN index ELSE LoadedIndex)

Durable == DMap!Spec
=============================================================================
