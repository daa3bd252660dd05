---------------------------- MODULE BitcaskProofs ----------------------------
(***************************************************************************)
(* What the Bitcask store keeps, for any keys, values, sizes and number of *)
(* files, as long as the names of the files sort in the order of their     *)
(* ids.  The inductive invariant adds two facts to the properties: every   *)
(* key with records has a newest one, which is what LoadIndex looks for,   *)
(* and a file that is open for writing holds no record cut short.          *)
(***************************************************************************)
EXTENDS Bitcask, SequenceTheorems, TLAPS

HasNewest == \A k \in AllKeys : RecordsOf(k) = {} \/ \E l \in Locations : IsNewest(l, k)

OpenFileWhole ==
    up /\ open => \A p \in DOMAIN disk[currentId] : disk[currentId][p].val # Spoilt

StoreInv == TypeOK /\ HasNewest /\ IndexTracksNewest /\ OpenFileWhole /\ CutShortLast

NewestOf(l, records) == l \in records /\ \A m \in records : m = l \/ Older(m, l)

-----------------------------------------------------------------------------
(* Locations *)

(* A location is a file and a place in it. *)
LEMMA InLocations ==
    ASSUME disk \in Seq(Seq(Record))
    PROVE  /\ \A l \in Locations : /\ l \in Location
                                   /\ l.file \in DOMAIN disk /\ l.pos \in DOMAIN disk[l.file]
                                   /\ At(l) \in Record
           /\ \A f \in DOMAIN disk : \A p \in DOMAIN disk[f] :
                 [file |-> f, pos |-> p] \in Locations
<1>1. ASSUME NEW l \in Locations
      PROVE  /\ l \in Location
             /\ l.file \in DOMAIN disk /\ l.pos \in DOMAIN disk[l.file]
             /\ At(l) \in Record
  <2>1. PICK f \in DOMAIN disk : \E p \in DOMAIN disk[f] : l = [file |-> f, pos |-> p]
    BY DEF Locations
  <2>2. PICK p \in DOMAIN disk[f] : l = [file |-> f, pos |-> p]
    BY <2>1
  <2>3. disk[f] \in Seq(Record) /\ f \in Nat /\ p \in Nat
    OBVIOUS
  <2>4. disk[f][p] \in Record
    BY <2>3
  <2> QED
    BY <2>2, <2>3, <2>4 DEF Location, At
<1>2. \A f \in DOMAIN disk : \A p \in DOMAIN disk[f] : [file |-> f, pos |-> p] \in Locations
  BY DEF Locations
<1> QED
  BY <1>1, <1>2

(* Of two locations one is older. *)
LEMMA OlderTotal ==
    ASSUME NEW l \in Location, NEW m \in Location
    PROVE  /\ l = m \/ Older(l, m) \/ Older(m, l)
           /\ ~(Older(l, m) /\ Older(m, l)) /\ ~Older(l, l)
BY DEF Location, Older

(* A key has one newest record. *)
LEMMA NewestUnique ==
    ASSUME disk \in Seq(Seq(Record)), NEW k, NEW l, NEW m, IsNewest(l, k), IsNewest(m, k)
    PROVE  l = m
<1>1. l \in Location /\ m \in Location
  BY InLocations DEF IsNewest, RecordsOf
<1> QED
  BY <1>1, OlderTotal DEF IsNewest

(* Multiplying by a positive number keeps the order. *)
LEMMA TimesRadix ==
    ASSUME NEW i \in Nat, NEW j \in Nat, NEW r \in Nat \ {0}, i < j
    PROVE  i * r < j * r
<1>1. PICK d \in Nat : j = i + 1 + d
  <2> WITNESS j - i - 1 \in Nat
  <2> QED OBVIOUS
<1>2. j * r = i * r + r + d * r
  BY <1>1
<1>3. d * r \in Nat /\ i * r \in Nat
  OBVIOUS
<1> QED
  BY <1>2, <1>3

(* Names of files below the radix sort as their ids. *)
LEMMA NamesSort ==
    ASSUME NumbersAssumption, MaxFiles < Radix,
           NEW i \in 0..MaxFiles, NEW j \in 0..MaxFiles
    PROVE  NameBefore(i, j) <=> i < j
<1>1. i \in Nat /\ j \in Nat /\ Radix \in Nat \ {0} /\ i < Radix /\ j < Radix
  BY DEF NumbersAssumption
<1>2. Padded(i) = i * Radix /\ Padded(j) = j * Radix
  BY <1>1 DEF Padded
<1>3. i < j => i * Radix < j * Radix
  BY <1>1, TimesRadix
<1>4. j < i => j * Radix < i * Radix
  BY <1>1, TimesRadix
<1>5. i * Radix \in Nat /\ j * Radix \in Nat
  BY <1>1
<1> QED
  BY <1>1, <1>2, <1>3, <1>4, <1>5 DEF NameBefore

-----------------------------------------------------------------------------
(* Reading the files *)

(* LoadIndex finds the newest record of a key that has one.                 *)
LEMMA LoadedIsNewest ==
    ASSUME NumbersAssumption, MaxFiles < Radix,
           disk \in Seq(Seq(Record)), Len(disk) <= MaxFiles,
           NEW k \in AllKeys, NEW l, IsNewest(l, k)
    PROVE  LoadedIndex[k] = l
<1> DEFINE ReadLast(m) == m \in RecordsOf(k) /\ \A n \in RecordsOf(k) : n = m \/ ScannedBefore(n, m)
<1>1. \A m \in RecordsOf(k) : m \in Location /\ m.file \in 0..MaxFiles
  <2> SUFFICES ASSUME NEW m \in RecordsOf(k) PROVE m \in Location /\ m.file \in 0..MaxFiles
    OBVIOUS
  <2>1. m \in Location /\ m.file \in DOMAIN disk
    BY InLocations DEF RecordsOf
  <2>2. MaxFiles \in Nat /\ DOMAIN disk = 1..Len(disk) /\ Len(disk) \in Nat
    BY DEF NumbersAssumption
  <2> QED
    BY <2>1, <2>2
<1>2. \A m, n \in RecordsOf(k) : ScannedBefore(n, m) <=> Older(n, m)
  <2> SUFFICES ASSUME NEW m \in RecordsOf(k), NEW n \in RecordsOf(k)
               PROVE  ScannedBefore(n, m) <=> Older(n, m)
    OBVIOUS
  <2>1. NameBefore(n.file, m.file) <=> n.file < m.file
    BY <1>1, NamesSort
  <2> QED
    BY <2>1 DEF ScannedBefore, Older
<1>3. ReadLast(l)
  BY <1>2 DEF IsNewest
<1>4. \A m : ReadLast(m) => m = l
  <2> SUFFICES ASSUME NEW m, ReadLast(m) PROVE m = l
    OBVIOUS
  <2>1. IsNewest(m, k)
    BY <1>2 DEF IsNewest
  <2> QED
    BY <2>1, NewestUnique
<1>5. RecordsOf(k) # {}
  BY DEF IsNewest
<1>6. LoadedIndex[k] = CHOOSE m \in RecordsOf(k) :
                           \A n \in RecordsOf(k) : n = m \/ ScannedBefore(n, m)
  BY <1>5 DEF LoadedIndex
<1> QED
  BY <1>3, <1>4, <1>6

(* LoadIndex has no entry for a key without records.                        *)
LEMMA LoadedNothing ==
    ASSUME NEW k \in AllKeys, RecordsOf(k) = {}
    PROVE  LoadedIndex[k] = Nil
BY DEF LoadedIndex

(* After LoadIndex the index tracks the newest records.                     *)
LEMMA LoadedTracks ==
    ASSUME NumbersAssumption, DistinctAssumption, MaxFiles < Radix,
           disk \in Seq(Seq(Record)), Len(disk) <= MaxFiles, HasNewest
    PROVE  /\ LoadedIndex \in [AllKeys -> Location \cup {Nil}]
           /\ \A k \in AllKeys : IF LoadedIndex[k] # Nil THEN IsNewest(LoadedIndex[k], k)
                                 ELSE RecordsOf(k) = {}
<1>1. ASSUME NEW k \in AllKeys
      PROVE  /\ LoadedIndex[k] \in Location \cup {Nil}
             /\ IF LoadedIndex[k] # Nil THEN IsNewest(LoadedIndex[k], k)
                                        ELSE RecordsOf(k) = {}
  <2>1. CASE RecordsOf(k) = {}
    BY <2>1, LoadedNothing
  <2>2. CASE RecordsOf(k) # {}
    <3>1. PICK l \in Locations : IsNewest(l, k)
      BY <2>2 DEF HasNewest
    <3>2. l \in Location
      BY InLocations
    <3>3. LoadedIndex[k] = l
      BY <3>1, LoadedIsNewest
    <3>4. l # Nil
      BY <3>2 DEF DistinctAssumption
    <3> QED
      BY <3>1, <3>2, <3>3, <3>4
  <2> QED
    BY <2>1, <2>2
<1>2. LoadedIndex = [k \in AllKeys |-> LoadedIndex[k]]
  BY DEF LoadedIndex
<1> QED
  BY <1>1, <1>2

-----------------------------------------------------------------------------
(* Writing a record *)

NewLocation == [file |-> TargetId, pos |-> Len(Opened[TargetId]) + 1]

(* EnsureFile leads to the last file, which is new or was open already.     *)
LEMMA EnsureFile ==
    ASSUME NumbersAssumption, TypeOK, up
    PROVE  /\ Opened \in Seq(Seq(Record)) /\ Len(Opened) = TargetId /\ TargetId \in Nat \ {0}
           /\ Len(disk) <= TargetId
           /\ \A f \in DOMAIN disk : Opened[f] = disk[f]
           /\ \A f \in DOMAIN Opened \ DOMAIN disk : f = TargetId /\ Opened[f] = <<>>
           /\ \A f \in DOMAIN disk : f = TargetId => open /\ currentId = f
<1>1. /\ disk \in Seq(Seq(Record)) /\ open \in BOOLEAN
      /\ currentId = Len(disk) /\ (open => disk # <<>>)
  BY DEF TypeOK
<1>2. Len(disk) \in Nat /\ DOMAIN disk = 1..Len(disk) /\ (disk # <<>> => Len(disk) # 0)
  BY <1>1
<1>3. CASE Full
  <2>1. TargetId = Len(disk) + 1
    BY <1>1, <1>3 DEF TargetId
  <2>2. TargetId \notin DOMAIN disk
    BY <1>2, <2>1
  <2>3. Opened = Append(disk, <<>>)
    BY <2>2 DEF Opened
  <2>4. <<>> \in Seq(Record)
    OBVIOUS
  <2> QED
    BY <1>1, <1>2, <2>1, <2>3, <2>4
<1>4. CASE ~Full
  <2>1. TargetId = Len(disk) /\ open
    BY <1>1, <1>4 DEF TargetId, Full
  <2>2. TargetId \in DOMAIN disk
    BY <1>1, <1>2, <2>1
  <2>3. Opened = disk
    BY <2>2 DEF Opened
  <2> QED
    BY <1>1, <1>2, <2>1, <2>3
<1> QED
  BY <1>3, <1>4

(* What the files hold after a record was written.                          *)
LEMMA RecordWritten ==
    ASSUME NumbersAssumption, TypeOK, up, TargetId <= MaxFiles,
           NEW r \in Record, disk' = [Opened EXCEPT ![TargetId] = Append(@, r)]
    PROVE  /\ disk' \in Seq(Seq(Record)) /\ Len(disk') = TargetId
           /\ NewLocation \in Location
           /\ Locations' = Locations \cup {NewLocation}
           /\ \A l \in Locations : Older(l, NewLocation)
           /\ \A l \in Locations : disk'[l.file][l.pos] = At(l)
           /\ disk'[NewLocation.file][NewLocation.pos] = r
           /\ NewLocation.file = Len(disk') /\ NewLocation.pos = Len(disk'[Len(disk')])
           /\ \A f \in DOMAIN disk : f # TargetId => disk'[f] = disk[f]
           /\ TargetId \in DOMAIN disk => disk'[TargetId] = Append(disk[TargetId], r)
<1> DEFINE t == TargetId
<1> DEFINE s == Opened[t]
<1>0. disk \in Seq(Seq(Record))
  BY DEF TypeOK
<1>1. /\ Opened \in Seq(Seq(Record)) /\ Len(Opened) = t /\ t \in Nat \ {0} /\ Len(disk) <= t
      /\ \A f \in DOMAIN disk : Opened[f] = disk[f]
      /\ \A f \in DOMAIN Opened \ DOMAIN disk : f = t /\ Opened[f] = <<>>
  BY EnsureFile
<1> HIDE DEF t
<1>2. disk' = [Opened EXCEPT ![t] = Append(s, r)]
  BY DEF t
<1>3. /\ s \in Seq(Record) /\ Len(s) \in Nat /\ t \in DOMAIN Opened
      /\ DOMAIN Opened = 1..t /\ DOMAIN disk = 1..Len(disk) /\ Len(disk) \in Nat
  BY <1>0, <1>1
<1>4. NewLocation = [file |-> t, pos |-> Len(s) + 1]
  BY DEF NewLocation, t
<1> HIDE DEF s
<1>5. Append(s, r) \in Seq(Record) /\ DOMAIN Append(s, r) = 1..(Len(s) + 1)
  BY <1>3
<1>6. /\ disk' \in Seq(Seq(Record)) /\ Len(disk') = t /\ DOMAIN disk' = 1..t
      /\ disk'[t] = Append(s, r) /\ \A f \in 1..t : f # t => disk'[f] = Opened[f]
  <2>0. t \in 1..Len(Opened)
    BY <1>1
  <2>1. /\ [Opened EXCEPT ![t] = Append(s, r)] \in Seq(Seq(Record))
        /\ Len([Opened EXCEPT ![t] = Append(s, r)]) = Len(Opened)
    <3> DEFINE S == Seq(Record)  e == Append(s, r)
    <3>1. Opened \in Seq(S) /\ e \in S
      BY <1>1, <1>5
    <3> HIDE DEF S, e
    <3>2. [Opened EXCEPT ![t] = e] \in Seq(S) /\ Len([Opened EXCEPT ![t] = e]) = Len(Opened)
      BY <2>0, <3>1, ExceptSeq
    <3> QED
      BY <3>2 DEF S, e
  <2>2. disk'[t] = Append(s, r)
    BY <1>2, <1>3
  <2>3. \A f \in 1..t : f # t => disk'[f] = Opened[f]
    BY <1>2, <1>3
  <2>4. disk' \in Seq(Seq(Record)) /\ Len(disk') = t
    BY <1>1, <1>2, <2>1
  <2>5. DOMAIN disk' = 1..t
    BY <2>4
  <2> QED
    BY <2>2, <2>3, <2>4, <2>5
<1>7. \A l \in Locations : l \in Location /\ l.file \in 1..Len(disk)
                           /\ l.pos \in DOMAIN disk[l.file]
  BY <1>0, <1>3, InLocations
<1>8. t \in DOMAIN disk => disk[t] = s
  BY <1>1 DEF s
<1>9. t \notin DOMAIN disk => s = <<>>
  BY <1>1, <1>3 DEF s
<1>10. \A l \in Locations : disk'[l.file][l.pos] = At(l)
  <2> SUFFICES ASSUME NEW l \in Locations PROVE disk'[l.file][l.pos] = At(l)
    OBVIOUS
  <2>1. CASE l.file = t
    <3>1. l.pos \in 1..Len(s)
      BY <1>3, <1>7, <1>8, <2>1
    <3>2. Append(s, r)[l.pos] = s[l.pos]
      BY <1>3, <3>1
    <3> QED
      BY <1>3, <1>6, <1>7, <1>8, <2>1, <3>2 DEF At
  <2>2. CASE l.file # t
    <3>1. l.file \in 1..t /\ l.file \in DOMAIN disk
      BY <1>1, <1>3, <1>7
    <3>2. disk'[l.file] = disk[l.file]
      BY <1>1, <1>6, <2>2, <3>1
    <3> QED
      BY <3>2 DEF At
  <2> QED
    BY <2>1, <2>2
<1>11. \A l \in Locations : Older(l, NewLocation)
  <2> SUFFICES ASSUME NEW l \in Locations PROVE Older(l, NewLocation)
    OBVIOUS
  <2>1. CASE l.file = t
    <3>1. l.pos \in 1..Len(s)
      BY <1>3, <1>7, <1>8, <2>1
    <3> QED
      BY <1>3, <1>4, <2>1, <3>1 DEF Older
  <2>2. CASE l.file # t
    BY <1>1, <1>3, <1>4, <1>7, <2>2 DEF Older
  <2> QED
    BY <2>1, <2>2
<1>12. \A f \in 1..t : \A p \in DOMAIN disk'[f] :
           [file |-> f, pos |-> p] \in Locations \cup {NewLocation}
  <2> SUFFICES ASSUME NEW f \in 1..t, NEW p \in DOMAIN disk'[f]
               PROVE  [file |-> f, pos |-> p] \in Locations \cup {NewLocation}
    OBVIOUS
  <2>1. \A g \in DOMAIN disk : \A q \in DOMAIN disk[g] : [file |-> g, pos |-> q] \in Locations
    BY <1>0, InLocations
  <2>2. CASE f = t
    <3>1. p \in 1..(Len(s) + 1)
      BY <1>5, <1>6, <2>2
    <3>2. CASE p = Len(s) + 1
      BY <1>4, <2>2, <3>2
    <3>3. CASE p # Len(s) + 1
      <4>1. p \in DOMAIN s
        BY <1>3, <3>1, <3>3
      <4>2. t \in DOMAIN disk
        BY <1>9, <4>1
      <4> QED
        BY <1>8, <2>1, <2>2, <4>1, <4>2
    <3> QED
      BY <3>2, <3>3
  <2>3. CASE f # t
    <3>1. f \in DOMAIN disk /\ disk'[f] = disk[f]
      BY <1>1, <1>3, <1>6, <2>3
    <3> QED
      BY <2>1, <3>1
  <2> QED
    BY <2>2, <2>3
<1>13. NewLocation.file \in DOMAIN disk' /\ NewLocation.pos \in DOMAIN disk'[NewLocation.file]
  BY <1>1, <1>3, <1>4, <1>5, <1>6
<1>14. \A l \in Locations : l.file \in DOMAIN disk' /\ l.pos \in DOMAIN disk'[l.file]
  <2> SUFFICES ASSUME NEW l \in Locations
               PROVE  l.file \in DOMAIN disk' /\ l.pos \in DOMAIN disk'[l.file]
    OBVIOUS
  <2>1. CASE l.file = t
    <3>1. l.pos \in 1..Len(s)
      BY <1>3, <1>7, <1>8, <2>1
    <3> QED
      BY <1>1, <1>3, <1>5, <1>6, <2>1, <3>1
  <2>2. CASE l.file # t
    <3>1. l.file \in 1..t /\ l.file \in DOMAIN disk
      BY <1>1, <1>3, <1>7
    <3> QED
      BY <1>1, <1>6, <1>7, <2>2, <3>1
  <2> QED
    BY <2>1, <2>2
<1>15. Locations' = UNION {{[file |-> f, pos |-> p] : p \in DOMAIN disk'[f]} : f \in DOMAIN disk'}
  BY DEF Locations
<1>16. Locations' \subseteq Locations \cup {NewLocation}
  BY <1>6, <1>12, <1>15
<1>17. ASSUME NEW l \in Location, l.file \in DOMAIN disk', l.pos \in DOMAIN disk'[l.file]
       PROVE  l \in Locations'
  <2>1. l = [file |-> l.file, pos |-> l.pos]
    BY <1>17 DEF Location
  <2> QED
    BY <1>15, <1>17, <2>1
<1>18. NewLocation \in Location
  BY <1>3, <1>4, <1>1 DEF Location
<1>19. Locations \cup {NewLocation} \subseteq Locations'
  BY <1>7, <1>13, <1>14, <1>17, <1>18
<1>20. disk'[NewLocation.file][NewLocation.pos] = r
  BY <1>3, <1>4, <1>6
<1>21. NewLocation.file = Len(disk') /\ NewLocation.pos = Len(disk'[Len(disk')])
  BY <1>3, <1>4, <1>6
<1>22. \A f \in DOMAIN disk : f # t => disk'[f] = disk[f]
  BY <1>1, <1>3, <1>6
<1>23. t \in DOMAIN disk => disk'[t] = Append(disk[t], r)
  BY <1>6, <1>8
<1> QED
  BY <1>6, <1>10, <1>11, <1>16, <1>18, <1>19, <1>20, <1>21, <1>22, <1>23 DEF t

(* The record written is the newest of its key; other keys see no change.   *)
LEMMA NewestWritten ==
    ASSUME NumbersAssumption, TypeOK, up, TargetId <= MaxFiles,
           NEW r \in Record, disk' = [Opened EXCEPT ![TargetId] = Append(@, r)],
           NEW n, n = NewLocation
    PROVE  /\ n \in Locations' /\ At(n)' = r
           /\ \A k : RecordsOf(k)' = IF k = r.key THEN RecordsOf(k) \cup {n} ELSE RecordsOf(k)
           /\ \A l : IsNewest(l, r.key)' <=> l = n
           /\ \A k : k # r.key => \A l : IsNewest(l, k)' <=> IsNewest(l, k)
<1>1. /\ n \in Location /\ Locations' = Locations \cup {n}
      /\ \A l \in Locations : Older(l, n) /\ At(l)' = At(l)
      /\ At(n)' = r
  BY RecordWritten DEF At
<1>2. Locations \subseteq Location
  BY InLocations DEF TypeOK
<1>3. n \notin Locations
  BY <1>1, <1>2, OlderTotal
<1>4. \A k : RecordsOf(k)' = IF k = r.key THEN RecordsOf(k) \cup {n} ELSE RecordsOf(k)
  BY <1>1, <1>3 DEF RecordsOf
<1>5. \A k : RecordsOf(k) \subseteq Locations
  BY DEF RecordsOf
<1>6. ASSUME NEW l PROVE IsNewest(l, r.key)' <=> l = n
  <2>1. IsNewest(l, r.key)' <=>
            l \in RecordsOf(r.key)' /\ \A m \in RecordsOf(r.key)' : m = l \/ Older(m, l)
    BY DEF IsNewest, Older
  <2>2. RecordsOf(r.key)' = RecordsOf(r.key) \cup {n}
    BY <1>4
  <2>3. l \in RecordsOf(r.key) => ~Older(n, l)
    BY <1>1, <1>2, <1>5, OlderTotal
  <2> QED
    BY <1>1, <1>3, <1>5, <2>1, <2>2, <2>3
<1>7. ASSUME NEW k, k # r.key, NEW l PROVE IsNewest(l, k)' <=> IsNewest(l, k)
  BY <1>4, <1>7 DEF IsNewest, Older
<1> QED
  BY <1>1, <1>4, <1>6, <1>7

(* Opening a file alone changes nothing that is read.                       *)
LEMMA NothingWritten ==
    ASSUME NumbersAssumption, TypeOK, up, disk' = Opened
    PROVE  /\ Locations' = Locations
           /\ \A l \in Locations : At(l)' = At(l) /\ disk'[l.file] = disk[l.file]
           /\ \A k : RecordsOf(k)' = RecordsOf(k)
           /\ \A k, l : IsNewest(l, k)' <=> IsNewest(l, k)
<1>1. /\ disk \in Seq(Seq(Record)) /\ Opened \in Seq(Seq(Record))
      /\ Len(Opened) \in Nat /\ DOMAIN Opened = 1..Len(Opened)
      /\ Len(disk) \in Nat /\ DOMAIN disk = 1..Len(disk) /\ Len(disk) <= Len(Opened)
      /\ \A f \in DOMAIN disk : Opened[f] = disk[f]
      /\ \A f \in DOMAIN Opened \ DOMAIN disk : Opened[f] = <<>>
  BY EnsureFile DEF TypeOK
<1>2. ASSUME NEW l
      PROVE  l \in Locations' <=> l \in Locations
  <2>1. l \in Locations' <=>
            \E f \in DOMAIN Opened : \E p \in DOMAIN Opened[f] : l = [file |-> f, pos |-> p]
    BY DEF Locations
  <2>2. l \in Locations <=>
            \E f \in DOMAIN disk : \E p \in DOMAIN disk[f] : l = [file |-> f, pos |-> p]
    BY DEF Locations
  <2>3. \A f \in DOMAIN Opened : \A p \in DOMAIN Opened[f] : f \in DOMAIN disk /\ p \in DOMAIN disk[f]
    BY <1>1
  <2>4. \A f \in DOMAIN disk : f \in DOMAIN Opened /\ DOMAIN Opened[f] = DOMAIN disk[f]
    BY <1>1
  <2> QED
    BY <2>1, <2>2, <2>3, <2>4
<1>3. \A l \in Locations : At(l)' = At(l) /\ disk'[l.file] = disk[l.file]
  BY <1>1, InLocations DEF At
<1>4. \A k : RecordsOf(k)' = RecordsOf(k)
  BY <1>2, <1>3 DEF RecordsOf
<1>5. \A k, l : IsNewest(l, k)' <=> IsNewest(l, k)
  BY <1>4 DEF IsNewest, Older
<1> QED
  BY <1>2, <1>3, <1>4, <1>5

-----------------------------------------------------------------------------
(* What each part of a step keeps *)

(* A record of any key, whole or cut short, leaves every key a newest one,  *)
(* and nothing behind a record that was cut short.                          *)
LEMMA FilesKept ==
    ASSUME NumbersAssumption, StoreInv, up, TargetId <= MaxFiles,
           NEW r \in Record, disk' = [Opened EXCEPT ![TargetId] = Append(@, r)]
    PROVE  /\ disk' \in Seq(Seq(Record)) /\ Len(disk') = TargetId /\ disk' # <<>>
           /\ HasNewest' /\ CutShortLast'
           /\ r.val # Spoilt =>
                  \A p \in DOMAIN disk'[TargetId] : disk'[TargetId][p].val # Spoilt
<1>0. TypeOK /\ HasNewest /\ OpenFileWhole /\ CutShortLast
  BY DEF StoreInv
<1>1. PICK n : n = NewLocation
  OBVIOUS
<1>2. /\ disk' \in Seq(Seq(Record)) /\ Len(disk') = TargetId /\ n \in Location
      /\ Locations' = Locations \cup {n}
      /\ n.file = TargetId /\ n.pos = Len(disk'[TargetId])
      /\ \A f \in DOMAIN disk : f # TargetId => disk'[f] = disk[f]
      /\ \A l \in Locations : disk'[l.file][l.pos] = At(l)
  BY <1>0, <1>1, RecordWritten
<1>3. /\ n \in Locations' /\ At(n)' = r
      /\ \A k : RecordsOf(k)' = IF k = r.key THEN RecordsOf(k) \cup {n} ELSE RecordsOf(k)
      /\ \A l : IsNewest(l, r.key)' <=> l = n
      /\ \A k : k # r.key => \A l : IsNewest(l, k)' <=> IsNewest(l, k)
  BY <1>0, <1>1, NewestWritten
<1>4. \A l \in Locations : l \in Location /\ l.file \in DOMAIN disk /\ l.pos \in DOMAIN disk[l.file]
  BY <1>0, InLocations DEF TypeOK
<1>5. TargetId \in Nat \ {0} /\ \A f \in DOMAIN disk : f = TargetId => open /\ currentId = f
  BY <1>0, EnsureFile
<1>6. HasNewest'
  <2> SUFFICES ASSUME NEW k \in AllKeys
               PROVE  RecordsOf(k)' = {} \/ \E l \in Locations' : IsNewest(l, k)'
    BY DEF HasNewest
  <2>1. CASE k = r.key
    BY <1>3, <2>1
  <2>2. CASE k # r.key
    BY <1>0, <1>2, <1>3, <2>2 DEF HasNewest
  <2> QED
    BY <2>1, <2>2
<1>7. \A l \in Locations : l.file = TargetId => At(l).val # Spoilt
  BY <1>0, <1>4, <1>5 DEF OpenFileWhole, At
<1>8. CutShortLast'
  <2> SUFFICES ASSUME NEW l \in Locations', At(l)'.val = Spoilt
               PROVE  l.pos = Len(disk'[l.file])
    BY DEF CutShortLast
  <2>1. CASE l = n
    BY <1>2, <2>1
  <2>2. CASE l # n
    <3>1. l \in Locations /\ At(l).val = Spoilt
      BY <1>2, <2>2 DEF At
    <3>2. l.file # TargetId
      BY <1>7, <3>1
    <3>3. disk'[l.file] = disk[l.file]
      BY <1>2, <1>4, <3>1, <3>2
    <3> QED
      BY <1>0, <3>1, <3>3 DEF CutShortLast
  <2> QED
    BY <2>1, <2>2
<1>9. ASSUME r.val # Spoilt, NEW p \in DOMAIN disk'[TargetId]
      PROVE  disk'[TargetId][p].val # Spoilt
  <2> DEFINE l == [file |-> TargetId, pos |-> p]
  <2>1. TargetId \in DOMAIN disk'
    BY <1>2, <1>5
  <2>2. l \in Locations'
    BY <2>1 DEF Locations
  <2>3. CASE l = n
    BY <1>3, <1>9, <2>3 DEF At
  <2>4. CASE l # n
    <3>1. l \in Locations /\ l.file = TargetId
      BY <1>2, <2>2, <2>4
    <3>2. disk'[TargetId][p] = At(l) /\ At(l).val # Spoilt
      BY <1>2, <1>7, <3>1
    <3> QED
      BY <3>2
  <2> QED
    BY <2>3, <2>4
<1>10. disk' # <<>>
  BY <1>2, <1>5
<1> QED
  BY <1>2, <1>6, <1>8, <1>9, <1>10

(* Opening a file alone keeps all that too.                                 *)
LEMMA FilesKeptOpening ==
    ASSUME NumbersAssumption, StoreInv, up, TargetId <= MaxFiles, disk' = Opened
    PROVE  disk' \in Seq(Seq(Record)) /\ Len(disk') <= MaxFiles /\ HasNewest' /\ CutShortLast'
<1>0. TypeOK /\ HasNewest /\ CutShortLast
  BY DEF StoreInv
<1>1. disk' \in Seq(Seq(Record)) /\ Len(disk') = TargetId
  BY <1>0, EnsureFile
<1>2. /\ Locations' = Locations
      /\ \A l \in Locations : At(l)' = At(l) /\ disk'[l.file] = disk[l.file]
      /\ \A k : RecordsOf(k)' = RecordsOf(k)
      /\ \A k, l : IsNewest(l, k)' <=> IsNewest(l, k)
  BY <1>0, NothingWritten
<1>3. HasNewest'
  BY <1>0, <1>2 DEF HasNewest
<1>4. CutShortLast'
  BY <1>0, <1>2 DEF CutShortLast
<1> QED
  BY <1>1, <1>3, <1>4

(* A put or a delete keeps the invariant.                                   *)
LEMMA EntryWritten ==
    ASSUME NumbersAssumption, DistinctAssumption, StoreInv, up,
           NEW k \in AllKeys, NEW v \in Values \cup {Empty}, WriteEntry(k, v),
           \/ index' = [index EXCEPT ![k] = NewLocation]
           \/ v = Empty /\ index' = [index EXCEPT ![k] = Nil],
           clearing' \in SUBSET AllKeys
    PROVE  StoreInv'
<1> DEFINE r == [key |-> k, val |-> v]
<1>0. TypeOK /\ IndexTracksNewest
  BY DEF StoreInv
<1>1. r \in Record /\ r.val # Spoilt
  BY DEF Record, AllValues, DistinctAssumption
<1>2. /\ TargetId <= MaxFiles /\ disk' = [Opened EXCEPT ![TargetId] = Append(@, r)]
      /\ currentId' = TargetId /\ open' = TRUE /\ up' = up
  BY DEF WriteEntry
<1> HIDE DEF r
<1>3. /\ disk' \in Seq(Seq(Record)) /\ Len(disk') = TargetId /\ disk' # <<>>
      /\ HasNewest' /\ CutShortLast'
      /\ \A p \in DOMAIN disk'[TargetId] : disk'[TargetId][p].val # Spoilt
  BY <1>1, <1>2, FilesKept
<1>4. PICK n : n = NewLocation
  OBVIOUS
<1>5. n \in Location
  BY <1>0, <1>1, <1>2, <1>4, RecordWritten
<1>6. /\ n \in Locations' /\ At(n)' = r
      /\ \A j : RecordsOf(j)' = IF j = r.key THEN RecordsOf(j) \cup {n} ELSE RecordsOf(j)
      /\ \A l : IsNewest(l, r.key)' <=> l = n
      /\ \A j : j # r.key => \A l : IsNewest(l, j)' <=> IsNewest(l, j)
  BY <1>0, <1>1, <1>2, <1>4, NewestWritten
<1>7. r.key = k /\ r.val = v
  BY DEF r
<1>8. index \in [AllKeys -> Location \cup {Nil}] /\ Nil \notin Location
  BY <1>0 DEF TypeOK, DistinctAssumption
<1>9. index' \in [AllKeys -> Location \cup {Nil}]
  BY <1>4, <1>5, <1>8
<1>10. \A j \in AllKeys : j # k => index'[j] = index[j]
  BY <1>8
<1>11. index'[k] = n \/ (v = Empty /\ index'[k] = Nil)
  BY <1>4, <1>8
<1>12. TypeOK'
  BY <1>2, <1>3, <1>9 DEF TypeOK
<1>13. OpenFileWhole'
  BY <1>2, <1>3 DEF OpenFileWhole
<1>14. ASSUME NEW j \in AllKeys
       PROVE  IF index'[j] # Nil THEN NewestOf(index'[j], RecordsOf(j)')
              ELSE \A l \in RecordsOf(j)' : IsNewest(l, j)' => At(l)'.val = Empty
  <2>0. \A l : IsNewest(l, j)' <=> NewestOf(l, RecordsOf(j)')
    BY DEF IsNewest, NewestOf, Older
  <2>1. CASE j = k /\ index'[k] = n
    BY <1>5, <1>6, <1>7, <1>8, <2>0, <2>1
  <2>2. CASE j = k /\ v = Empty /\ index'[k] = Nil
    BY <1>6, <1>7, <2>2
  <2>3. CASE j # k
    <3>1. index'[j] = index[j] /\ RecordsOf(j)' = RecordsOf(j)
          /\ \A l : IsNewest(l, j)' <=> IsNewest(l, j)
      BY <1>6, <1>7, <1>10, <2>3
    <3>2. \A l \in RecordsOf(j) : At(l)' = At(l)
      BY <1>0, <1>1, <1>2, RecordWritten DEF At, RecordsOf
    <3>3. IF index[j] # Nil THEN NewestOf(index[j], RecordsOf(j))
          ELSE \A l \in RecordsOf(j) : IsNewest(l, j) => At(l).val = Empty
      BY <1>0 DEF IndexTracksNewest, IsNewest, NewestOf
    <3>4. CASE index[j] # Nil
      BY <3>1, <3>3, <3>4
    <3>5. CASE index[j] = Nil
      BY <3>1, <3>2, <3>3, <3>5
    <3> QED
      BY <3>4, <3>5
  <2> QED
    BY <1>11, <2>1, <2>2, <2>3
<1>15. IndexTracksNewest'
  BY <1>14 DEF IndexTracksNewest, IsNewest, NewestOf
<1> QED
  BY <1>3, <1>12, <1>13, <1>15 DEF StoreInv

(* The end of the process keeps what is kept of the files.                  *)
LEMMA ProcessEnds ==
    ASSUME disk' \in Seq(Seq(Record)), Len(disk') <= MaxFiles, HasNewest', CutShortLast', Lose
    PROVE  StoreInv'
<1>1. NoIndex \in [AllKeys -> Location \cup {Nil}]
  BY DEF NoIndex
<1>2. TypeOK'
  BY <1>1 DEF TypeOK, Lose, NoIndex
<1>3. IndexTracksNewest' /\ OpenFileWhole'
  BY DEF IndexTracksNewest, OpenFileWhole, Lose
<1> QED
  BY <1>2, <1>3 DEF StoreInv

(* A record cut short is a record.                                          *)
LEMMA CutShortRecord ==
    ASSUME NEW k \in AllKeys, NEW v
    PROVE  CutShort(k, v) \subseteq Record
BY DEF CutShort, Record, AllKeys, AllValues

(* What is read depends on the files alone.                                 *)
LEMMA SameFiles ==
    ASSUME disk' = disk
    PROVE  /\ Locations' = Locations
           /\ \A l : At(l)' = At(l)
           /\ \A k : RecordsOf(k)' = RecordsOf(k)
           /\ \A l, k : IsNewest(l, k)' <=> IsNewest(l, k)
           /\ HasNewest => HasNewest'
           /\ CutShortLast => CutShortLast'
<1>1. Locations' = Locations /\ \A l : At(l)' = At(l)
  BY DEF Locations, At
<1>2. \A k : RecordsOf(k)' = RecordsOf(k)
  BY <1>1 DEF RecordsOf
<1>3. \A l, k : IsNewest(l, k)' <=> IsNewest(l, k)
  BY <1>2 DEF IsNewest, Older
<1>4. HasNewest => HasNewest'
  BY <1>1, <1>2, <1>3 DEF HasNewest
<1>5. CutShortLast => CutShortLast'
  BY <1>1 DEF CutShortLast
<1> QED
  BY <1>1, <1>2, <1>3, <1>4, <1>5

(* Without a change of the files or of the index nothing is lost.           *)
LEMMA NothingDone ==
    ASSUME StoreInv, UNCHANGED <<disk, up, index, currentId, open>>,
           clearing' \in SUBSET AllKeys, up \/ clearing' = clearing
    PROVE  StoreInv'
<1>1. TypeOK'
  BY DEF StoreInv, TypeOK, NoIndex
<1>2. HasNewest' /\ CutShortLast'
  BY SameFiles DEF StoreInv
<1>3. IndexTracksNewest'
  BY DEF StoreInv, IndexTracksNewest, IsNewest, RecordsOf, Locations, At, Older
<1>4. OpenFileWhole'
  BY DEF StoreInv, OpenFileWhole
<1> QED
  BY <1>1, <1>2, <1>3, <1>4 DEF StoreInv

-----------------------------------------------------------------------------
(* The invariant *)

LEMMA StoreInvInit ==
    ASSUME NumbersAssumption, Init
    PROVE  StoreInv
<1>1. Locations = {}
  BY DEF Init, Locations
<1>2. disk \in Seq(Seq(Record)) /\ Len(disk) = 0
  BY DEF Init
<1>3. MaxFiles \in Nat
  BY DEF NumbersAssumption
<1>4. TypeOK
  <2>1. index \in [AllKeys -> Location \cup {Nil}]
    BY DEF Init, NoIndex
  <2>2. up = FALSE /\ open = FALSE /\ clearing = {} /\ index = NoIndex /\ currentId = 0
    BY DEF Init
  <2>3. Len(disk) <= MaxFiles
    BY <1>2, <1>3
  <2> QED
    BY <1>2, <2>1, <2>2, <2>3 DEF TypeOK
<1> QED
  BY <1>1, <1>4 DEF Init, StoreInv, HasNewest, IndexTracksNewest, OpenFileWhole,
                    CutShortLast, RecordsOf

LEMMA StoreInvStep ==
    ASSUME NumbersAssumption, DistinctAssumption, MaxFiles < Radix, StoreInv, [Next]_vars
    PROVE  StoreInv'
<1>0. TypeOK /\ HasNewest /\ CutShortLast
  BY DEF StoreInv
<1>1. ASSUME NEW k \in Keys, NEW v \in Values \cup {Empty}, OnStore(k, v)
      PROVE  StoreInv'
  <2>1. up /\ WriteEntry(k, v) /\ index' = [index EXCEPT ![k] = NewLocation] /\ clearing' = clearing
    BY <1>1 DEF OnStore, Put, Idle, NewLocation
  <2>2. k \in AllKeys /\ clearing' \in SUBSET AllKeys
    BY <1>0, <2>1 DEF AllKeys, TypeOK
  <2> QED
    BY <2>1, <2>2, EntryWritten
<1>2. ASSUME NEW k \in AllKeys, OnRemove(k)
      PROVE  StoreInv'
  <2>1. up /\ WriteEntry(k, Empty) /\ index' = [index EXCEPT ![k] = Nil] /\ clearing' = clearing
    BY <1>2 DEF OnRemove, Delete, Idle
  <2>2. clearing' \in SUBSET AllKeys
    BY <1>0, <2>1 DEF TypeOK
  <2> QED
    BY <2>1, <2>2, EntryWritten
<1>3. CASE OnClear
  BY <1>3, NothingDone DEF OnClear, Idle
<1>4. CASE ClearNext
  <2>1. PICK k \in clearing : Delete(k) /\ clearing' = clearing \ {k}
    BY <1>4 DEF ClearNext
  <2>2. up /\ WriteEntry(k, Empty) /\ index' = [index EXCEPT ![k] = Nil]
    BY <1>4, <2>1 DEF ClearNext, Delete
  <2>3. k \in AllKeys /\ clearing' \in SUBSET AllKeys
    BY <1>0, <2>1 DEF TypeOK
  <2> QED
    BY <2>2, <2>3, EntryWritten
<1>5. CASE Start
  <2>1. /\ ~up /\ up' = TRUE /\ index' = LoadedIndex /\ currentId' = Len(disk)
        /\ disk' = disk /\ open' = open /\ clearing' = clearing
    BY <1>5 DEF Start
  <2>2. /\ disk \in Seq(Seq(Record)) /\ Len(disk) <= MaxFiles /\ open = FALSE
        /\ clearing = {}
    BY <1>0, <2>1 DEF TypeOK
  <2>3. /\ LoadedIndex \in [AllKeys -> Location \cup {Nil}]
        /\ \A k \in AllKeys : IF LoadedIndex[k] # Nil THEN NewestOf(LoadedIndex[k], RecordsOf(k))
                              ELSE RecordsOf(k) = {}
    BY <1>0, <2>2, LoadedTracks DEF IsNewest, NewestOf
  <2>4. TypeOK'
    BY <2>1, <2>2, <2>3 DEF TypeOK
  <2>5. HasNewest' /\ CutShortLast'
    BY <1>0, <2>1, SameFiles
  <2>6. \A k : RecordsOf(k)' = RecordsOf(k)
    BY <2>1, SameFiles
  <2>7. IndexTracksNewest'
    BY <2>1, <2>3, <2>6 DEF IndexTracksNewest, IsNewest, NewestOf
  <2>8. OpenFileWhole'
    BY <2>1, <2>2 DEF OpenFileWhole
  <2> QED
    BY <2>4, <2>5, <2>7, <2>8 DEF StoreInv
<1>6. CASE Stop
  <2>1. disk' = disk /\ Lose
    BY <1>6 DEF Stop
  <2>2. HasNewest' /\ CutShortLast'
    BY <1>0, <2>1, SameFiles
  <2>3. disk' \in Seq(Seq(Record)) /\ Len(disk') <= MaxFiles
    BY <1>0, <2>1 DEF TypeOK
  <2> QED
    BY <2>1, <2>2, <2>3, ProcessEnds
<1>7. ASSUME NEW k \in AllKeys, NEW v \in Values \cup {Empty}, StopWriting(k, v)
      PROVE  StoreInv'
  <2>1. /\ up /\ TargetId <= MaxFiles /\ Lose
        /\ \/ disk' = Opened
           \/ \E r \in CutShort(k, v) : disk' = [Opened EXCEPT ![TargetId] = Append(@, r)]
    BY <1>7 DEF StopWriting
  <2>2. CASE disk' = Opened
    BY <2>1, <2>2, FilesKeptOpening, ProcessEnds
  <2>3. CASE disk' # Opened
    <3>1. PICK r \in CutShort(k, v) : disk' = [Opened EXCEPT ![TargetId] = Append(@, r)]
      BY <2>1, <2>3
    <3>2. r \in Record
      BY CutShortRecord
    <3>3. disk' \in Seq(Seq(Record)) /\ Len(disk') = TargetId /\ HasNewest' /\ CutShortLast'
      BY <2>1, <3>1, <3>2, FilesKept
    <3> QED
      BY <2>1, <3>3, ProcessEnds
  <2> QED
    BY <2>2, <2>3
<1>8. CASE UNCHANGED vars
  BY <1>0, <1>8, NothingDone DEF vars, TypeOK
<1> QED
  BY <1>1, <1>2, <1>3, <1>4, <1>5, <1>6, <1>7, <1>8 DEF Next

LEMMA StoreInvariant ==
    ASSUME MaxFiles < Radix
    PROVE  Spec => []StoreInv
<1>1. Init => StoreInv
  BY StoreInvInit, NumbersAssumption
<1>2. StoreInv /\ [Next]_vars => StoreInv'
  BY StoreInvStep, NumbersAssumption, DistinctAssumption
<1> QED
  BY <1>1, <1>2, PTL DEF Spec

-----------------------------------------------------------------------------
(* Properties of the store *)

(* Types, and a running process knows how many data files there are.        *)
THEOREM StoreTypeCorrect ==
    ASSUME MaxFiles < Radix
    PROVE  Spec => []TypeOK
<1>1. StoreInv => TypeOK
  BY DEF StoreInv
<1> QED
  BY <1>1, StoreInvariant, PTL

(* The in-memory directory tracks the latest offset of each key, through    *)
(* puts, deletes, clears, ends of the process and LoadIndex, as long as the *)
(* names of the data files sort in the order of their ids.                  *)
THEOREM IndexCorrect ==
    ASSUME MaxFiles < Radix
    PROVE  Spec => []IndexTracksNewest
<1>1. StoreInv => IndexTracksNewest
  BY DEF StoreInv
<1> QED
  BY <1>1, StoreInvariant, PTL

(* Nothing is ever written behind a record that was cut short.              *)
THEOREM NothingBehindCutShort ==
    ASSUME MaxFiles < Radix
    PROVE  Spec => []CutShortLast
<1>1. StoreInv => CutShortLast
  BY DEF StoreInv
<1> QED
  BY <1>1, StoreInvariant, PTL

(* A step leaves the files as they are, opens the next one, or adds a       *)
(* record to the last one.                                                  *)
LEMMA StepOfFiles ==
    ASSUME DistinctAssumption, TypeOK, [Next]_vars, disk' # disk
    PROVE  /\ up /\ TargetId <= MaxFiles
           /\ \/ disk' = Opened
              \/ \E r \in Record : disk' = [Opened EXCEPT ![TargetId] = Append(@, r)]
<1>1. \A k \in AllKeys, v \in Values \cup {Empty} : [key |-> k, val |-> v] \in Record
  BY DEF Record, AllValues
<1>2. ASSUME NEW k \in AllKeys, NEW v \in Values \cup {Empty}, WriteEntry(k, v)
      PROVE  /\ TargetId <= MaxFiles
             /\ \E r \in Record : disk' = [Opened EXCEPT ![TargetId] = Append(@, r)]
  BY <1>1, <1>2 DEF WriteEntry
<1>3. ASSUME NEW k \in AllKeys, NEW v \in Values \cup {Empty}, StopWriting(k, v)
      PROVE  /\ up /\ TargetId <= MaxFiles
             /\ \/ disk' = Opened
                \/ \E r \in Record : disk' = [Opened EXCEPT ![TargetId] = Append(@, r)]
  BY <1>3, CutShortRecord DEF StopWriting
<1>4. ASSUME NEW k \in Keys, NEW v \in Values \cup {Empty}, OnStore(k, v)
      PROVE  up /\ k \in AllKeys /\ WriteEntry(k, v)
  BY <1>4 DEF OnStore, Idle, Put, AllKeys
<1>5. ASSUME NEW k \in AllKeys, OnRemove(k)
      PROVE  up /\ WriteEntry(k, Empty)
  BY <1>5 DEF OnRemove, Idle, Delete
<1>6. ASSUME ClearNext
      PROVE  up /\ \E k \in AllKeys : WriteEntry(k, Empty)
  BY <1>6 DEF ClearNext, Delete, TypeOK
<1>7. ~OnClear /\ ~Start /\ ~Stop /\ ~UNCHANGED vars
  BY DEF OnClear, Start, Stop, vars
<1> QED
  BY <1>2, <1>3, <1>4, <1>5, <1>6, <1>7 DEF Next

LEMMA PrefixOfItself ==
    ASSUME NEW s \in Seq(Record)
    PROVE  IsPrefix(s, s)
BY DEF IsPrefix

LEMMA PrefixOfAppend ==
    ASSUME NEW s \in Seq(Record), NEW r \in Record
    PROVE  IsPrefix(s, Append(s, r))
<1>1. Len(s) \in Nat /\ Append(s, r) \in Seq(Record) /\ Len(Append(s, r)) = Len(s) + 1
  OBVIOUS
<1>2. SubSeq(s, 1, Len(s)) = s
  BY <1>1
<1>3. SubSeq(Append(s, r), 1, Len(s)) = s
  BY <1>1
<1> QED
  BY <1>1, <1>2, <1>3 DEF IsPrefix

(* Data files are append-only, and only the last one grows.                 *)
THEOREM FilesAppendOnly ==
    ASSUME MaxFiles < Radix
    PROVE  Spec => AppendOnly
<1>1. ASSUME StoreInv, [Next]_vars, NEW f \in DOMAIN disk
      PROVE  IsPrefix(disk[f], disk'[f]) /\ (f < Len(disk) => disk'[f] = disk[f])
  <2>0. TypeOK /\ disk \in Seq(Seq(Record)) /\ disk[f] \in Seq(Record)
    BY <1>1 DEF StoreInv, TypeOK
  <2>1. CASE disk' = disk
    BY <2>0, <2>1, PrefixOfItself
  <2>2. CASE disk' # disk
    <3>1. /\ up /\ TargetId <= MaxFiles
          /\ \/ disk' = Opened
             \/ \E r \in Record : disk' = [Opened EXCEPT ![TargetId] = Append(@, r)]
      BY <1>1, <2>0, <2>2, StepOfFiles, DistinctAssumption
    <3>2. CASE disk' = Opened
      BY <2>0, <3>1, <3>2, EnsureFile, PrefixOfItself, NumbersAssumption
    <3>3. CASE disk' # Opened
      <4>1. PICK r \in Record : disk' = [Opened EXCEPT ![TargetId] = Append(@, r)]
        BY <3>1, <3>3
      <4>2. /\ \A g \in DOMAIN disk : g # TargetId => disk'[g] = disk[g]
            /\ TargetId \in DOMAIN disk => disk'[TargetId] = Append(disk[TargetId], r)
        BY <2>0, <3>1, <4>1, RecordWritten, NumbersAssumption
      <4>3. TargetId \in Nat /\ Len(disk) <= TargetId /\ f \in Nat /\ Len(disk) \in Nat
        <5>1. TargetId \in Nat /\ Len(disk) <= TargetId
          BY <2>0, <3>1, EnsureFile, NumbersAssumption
        <5>2. DOMAIN disk = 1..Len(disk) /\ Len(disk) \in Nat
          BY <2>0
        <5> QED
          BY <5>1, <5>2
      <4>4. CASE f = TargetId
        <5>1. disk'[f] = Append(disk[f], r)
          BY <4>2, <4>4
        <5>2. IsPrefix(disk[f], Append(disk[f], r))
          BY <2>0, PrefixOfAppend
        <5>3. ~(f < Len(disk))
          BY <4>3, <4>4
        <5> QED
          BY <5>1, <5>2, <5>3
      <4>5. CASE f # TargetId
        BY <2>0, <4>2, <4>5, PrefixOfItself
      <4> QED
        BY <4>4, <4>5
    <3> QED
      BY <3>2, <3>3
  <2> QED
    BY <2>1, <2>2
<1>2. StoreInv /\ [Next]_vars =>
          [\A f \in DOMAIN disk : /\ IsPrefix(disk[f], disk'[f])
                                  /\ f < Len(disk) => disk'[f] = disk[f]]_vars
  BY <1>1
<1> QED
  BY <1>2, StoreInvariant, PTL DEF Spec, AppendOnly

-----------------------------------------------------------------------------
(* The store is a durable map *)

Shown(v) == IF v = Empty THEN Nil ELSE v

(* What the newest record of k holds. *)
Held(k) ==
    IF RecordsOf(k) = {} THEN Nil ELSE Shown(At(CHOOSE l : IsNewest(l, k)).val)

LEMMA HeldByNewest ==
    StoreInv => \A k \in AllKeys : /\ RecordsOf(k) = {} => Held(k) = Nil
                                   /\ \A l : IsNewest(l, k) => Held(k) = Shown(At(l).val)
<1> SUFFICES ASSUME StoreInv, NEW k \in AllKeys
             PROVE  /\ RecordsOf(k) = {} => Held(k) = Nil
                    /\ \A l : IsNewest(l, k) => Held(k) = Shown(At(l).val)
  OBVIOUS
<1>1. RecordsOf(k) = {} => Held(k) = Nil
  BY DEF Held
<1>2. ASSUME NEW l, IsNewest(l, k) PROVE Held(k) = Shown(At(l).val)
  <2>1. disk \in Seq(Seq(Record))
    BY DEF StoreInv, TypeOK
  <2>2. (CHOOSE m : IsNewest(m, k)) = l
    BY <1>2, <2>1, NewestUnique
  <2>3. RecordsOf(k) # {}
    BY <1>2 DEF IsNewest
  <2> QED
    BY <2>2, <2>3 DEF Held
<1> QED
  BY <1>1, <1>2

Kept == EntriesBy(IF up THEN index ELSE LoadedIndex)

(* Whether the process runs or not, the entries are what the newest records *)
(* hold.                                                                    *)
LEMMA KeptIsHeld ==
    MaxFiles < Radix /\ StoreInv => Kept = [k \in AllKeys |-> Held(k)]
<1> SUFFICES ASSUME MaxFiles < Radix, StoreInv
             PROVE  Kept = [k \in AllKeys |-> Held(k)]
  OBVIOUS
<1> DEFINE ix == IF up THEN index ELSE LoadedIndex
<1>1. disk \in Seq(Seq(Record)) /\ Len(disk) <= MaxFiles /\ HasNewest
  BY DEF StoreInv, TypeOK
<1>2. ASSUME NEW k \in AllKeys
      PROVE  IF ix[k] # Nil THEN IsNewest(ix[k], k)
             ELSE \A l \in RecordsOf(k) : IsNewest(l, k) => At(l).val = Empty
  <2>1. CASE up
    BY <2>1 DEF StoreInv, IndexTracksNewest
  <2>2. CASE ~up
    BY <1>1, <2>2, LoadedTracks, NumbersAssumption, DistinctAssumption
  <2> QED
    BY <2>1, <2>2
<1> HIDE DEF ix
<1>3. ASSUME NEW k \in AllKeys
      PROVE  Held(k) = IF ix[k] = Nil THEN Nil ELSE Shown(At(ix[k]).val)
  <2>1. CASE ix[k] # Nil
    BY <1>2, <2>1, HeldByNewest
  <2>2. CASE ix[k] = Nil /\ RecordsOf(k) = {}
    BY <2>2, HeldByNewest
  <2>3. CASE ix[k] = Nil /\ RecordsOf(k) # {}
    <3>1. PICK l \in Locations : IsNewest(l, k)
      BY <1>1, <2>3 DEF HasNewest
    <3>2. l \in RecordsOf(k)
      BY <3>1 DEF IsNewest
    <3>3. At(l).val = Empty
      BY <1>2, <2>3, <3>1, <3>2
    <3> QED
      BY <2>3, <3>1, <3>3, HeldByNewest DEF Shown
  <2> QED
    BY <2>1, <2>2, <2>3
<1>4. Kept = [k \in AllKeys |-> IF ix[k] = Nil THEN Nil ELSE Shown(At(ix[k]).val)]
  BY DEF Kept, EntriesBy, Shown, ix
<1> QED
  BY <1>3, <1>4

(* A record written changes what is held for its key alone.                 *)
LEMMA HeldAfterWrite ==
    ASSUME StoreInv, StoreInv', up, TargetId <= MaxFiles,
           NEW r \in Record, disk' = [Opened EXCEPT ![TargetId] = Append(@, r)]
    PROVE  \A k \in AllKeys : Held(k)' = IF k = r.key THEN Shown(r.val) ELSE Held(k)
<1>0. TypeOK
  BY DEF StoreInv
<1>1. PICK n : n = NewLocation
  OBVIOUS
<1>2. /\ At(n)' = r
      /\ \A k : RecordsOf(k)' = IF k = r.key THEN RecordsOf(k) \cup {n} ELSE RecordsOf(k)
      /\ \A l : IsNewest(l, r.key)' <=> l = n
      /\ \A k : k # r.key => \A l : IsNewest(l, k)' <=> IsNewest(l, k)
  BY <1>0, <1>1, NewestWritten, NumbersAssumption
<1>3. \A k \in AllKeys : /\ RecordsOf(k) = {} => Held(k) = Nil
                         /\ \A l : IsNewest(l, k) => Held(k) = Shown(At(l).val)
  BY HeldByNewest
<1>4. (\A k \in AllKeys : /\ RecordsOf(k) = {} => Held(k) = Nil
                          /\ \A l : IsNewest(l, k) => Held(k) = Shown(At(l).val))'
  BY HeldByNewest, PTL
<1>5. \A l \in Locations : At(l)' = At(l)
  BY <1>0, RecordWritten, NumbersAssumption DEF At
<1> SUFFICES ASSUME NEW k \in AllKeys
             PROVE  Held(k)' = IF k = r.key THEN Shown(r.val) ELSE Held(k)
  OBVIOUS
<1>6. CASE k = r.key
  BY <1>2, <1>4, <1>6 DEF Shown
<1>7. CASE k # r.key /\ RecordsOf(k) = {}
  BY <1>2, <1>3, <1>4, <1>7
<1>8. CASE k # r.key /\ RecordsOf(k) # {}
  <2>1. PICK l \in Locations : IsNewest(l, k)
    BY <1>8 DEF StoreInv, HasNewest
  <2> QED
    BY <1>2, <1>3, <1>4, <1>5, <1>8, <2>1 DEF Shown
<1> QED
  BY <1>6, <1>7, <1>8

(* Without a record written what is held stays.                             *)
LEMMA HeldStays ==
    ASSUME StoreInv, StoreInv', disk' = disk \/ (up /\ disk' = Opened)
    PROVE  \A k \in AllKeys : Held(k)' = Held(k)
<1>1. /\ Locations' = Locations /\ \A l \in Locations : At(l)' = At(l)
      /\ \A k : RecordsOf(k)' = RecordsOf(k)
      /\ \A k, l : IsNewest(l, k)' <=> IsNewest(l, k)
  BY SameFiles, NothingWritten, NumbersAssumption DEF StoreInv
<1>2. \A k \in AllKeys : /\ RecordsOf(k) = {} => Held(k) = Nil
                         /\ \A l : IsNewest(l, k) => Held(k) = Shown(At(l).val)
  BY HeldByNewest
<1>3. (\A k \in AllKeys : /\ RecordsOf(k) = {} => Held(k) = Nil
                          /\ \A l : IsNewest(l, k) => Held(k) = Shown(At(l).val))'
  BY HeldByNewest, PTL
<1> SUFFICES ASSUME NEW k \in AllKeys PROVE Held(k)' = Held(k)
  OBVIOUS
<1>4. CASE RecordsOf(k) = {}
  BY <1>1, <1>2, <1>3, <1>4
<1>5. CASE RecordsOf(k) # {}
  <2>1. PICK l \in Locations : IsNewest(l, k)
    BY <1>5 DEF StoreInv, HasNewest
  <2> QED
    BY <1>1, <1>2, <1>3, <1>5, <2>1 DEF Shown
<1> QED
  BY <1>4, <1>5

(* What the steps do to the entries, the processes left out.                *)
LEMMA KeptAfterStep ==
    ASSUME MaxFiles < Radix, StoreInv, StoreInv'
    PROVE  /\ disk' = disk \/ (up /\ disk' = Opened) => Kept' = Kept
           /\ \A r \in Record :
                 /\ up /\ TargetId <= MaxFiles
                 /\ disk' = [Opened EXCEPT ![TargetId] = Append(@, r)]
                 => Kept' = [Kept EXCEPT ![r.key] = Shown(r.val)]
<1>1. Kept = [k \in AllKeys |-> Held(k)]
  BY KeptIsHeld
<1>2. Kept' = [k \in AllKeys |-> Held(k)']
  <2>1. (MaxFiles < Radix /\ StoreInv => Kept = [k \in AllKeys |-> Held(k)])'
    BY KeptIsHeld, PTL
  <2> QED
    BY <2>1
<1>3. ASSUME disk' = disk \/ (up /\ disk' = Opened)
      PROVE  Kept' = Kept
  BY <1>1, <1>2, <1>3, HeldStays
<1>4. ASSUME NEW r \in Record, up, TargetId <= MaxFiles,
             disk' = [Opened EXCEPT ![TargetId] = Append(@, r)]
      PROVE  Kept' = [Kept EXCEPT ![r.key] = Shown(r.val)]
  <2>1. \A k \in AllKeys : Held(k)' = IF k = r.key THEN Shown(r.val) ELSE Held(k)
    BY <1>4, HeldAfterWrite
  <2> QED
    BY <1>1, <1>2, <2>1
<1> QED
  BY <1>3, <1>4

LEMMA StartsEmpty ==
    ASSUME MaxFiles < Radix, Init
    PROVE  DMap!Init
<1>1. StoreInv
  BY StoreInvInit, NumbersAssumption
<1>2. Kept = [k \in AllKeys |-> Held(k)]
  BY <1>1, KeptIsHeld
<1>3. \A k \in AllKeys : RecordsOf(k) = {}
  BY DEF Init, RecordsOf, Locations
<1>4. Kept = [k \in AllKeys |-> Nil]
  BY <1>1, <1>2, <1>3, HeldByNewest
<1> QED
  BY <1>4 DEF Init, DMap!Init, DMap!AllKeys, AllKeys, Kept

(* Every step is one of the durable map or leaves it alone.                 *)
LEMMA StepsOfMap ==
    ASSUME MaxFiles < Radix, StoreInv, StoreInv', [Next]_vars
    PROVE  [DMap!Next]_(DMap!vars)
<1>1. disk' = disk \/ (up /\ disk' = Opened) => Kept' = Kept
  BY KeptAfterStep
<1>2. \A r \in Record :
          /\ up /\ TargetId <= MaxFiles
          /\ disk' = [Opened EXCEPT ![TargetId] = Append(@, r)]
          => Kept' = [Kept EXCEPT ![r.key] = Shown(r.val)]
  BY KeptAfterStep
<1>3. ASSUME NEW k \in AllKeys, NEW v \in Values \cup {Empty}, up, WriteEntry(k, v)
      PROVE  DMap!Write
  <2> DEFINE r == [key |-> k, val |-> v]
  <2>1. r \in Record /\ r.key = k /\ r.val = v
    BY DEF Record, AllValues
  <2>2. /\ TargetId <= MaxFiles /\ up' = up
        /\ disk' = [Opened EXCEPT ![TargetId] = Append(@, r)]
    BY <1>3 DEF WriteEntry
  <2> HIDE DEF r
  <2>3. Kept' = [Kept EXCEPT ![k] = Shown(v)]
    BY <1>2, <1>3, <2>1, <2>2
  <2>4. Shown(v) \in Values \cup {Nil}
    BY DEF Shown
  <2> QED
    BY <1>3, <2>2, <2>3, <2>4 DEF DMap!Write, DMap!With, DMap!AllKeys, AllKeys, Kept
<1>4. ASSUME NEW k \in Keys, NEW v \in Values \cup {Empty}, OnStore(k, v)
      PROVE  DMap!Write
  <2>1. up /\ k \in AllKeys /\ WriteEntry(k, v)
    BY <1>4 DEF OnStore, Idle, Put, AllKeys
  <2> QED
    BY <1>3, <2>1
<1>5. ASSUME NEW k \in AllKeys, OnRemove(k)
      PROVE  DMap!Write
  <2>1. up /\ WriteEntry(k, Empty)
    BY <1>5 DEF OnRemove, Idle, Delete
  <2> QED
    BY <1>3, <2>1
<1>6. ASSUME ClearNext
      PROVE  DMap!Write
  <2>1. PICK k \in AllKeys : up /\ WriteEntry(k, Empty)
    BY <1>6 DEF ClearNext, Delete, StoreInv, TypeOK
  <2> QED
    BY <1>3, <2>1
<1>7. CASE Start
  <2>1. ~up /\ up' = TRUE /\ disk' = disk
    BY <1>7 DEF Start
  <2>2. Kept' = Kept
    BY <1>1, <2>1
  <2> QED
    BY <2>1, <2>2 DEF DMap!Next, DMap!Start, Kept
<1>8. CASE Stop
  <2>1. up /\ up' = FALSE /\ disk' = disk
    BY <1>8 DEF Stop, Lose
  <2>2. Kept' = Kept
    BY <1>1, <2>1
  <2> QED
    BY <2>1, <2>2 DEF DMap!Next, DMap!Stop, Kept
<1>9. ASSUME NEW k \in AllKeys, NEW v \in Values \cup {Empty}, StopWriting(k, v)
      PROVE  DMap!Stop
  <2>1. up /\ TargetId <= MaxFiles /\ up' = FALSE
    BY <1>9 DEF StopWriting, Lose
  <2>2. CASE disk' = Opened
    <3>1. Kept' = Kept
      BY <1>1, <2>1, <2>2
    <3> QED
      BY <2>1, <3>1 DEF DMap!Stop, Kept
  <2>3. CASE disk' # Opened
    <3>1. PICK r \in CutShort(k, v) : disk' = [Opened EXCEPT ![TargetId] = Append(@, r)]
      BY <1>9, <2>3 DEF StopWriting
    <3>2. r \in Record
      BY CutShortRecord
    <3>3. Kept' = [Kept EXCEPT ![r.key] = Shown(r.val)]
      BY <1>2, <2>1, <3>1, <3>2
    <3>4. \/ r.key = Phantom /\ r.val = Empty
          \/ r.key \in AllKeys /\ r.val = Spoilt
      BY DEF CutShort, AllKeys
    <3>5. Shown(Empty) = Nil /\ Shown(Spoilt) = Spoilt
      BY DistinctAssumption DEF Shown, DistinctAssumption
    <3>6. \/ Kept' = [Kept EXCEPT ![Phantom] = Nil]
          \/ \E j \in AllKeys : Kept' = [Kept EXCEPT ![j] = Spoilt]
      BY <3>3, <3>4, <3>5
    <3> QED
      BY <2>1, <3>6 DEF DMap!Stop, DMap!With, DMap!AllKeys, AllKeys, Kept
  <2> QED
    BY <2>2, <2>3
<1>10. CASE OnClear \/ UNCHANGED vars
  <2>1. up' = up /\ disk' = disk
    BY <1>10 DEF OnClear, vars
  <2>2. Kept' = Kept
    BY <1>1, <2>1
  <2> QED
    BY <2>1, <2>2 DEF DMap!vars, Kept
<1> QED
  BY <1>4, <1>5, <1>6, <1>7, <1>8, <1>9, <1>10 DEF Next, DMap!Next

(* The store is a durable map: what was put last is found at the next       *)
(* start, whatever the keys, the values, their sizes and the number of data *)
(* files, and what was deleted is not.                                      *)
THEOREM StoreDurable ==
    ASSUME MaxFiles < Radix
    PROVE  Spec => Durable
<1>1. Init => DMap!Init
  BY StartsEmpty
<1>2. StoreInv /\ StoreInv' /\ [Next]_vars => [DMap!Next]_(DMap!vars)
  BY StepsOfMap
<1> QED
  BY <1>1, <1>2, StoreInvariant, PTL DEF Spec, Durable, DMap!Spec
=============================================================================
