-------------------------- MODULE LibrarySyncProofs --------------------------
(***************************************************************************)
(* Every write of the library is recorded in the change log, and so a      *)
(* client that follows the log has the library: proofs for all sets of     *)
(* assets, tags and albums, page sizes and lengths of the log.  The one    *)
(* write that is not recorded, another media kind or creation time for an  *)
(* asset that is shown, is in the claim: it leaves the asset with no other *)
(* difference, and the asset's next event makes it good.                   *)
(***************************************************************************)
EXTENDS LibrarySync, TLAPS, FiniteSetTheorems

\* The log still holds a change of asset i after sequence n.
Pending(i, n) ==
  \E e \in events : e.kind = "asset" /\ e.id = i /\ e.seq > n

\* Change events of assets name assets.
AssetEvents == \A e \in events : e.kind = "asset" => e.id \in Ids

\* A client that has not finished its walk holds no page and no album.
BeforeReplay ==
  /\ phase = "new" => walked = 0
  /\ phase # "live" => /\ upto = NoPage
                       /\ \A al \in Albums : albums[al] = Unread
                       /\ \A i \in Ids : i > walked => cache[i] = Missing

\* Assets the walk has passed.
Passed(i) == phase = "live" \/ (phase = "walk" /\ i <= walked)

\* What the client has is current, or a change of it is still to be replayed.
CacheFollows == \A i \in Ids : Passed(i) => cache[i] \in Recent(i) \/ Pending(i, after)
AlbumsFollow ==
  \A al \in Albums : \/ albums[al] = Unread \/ albums[al] = AlbumPage(al)
                     \/ \E e \in events : e.seq > after

\* The page in hand names every asset changed up to its cursor, and what was
\* read for it is current or will be read again.
PageComplete ==
  upto # NoPage =>
    /\ upto > after
    /\ \A e \in events :
         e.kind = "asset" /\ e.seq > after /\ e.seq <= upto => e.id \in todo
PageFollows ==
  upto # NoPage =>
    \A i \in todo : got[i] = Unread \/ got[i] \in Recent(i) \/ Pending(i, upto)

IInv == /\ LibraryTypeOK /\ AssetEvents /\ BeforeReplay
        /\ CacheFollows /\ AlbumsFollow /\ PageComplete /\ PageFollows

\* A write leaves the log complete: what it makes stale, it records.
Recorded ==
  /\ events \subseteq events'
  /\ \A e \in events' \ events : e.seq > counter
  /\ \A i \in Ids : Recent(i) \subseteq Recent(i)'
                      \/ \E e \in events' : e.kind = "asset" /\ e.id = i /\ e.seq > counter
  /\ \A al \in Albums : AlbumPage(al)' = AlbumPage(al)
                          \/ \E e \in events' : e.seq > counter

\* The type of what a write changes.
WriteTypeOK ==
  /\ born' \subseteq Ids /\ present' \subseteq born'
  /\ row' \in [Ids -> Row]
  /\ tags' \subseteq Tags /\ tagged' \subseteq tags' \X present'
  /\ members' \subseteq Albums \X present'
  /\ events' \subseteq [seq : 1 .. counter', kind : {"asset", "tag", "album"},
                        id : Ids \cup Tags \cup Albums]
  /\ counter' \in counter .. MaxSequence
  /\ restated' \subseteq Shown'
  /\ \A e \in events' : e.kind = "asset" => e.id \in Ids

-----------------------------------------------------------------------------
(***************************************************************************)
(* Pages: a page is all rows up to its cursor.                             *)
(***************************************************************************)

LEMMA PageIsPrefix ==
  ASSUME NEW S, IsFiniteSet(S), S \subseteq Nat, NEW n \in Nat,
         NEW c \in Cursor(S, n)
  PROVE  /\ c \in S
         /\ \A x \in S : x \in PageOf(S, n) <=> x <= c
<1>1. c \in PageOf(S, n) /\ \A y \in PageOf(S, n) : y <= c
  BY DEF Cursor, LastOf
<1>2. c \in S /\ Cardinality({y \in S : y <= c}) <= n
  BY <1>1 DEF PageOf
<1>3. ASSUME NEW x \in S, x <= c
      PROVE  x \in PageOf(S, n)
  <2>1. {y \in S : y <= x} \subseteq {y \in S : y <= c}
    <3>1. ASSUME NEW y \in S, y <= x PROVE y <= c
      <4>1. x \in Nat /\ y \in Nat /\ c \in Nat
        BY <1>2
      <4> QED BY <4>1, <3>1, <1>3
    <3> QED BY <3>1
  <2>2. IsFiniteSet({y \in S : y <= c})
    BY FS_Subset
  <2>3. /\ IsFiniteSet({y \in S : y <= x})
        /\ Cardinality({y \in S : y <= x}) <= Cardinality({y \in S : y <= c})
    BY <2>1, <2>2, FS_Subset
  <2>4. Cardinality({y \in S : y <= x}) \in Nat /\ Cardinality({y \in S : y <= c}) \in Nat
    BY <2>2, <2>3, FS_CardinalityType
  <2>5. Cardinality({y \in S : y <= x}) <= n
    BY <1>2, <2>3, <2>4
  <2> QED BY <2>5 DEF PageOf
<1> QED BY <1>1, <1>2, <1>3

LEMMA LastPageIsAll ==
  ASSUME NEW S, IsFiniteSet(S), NEW n \in Nat, ~(Cardinality(S) > n)
  PROVE  PageOf(S, n) = S
<1>1. ASSUME NEW x \in S PROVE Cardinality({y \in S : y <= x}) <= n
  <2>1. /\ IsFiniteSet({y \in S : y <= x})
        /\ Cardinality({y \in S : y <= x}) <= Cardinality(S)
    BY FS_Subset
  <2>2. Cardinality({y \in S : y <= x}) \in Nat /\ Cardinality(S) \in Nat
    BY <2>1, FS_CardinalityType
  <2> QED BY <2>1, <2>2
<1> QED BY <1>1 DEF PageOf

LEMMA IdsFinite == IsFiniteSet(Ids) /\ Ids \subseteq Nat
<1>1. IsFiniteSet(1 .. LastId)
  BY FS_Interval, LibraryAssumption
<1> QED BY <1>1, LibraryAssumption DEF Ids

-----------------------------------------------------------------------------
(***************************************************************************)
(* Recording.                                                              *)
(***************************************************************************)

EventType(n) == [seq : 1 .. n, kind : {"asset", "tag", "album"},
                 id : Ids \cup Tags \cup Albums]

\* What one or more record_change calls do to the log.
Appended ==
  /\ events \subseteq events'
  /\ \A e \in events' \ events : e.seq > counter
  /\ events' \subseteq EventType(counter')
  /\ counter' \in counter .. MaxSequence
  /\ \A e \in events' : e.kind = "asset" => e.id \in Ids

LEMMA RecordAppends ==
  ASSUME NEW kind \in {"asset", "tag", "album"}, NEW id \in Ids \cup Tags \cup Albums,
         kind = "asset" => id \in Ids,
         LibraryTypeOK, AssetEvents, Record(kind, id)
  PROVE  /\ Appended
         /\ \E e \in events' : e.kind = kind /\ e.id = id /\ e.seq > counter
         /\ restated' \subseteq restated
         /\ \A j : j # id \/ kind # "asset" => (j \in restated' <=> j \in restated)
         /\ kind = "asset" => id \notin restated'
<1> DEFINE new == Event(counter + 1, kind, id)
<1>1. /\ counter \in Nat /\ counter < MaxSequence /\ MaxSequence \in Nat
      /\ counter' = counter + 1 /\ events' = events \cup {new}
      /\ events \subseteq EventType(counter)
  BY LibraryAssumption DEF LibraryTypeOK, Record, EventType
<1>2. /\ new.seq = counter + 1 /\ new.kind = kind /\ new.id = id
      /\ new \in EventType(counter + 1)
  BY <1>1 DEF Event, EventType
<1>3. EventType(counter) \subseteq EventType(counter + 1)
  BY <1>1 DEF EventType
<1>4. events' \subseteq EventType(counter')
  BY <1>1, <1>2, <1>3
<1>5. counter' \in counter .. MaxSequence /\ new.seq > counter
  BY <1>1, <1>2
<1>6. \A e \in events' : e.kind = "asset" => e.id \in Ids
  BY <1>1, <1>2 DEF AssetEvents
<1>7. /\ restated' \subseteq restated
      /\ \A j : j # id \/ kind # "asset" => (j \in restated' <=> j \in restated)
      /\ kind = "asset" => id \notin restated'
  BY DEF Record
<1> HIDE DEF new
<1> QED BY <1>1, <1>2, <1>4, <1>5, <1>6, <1>7 DEF Appended

LEMMA RecordAllAppends ==
  ASSUME NEW S \in SUBSET Ids, NEW t \in Tags,
         LibraryTypeOK, AssetEvents, RecordAll(S, t)
  PROVE  /\ Appended
         /\ \A i \in S : \E e \in events' : e.kind = "asset" /\ e.id = i /\ e.seq > counter
         /\ \E e \in events' : e.seq > counter
         /\ restated' = restated \ S
<1> DEFINE k == Cardinality(S)
           last == Event(counter + k + 1, "tag", t)
<1>1. k \in Nat
  BY IdsFinite, FS_Subset, FS_CardinalityType
<1>2. PICK at \in [S -> counter + 1 .. counter + k] :
        events' = events \cup {Event(at[i], "asset", i) : i \in S} \cup {last}
  BY DEF RecordAll
<1>3. /\ counter \in Nat /\ counter + k < MaxSequence /\ MaxSequence \in Nat
      /\ counter' = counter + k + 1 /\ events \subseteq EventType(counter)
  BY LibraryAssumption DEF LibraryTypeOK, RecordAll, EventType
<1> HIDE DEF k
<1>4. /\ last \in EventType(counter') /\ last.seq > counter /\ last.kind = "tag"
      /\ last \in events'
  BY <1>1, <1>2, <1>3 DEF Event, EventType
<1>5. ASSUME NEW i \in S
      PROVE  LET e == Event(at[i], "asset", i)
             IN  /\ e \in EventType(counter') /\ e.seq > counter
                 /\ e.kind = "asset" /\ e.id = i /\ e \in events'
  <2>1. at[i] \in counter + 1 .. counter + k
    BY <1>2
  <2>2. at[i] \in 1 .. counter' /\ at[i] > counter
    BY <2>1, <1>1, <1>3
  <2>3. i \in Ids
    OBVIOUS
  <2> QED BY <1>2, <2>2, <2>3 DEF Event, EventType
<1>6. EventType(counter) \subseteq EventType(counter')
  BY <1>1, <1>3 DEF EventType
<1>7. \A e \in events' : e \in events \/ e = last \/ \E i \in S : e = Event(at[i], "asset", i)
  BY <1>2
<1> HIDE DEF last
<1>8. Appended
  <2>1. events \subseteq events'
    BY <1>2
  <2>2. \A e \in events' \ events : e.seq > counter
    BY <1>4, <1>5, <1>7
  <2>3. events' \subseteq EventType(counter')
    BY <1>3, <1>4, <1>5, <1>6, <1>7
  <2>4. counter' \in counter .. MaxSequence
    BY <1>1, <1>3
  <2>5. \A e \in events' : e.kind = "asset" => e.id \in Ids
    BY <1>4, <1>5, <1>7 DEF AssetEvents
  <2> QED BY <2>1, <2>2, <2>3, <2>4, <2>5 DEF Appended
<1>9. restated' = restated \ S
  BY DEF RecordAll
<1> QED BY <1>4, <1>5, <1>8, <1>9

LEMMA SameView ==
  ASSUME NEW i, i \in present' <=> i \in present,
         i \in present => row'[i] = row[i],
         \A t \in Tags : <<t, i>> \in tagged' <=> <<t, i>> \in tagged
  PROVE  /\ View(i)' = View(i) /\ TagNames(i)' = TagNames(i)
         /\ (i \in Shown)' <=> i \in Shown
<1>1. TagNames(i)' = TagNames(i)
  BY DEF TagNames
<1>2. (i \in Shown)' <=> i \in Shown
  BY DEF Shown
<1>3. i \in Shown => row'[i] = row[i]
  BY DEF Shown
<1> QED BY <1>1, <1>2, <1>3 DEF View

LEMMA SameRecent ==
  ASSUME LibraryTypeOK,
         NEW i, i \in present' <=> i \in present,
         i \in present => row'[i] = row[i],
         \A t \in Tags : <<t, i>> \in tagged' <=> <<t, i>> \in tagged,
         i \in restated' <=> i \in restated
  PROVE  Recent(i)' = Recent(i) /\ ((i \in Shown)' <=> i \in Shown)
<1>1. View(i)' = View(i) /\ TagNames(i)' = TagNames(i) /\ ((i \in Shown)' <=> i \in Shown)
  BY SameView
<1>2. i \in restated => row'[i] = row[i]
  BY DEF LibraryTypeOK, Shown
<1> QED BY <1>1, <1>2 DEF Recent

\* What a read answers now is always among what a copy may have.
LEMMA ViewRecent ==
  ASSUME LibraryTypeOK, NEW i \in Ids
  PROVE  View(i) \in Recent(i)
<1>1. CASE i \in restated
  <2>1. i \in Shown /\ row[i] \in Row
    BY <1>1 DEF LibraryTypeOK
  <2>2. row[i].info \in Infos /\ row[i] = [row[i] EXCEPT !.info = row[i].info]
    BY <2>1 DEF Row
  <2> QED BY <1>1, <2>1, <2>2 DEF View, Recent
<1>2. CASE i \notin restated
  BY <1>2 DEF Recent
<1> QED BY <1>1, <1>2

-----------------------------------------------------------------------------
(***************************************************************************)
(* Every write is recorded.                                                *)
(***************************************************************************)

\* A write that records asset i and changes nothing of the others.
LEMMA AssetWriteRecorded ==
  ASSUME NEW i \in Ids, LibraryTypeOK, AssetEvents, Record("asset", i),
         \A j \in Ids : j # i =>
           /\ j \in present' <=> j \in present
           /\ j \in present => row'[j] = row[j]
           /\ \A t \in Tags : <<t, j>> \in tagged' <=> <<t, j>> \in tagged
  PROVE  Recorded /\ Appended /\ restated' \subseteq Shown'
<1>1. /\ Appended
      /\ \E e \in events' : e.kind = "asset" /\ e.id = i /\ e.seq > counter
      /\ restated' \subseteq restated /\ i \notin restated'
      /\ \A j : j # i => (j \in restated' <=> j \in restated)
  BY RecordAppends
<1>2. ASSUME NEW j \in Ids, j # i
      PROVE  Recent(j)' = Recent(j) /\ ((j \in Shown)' <=> j \in Shown)
  BY <1>1, <1>2, SameRecent
<1>3. Recorded
  BY <1>1, <1>2 DEF Recorded, Appended
<1>4. restated' \subseteq Shown'
  <2>1. restated \subseteq Shown /\ restated \subseteq Ids
    BY DEF LibraryTypeOK, Shown
  <2> QED BY <1>1, <1>2, <2>1
<1> QED BY <1>1, <1>3, <1>4

\* A write that changes nothing of any asset.
LEMMA OtherWriteKeeps ==
  ASSUME LibraryTypeOK, UNCHANGED <<present, row, tagged>>, restated' \subseteq restated,
         \A j \in restated : j \in restated'
  PROVE  /\ \A j \in Ids : Recent(j)' = Recent(j)
         /\ restated' \subseteq Shown'
<1>1. ASSUME NEW j \in Ids PROVE Recent(j)' = Recent(j)
  BY SameRecent
<1>2. restated' \subseteq Shown'
  BY DEF LibraryTypeOK, Shown
<1> QED BY <1>1, <1>2

Library == UploadWrite \/ AssetWrite \/ TagWrite \/ AlbumWrite \/ OtherAccount

LEMMA RowType ==
  ASSUME LibraryTypeOK, NEW i \in Ids
  PROVE  /\ row[i] \in Row
         /\ \A x \in Infos, fav \in BOOLEAN : Upserted(i, x, fav) \in Row
         /\ \A c \in Contents : [row[i] EXCEPT !.content = c] \in Row
         /\ \A fav \in BOOLEAN : [row[i] EXCEPT !.favorite = fav] \in Row
         /\ \A b \in BOOLEAN : [row[i] EXCEPT !.trashed = b] \in Row
<1>1. row[i] \in Row
  BY DEF LibraryTypeOK
<1>2. \A x \in Infos, fav \in BOOLEAN : Upserted(i, x, fav) \in Row
  BY <1>1 DEF Upserted, Row
<1> QED BY <1>1, <1>2 DEF Row

LEMMA CreateUploadRecorded ==
  ASSUME LibraryTypeOK, AssetEvents,
         NEW i \in Ids, NEW x \in Infos, NEW fav \in BOOLEAN, CreateUpload(i, x, fav)
  PROVE  Recorded /\ WriteTypeOK
<1>1. /\ row \in [Ids -> Row] /\ row[i] \in Row
      /\ row' = [row EXCEPT ![i] = Upserted(i, x, fav)]
      /\ present' = present \cup {i} /\ born' = born \cup {i}
      /\ UNCHANGED <<tags, tagged, members, events, counter>>
  BY RowType DEF LibraryTypeOK, CreateUpload
<1>2. i \in present => Upserted(i, x, fav) = [row[i] EXCEPT !.info = x]
  BY DEF Upserted
<1>3. i \notin present => Upserted(i, x, fav).content = NoContent
  BY DEF Upserted
<1>4. Shown' = Shown /\ Shown \subseteq Ids
  <2>1. i \in present => row'[i].content = row[i].content
    BY <1>1, <1>2 DEF Row
  <2> QED BY <1>1, <1>3, <2>1 DEF Shown, LibraryTypeOK
<1>5. \A j \in Shown : j # i => row'[j] = row[j]
  BY <1>1, <1>4
<1>6. ASSUME NEW j \in Ids PROVE Recent(j) \subseteq Recent(j)'
  <2>1. TagNames(j)' = TagNames(j)
    BY <1>1 DEF TagNames
  <2>2. j # i => (j \in restated' <=> j \in restated)
    BY DEF CreateUpload
  <2>3. CASE j # i \/ j \notin Shown
    <3>1. View(j)' = View(j)
      BY <1>4, <1>5, <2>1, <2>3 DEF View
    <3>2. (j \in restated' <=> j \in restated) /\ (j \in restated => row'[j] = row[j])
      BY <1>5, <2>2, <2>3 DEF CreateUpload, LibraryTypeOK
    <3> QED BY <2>1, <3>1, <3>2 DEF Recent
  <2>4. CASE j = i /\ i \in Shown
    <3>1. i \in present /\ row'[i] = [row[i] EXCEPT !.info = x]
      BY <1>1, <1>2, <2>4 DEF Shown
    <3>2. CASE x = row[i].info
      <4>1. row'[i] = row[i]
        BY <1>1, <3>1, <3>2 DEF Row
      <4>2. i \in restated' <=> i \in restated
        BY <3>2 DEF CreateUpload
      <4> QED BY <1>4, <2>1, <2>4, <4>1, <4>2 DEF Recent, View
    <3>3. CASE x # row[i].info
      <4>1. i \in restated'
        BY <2>4, <3>3 DEF CreateUpload
      <4>2. \A y \in Infos : [row'[i] EXCEPT !.info = y] = [row[i] EXCEPT !.info = y]
        BY <1>1, <3>1 DEF Row
      <4>3. View(i) \in Recent(i) /\ row[i].info \in Infos
        BY <1>1, ViewRecent DEF Row
      <4>4. Recent(i)' = {[row |-> [row[i] EXCEPT !.info = y], tags |-> TagNames(i)] : y \in Infos}
        BY <2>1, <2>4, <4>1, <4>2 DEF Recent
      <4>5. CASE i \in restated
        BY <2>4, <4>4, <4>5 DEF Recent
      <4>6. CASE i \notin restated
        <5>1. Recent(i) = {[row |-> row[i], tags |-> TagNames(i)]}
          BY <2>4, <4>6 DEF Recent, View
        <5>2. row[i] = [row[i] EXCEPT !.info = row[i].info]
          BY <1>1 DEF Row
        <5> QED BY <2>4, <4>3, <4>4, <5>1, <5>2
      <4> QED BY <4>5, <4>6
    <3> QED BY <3>2, <3>3
  <2> QED BY <2>3, <2>4
<1>7. ASSUME NEW al \in Albums PROVE AlbumPage(al)' = AlbumPage(al)
  <2>1. ASSUME NEW j \in Shown PROVE row'[j].trashed = row[j].trashed
    <3>1. CASE j = i
      <4>1. i \in present /\ row'[i] = [row[i] EXCEPT !.info = x]
        BY <1>1, <1>2, <3>1 DEF Shown
      <4> QED BY <1>1, <3>1, <4>1 DEF Row
    <3>2. CASE j # i
      BY <1>5, <3>2
    <3> QED BY <3>1, <3>2
  <2> QED BY <1>1, <1>4, <2>1 DEF AlbumPage
<1>8. Recorded
  BY <1>1, <1>6, <1>7 DEF Recorded
<1>9. WriteTypeOK
  <2>1. row' \in [Ids -> Row]
    BY <1>1, RowType
  <2>2. counter' \in counter .. MaxSequence
    BY <1>1, LibraryAssumption DEF LibraryTypeOK
  <2>3. restated' \subseteq Shown'
    BY <1>4 DEF CreateUpload, LibraryTypeOK
  <2> QED BY <1>1, <2>1, <2>2, <2>3 DEF WriteTypeOK, LibraryTypeOK, AssetEvents
<1> QED BY <1>8, <1>9

\* The writes that change columns of one asset and record it.
LEMMA RowWriteRecorded ==
  ASSUME LibraryTypeOK, AssetEvents, NEW i \in Ids, NEW r \in Row,
         born' = born \cup {i}, present' = present \cup {i},
         row' = [row EXCEPT ![i] = r], Record("asset", i),
         UNCHANGED <<tags, tagged, members>>
  PROVE  Recorded /\ WriteTypeOK
<1>1. row \in [Ids -> Row] /\ row' \in [Ids -> Row]
  BY DEF LibraryTypeOK
<1>2. \A j \in Ids : j # i => /\ j \in present' <=> j \in present
                             /\ row'[j] = row[j]
  BY <1>1
<1>3. Recorded /\ Appended /\ restated' \subseteq Shown'
  BY <1>2, AssetWriteRecorded
<1>4. WriteTypeOK
  BY <1>1, <1>3 DEF WriteTypeOK, Appended, EventType, LibraryTypeOK
<1> QED BY <1>3, <1>4

LEMMA UploadWriteRecorded ==
  ASSUME LibraryTypeOK, AssetEvents, UploadWrite
  PROVE  Recorded /\ WriteTypeOK
<1> SUFFICES ASSUME NEW i \in Ids,
                    \/ \E x \in Infos, fav \in Favorites :
                         \/ CreateUpload(i, x, fav)
                         \/ \E c \in Contents : AttachResource(i, x, fav, c)
                    \/ \E c \in Contents : CommitResource(i, c)
             PROVE  Recorded /\ WriteTypeOK
  BY DEF UploadWrite
<1>1. Favorites \subseteq BOOLEAN
  BY LibraryAssumption
<1>2. CASE \E x \in Infos, fav \in Favorites : CreateUpload(i, x, fav)
  BY <1>1, <1>2, CreateUploadRecorded
<1>3. CASE \E x \in Infos, fav \in Favorites, c \in Contents :
             AttachResource(i, x, fav, c)
  <2> PICK x \in Infos, fav \in Favorites, c \in Contents : AttachResource(i, x, fav, c)
    BY <1>3
  <2>1. [Upserted(i, x, fav) EXCEPT !.content = c] \in Row
    BY <1>1, RowType DEF Row
  <2> QED BY <2>1, RowWriteRecorded DEF AttachResource
<1>4. CASE \E c \in Contents : CommitResource(i, c)
  <2> PICK c \in Contents : CommitResource(i, c)
    BY <1>4
  <2>1. [row[i] EXCEPT !.content = c] \in Row
    BY RowType
  <2>2. /\ row' = [row EXCEPT ![i] = [row[i] EXCEPT !.content = c]]
        /\ born' = born \cup {i} /\ present' = present \cup {i}
    BY DEF CommitResource, LibraryTypeOK
  <2> QED BY <2>1, <2>2, RowWriteRecorded DEF CommitResource
<1> QED BY <1>2, <1>3, <1>4

LEMMA AssetWritesRecorded ==
  ASSUME LibraryTypeOK, AssetEvents, AssetWrite
  PROVE  Recorded /\ WriteTypeOK
<1> SUFFICES ASSUME NEW i \in Ids,
                    \/ \E fav \in Favorites : UpdateAsset(i, fav)
                    \/ \E trashed \in BOOLEAN : SetTrashed(i, trashed)
                    \/ DeletePermanently(i)
             PROVE  Recorded /\ WriteTypeOK
  BY DEF AssetWrite
<1>1. CASE \E fav \in Favorites : UpdateAsset(i, fav)
  <2> PICK fav \in Favorites : UpdateAsset(i, fav)
    BY <1>1
  <2>1. [row[i] EXCEPT !.favorite = fav] \in Row
    BY RowType, LibraryAssumption
  <2>2. /\ row' = [row EXCEPT ![i] = [row[i] EXCEPT !.favorite = fav]]
        /\ born' = born \cup {i} /\ present' = present \cup {i}
    BY DEF UpdateAsset, LibraryTypeOK
  <2> QED BY <2>1, <2>2, RowWriteRecorded DEF UpdateAsset
<1>2. CASE \E trashed \in BOOLEAN : SetTrashed(i, trashed)
  <2> PICK b \in BOOLEAN : SetTrashed(i, b)
    BY <1>2
  <2>1. [row[i] EXCEPT !.trashed = b] \in Row
    BY RowType
  <2>2. /\ row' = [row EXCEPT ![i] = [row[i] EXCEPT !.trashed = b]]
        /\ born' = born \cup {i} /\ present' = present \cup {i}
    BY DEF SetTrashed, LibraryTypeOK
  <2> QED BY <2>1, <2>2, RowWriteRecorded DEF SetTrashed
<1>3. CASE DeletePermanently(i)
  <2>1. /\ present' = present \ {i} /\ Record("asset", i)
        /\ tagged' = {p \in tagged : p[2] # i} /\ members' = {p \in members : p[2] # i}
        /\ UNCHANGED <<born, row, tags>>
    BY <1>3 DEF DeletePermanently
  <2>2. \A j \in Ids : j # i =>
          /\ j \in present' <=> j \in present
          /\ \A t \in Tags : <<t, j>> \in tagged' <=> <<t, j>> \in tagged
    BY <2>1
  <2>3. Recorded /\ Appended /\ restated' \subseteq Shown'
    BY <2>1, <2>2, AssetWriteRecorded
  <2>4. tagged' \subseteq tags' \X present' /\ members' \subseteq Albums \X present'
    BY <2>1 DEF LibraryTypeOK
  <2> QED BY <2>1, <2>3, <2>4 DEF WriteTypeOK, Appended, EventType, LibraryTypeOK
<1> QED BY <1>1, <1>2, <1>3

LEMMA TagWritesRecorded ==
  ASSUME LibraryTypeOK, AssetEvents, TagWrite
  PROVE  Recorded /\ WriteTypeOK
<1> SUFFICES ASSUME NEW t \in Tags,
                    \/ CreateTag(t)
                    \/ \E S \in SUBSET present : SetTagAssets(t, S)
                    \/ \E i \in Ids, add \in BOOLEAN : ChangeTagAsset(t, i, add)
             PROVE  Recorded /\ WriteTypeOK
  BY DEF TagWrite
<1>1. CASE CreateTag(t)
  <2>1. /\ tags' = tags \cup {t} /\ Record("tag", t)
        /\ UNCHANGED <<born, present, row, tagged, members>>
    BY <1>1 DEF CreateTag
  <2>2. /\ Appended
        /\ \E e \in events' : e.kind = "tag" /\ e.id = t /\ e.seq > counter
        /\ \A j : j \in restated' <=> j \in restated
    BY <2>1, RecordAppends
  <2>3. (\A j \in Ids : Recent(j)' = Recent(j)) /\ restated' \subseteq Shown'
    BY <2>1, <2>2, OtherWriteKeeps
  <2>4. Recorded
    BY <2>2, <2>3 DEF Recorded, Appended
  <2> QED BY <2>1, <2>2, <2>3, <2>4 DEF WriteTypeOK, Appended, EventType, LibraryTypeOK
<1>2. CASE \E S \in SUBSET present : SetTagAssets(t, S)
  <2> PICK S \in SUBSET present : SetTagAssets(t, S)
    BY <1>2
  <2>1. /\ t \in tags
        /\ tagged' = {p \in tagged : p[1] # t} \cup ({t} \X S)
        /\ RecordAll(Affected(t, S), t)
        /\ UNCHANGED <<born, present, row, tags, members>>
    BY DEF SetTagAssets
  <2>2. Affected(t, S) \in SUBSET Ids
    BY DEF Affected, LibraryTypeOK
  <2>3. /\ Appended
        /\ \A i \in Affected(t, S) :
             \E e \in events' : e.kind = "asset" /\ e.id = i /\ e.seq > counter
        /\ \E e \in events' : e.seq > counter
        /\ restated' = restated \ Affected(t, S)
    BY <2>1, <2>2, RecordAllAppends
  <2>4. ASSUME NEW j \in Ids, j \notin Affected(t, S) PROVE Recent(j)' = Recent(j)
    <3>1. <<t, j>> \notin tagged /\ j \notin S
      BY <2>4 DEF Affected
    <3>2. \A u \in Tags : <<u, j>> \in tagged' <=> <<u, j>> \in tagged
      BY <2>1, <3>1
    <3> QED BY <2>1, <2>3, <2>4, <3>2, SameRecent
  <2>5. Recorded /\ restated' \subseteq Shown'
    <3>1. restated' \subseteq Shown'
      BY <2>1, <2>3 DEF LibraryTypeOK, Shown
    <3> QED BY <2>3, <2>4, <3>1 DEF Recorded, Appended
  <2>6. tagged' \subseteq tags' \X present'
    BY <2>1 DEF LibraryTypeOK
  <2> QED BY <2>1, <2>3, <2>5, <2>6 DEF WriteTypeOK, Appended, EventType, LibraryTypeOK
<1>3. CASE \E i \in Ids, add \in BOOLEAN : ChangeTagAsset(t, i, add)
  <2> PICK i \in Ids, add \in BOOLEAN : ChangeTagAsset(t, i, add)
    BY <1>3
  <2>1. /\ t \in tags /\ i \in present /\ Record("asset", i)
        /\ tagged' = IF add THEN tagged \cup {<<t, i>>} ELSE tagged \ {<<t, i>>}
        /\ UNCHANGED <<born, present, row, tags, members>>
    BY DEF ChangeTagAsset
  <2>2. \A j \in Ids : j # i =>
          \A u \in Tags : <<u, j>> \in tagged' <=> <<u, j>> \in tagged
    BY <2>1
  <2>3. Recorded /\ Appended /\ restated' \subseteq Shown'
    BY <2>1, <2>2, AssetWriteRecorded
  <2>4. tagged' \subseteq tags' \X present'
    BY <2>1 DEF LibraryTypeOK
  <2> QED BY <2>1, <2>3, <2>4 DEF WriteTypeOK, Appended, EventType, LibraryTypeOK
<1> QED BY <1>1, <1>2, <1>3

LEMMA AlbumWritesRecorded ==
  ASSUME LibraryTypeOK, AssetEvents, AlbumWrite
  PROVE  Recorded /\ WriteTypeOK
<1> PICK al \in Albums, S \in SUBSET present, replace \in BOOLEAN : SyncAlbum(al, S, replace)
  BY DEF AlbumWrite
<1>1. /\ Record("album", al)
      /\ members' = (IF replace THEN {p \in members : p[1] # al} ELSE members)
                      \cup ({al} \X S)
      /\ UNCHANGED <<born, present, row, tags, tagged>>
  BY DEF SyncAlbum
<1>2. /\ Appended
      /\ \E e \in events' : e.kind = "album" /\ e.id = al /\ e.seq > counter
      /\ \A j : j \in restated' <=> j \in restated
  BY <1>1, RecordAppends
<1>3. (\A j \in Ids : Recent(j)' = Recent(j)) /\ restated' \subseteq Shown'
  BY <1>1, <1>2, OtherWriteKeeps
<1>4. Recorded
  BY <1>2, <1>3 DEF Recorded, Appended
<1>5. members' \subseteq Albums \X present'
  BY <1>1 DEF LibraryTypeOK
<1> QED BY <1>1, <1>2, <1>3, <1>4, <1>5 DEF WriteTypeOK, Appended, EventType, LibraryTypeOK

LEMMA OtherAccountRecorded ==
  ASSUME LibraryTypeOK, AssetEvents, OtherAccount
  PROVE  Recorded /\ WriteTypeOK
<1>1. /\ counter < MaxSequence /\ counter' = counter + 1
      /\ UNCHANGED <<born, present, row, tags, tagged, members, events, restated>>
  BY DEF OtherAccount
<1>2. /\ counter \in Nat /\ MaxSequence \in Nat /\ events \subseteq EventType(counter)
  BY LibraryAssumption DEF LibraryTypeOK, EventType
<1>3. (\A j \in Ids : Recent(j)' = Recent(j)) /\ restated' \subseteq Shown'
  BY <1>1, OtherWriteKeeps
<1>4. \A al \in Albums : AlbumPage(al)' = AlbumPage(al)
  BY <1>1 DEF AlbumPage, Shown
<1>5. EventType(counter) \subseteq EventType(counter + 1)
  BY <1>2 DEF EventType
<1>6. events' \subseteq EventType(counter') /\ counter' \in counter .. MaxSequence
  BY <1>1, <1>2, <1>5
<1>7. Recorded
  BY <1>1, <1>3, <1>4 DEF Recorded
<1> QED BY <1>1, <1>3, <1>6, <1>7 DEF WriteTypeOK, EventType, LibraryTypeOK, AssetEvents

LEMMA LibraryRecorded ==
  ASSUME LibraryTypeOK, AssetEvents, Library
  PROVE  Recorded /\ WriteTypeOK /\ UNCHANGED clientVars
<1>1. Recorded /\ WriteTypeOK
  BY UploadWriteRecorded, AssetWritesRecorded, TagWritesRecorded, AlbumWritesRecorded,
     OtherAccountRecorded DEF Library
<1>2. UNCHANGED clientVars
  BY DEF Library, UploadWrite, AssetWrite, TagWrite, AlbumWrite, OtherAccount,
         CreateUpload, AttachResource, CommitResource, UpdateAsset, SetTrashed,
         DeletePermanently, CreateTag, SetTagAssets, ChangeTagAsset, SyncAlbum
<1> QED BY <1>1, <1>2

-----------------------------------------------------------------------------
(***************************************************************************)
(* The inductive invariant.                                                *)
(***************************************************************************)

LEMMA InitInvariant == Init => IInv
<1> SUFFICES ASSUME Init PROVE IInv
  OBVIOUS
<1>1. row \in [Ids -> Row]
  <2> PICK x \in Infos :
        row = [i \in Ids |-> [info |-> x, content |-> NoContent, favorite |-> FALSE,
                             trashed |-> FALSE]]
    BY DEF Init
  <2>1. [info |-> x, content |-> NoContent, favorite |-> FALSE, trashed |-> FALSE] \in Row
    BY DEF Row
  <2> QED BY <2>1
<1>2. LibraryTypeOK
  <2>1. counter \in 0 .. MaxSequence /\ walked \in 0 .. LastId
    BY LibraryAssumption DEF Init
  <2>2. after \in 0 .. counter /\ upto \in 0 .. counter
    BY DEF Init, NoPage
  <2>3. /\ cache \in [Ids -> Answers] /\ got \in [Ids -> Answers \cup {Unread}]
        /\ albums \in [Albums -> (SUBSET Ids) \cup {Unread}]
    BY DEF Init, Answers
  <2> QED BY <1>1, <2>1, <2>2, <2>3 DEF Init, LibraryTypeOK
<1>3. \A i \in Ids : ~Passed(i)
  BY DEF Init, Passed
<1> QED BY <1>2, <1>3 DEF Init, IInv, AssetEvents, BeforeReplay, CacheFollows,
                    AlbumsFollow, PageComplete, PageFollows, NoPage

\* A write changes nothing the client has, and what it makes stale it records
\* after everything the client has seen.
LEMMA LibraryInvariant ==
  ASSUME IInv, Library
  PROVE  IInv'
<1>1. Recorded /\ WriteTypeOK /\ UNCHANGED clientVars
  BY LibraryRecorded DEF IInv
<1>2. /\ events \subseteq events' /\ counter' >= counter
      /\ after \in Nat /\ upto \in Nat /\ counter \in Nat /\ counter' \in Nat
      /\ after <= counter /\ upto <= counter
      /\ \A e \in events : e.seq \in Nat /\ e.seq <= counter
      /\ \A e \in events' : e.seq \in Nat
  BY <1>1, LibraryAssumption DEF Recorded, WriteTypeOK, IInv, LibraryTypeOK
<1>3. /\ UNCHANGED <<phase, after, walked, cache, albums, upto, got, todo>>
  BY <1>1 DEF clientVars, pageVars
<1>4. LibraryTypeOK'
  BY <1>1, <1>2, <1>3 DEF IInv, LibraryTypeOK, WriteTypeOK, Row, Answers
<1>5. AssetEvents'
  BY <1>1 DEF WriteTypeOK, AssetEvents
<1>6. BeforeReplay'
  BY <1>3 DEF IInv, BeforeReplay
<1>7. ASSUME NEW i \in Ids, NEW n \in Nat, n <= counter
      PROVE  /\ Pending(i, n) => Pending(i, n)'
             /\ Recent(i) \subseteq Recent(i)' \/ Pending(i, n)'
  BY <1>1, <1>2, <1>7 DEF Recorded, Pending
<1>8. CacheFollows'
  BY <1>2, <1>3, <1>7 DEF IInv, CacheFollows, Passed
<1>9. AlbumsFollow'
  BY <1>1, <1>2, <1>3 DEF IInv, AlbumsFollow, Recorded
<1>10. PageComplete'
  <2>1. \A e \in events' : e.seq <= upto => e \in events
    BY <1>1, <1>2 DEF Recorded
  <2> QED BY <1>3, <2>1 DEF IInv, PageComplete
<1>11. PageFollows'
  BY <1>2, <1>3, <1>7 DEF IInv, PageFollows, LibraryTypeOK
<1> QED BY <1>4, <1>5, <1>6, <1>8, <1>9, <1>10, <1>11 DEF IInv

LEMMA SeqsFinite ==
  ASSUME LibraryTypeOK
  PROVE  LET seqs == {e.seq : e \in Later(after)}
         IN  IsFiniteSet(seqs) /\ seqs \subseteq 1 .. counter
<1> DEFINE seqs == {e.seq : e \in Later(after)}
<1>1. counter \in Nat /\ \A e \in events : e.seq \in 1 .. counter
  BY LibraryAssumption DEF LibraryTypeOK
<1>2. seqs \subseteq 1 .. counter
  BY <1>1 DEF Later
<1>3. IsFiniteSet(1 .. counter)
  BY <1>1, FS_Interval
<1> QED BY <1>2, <1>3, FS_Subset

LEMMA ViewType == ASSUME LibraryTypeOK PROVE \A i \in Ids : View(i) \in Answers
  BY DEF LibraryTypeOK, View, Answers, TagNames

\* Steps that leave the library alone leave what it answers alone.
LEMMA LibrarySame ==
  ASSUME UNCHANGED libVars
  PROVE  /\ \A i : View(i)' = View(i) /\ Recent(i)' = Recent(i)
         /\ \A al : AlbumPage(al)' = AlbumPage(al)
         /\ \A i, n : Pending(i, n)' <=> Pending(i, n)
  BY DEF libVars, Recent, View, Shown, TagNames, AlbumPage, Pending

LEMMA TakeHeadInvariant == ASSUME IInv, TakeHead PROVE IInv'
<1>1. /\ phase = "new" /\ phase' = "walk" /\ walked = 0 /\ walked' = 0 /\ after' \in Head
      /\ UNCHANGED <<cache, albums, upto, got, todo>> /\ UNCHANGED libVars
  BY DEF IInv, BeforeReplay, TakeHead, pageVars
<1>2. after' \in 0 .. counter
  <2>1. \A e \in events : e.seq \in 0 .. counter
    BY LibraryAssumption DEF IInv, LibraryTypeOK
  <2>2. counter \in Nat
    BY LibraryAssumption DEF IInv, LibraryTypeOK
  <2> QED BY <1>1, <2>1, <2>2 DEF Head, LastOf
<1>3. LibraryTypeOK'
  BY <1>1, <1>2 DEF IInv, LibraryTypeOK, libVars, Shown, Row, Answers
<1>4. CacheFollows'
  <2>1. \A i \in Ids : ~(i <= 0)
    BY IdsFinite DEF Ids
  <2> QED BY <1>1, <2>1 DEF CacheFollows, Passed
<1>5. AssetEvents'
  BY <1>1 DEF IInv, AssetEvents, libVars
<1>6. upto = NoPage /\ \A al \in Albums : albums[al] = Unread
  BY <1>1 DEF IInv, BeforeReplay
<1>7. BeforeReplay' /\ AlbumsFollow' /\ PageComplete' /\ PageFollows'
  BY <1>1, <1>6 DEF IInv, BeforeReplay, AlbumsFollow, PageComplete, PageFollows
<1> QED BY <1>3, <1>4, <1>5, <1>7 DEF IInv

LEMMA WalkPageInvariant == ASSUME IInv, WalkPage PROVE IInv'
<1> DEFINE rest == {i \in Shown : i > walked}
           page == PageOf(rest, SnapshotLimit)
<1>1. /\ phase = "walk" /\ UNCHANGED libVars
      /\ UNCHANGED <<after, albums, upto, got, todo>>
      /\ cache' = [i \in Ids |-> IF i \in page THEN View(i) ELSE cache[i]]
  BY DEF WalkPage, pageVars
<1>2. /\ rest \subseteq Ids /\ IsFiniteSet(rest) /\ rest \subseteq Nat
      /\ SnapshotLimit \in Nat /\ walked \in 0 .. LastId /\ walked \in Nat
  <2>1. rest \subseteq Ids
    BY DEF IInv, LibraryTypeOK, Shown
  <2>2. IsFiniteSet(rest) /\ rest \subseteq Nat
    BY <2>1, IdsFinite, FS_Subset
  <2>3. SnapshotLimit \in Nat /\ walked \in 0 .. LastId /\ walked \in Nat
    BY LibraryAssumption DEF IInv, LibraryTypeOK
  <2> QED BY <2>1, <2>2, <2>3
<1>3. /\ upto = NoPage /\ \A al \in Albums : albums[al] = Unread
      /\ \A i \in Ids : i > walked => cache[i] = Missing
  BY <1>1 DEF IInv, BeforeReplay
<1>4. \A i \in Ids : Recent(i)' = Recent(i) /\ (Pending(i, after)' <=> Pending(i, after))
  BY <1>1, LibrarySame DEF Pending
<1>5. page \subseteq rest
  BY DEF PageOf
<1>6. ASSUME NEW i \in Ids, i > walked, i \notin rest
      PROVE  cache'[i] \in Recent(i)
  <2>1. cache'[i] = View(i)
    BY <1>1, <1>3, <1>5, <1>6 DEF View
  <2> QED BY <2>1, ViewRecent DEF IInv
<1>7. ASSUME NEW i \in page PROVE cache'[i] \in Recent(i)
  <2>1. i \in Ids /\ cache'[i] = View(i)
    BY <1>1, <1>2, <1>5, <1>7
  <2> QED BY <2>1, ViewRecent DEF IInv
<1>8. ASSUME NEW i \in Ids, ~(i > walked)
      PROVE  cache'[i] \in Recent(i) \/ Pending(i, after)
  <2>1. i <= walked /\ i \notin rest
    BY <1>2, <1>8, IdsFinite
  <2>2. cache'[i] = cache[i]
    BY <1>1, <1>5, <2>1
  <2> QED BY <1>1, <2>1, <2>2 DEF IInv, CacheFollows, Passed
<1>9. cache' \in [Ids -> Answers]
  BY <1>1, ViewType DEF IInv, LibraryTypeOK
<1>10. AssetEvents' /\ AlbumsFollow' /\ PageComplete' /\ PageFollows'
  BY <1>1, <1>3 DEF IInv, AssetEvents, AlbumsFollow, PageComplete, PageFollows, libVars
<1>11. CASE Cardinality(rest) > SnapshotLimit
  <2>1. phase' = "walk" /\ walked' \in Cursor(rest, SnapshotLimit)
    BY <1>1, <1>11 DEF WalkPage
  <2>2. walked' \in rest /\ \A x \in rest : x \in page <=> x <= walked'
    BY <1>2, <2>1, PageIsPrefix
  <2>3. walked' \in 0 .. LastId /\ walked' > walked
    BY <1>2, <2>2 DEF Ids
  <2>4. LibraryTypeOK'
    BY <1>1, <1>9, <2>1, <2>3 DEF IInv, LibraryTypeOK, libVars, Shown, Row, Answers
  <2>5. BeforeReplay'
    <3>1. ASSUME NEW i \in Ids, i > walked' PROVE cache'[i] = Missing
      <4>1. i > walked /\ ~(i <= walked')
        BY <1>2, <2>3, <3>1, IdsFinite
      <4>2. i \notin page
        BY <1>5, <2>2, <4>1
      <4> QED BY <1>1, <1>3, <4>1, <4>2
    <3> QED BY <1>1, <1>3, <2>1, <3>1 DEF BeforeReplay
  <2>6. CacheFollows'
    <3>1. ASSUME NEW i \in Ids, i <= walked' PROVE cache'[i] \in Recent(i) \/ Pending(i, after)
      BY <1>6, <1>7, <1>8, <2>2, <3>1
    <3> QED BY <1>1, <1>4, <2>1, <3>1 DEF CacheFollows, Passed
  <2> QED BY <1>10, <2>4, <2>5, <2>6 DEF IInv
<1>12. CASE ~(Cardinality(rest) > SnapshotLimit)
  <2>1. phase' = "live" /\ walked' = 0
    BY <1>1, <1>12 DEF WalkPage
  <2>2. page = rest
    BY <1>2, <1>12, LastPageIsAll
  <2>3. LibraryTypeOK'
    BY <1>1, <1>9, <2>1, LibraryAssumption DEF IInv, LibraryTypeOK, libVars, Shown, Row, Answers
  <2>4. CacheFollows'
    <3>1. ASSUME NEW i \in Ids PROVE cache'[i] \in Recent(i) \/ Pending(i, after)
      BY <1>6, <1>7, <1>8, <2>2
    <3> QED BY <1>1, <1>4, <3>1 DEF CacheFollows
  <2>5. BeforeReplay'
    BY <2>1 DEF BeforeReplay
  <2> QED BY <1>10, <2>3, <2>4, <2>5 DEF IInv
<1> QED BY <1>11, <1>12

LEMMA ReadPageInvariant == ASSUME IInv, ReadPage PROVE IInv'
<1> DEFINE seqs == {e.seq : e \in Later(after)}
           page == {e \in Later(after) : e.seq \in PageOf(seqs, SyncLimit)}
<1>1. /\ phase = "live" /\ upto' \in Cursor(seqs, SyncLimit)
      /\ todo' = {i \in Ids : \E e \in page : e.kind = "asset" /\ e.id = i}
      /\ got' = [i \in Ids |-> Unread]
      /\ UNCHANGED libVars /\ UNCHANGED <<phase, after, walked, cache, albums>>
  BY DEF ReadPage
<1>2. IsFiniteSet(seqs) /\ seqs \subseteq 1 .. counter
  BY SeqsFinite DEF IInv
<1>3. /\ seqs \subseteq Nat /\ SyncLimit \in Nat /\ counter \in Nat /\ after \in Nat
      /\ upto' \in seqs /\ \A n \in seqs : n \in PageOf(seqs, SyncLimit) <=> n <= upto'
  <2>1. SyncLimit \in Nat /\ counter \in Nat /\ after \in Nat
    BY LibraryAssumption DEF IInv, LibraryTypeOK
  <2>2. seqs \subseteq Nat
    BY <1>2, <2>1
  <2> HIDE DEF seqs
  <2> QED BY <1>1, <1>2, <2>1, <2>2, PageIsPrefix
<1>4. upto' > after
  BY <1>3 DEF Later
<1>5. ASSUME NEW e \in events, e.kind = "asset", e.seq > after, e.seq <= upto'
      PROVE  e.id \in todo'
  <2>1. e \in page
    BY <1>3, <1>5 DEF Later
  <2>2. e.id \in Ids
    BY <1>5 DEF IInv, AssetEvents
  <2> QED BY <1>1, <1>5, <2>1, <2>2
<1>6. LibraryTypeOK'
  <2>1. upto' \in 0 .. counter
    BY <1>2, <1>3
  <2>2. todo' \subseteq Ids
    BY <1>1
  <2>3. got' \in [Ids -> Answers \cup {Unread}]
    BY <1>1
  <2> QED BY <1>1, <2>1, <2>2, <2>3 DEF IInv, LibraryTypeOK, libVars, Shown, Row, Answers
<1>7. CacheFollows' /\ AlbumsFollow'
  BY <1>1, LibrarySame DEF IInv, CacheFollows, AlbumsFollow, Passed, Pending, libVars
<1>8. PageComplete'
  BY <1>1, <1>4, <1>5 DEF PageComplete, libVars
<1>9. PageFollows'
  BY <1>1 DEF PageFollows
<1>10. AssetEvents' /\ BeforeReplay'
  BY <1>1 DEF IInv, AssetEvents, BeforeReplay, libVars
<1> QED BY <1>6, <1>7, <1>8, <1>9, <1>10 DEF IInv

LEMMA FetchInvariant == ASSUME IInv, NEW i \in Ids, Fetch(i) PROVE IInv'
<1>1. /\ got' = [got EXCEPT ![i] = View(i)] /\ got \in [Ids -> Answers \cup {Unread}]
      /\ UNCHANGED libVars
      /\ UNCHANGED <<phase, after, walked, cache, albums, upto, todo>>
  BY DEF Fetch, IInv, LibraryTypeOK
<1>2. got' \in [Ids -> Answers \cup {Unread}]
  BY <1>1, ViewType DEF IInv
<1>3. LibraryTypeOK'
  BY <1>1, <1>2 DEF IInv, LibraryTypeOK, libVars, Shown, Row, Answers
<1>4. PageFollows'
  <2>1. todo \subseteq Ids
    BY DEF IInv, LibraryTypeOK
  <2> QED BY <1>1, <2>1, LibrarySame, ViewRecent DEF IInv, PageFollows, Pending, libVars
<1>5. /\ AssetEvents' /\ BeforeReplay' /\ CacheFollows' /\ AlbumsFollow' /\ PageComplete'
  BY <1>1, LibrarySame DEF IInv, AssetEvents, BeforeReplay, CacheFollows, AlbumsFollow,
                           PageComplete, Passed, Pending, libVars
<1> QED BY <1>3, <1>4, <1>5 DEF IInv

\* What the page does not name has no event up to its cursor.
LEMMA ApplyPageInvariant == ASSUME IInv, ApplyPage PROVE IInv'
<1>1. /\ upto # NoPage /\ \A i \in todo : got[i] # Unread
      /\ cache' = [i \in Ids |-> IF i \in todo THEN got[i] ELSE cache[i]]
      /\ albums' = [al \in Albums |-> Unread] /\ after' = upto
      /\ upto' = NoPage /\ todo' = {} /\ got' = [i \in Ids |-> Unread]
      /\ UNCHANGED libVars /\ UNCHANGED <<phase, walked>>
  BY DEF ApplyPage
<1>2. /\ phase = "live" /\ todo \subseteq Ids /\ upto \in 0 .. counter /\ upto \in Nat
      /\ after \in Nat /\ counter \in Nat /\ \A e \in events : e.seq \in Nat
  BY <1>1, LibraryAssumption DEF IInv, LibraryTypeOK, BeforeReplay
<1>3. CacheFollows'
  <2> SUFFICES ASSUME NEW i \in Ids
               PROVE  cache'[i] \in Recent(i) \/ Pending(i, upto)
    BY <1>1, LibrarySame DEF CacheFollows, Pending
  <2>1. CASE i \in todo
    <3>1. cache'[i] = got[i] /\ got[i] # Unread
      BY <1>1, <2>1
    <3> QED BY <1>1, <2>1, <3>1 DEF IInv, PageFollows
  <2>2. CASE i \notin todo
    <3>1. cache'[i] = cache[i]
      BY <1>1, <2>2
    <3>2. cache[i] \in Recent(i) \/ Pending(i, after)
      BY <1>2 DEF IInv, CacheFollows, Passed
    <3>3. Pending(i, after) => Pending(i, upto)
      BY <1>1, <1>2, <2>2 DEF IInv, PageComplete, Pending
    <3> QED BY <3>1, <3>2, <3>3
  <2> QED BY <2>1, <2>2
<1>4. LibraryTypeOK'
  <2>1. cache' \in [Ids -> Answers]
    <3>1. ASSUME NEW i \in Ids PROVE (IF i \in todo THEN got[i] ELSE cache[i]) \in Answers
      BY <1>1 DEF IInv, LibraryTypeOK
    <3> QED BY <1>1, <3>1
  <2>2. got' \in [Ids -> Answers \cup {Unread}]
    BY <1>1
  <2>3. albums' \in [Albums -> (SUBSET Ids) \cup {Unread}]
    BY <1>1
  <2> QED BY <1>1, <1>2, <2>1, <2>2, <2>3
          DEF IInv, LibraryTypeOK, libVars, Shown, Row, Answers, NoPage
<1>5. AssetEvents' /\ BeforeReplay' /\ AlbumsFollow' /\ PageComplete' /\ PageFollows'
  BY <1>1, <1>2 DEF IInv, AssetEvents, BeforeReplay, AlbumsFollow, PageComplete,
                    PageFollows, libVars
<1> QED BY <1>3, <1>4, <1>5 DEF IInv

LEMMA DropPageInvariant == ASSUME IInv, DropPage PROVE IInv'
<1>1. /\ upto # NoPage /\ upto' = NoPage /\ todo' = {} /\ got' = [i \in Ids |-> Unread]
      /\ UNCHANGED libVars /\ UNCHANGED <<phase, after, walked, cache, albums>>
  BY DEF DropPage
<1>2. counter \in Nat
  BY LibraryAssumption DEF IInv, LibraryTypeOK
<1>3. LibraryTypeOK'
  <2>1. got' \in [Ids -> Answers \cup {Unread}]
    BY <1>1
  <2> QED BY <1>1, <1>2, <2>1 DEF IInv, LibraryTypeOK, libVars, Shown, Row, Answers, NoPage
<1>4. /\ AssetEvents' /\ BeforeReplay' /\ CacheFollows' /\ AlbumsFollow'
      /\ PageComplete' /\ PageFollows'
  BY <1>1, LibrarySame DEF IInv, AssetEvents, BeforeReplay, CacheFollows, AlbumsFollow,
                           PageComplete, PageFollows, Passed, Pending, libVars
<1> QED BY <1>3, <1>4 DEF IInv

LEMMA OpenAlbumInvariant == ASSUME IInv, NEW al \in Albums, OpenAlbum(al) PROVE IInv'
<1>1. /\ phase = "live" /\ albums' = [albums EXCEPT ![al] = AlbumPage(al)]
      /\ UNCHANGED libVars
      /\ UNCHANGED <<phase, after, walked, cache, upto, got, todo>>
  BY DEF OpenAlbum, pageVars
<1>2. AlbumPage(al) \in SUBSET Ids
  BY DEF AlbumPage, Shown, IInv, LibraryTypeOK
<1>3. LibraryTypeOK'
  <2>1. albums' \in [Albums -> (SUBSET Ids) \cup {Unread}]
    BY <1>1, <1>2 DEF IInv, LibraryTypeOK
  <2> QED BY <1>1, <2>1 DEF IInv, LibraryTypeOK, libVars, Shown, Row, Answers
<1>4. AlbumsFollow'
  <2> SUFFICES ASSUME NEW b \in Albums
               PROVE  \/ albums'[b] = Unread \/ albums'[b] = AlbumPage(b)
                      \/ \E e \in events : e.seq > after
    BY <1>1, LibrarySame DEF AlbumsFollow, libVars
  <2>1. albums \in [Albums -> (SUBSET Ids) \cup {Unread}]
    BY DEF IInv, LibraryTypeOK
  <2>2. b = al \/ albums'[b] = albums[b]
    BY <1>1, <2>1
  <2>3. b = al => albums'[b] = AlbumPage(b)
    BY <1>1, <2>1
  <2> QED BY <2>2, <2>3 DEF IInv, AlbumsFollow
<1>5. /\ AssetEvents' /\ BeforeReplay' /\ CacheFollows' /\ PageComplete' /\ PageFollows'
  BY <1>1, LibrarySame DEF IInv, AssetEvents, BeforeReplay, CacheFollows,
                           PageComplete, PageFollows, Passed, Pending, libVars
<1> QED BY <1>3, <1>4, <1>5 DEF IInv

LEMMA StepInvariant ==
  ASSUME IInv, [Next]_vars
  PROVE  IInv'
<1>1. CASE Library
  BY <1>1, LibraryInvariant
<1>2. CASE ClientStep
  BY <1>2, TakeHeadInvariant, WalkPageInvariant, ReadPageInvariant, FetchInvariant,
     ApplyPageInvariant, DropPageInvariant, OpenAlbumInvariant DEF ClientStep
<1>3. CASE UNCHANGED vars
  <2>1. UNCHANGED libVars /\ UNCHANGED <<phase, after, walked, cache, albums, upto, got, todo>>
    BY <1>3 DEF vars, clientVars, pageVars
  <2>2. LibraryTypeOK'
    BY <2>1 DEF IInv, LibraryTypeOK, libVars, Shown, Row, Answers
  <2> QED BY <2>1, <2>2, LibrarySame
          DEF IInv, AssetEvents, BeforeReplay, CacheFollows, AlbumsFollow, PageComplete,
              PageFollows, Passed, Pending, libVars
<1> QED BY <1>1, <1>2, <1>3 DEF Next, Library

-----------------------------------------------------------------------------
(***************************************************************************)
(* The theorems.                                                           *)
(***************************************************************************)

\* IInv holds throughout: whatever is stale in the copy, but a kind or time that
\* a create rewrote, has its event still ahead.
THEOREM InvariantHolds == Spec => []IInv
<1>1. Init => IInv
  BY InitInvariant
<1>2. IInv /\ [Next]_vars => IInv'
  BY StepInvariant
<1> QED BY <1>1, <1>2, PTL DEF Spec

\* The variables keep their types and the associations refer to rows that exist
\* (the foreign keys of tag_assets and album_assets).
THEOREM TypeCorrect == Spec => []LibraryTypeOK
<1>1. IInv => LibraryTypeOK
  BY DEF IInv
<1> QED BY <1>1, InvariantHolds, PTL

\* A client that has replayed the log has the library (sync_head, snapshot,
\* sync_changes), for every library and page size, but for the kind and time of
\* assets a create has rewritten since their last event (create_upload).
THEOREM CopyIsLibrary == Spec => []CacheIsLibrary
<1>1. IInv => CacheIsLibrary
  <2> SUFFICES ASSUME IInv, Synced, NEW i \in Ids PROVE cache[i] \in Recent(i)
    BY DEF CacheIsLibrary
  <2>1. cache[i] \in Recent(i) \/ Pending(i, after)
    BY DEF IInv, CacheFollows, Passed, Synced
  <2>2. ~Pending(i, after)
    BY DEF Synced, Later, Pending
  <2> QED BY <2>1, <2>2
<1> QED BY <1>1, InvariantHolds, PTL

\* Nor does it show an album page that has changed (sync_album, set_trashed).
THEOREM NoStaleAlbum == Spec => []AlbumPagesCurrent
<1>1. IInv => AlbumPagesCurrent
  BY DEF IInv, AlbumsFollow, AlbumPagesCurrent, Synced, Later
<1> QED BY <1>1, InvariantHolds, PTL
=============================================================================
