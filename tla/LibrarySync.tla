----------------------------- MODULE LibrarySync -----------------------------
(***************************************************************************)
(* How a client keeps a copy of an account's library: the change log that  *)
(* audit.rs writes with every change of library.rs and of the uploads, the *)
(* snapshot walk and the replay of the log that feed the copy.             *)
(*                                                                         *)
(* A write is one transaction.  SQLite has a single writer, and a deferred *)
(* transaction that has read before another one committed cannot write any *)
(* more, so a write takes effect at once or not at all, and a sequence     *)
(* number is never seen before a smaller one.                              *)
(*                                                                         *)
(* The client is not part of the repository.  It follows the protocol that *)
(* sync_head names: the watermark, then the walk, then every later event.  *)
(***************************************************************************)
EXTENDS Naturals, FiniteSets

CONSTANTS
  LastId,        \* asset ids are UUIDs; only their order matters
  Tags, Albums,
  Contents,      \* what the resources of an asset may hold
  Favorites,     \* values of favorite a client sets
  Infos,         \* media kind and creation time as a manifest states them
  SnapshotLimit, \* limit of a snapshot page
  SyncLimit,     \* limit of a page of events
  Missing,       \* the answer 404
  Unread,        \* what the client has not read
  MaxSequence,   \* bound on the change log
  Restatable     \* bound: assets whose manifests may differ in kind or time

Ids == 1 .. LastId
NoContent == "no content"
NoPage == 0

ASSUME LibraryAssumption ==
  /\ LastId \in Nat /\ MaxSequence \in Nat
  /\ SnapshotLimit \in Nat \ {0} /\ SyncLimit \in Nat \ {0}
  /\ NoContent \notin Contents
  /\ Favorites \subseteq BOOLEAN /\ Missing # Unread

VARIABLES
  \* --- the database ---
  born,    \* asset ids drawn so far
  present, \* ids that have an assets row
  row,     \* its columns and the content of its resources
  tags,    \* rows of tags
  tagged,  \* rows of tag_assets
  members, \* rows of album_assets
  events,  \* the account's rows of account_changes
  counter, \* AUTOINCREMENT of account_changes, shared by all accounts
  \* --- bookkeeping for the properties, read by no action ---
  restated, \* shown assets whose kind or time a create rewrote since their
            \* last event
  \* --- the client ---
  phase,   \* new, walk (through the snapshot), or live
  after,   \* sequence the client has applied
  walked,  \* snapshot cursor
  cache,   \* its copy of every asset
  albums,  \* its album pages
  upto,    \* next_sequence of the page of events in hand; NoPage: none
  got,     \* the assets of that page: Unread, or as the server answered
  todo     \* ids of that page

libVars == <<born, present, row, tags, tagged, members, events, counter, restated>>
pageVars == <<upto, got, todo>>
clientVars == <<phase, after, walked, cache, albums, pageVars>>
vars == <<libVars, clientVars>>

Row == [info : Infos, content : Contents \cup {NoContent},
        favorite : BOOLEAN, trashed : BOOLEAN]
Answers == [row : Row, tags : SUBSET Tags] \cup {Missing}

-----------------------------------------------------------------------------
(***************************************************************************)
(* What a read of the library answers.                                     *)
(***************************************************************************)

\* An asset without resources is not shown anywhere.
Shown == {i \in present : row[i].content # NoContent}

TagNames(i) == {t \in Tags : <<t, i>> \in tagged}

\* load_asset_summary; Missing is a 404.
View(i) == IF i \in Shown THEN [row |-> row[i], tags |-> TagNames(i)] ELSE Missing

\* The timeline of an album.
AlbumPage(al) == {i \in Shown : <<al, i>> \in members /\ ~row[i].trashed}

\* LIMIT n of rows in their order, and the cursor such a page hands out.
PageOf(S, n) == {x \in S : Cardinality({y \in S : y <= x}) <= n}
LastOf(P) == {x \in P : \A y \in P : y <= x}

\* Mutant: the cursor is the row read ahead to learn has_more.
AheadCursor(S, n) == LastOf(PageOf(S, n + 1))

Cursor(S, n) == LastOf(PageOf(S, n))
Later(a) == {e \in events : e.seq > a}

-----------------------------------------------------------------------------
(***************************************************************************)
(* Recording changes.                                                      *)
(***************************************************************************)
Event(n, kind, id) == [seq |-> n, kind |-> kind, id |-> id]

\* record_change, once.
Record(kind, id) ==
  /\ counter < MaxSequence
  /\ events' = events \cup {Event(counter + 1, kind, id)}
  /\ counter' = counter + 1
  /\ restated' = IF kind = "asset" THEN restated \ {id} ELSE restated

\* record_change for each of a hash set of assets, in its order, then for a tag.
RecordAll(S, t) ==
  /\ counter + Cardinality(S) < MaxSequence
  /\ \E at \in [S -> counter + 1 .. counter + Cardinality(S)] :
       /\ \A i, j \in S : at[i] = at[j] => i = j
       /\ events' = events \cup {Event(at[i], "asset", i) : i \in S}
                           \cup {Event(counter + Cardinality(S) + 1, "tag", t)}
  /\ counter' = counter + Cardinality(S) + 1
  /\ restated' = restated \ S

-----------------------------------------------------------------------------
(***************************************************************************)
(* The writes.                                                             *)
(***************************************************************************)

\* upsert_asset; a new row starts with no resources.
Upserted(i, x, fav) ==
  IF i \in present THEN [row[i] EXCEPT !.info = x]
  ELSE [info |-> x, content |-> NoContent, favorite |-> fav, trashed |-> FALSE]

\* The id of a deleted asset is never drawn again.
Writable(i) == i \in present \/ i \notin born
Manifest(i, x) == i \in Restatable \/ x = row[i].info

\* create_upload of a content that is not stored yet: the assets row is
\* written, and nothing recorded, even where readers see the row already.
CreateUpload(i, x, fav) ==
  /\ Writable(i) /\ Manifest(i, x)
  /\ born' = born \cup {i} /\ present' = present \cup {i}
  /\ row' = [row EXCEPT ![i] = Upserted(i, x, fav)]
  /\ restated' = IF i \in Shown /\ x # row[i].info THEN restated \cup {i} ELSE restated
  /\ UNCHANGED <<tags, tagged, members, events, counter, clientVars>>

\* create_upload of a content that is stored.
AttachResource(i, x, fav, c) ==
  /\ Writable(i) /\ Manifest(i, x)
  /\ born' = born \cup {i} /\ present' = present \cup {i}
  /\ row' = [row EXCEPT ![i] = [Upserted(i, x, fav) EXCEPT !.content = c]]
  /\ Record("asset", i)
  /\ UNCHANGED <<tags, tagged, members, clientVars>>

\* commit_metadata.
CommitResource(i, c) ==
  /\ i \in present
  /\ row' = [row EXCEPT ![i].content = c]
  /\ Record("asset", i)
  /\ UNCHANGED <<born, present, tags, tagged, members, clientVars>>

\* update_asset; archived is a second column like favorite.
UpdateAsset(i, fav) ==
  /\ i \in present
  /\ row' = [row EXCEPT ![i].favorite = fav]
  /\ Record("asset", i)
  /\ UNCHANGED <<born, present, tags, tagged, members, clientVars>>

\* Mutant: the change is not recorded.
SetTrashedUnrecorded(i, trashed) ==
  /\ i \in present
  /\ row' = [row EXCEPT ![i].trashed = trashed]
  /\ UNCHANGED <<born, present, tags, tagged, members, events, counter, restated,
                 clientVars>>

SetTrashed(i, trashed) ==
  /\ i \in present
  /\ row' = [row EXCEPT ![i].trashed = trashed]
  /\ Record("asset", i)
  /\ UNCHANGED <<born, present, tags, tagged, members, clientVars>>

\* Mutant: the rows of the associations stay.
DeletePermanentlyAlone(i) ==
  /\ i \in Shown /\ row[i].trashed
  /\ present' = present \ {i}
  /\ Record("asset", i)
  /\ UNCHANGED <<born, row, tags, tagged, members, clientVars>>

\* delete_asset_permanently; tag_assets and album_assets rows go with it.
DeletePermanently(i) ==
  /\ i \in Shown /\ row[i].trashed
  /\ present' = present \ {i}
  /\ tagged' = {p \in tagged : p[2] # i}
  /\ members' = {p \in members : p[2] # i}
  /\ Record("asset", i)
  /\ UNCHANGED <<born, row, tags, clientVars>>

CreateTag(t) ==
  /\ t \notin tags
  /\ tags' = tags \cup {t}
  /\ Record("tag", t)
  /\ UNCHANGED <<born, present, row, tagged, members, clientVars>>

\* Mutant: only the assets that get the tag.
NewlyTagged(t, S) == S
\* Those that lose it, keep it or get it.
Affected(t, S) == {i \in Ids : <<t, i>> \in tagged} \cup S

SetTagAssets(t, S) ==
  /\ t \in tags
  /\ tagged' = {p \in tagged : p[1] # t} \cup ({t} \X S)
  /\ RecordAll(Affected(t, S), t)
  /\ UNCHANGED <<born, present, row, tags, members, clientVars>>

\* change_tag_asset records the asset, not the tag.
ChangeTagAsset(t, i, add) ==
  /\ t \in tags /\ i \in present
  /\ tagged' = IF add THEN tagged \cup {<<t, i>>} ELSE tagged \ {<<t, i>>}
  /\ Record("asset", i)
  /\ UNCHANGED <<born, present, row, tags, members, clientVars>>

\* sync_album; source ids without an assets row are passed over.
SyncAlbum(al, S, replace) ==
  /\ members' = (IF replace THEN {p \in members : p[1] # al} ELSE members)
                  \cup ({al} \X S)
  /\ Record("album", al)
  /\ UNCHANGED <<born, present, row, tags, tagged, clientVars>>

\* Another account records a change.
OtherAccount ==
  /\ counter < MaxSequence
  /\ counter' = counter + 1
  /\ UNCHANGED <<born, present, row, tags, tagged, members, events, restated,
                 clientVars>>

-----------------------------------------------------------------------------
(***************************************************************************)
(* The client.  What it does with one answer it does in one transaction of *)
(* its own.                                                                *)
(***************************************************************************)

\* sync_head: the last sequence of the account, before the walk.
Head == IF events = {} THEN {0} ELSE LastOf({e.seq : e \in events})
TakeHead ==
  /\ phase = "new"
  /\ after' \in Head
  /\ phase' = "walk"
  /\ UNCHANGED <<libVars, walked, cache, albums, pageVars>>

\* snapshot: one page of the walk, trashed assets included.
WalkPage ==
  /\ phase = "walk"
  /\ LET rest == {i \in Shown : i > walked} IN
       /\ cache' = [i \in Ids |-> IF i \in PageOf(rest, SnapshotLimit)
                                   THEN View(i) ELSE cache[i]]
       /\ IF Cardinality(rest) > SnapshotLimit
            THEN walked' \in Cursor(rest, SnapshotLimit) /\ UNCHANGED phase
            ELSE phase' = "live" /\ walked' = 0
  /\ UNCHANGED <<libVars, after, albums, pageVars>>

\* sync_changes: a page of events.  Only asset events name something to read.
ReadPage ==
  /\ phase = "live" /\ upto = NoPage
  /\ LET seqs == {e.seq : e \in Later(after)}
         page == {e \in Later(after) : e.seq \in PageOf(seqs, SyncLimit)} IN
       /\ upto' \in Cursor(seqs, SyncLimit)
       /\ todo' = {i \in Ids : \E e \in page : e.kind = "asset" /\ e.id = i}
  /\ got' = [i \in Ids |-> Unread]
  /\ UNCHANGED <<libVars, phase, after, walked, cache, albums>>

\* get_asset of an id of the page.
Fetch(i) ==
  /\ i \in todo /\ got[i] = Unread
  /\ got' = [got EXCEPT ![i] = View(i)]
  /\ UNCHANGED <<libVars, phase, after, walked, cache, albums, upto, todo>>

\* With everything fetched the page is applied and the cursor moves.
ApplyPage ==
  /\ upto # NoPage /\ \A i \in todo : got[i] # Unread
  /\ cache' = [i \in Ids |-> IF i \in todo THEN got[i] ELSE cache[i]]
  /\ albums' = [al \in Albums |-> Unread]
  /\ after' = upto
  /\ upto' = NoPage /\ todo' = {} /\ got' = [i \in Ids |-> Unread]
  /\ UNCHANGED <<libVars, phase, walked>>

\* An error, or the client is killed: the page is read again later.
DropPage ==
  /\ upto # NoPage
  /\ upto' = NoPage /\ todo' = {} /\ got' = [i \in Ids |-> Unread]
  /\ UNCHANGED <<libVars, phase, after, walked, cache, albums>>

\* The client opens an album.
OpenAlbum(al) ==
  /\ phase = "live" /\ albums[al] = Unread
  /\ albums' = [albums EXCEPT ![al] = AlbumPage(al)]
  /\ UNCHANGED <<libVars, phase, after, walked, cache, pageVars>>

-----------------------------------------------------------------------------
Init ==
  /\ born = {} /\ present = {}
  /\ \E x \in Infos :
       row = [i \in Ids |-> [info |-> x, content |-> NoContent, favorite |-> FALSE,
                            trashed |-> FALSE]]
  /\ tags = {} /\ tagged = {} /\ members = {} /\ events = {} /\ counter = 0
  /\ restated = {}
  /\ phase = "new" /\ after = 0 /\ walked = 0
  /\ cache = [i \in Ids |-> Missing]
  /\ albums = [al \in Albums |-> Unread]
  /\ upto = NoPage /\ got = [i \in Ids |-> Unread] /\ todo = {}

UploadWrite ==
  \E i \in Ids :
    \/ \E x \in Infos, fav \in Favorites :
         \/ CreateUpload(i, x, fav)
         \/ \E c \in Contents : AttachResource(i, x, fav, c)
    \/ \E c \in Contents : CommitResource(i, c)

AssetWrite ==
  \E i \in Ids :
    \/ \E fav \in Favorites : UpdateAsset(i, fav)
    \/ \E trashed \in BOOLEAN : SetTrashed(i, trashed)
    \/ DeletePermanently(i)

TagWrite ==
  \E t \in Tags :
    \/ CreateTag(t)
    \/ \E S \in SUBSET present : SetTagAssets(t, S)
    \/ \E i \in Ids, add \in BOOLEAN : ChangeTagAsset(t, i, add)

AlbumWrite ==
  \E al \in Albums, S \in SUBSET present, replace \in BOOLEAN :
    SyncAlbum(al, S, replace)

ClientStep ==
  \/ TakeHead \/ WalkPage \/ ReadPage \/ ApplyPage \/ DropPage
  \/ \E i \in Ids : Fetch(i)
  \/ \E al \in Albums : OpenAlbum(al)

Next == UploadWrite \/ AssetWrite \/ TagWrite \/ AlbumWrite \/ OtherAccount \/ ClientStep

Spec == Init /\ [][Next]_vars

-----------------------------------------------------------------------------
(***************************************************************************)
(* Properties.                                                             *)
(***************************************************************************)

\* Every variable has its type, and tag_assets and album_assets refer to rows
\* that exist (their foreign keys).
LibraryTypeOK ==
  /\ born \subseteq Ids /\ present \subseteq born
  /\ row \in [Ids -> Row]
  /\ tags \subseteq Tags /\ tagged \subseteq tags \X present
  /\ members \subseteq Albums \X present
  /\ events \subseteq [seq : 1 .. counter, kind : {"asset", "tag", "album"},
                       id : Ids \cup Tags \cup Albums]
  /\ counter \in 0 .. MaxSequence
  /\ restated \subseteq Shown
  /\ phase \in {"new", "walk", "live"}
  /\ after \in 0 .. counter /\ walked \in 0 .. LastId /\ upto \in 0 .. counter
  /\ todo \subseteq Ids
  /\ cache \in [Ids -> Answers] /\ got \in [Ids -> Answers \cup {Unread}]
  /\ albums \in [Albums -> (SUBSET Ids) \cup {Unread}]

\* The client has applied every event there is.
Synced == phase = "live" /\ upto = NoPage /\ Later(after) = {}

\* What a copy may have of asset i.  The proviso of CacheIsLibrary: the kind and
\* the time that a create rewrote without an event (upsert_asset in
\* create_upload) may be those of any manifest.
Recent(i) ==
  IF i \in restated
    THEN {[row |-> [row[i] EXCEPT !.info = x], tags |-> TagNames(i)] : x \in Infos}
    ELSE {View(i)}

\* A client that has applied every event has the library, whatever was written
\* between the pages of its walk, and between a page of events and the reads
\* it led to (sync_head, snapshot, sync_changes against every record_change),
\* but for the kind and time of an asset a create has rewritten since the
\* asset's last event.
CacheIsLibrary == Synced => \A i \in Ids : cache[i] \in Recent(i)

\* What the documentation says of the walk and the replay: "an update of an
\* asset that was already read is made good by the events replayed afterwards"
\* (docs/gallery-api.md:30-31), for every update.
CopyIsCurrent == Synced => \A i \in Ids : cache[i] = View(i)

\* Nor does it show an album page that has changed since (sync_album,
\* set_trashed and the deletion of members).
AlbumPagesCurrent ==
  Synced => \A al \in Albums : albums[al] \in {Unread, AlbumPage(al)}
=============================================================================
