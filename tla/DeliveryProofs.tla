--------------------------- MODULE DeliveryProofs ---------------------------
(***************************************************************************)
(* Proofs about Delivery, for files and numbers of any size, any number of *)
(* preview requests and permits and any limit of the cache.                *)
(***************************************************************************)
EXTENDS Delivery, SequenceTheorems, WellFoundedInduction, TLAPS

-----------------------------------------------------------------------------
(***************************************************************************)
(* Byte ranges.                                                            *)
(***************************************************************************)

LEMMA RefusedIsNotChosen == \A a, b : Chosen(a, b) # Refused
  BY DEF Chosen, Refused

\* What Clamp sends, for an end within the file.
LEMMA ClampSends ==
  ASSUME NEW start \in Nat, NEW end \in Nat, NEW size \in Nat, end < size
  PROVE  /\ Sent(Clamp(start, end, size)) = {i \in 0 .. (size - 1) : start <= i /\ i <= end}
         /\ start <= end => Clamp(start, end, size) = Chosen(start, end - start + 1)
         /\ ~(start <= end) => Clamp(start, end, size) = Refused
<1>1. CASE start <= end
  <2>1. Clamp(start, end, size) = Chosen(start, end - start + 1)
    BY <1>1 DEF Clamp
  <2>2. Sent(Clamp(start, end, size)) = start .. end
    BY <2>1, RefusedIsNotChosen DEF Sent, Chosen
  <2>3. QED
    BY <1>1, <2>1, <2>2
<1>2. CASE ~(start <= end)
  BY <1>2 DEF Clamp, Sent
<1>3. QED
  BY <1>1, <1>2

LEMMA RangeIsExact ==
  ASSUME NEW size \in 0 .. MaxNumber, NEW r \in RangeForms(0 .. MaxNumber)
  PROVE  /\ Sent(SelectRange(r, size)) = Asked(r, size)
         /\ Asked(r, size) = {} => SelectRange(r, size) = Refused
<1> USE DeliveryAssumption
<1>1. CASE size = 0
  BY <1>1 DEF SelectRange, Asked, Sent
<1>2. CASE size # 0 /\ r.form = "bad"
  BY <1>2 DEF SelectRange, Asked, Sent
<1>3. CASE size # 0 /\ r.form = "suffix"
  <2>1. r.count \in 0 .. MaxNumber
    BY <1>3 DEF RangeForms
  <2>2. CASE r.count = 0
    <3>1. SelectRange(r, size) = Refused
      BY <1>3, <2>2 DEF SelectRange
    <3>2. Asked(r, size) = {}
      BY <1>3, <2>2 DEF Asked
    <3>3. QED
      BY <3>1, <3>2 DEF Sent
  <2>3. CASE r.count # 0
    <3>1. SelectRange(r, size) = Chosen(size - Least(r.count, size), Least(r.count, size))
      BY <1>3, <2>1, <2>3 DEF SelectRange, Parses
    <3>2. Sent(SelectRange(r, size)) = (size - Least(r.count, size)) .. (size - 1)
      BY <1>3, <2>1, <3>1, RefusedIsNotChosen DEF Sent, Chosen, Least
    <3>3. Asked(r, size) = (size - Least(r.count, size)) .. (size - 1)
      BY <1>3, <2>1, <2>3 DEF Asked, Least
    <3>4. size - 1 \in Asked(r, size)
      BY <1>3, <2>1, <2>3, <3>3 DEF Least
    <3>5. QED
      BY <3>2, <3>3, <3>4
  <2>4. QED
    BY <2>2, <2>3
<1>4. CASE size # 0 /\ r.form = "from"
  <2>1. r.start \in 0 .. MaxNumber
    BY <1>4 DEF RangeForms
  <2>2. SelectRange(r, size) = Clamp(r.start, size - 1, size)
    BY <1>4, <2>1 DEF SelectRange, Parses
  <2>3. Asked(r, size) = {i \in 0 .. (size - 1) : r.start <= i /\ i <= size - 1}
    BY <1>4, <2>1 DEF Asked
  <2>4. r.start <= size - 1 => r.start \in Asked(r, size)
    BY <1>4, <2>1, <2>3
  <2>5. QED
    BY <1>4, <2>1, <2>2, <2>3, <2>4, ClampSends
<1>5. CASE size # 0 /\ r.form = "between"
  <2>1. r.start \in 0 .. MaxNumber /\ r.end \in 0 .. MaxNumber
    BY <1>5 DEF RangeForms
  <2>2. SelectRange(r, size) = Clamp(r.start, Least(r.end, size - 1), size)
    BY <1>5, <2>1 DEF SelectRange, Parses
  <2>3. Asked(r, size) = {i \in 0 .. (size - 1) : r.start <= i /\ i <= Least(r.end, size - 1)}
    <3>1. Asked(r, size) = {i \in 0 .. (size - 1) : r.start <= i /\ i <= r.end}
      BY <1>5 DEF Asked
    <3>2. \A i \in 0 .. (size - 1) : i <= r.end <=> i <= Least(r.end, size - 1)
      BY <2>1 DEF Least
    <3>3. QED
      BY <3>1, <3>2
  <2>4. Least(r.end, size - 1) \in Nat /\ Least(r.end, size - 1) < size
    BY <1>5, <2>1 DEF Least
  <2>5. r.start <= Least(r.end, size - 1) => r.start \in Asked(r, size)
    BY <2>1, <2>3, <2>4
  <2>6. Sent(SelectRange(r, size)) = Asked(r, size)
    BY <2>1, <2>2, <2>3, <2>4, ClampSends
  <2>7. ~(r.start <= Least(r.end, size - 1)) => SelectRange(r, size) = Refused
    BY <2>1, <2>2, <2>4, ClampSends
  <2>8. QED
    BY <2>5, <2>6, <2>7
<1>6. QED
  BY <1>1, <1>2, <1>3, <1>4, <1>5 DEF RangeForms

\* A range that is chosen begins where it was asked for and ends in the file.
LEMMA RangeBegins ==
  ASSUME NEW c \in Contents, NEW start \in Nat, NEW r, SelectRange(r, Size[c]) # Refused,
         \/ r = [form |-> "from", start |-> start]
         \/ r = [form |-> "between", start |-> start, end |-> start]
  PROVE  \E n \in Nat : /\ SelectRange(r, Size[c]) = Chosen(start, n)
                        /\ start + n <= Size[c]
<1> USE DeliveryAssumption
<1>1. Size[c] \in Nat
  OBVIOUS
<1>2. CASE r = [form |-> "from", start |-> start]
  BY <1>1, <1>2 DEF SelectRange, Clamp
<1>3. CASE r = [form |-> "between", start |-> start, end |-> start]
  BY <1>1, <1>3 DEF SelectRange, Clamp, Least
<1>4. QED
  BY <1>2, <1>3

-----------------------------------------------------------------------------
(***************************************************************************)
(* The cache.                                                              *)
(***************************************************************************)

LEMMA EmptyCache == CacheBytes(<< >>) = 0
<1> DEFINE sum[n \in 0 .. 0] == IF n = 0 THEN 0 ELSE sum[n - 1] + PreviewSize[<< >>[n].shows]
<1>1. \E f : f = [n \in 0 .. 0 |-> IF n = 0 THEN 0 ELSE f[n - 1] + PreviewSize[<< >>[n].shows]]
  <2>1. [n \in 0 .. 0 |-> 0] = [n \in 0 .. 0 |-> IF n = 0 THEN 0
           ELSE [m \in 0 .. 0 |-> 0][n - 1] + PreviewSize[<< >>[n].shows]]
    OBVIOUS
  <2>2. QED
    BY <2>1
<1>2. sum = [n \in 0 .. 0 |-> IF n = 0 THEN 0 ELSE sum[n - 1] + PreviewSize[<< >>[n].shows]]
  BY <1>1
<1>3. sum[0] = 0
  BY <1>2
<1>4. QED
  BY <1>3 DEF CacheBytes

\* Some end of a sequence fits, and there is a longest one that does.
LEMMA EvictFits ==
  ASSUME NEW S, NEW s \in Seq(S)
  PROVE  Evict(s) \in Seq(S) /\ CacheBytes(Evict(s)) <= CacheLimit
<1> DEFINE Fits == {n \in 1 .. (Len(s) + 1) : CacheBytes(From(s, n)) <= CacheLimit}
<1>1. Len(s) + 1 \in Fits
  <2>1. From(s, Len(s) + 1) = << >>
    BY SubSeqEmpty DEF From
  <2>2. QED
    BY <2>1, EmptyCache, DeliveryAssumption
<1>2. \E n \in Fits : \A m \in Fits : n <= m
  <2>1. Fits \subseteq Nat /\ Fits # {}
    BY <1>1
  <2>2. \E n \in Fits : \A m \in Fits : ~ (<<m, n>> \in OpToRel(<, Nat))
    BY <2>1, NatLessThanWellFounded, WFMin, Zenon
  <2>3. \E n \in Fits : \A m \in Fits : ~ (m < n)
    BY <2>1, <2>2, Zenon DEF OpToRel
  <2>4. QED
    BY <2>1, <2>3
<1>3. \E n \in 1 .. (Len(s) + 1) : /\ CacheBytes(From(s, n)) <= CacheLimit
                                   /\ \A m \in 1 .. (n - 1) : ~(CacheBytes(From(s, m)) <= CacheLimit)
  BY <1>2
<1>4. PICK n \in 1 .. (Len(s) + 1) : Evict(s) = From(s, n) /\ CacheBytes(From(s, n)) <= CacheLimit
  BY <1>3 DEF Evict
<1>5. \A i \in n .. Len(s) : s[i] \in S
  OBVIOUS
<1>6. From(s, n) \in Seq(S)
  BY <1>5, SubSeqProperties DEF From
<1>7. QED
  BY <1>4, <1>6

-----------------------------------------------------------------------------
(***************************************************************************)
(* The invariant: what a request stands on.                                *)
(***************************************************************************)

Entries == [key : {PreviewKey(c) : c \in Contents}, shows : Contents]

LibraryRight ==
  /\ resource \in Contents \cup {None} /\ objects \subseteq Contents
  /\ resource # None => resource \in objects

\* A device has the beginning of one version; a request to go on starts where
\* the copy ends and names that version, and so does a reply under way.
DownloadRight ==
  /\ copy \in Seq(Contents \X Nat) /\ tag \in Contents \cup {None}
  /\ NeverMixed
  /\ call = None \/ reply = None
  /\ call # None =>
       /\ call \in Call
       /\ call.at \in {"row", "open"} => call.row \in Contents
       /\ call.range # None =>
            /\ tag # None /\ call.ifRange = tag
            /\ call.range \in {[form |-> "from", start |-> Len(copy)],
                               [form |-> "between", start |-> Len(copy), end |-> Len(copy)]}
  /\ reply # None =>
       /\ reply \in Reply /\ reply.at <= reply.end /\ reply.end <= Size[reply.of]
       /\ reply.of = tag /\ reply.at = Len(copy)

\* A preview is decoded from what its request read, and kept under its name.
GalleryRight ==
  /\ preview \in [Previews -> [at : {"idle", "waiting", "permitted", "open", "answered"},
                               row : Contents \cup {None}, shows : Contents \cup {None}]]
  /\ \A p \in Previews : preview[p].at # "idle" => preview[p].row \in Contents
  /\ PreviewsRight
  /\ cache \in Seq(Entries)
  /\ \A i \in 1 .. Len(cache) : cache[i].key = PreviewKey(cache[i].shows)
  /\ CacheBounded

IInv == LibraryRight /\ DownloadRight /\ GalleryRight

LEMMA Starts == Init => IInv
<1> SUFFICES ASSUME Init PROVE IInv
  OBVIOUS
<1> USE DeliveryAssumption DEF Init
<1>1. LibraryRight
  BY DEF LibraryRight
<1>2. DownloadRight
  BY DEF DownloadRight, NeverMixed
<1>3. GalleryRight
  BY EmptyCache DEF GalleryRight, PreviewsRight, CacheBounded, Idle
<1>4. QED
  BY <1>1, <1>2, <1>3 DEF IInv

-----------------------------------------------------------------------------
(***************************************************************************)
(* The library around the handlers.                                        *)
(***************************************************************************)

LEMMA LibraryKeeps ==
  ASSUME IInv, NEW c \in Contents,
         StoreObject(c) \/ ShowVersion(c) \/ Reclaim(c) \/ DeleteResource
  PROVE  IInv'
<1> USE DEF StoreObject, ShowVersion, Reclaim, DeleteResource, IInv, download, gallery
<1>1. LibraryRight'
  BY DEF LibraryRight
<1>2. DownloadRight'
  BY DEF DownloadRight, NeverMixed
<1>3. GalleryRight'
  BY DEF GalleryRight, PreviewsRight, CacheBounded
<1>4. QED
  BY <1>1, <1>2, <1>3

-----------------------------------------------------------------------------
(***************************************************************************)
(* content.                                                                *)
(***************************************************************************)

\* What the steps of a download leave alone.
LEMMA RestKept ==
  ASSUME IInv, UNCHANGED <<resource, objects, gallery>>
  PROVE  LibraryRight' /\ GalleryRight'
  BY DEF IInv, LibraryRight, GalleryRight, PreviewsRight, CacheBounded, gallery

LEMMA AskWholeKeeps == IInv /\ AskWhole => IInv'
<1> SUFFICES ASSUME IInv, AskWhole PROVE IInv'
  OBVIOUS
<1>1. DownloadRight'
  BY DEF IInv, AskWhole, DownloadRight, NeverMixed, Call
<1>2. QED
  BY <1>1, RestKept DEF IInv, AskWhole

LEMMA AskRestKeeps == IInv /\ AskRest => IInv'
<1> SUFFICES ASSUME IInv, AskRest PROVE IInv'
  OBVIOUS
<1>1. PICK r \in {[form |-> "from", start |-> Len(copy)],
                  [form |-> "between", start |-> Len(copy), end |-> Len(copy)]} :
        call' = [at |-> "asked", range |-> r, ifRange |-> tag, ifNoneMatch |-> None, row |-> None]
  BY DEF AskRest
<1>2. Len(copy) \in Nat
  BY DEF IInv, DownloadRight
<1>3. r \in RangeForms(Nat)
  BY <1>2 DEF RangeForms
<1>4. call' \in Call
  BY <1>1, <1>3 DEF Call, IInv, DownloadRight
<1>5. DownloadRight'
  BY <1>1, <1>4 DEF IInv, AskRest, DownloadRight, NeverMixed
<1>6. QED
  BY <1>5, RestKept DEF IInv, AskRest

LEMMA ReadRowKeeps == IInv /\ ReadRow => IInv'
<1> SUFFICES ASSUME IInv, ReadRow PROVE IInv'
  OBVIOUS
<1>1. DownloadRight'
  BY DEF IInv, ReadRow, LibraryRight, DownloadRight, NeverMixed, Call
<1>2. QED
  BY <1>1, RestKept DEF IInv, ReadRow

LEMMA OpenBlobKeeps == IInv /\ OpenBlob => IInv'
<1> SUFFICES ASSUME IInv, OpenBlob PROVE IInv'
  OBVIOUS
<1>1. DownloadRight'
  BY DEF IInv, OpenBlob, DownloadRight, NeverMixed, Call
<1>2. QED
  BY <1>1, RestKept DEF IInv, OpenBlob

LEMMA RespondKeeps == IInv /\ Respond => IInv'
<1> SUFFICES ASSUME IInv, Respond PROVE IInv'
  OBVIOUS
<1> SUFFICES DownloadRight'
  BY RestKept DEF IInv, Respond
<1> DEFINE etag   == call.row
           size   == Size[call.row]
           ranged == call.range # None /\ Honor(call.ifRange, etag)
           choice == IF ranged THEN SelectRange(call.range, size) ELSE Chosen(0, size)
<1>1. /\ call # None /\ etag \in Contents /\ size \in Nat /\ reply = None
  BY DeliveryAssumption DEF Respond, IInv, DownloadRight
<1>2. CASE call.ifNoneMatch = etag
  <2>1. UNCHANGED <<copy, tag, reply>> /\ call' = None
    BY <1>2 DEF Respond
  <2>2. QED
    BY <2>1 DEF IInv, DownloadRight, NeverMixed
<1>3. CASE call.ifNoneMatch # etag /\ choice = Refused
  <2>1. copy' = << >> /\ tag' = None /\ reply' = reply /\ call' = None
    BY <1>3 DEF Respond
  <2>2. QED
    BY <1>1, <2>1 DEF DownloadRight, NeverMixed
<1>4. CASE call.ifNoneMatch # etag /\ choice # Refused
  <2>1. /\ call' = None
        /\ reply' = [of |-> etag, at |-> choice.start, end |-> choice.start + choice.length]
        /\ IF ranged THEN UNCHANGED <<copy, tag>> ELSE copy' = << >> /\ tag' = etag
    BY <1>4 DEF Respond
  <2>2. CASE ranged
    <3>1. tag = etag /\ call.ifRange = tag /\ tag # None
      BY <1>1, <2>2 DEF IInv, DownloadRight, Honor
    <3>2. Len(copy) \in Nat
      BY DEF IInv, DownloadRight
    <3>3. PICK n \in Nat : choice = Chosen(Len(copy), n) /\ Len(copy) + n <= size
      BY <1>1, <1>4, <2>2, <3>2, RangeBegins DEF IInv, DownloadRight
    <3>4. reply' = [of |-> etag, at |-> Len(copy), end |-> Len(copy) + n]
      BY <2>1, <3>3 DEF Chosen
    <3>5. reply' \in Reply /\ reply'.at = Len(copy) /\ reply'.end = Len(copy) + n /\ reply'.of = tag
      BY <1>1, <3>1, <3>2, <3>4 DEF Reply
    <3>6. QED
      BY <1>1, <2>1, <2>2, <3>1, <3>2, <3>3, <3>5 DEF IInv, DownloadRight, NeverMixed
  <2>3. CASE ~ranged
    <3>1. reply' = [of |-> etag, at |-> 0, end |-> size]
      BY <1>1, <2>1, <2>3 DEF Chosen
    <3>2. reply' \in Reply /\ reply'.at = 0 /\ reply'.end = size /\ reply'.of = etag
      BY <1>1, <3>1 DEF Reply
    <3>3. copy' = << >> /\ tag' = etag /\ Len(copy') = 0
      BY <2>1, <2>3
    <3>4. QED
      BY <1>1, <2>1, <3>2, <3>3 DEF DownloadRight, NeverMixed
  <2>4. QED
    BY <2>2, <2>3
<1>5. QED
  BY <1>2, <1>3, <1>4

LEMMA FailCallKeeps == IInv /\ FailCall => IInv'
<1> SUFFICES ASSUME IInv, FailCall PROVE IInv'
  OBVIOUS
<1>1. DownloadRight'
  BY DEF IInv, FailCall, DownloadRight, NeverMixed
<1>2. QED
  BY <1>1, RestKept DEF IInv, FailCall

LEMMA ReceiveByteKeeps == IInv /\ ReceiveByte => IInv'
<1> SUFFICES ASSUME IInv, ReceiveByte PROVE IInv'
  OBVIOUS
<1>1. /\ copy \in Seq(Contents \X Nat) /\ reply \in Reply /\ reply.at < reply.end
      /\ reply.of = tag /\ reply.at = Len(copy) /\ reply.end <= Size[reply.of]
  BY DEF IInv, DownloadRight, ReceiveByte
<1>2. <<reply.of, reply.at>> \in Contents \X Nat
  BY <1>1 DEF Reply
<1>3. copy' = Append(copy, <<reply.of, reply.at>>)
  BY DEF ReceiveByte
<1>4. /\ copy' \in Seq(Contents \X Nat) /\ Len(copy') = Len(copy) + 1
      /\ \A i \in 1 .. Len(copy) : copy'[i] = copy[i]
      /\ copy'[Len(copy) + 1] = <<reply.of, reply.at>>
  BY <1>1, <1>2, <1>3, AppendProperties
<1>5. NeverMixed'
  BY <1>1, <1>4 DEF IInv, DownloadRight, NeverMixed, ReceiveByte
<1>6. reply' = [of |-> reply.of, at |-> reply.at + 1, end |-> reply.end]
  BY <1>1 DEF ReceiveByte, Reply
<1>7. reply' \in Reply /\ reply'.at = Len(copy') /\ reply'.of = tag /\ reply'.end = reply.end
  BY <1>1, <1>4, <1>6 DEF Reply
<1>8. DownloadRight'
  BY <1>1, <1>4, <1>5, <1>7 DEF IInv, DownloadRight, ReceiveByte, Reply
<1>9. QED
  BY <1>8, RestKept DEF IInv, ReceiveByte

LEMMA EndBodyKeeps == IInv /\ EndBody => IInv'
<1> SUFFICES ASSUME IInv, EndBody PROVE IInv'
  OBVIOUS
<1>1. DownloadRight'
  BY DEF IInv, EndBody, DownloadRight, NeverMixed
<1>2. QED
  BY <1>1, RestKept DEF IInv, EndBody

-----------------------------------------------------------------------------
(***************************************************************************)
(* preview.                                                                *)
(***************************************************************************)

\* What the steps of a preview leave alone.
LEMMA DownloadKept ==
  ASSUME IInv, UNCHANGED <<resource, objects, download>>
  PROVE  LibraryRight' /\ DownloadRight'
  BY DEF IInv, LibraryRight, DownloadRight, NeverMixed, download

\* Steps that leave the cache alone and give a request what its row allows.
LEMMA PreviewKeeps ==
  ASSUME IInv, NEW p \in Previews,
         \/ ReadPreviewRow(p) \/ AcquirePermit(p) \/ OpenImage(p) \/ EndPreview(p)
  PROVE  IInv'
<1> USE DEF IInv, GalleryRight, PreviewsRight, CacheBounded
<1>1. CASE ReadPreviewRow(p)
  <2>1. GalleryRight'
    BY <1>1 DEF ReadPreviewRow, LibraryRight
  <2>2. QED
    BY <1>1, <2>1, DownloadKept DEF ReadPreviewRow
<1>2. CASE AcquirePermit(p)
  <2>1. GalleryRight'
    BY <1>2 DEF AcquirePermit
  <2>2. QED
    BY <1>2, <2>1, DownloadKept DEF AcquirePermit
<1>3. CASE OpenImage(p)
  <2>1. GalleryRight'
    BY <1>3 DEF OpenImage
  <2>2. QED
    BY <1>3, <2>1, DownloadKept DEF OpenImage
<1>4. CASE EndPreview(p)
  <2>1. GalleryRight'
    BY <1>4 DEF EndPreview, Idle
  <2>2. QED
    BY <1>4, <2>1, DownloadKept DEF EndPreview
<1>5. QED
  BY <1>1, <1>2, <1>3, <1>4

\* What the cache has under a row's name shows that row.
LEMMA ServeCachedKeeps == ASSUME IInv, NEW p \in Previews, ServeCached(p) PROVE IInv'
<1>1. PICK i \in Hits(p) : Answer(p, cache[i].shows)
  BY DEF ServeCached
<1>2. cache[i].shows = preview[p].row /\ preview[p].row \in Contents
  BY DEF Hits, IInv, GalleryRight, PreviewKey, ServeCached
<1>3. /\ UNCHANGED <<resource, objects, download, cache>>
      /\ preview' = [preview EXCEPT ![p].at = "answered", ![p].shows = preview[p].row]
  BY <1>1, <1>2 DEF ServeCached, Answer
<1>4. PreviewsRight'
  BY <1>3 DEF IInv, GalleryRight, PreviewsRight
<1>5. CacheBounded'
  BY <1>3 DEF IInv, GalleryRight, CacheBounded
<1>6. GalleryRight'
  BY <1>2, <1>3, <1>4, <1>5 DEF IInv, GalleryRight
<1>7. QED
  BY <1>6, DownloadKept DEF IInv, ServeCached

LEMMA DecodeKeeps == ASSUME IInv, NEW p \in Previews, Decode(p) PROVE IInv'
<1> DEFINE Right == {e \in Entries : e.key = PreviewKey(e.shows)}
           entry == [key |-> PreviewKey(preview[p].row), shows |-> preview[p].row]
<1>1. preview[p].row \in Contents
  BY DEF IInv, GalleryRight, Decode
<1>2. entry \in Right
  BY <1>1 DEF Entries
<1>3. cache \in Seq(Right)
  <2>1. cache \in Seq(Entries) /\ \A i \in 1 .. Len(cache) : cache[i].key = PreviewKey(cache[i].shows)
    BY DEF IInv, GalleryRight
  <2>2. \A i \in 1 .. Len(cache) : cache[i] \in Right
    BY <2>1
  <2>3. QED
    BY <2>1, <2>2
<1>4. Append(cache, entry) \in Seq(Right)
  BY <1>2, <1>3
<1>5. cache' = Evict(Append(cache, entry)) /\ Answer(p, preview[p].row)
  BY DEF Decode
<1>6. cache' \in Seq(Right) /\ CacheBytes(Evict(Append(cache, entry))) <= CacheLimit
  BY <1>4, <1>5, EvictFits
<1>7. CacheBounded'
  BY <1>5, <1>6 DEF CacheBounded
<1>8. cache' \in Seq(Entries) /\ \A i \in 1 .. Len(cache') : cache'[i].key = PreviewKey(cache'[i].shows)
  <2>1. \A i \in 1 .. Len(cache') : cache'[i] \in Right
    BY <1>6
  <2>2. QED
    BY <1>6, <2>1
<1>9. GalleryRight'
  BY <1>1, <1>5, <1>7, <1>8 DEF IInv, GalleryRight, PreviewsRight, Answer
<1>10. QED
  BY <1>9, DownloadKept DEF IInv, Decode

-----------------------------------------------------------------------------
LEMMA Steps == IInv /\ [Next]_vars => IInv'
<1> SUFFICES ASSUME IInv, [Next]_vars PROVE IInv'
  OBVIOUS
<1>1. CASE UNCHANGED vars
  BY <1>1 DEF vars, download, gallery, IInv, LibraryRight, DownloadRight, GalleryRight,
              NeverMixed, PreviewsRight, CacheBounded
<1>2. ASSUME NEW c \in Contents, StoreObject(c) \/ ShowVersion(c) \/ Reclaim(c)
      PROVE  IInv'
  BY <1>2, LibraryKeeps
<1>3. CASE DeleteResource
  <2>1. resource \in Contents
    BY <1>3 DEF DeleteResource, IInv, LibraryRight
  <2>2. QED
    BY <1>3, <2>1, LibraryKeeps
<1>4. CASE AskWhole \/ AskRest \/ ReadRow \/ OpenBlob \/ Respond \/ FailCall \/ ReceiveByte \/ EndBody
  BY <1>4, AskWholeKeeps, AskRestKeeps, ReadRowKeeps, OpenBlobKeeps, RespondKeeps, FailCallKeeps,
     ReceiveByteKeeps, EndBodyKeeps
<1>5. ASSUME NEW p \in Previews,
             \/ ReadPreviewRow(p) \/ AcquirePermit(p) \/ ServeCached(p)
             \/ OpenImage(p) \/ Decode(p) \/ EndPreview(p)
      PROVE  IInv'
  BY <1>5, PreviewKeeps, ServeCachedKeeps, DecodeKeeps
<1>6. QED
  BY <1>1, <1>2, <1>3, <1>4, <1>5 DEF Next

LEMMA Invariance == Spec => []IInv
  BY Starts, Steps, PTL DEF Spec

-----------------------------------------------------------------------------
\* Every variable has its type and a body stays within its object, whatever is
\* uploaded, deleted and reclaimed while it is sent.
THEOREM DeliveryTyped == Spec => []DeliveryTypeOK
<1>1. IInv => DeliveryTypeOK
  BY DEF IInv, LibraryRight, DownloadRight, GalleryRight, DeliveryTypeOK, Entries
<1>2. QED
  BY <1>1, Invariance, PTL

\* fn range sends exactly what any header asks for, for files of any size.
THEOREM RangesAreExact == Spec => []RangesExact
<1>1. IInv => RangesExact
  <2> SUFFICES ASSUME IInv, call # None, call.at = "open", NEW r \in RangeForms(0 .. MaxNumber)
               PROVE  /\ Sent(SelectRange(r, Size[call.row])) = Asked(r, Size[call.row])
                      /\ Asked(r, Size[call.row]) = {} => SelectRange(r, Size[call.row]) = Refused
    BY DEF RangesExact
  <2>1. call.row \in Contents
    BY DEF IInv, DownloadRight
  <2>2. Size[call.row] \in 0 .. MaxNumber
    BY <2>1, DeliveryAssumption
  <2>3. QED
    BY <2>2, RangeIsExact
<1>2. QED
  BY <1>1, Invariance, PTL

\* What a device puts together with If-Range is the beginning of one version.
THEOREM CopyIsOneVersion == Spec => []NeverMixed
<1>1. IInv => NeverMixed
  BY DEF IInv, DownloadRight
<1>2. QED
  BY <1>1, Invariance, PTL

\* A preview shows the content of the row its request read.
THEOREM PreviewsAreRight == Spec => []PreviewsRight
<1>1. IInv => PreviewsRight
  BY DEF IInv, GalleryRight
<1>2. QED
  BY <1>1, Invariance, PTL

\* The cache stays within its limit, a preview larger than it included.
THEOREM CacheIsBounded == Spec => []CacheBounded
<1>1. IInv => CacheBounded
  BY DEF IInv, GalleryRight
<1>2. QED
  BY <1>1, Invariance, PTL

-----------------------------------------------------------------------------
\* The handlers meet the library as Shelf describes it: whatever they do leaves
\* it alone.
THEOREM HandlersReadShelf == Spec => ReadsShelf
<1>1. Init => Sh!Init
  BY DEF Init, Sh!Init
<1>2. ASSUME [Next]_vars PROVE [Sh!Next]_<<resource, objects>>
  <2>1. ASSUME NEW c \in Contents, StoreObject(c) \/ ShowVersion(c) \/ Reclaim(c)
        PROVE  Sh!Next
    BY <2>1 DEF StoreObject, ShowVersion, Reclaim, Sh!Next, Sh!Store, Sh!Show, Sh!Discard
  <2>2. CASE DeleteResource
    BY <2>2 DEF DeleteResource, Sh!Next, Sh!Withdraw
  <2>3. CASE \/ AskWhole \/ AskRest \/ ReadRow \/ OpenBlob \/ Respond \/ FailCall
             \/ ReceiveByte \/ EndBody
    BY <2>3 DEF AskWhole, AskRest, ReadRow, OpenBlob, Respond, FailCall, ReceiveByte, EndBody
  <2>4. ASSUME NEW p \in Previews,
               \/ ReadPreviewRow(p) \/ AcquirePermit(p) \/ ServeCached(p)
               \/ OpenImage(p) \/ Decode(p) \/ EndPreview(p)
        PROVE  UNCHANGED <<resource, objects>>
    BY <2>4 DEF ReadPreviewRow, AcquirePermit, ServeCached, OpenImage, Decode, EndPreview
  <2>5. CASE UNCHANGED vars
    BY <2>5 DEF vars
  <2> QED
    BY <1>2, <2>1, <2>2, <2>3, <2>4, <2>5 DEF Next
<1> QED
  BY <1>1, <1>2, PTL DEF Spec, ReadsShelf, Sh!Spec
=============================================================================
