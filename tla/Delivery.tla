------------------------------ MODULE Delivery ------------------------------
(***************************************************************************)
(* Delivery of media to a device, media_delivery.rs: the bytes of a        *)
(* resource by ranges, and previews of images from a bounded cache.        *)
(*                                                                         *)
(* A handler reads the row of the resource, then opens the object the row  *)
(* names; meanwhile the resource gets another version and the old object   *)
(* is reclaimed.  A file that is open stays readable.  Objects are named   *)
(* by the hash of what they hold, so a content stands for its hash, its    *)
(* ETag and its object.  One device, one resource.                         *)
(***************************************************************************)
EXTENDS Naturals, Sequences, FiniteSets

CONSTANTS
  Contents,     \* contents of the versions of the resource
  Size,         \* bytes of each content
  PreviewSize,  \* bytes of the preview of each
  Images,       \* contents that can be decoded
  Previews,     \* preview requests
  Permits,      \* PREVIEW_WORK
  CacheLimit,   \* bytes the preview cache may hold
  MaxNumber,    \* the greatest u64
  None          \* nothing

ASSUME DeliveryAssumption ==
  /\ Size \in [Contents -> Nat] /\ \A c \in Contents : Size[c] <= MaxNumber
  /\ PreviewSize \in [Contents -> Nat] /\ Images \subseteq Contents
  /\ Permits \in Nat /\ CacheLimit \in Nat /\ MaxNumber \in Nat
  /\ None \notin Contents

VARIABLES
  resource,  \* the content the resource shows, or None
  objects,   \* contents whose object is stored
  \* --- the download of the device ---
  copy,      \* bytes it has: pairs of a content and an offset
  tag,       \* ETag of those bytes, or None
  call,      \* its request: range, validators and what the handler has read
  reply,     \* the reply under way: content, next offset and end
  \* --- previews ---
  preview,   \* of a request: how far it came and the row it read
  cache      \* PREVIEWS, oldest first: the key and what the bytes show

download == <<copy, tag, call, reply>>
gallery == <<preview, cache>>
vars == <<resource, objects, download, gallery>>

-----------------------------------------------------------------------------
(***************************************************************************)
(* Byte ranges.                                                            *)
(***************************************************************************)

\* The forms a Range header is split into; "bad" is every other text.
RangeForms(Numbers) ==
  [form : {"suffix"}, count : Numbers] \cup [form : {"from"}, start : Numbers]
    \cup [form : {"between"}, start : Numbers, end : Numbers] \cup [form : {"bad"}]

Refused == [status |-> "refused"]
Chosen(start, length) == [status |-> "chosen", start |-> start, length |-> length]

Least(a, b) == IF a <= b THEN a ELSE b

\* A number that does not fit is not parsed.
Parses(n) == n <= MaxNumber

\* Mutant of Clamp: the end is taken to be excluded.
ClampExclusive(start, end, size) ==
  IF start >= size \/ end < start THEN Refused ELSE Chosen(start, end - start)

\* Start and end of what is sent, both included.
Clamp(start, end, size) ==
  IF start >= size \/ end < start THEN Refused ELSE Chosen(start, end - start + 1)

\* fn range.
SelectRange(r, size) ==
  IF r.form = "bad" \/ size = 0 THEN Refused
  ELSE IF r.form = "suffix" THEN
    IF r.count = 0 \/ ~Parses(r.count) THEN Refused
    ELSE Chosen(size - Least(r.count, size), Least(r.count, size))
  ELSE IF ~Parses(r.start) THEN Refused
  ELSE IF r.form = "from" THEN Clamp(r.start, size - 1, size)
  ELSE IF ~Parses(r.end) THEN Refused
  ELSE Clamp(r.start, Least(r.end, size - 1), size)

\* What the header asks for, as a set of offsets.
Asked(r, size) ==
  {i \in 0 .. (size - 1) :
     CASE r.form = "suffix"  -> i + r.count >= size
       [] r.form = "from"    -> i >= r.start
       [] r.form = "between" -> r.start <= i /\ i <= r.end
       [] OTHER              -> FALSE}

Sent(choice) ==
  IF choice = Refused THEN {} ELSE choice.start .. (choice.start + choice.length - 1)

-----------------------------------------------------------------------------
(***************************************************************************)
(* The library around the handlers.                                        *)
(***************************************************************************)

\* The object of an upload is published; whether the resource will show it is
\* decided later.
StoreObject(c) ==
  /\ c \notin objects
  /\ objects' = objects \cup {c}
  /\ UNCHANGED <<resource, download, gallery>>

\* An upload of another version is committed, or deduplicated.
ShowVersion(c) ==
  /\ c # resource /\ c \in objects
  /\ resource' = c
  /\ UNCHANGED <<objects, download, gallery>>

DeleteResource ==
  /\ resource # None
  /\ resource' = None
  /\ UNCHANGED <<objects, download, gallery>>

\* Mutant: what is reclaimed is not compared with what the resource shows.
ReclaimAny(c) ==
  /\ c \in objects
  /\ objects' = objects \ {c}
  /\ UNCHANGED <<resource, download, gallery>>

\* The object of a version nothing shows is reclaimed.
Reclaim(c) ==
  /\ c \in objects /\ c # resource
  /\ objects' = objects \ {c}
  /\ UNCHANGED <<resource, download, gallery>>

-----------------------------------------------------------------------------
(***************************************************************************)
(* content.                                                                *)
(***************************************************************************)

\* The device asks for the whole resource, unless it still has it ...
AskWhole ==
  /\ call = None /\ reply = None
  /\ call' = [at |-> "asked", range |-> None, ifRange |-> None, ifNoneMatch |-> tag, row |-> None]
  /\ UNCHANGED <<resource, objects, copy, tag, reply, gallery>>

\* ... or goes on where its copy ends, with If-Range, to the end or by a byte.
AskRest ==
  /\ call = None /\ reply = None /\ tag # None
  /\ \E r \in {[form |-> "from", start |-> Len(copy)],
               [form |-> "between", start |-> Len(copy), end |-> Len(copy)]} :
       call' = [at |-> "asked", range |-> r, ifRange |-> tag, ifNoneMatch |-> None, row |-> None]
  /\ UNCHANGED <<resource, objects, copy, tag, reply, gallery>>

\* The row; 404 without one.
ReadRow ==
  /\ call # None /\ call.at = "asked" /\ resource # None
  /\ call' = [call EXCEPT !.at = "row", !.row = resource]
  /\ UNCHANGED <<resource, objects, copy, tag, reply, gallery>>

\* open_blob and the comparison of the size; the file stays open.
OpenBlob ==
  /\ call # None /\ call.at = "row" /\ call.row \in objects
  /\ call' = [call EXCEPT !.at = "open"]
  /\ UNCHANGED <<resource, objects, copy, tag, reply, gallery>>

\* Mutant: If-Range is not compared.
HonorAlways(ifRange, etag) == TRUE
Honor(ifRange, etag) == ifRange = None \/ ifRange = etag

\* The headers of the reply: 304, 200, 206 or 416.
Respond ==
  /\ call # None /\ call.at = "open"
  /\ LET etag   == call.row
         size   == Size[call.row]
         ranged == call.range # None /\ Honor(call.ifRange, etag)
         choice == IF ranged THEN SelectRange(call.range, size) ELSE Chosen(0, size)
     IN \/ /\ call.ifNoneMatch = etag
           /\ UNCHANGED <<copy, tag, reply>>
        \/ /\ call.ifNoneMatch # etag /\ choice = Refused
           /\ copy' = << >> /\ tag' = None /\ UNCHANGED reply
        \/ /\ call.ifNoneMatch # etag /\ choice # Refused
           /\ reply' = [of |-> etag, at |-> choice.start, end |-> choice.start + choice.length]
           /\ IF ranged THEN UNCHANGED <<copy, tag>> ELSE copy' = << >> /\ tag' = etag
  /\ call' = None
  /\ UNCHANGED <<resource, objects, gallery>>

\* A request that fails: no row, no object, another size; or one that is dropped.
FailCall ==
  /\ call # None
  /\ call' = None
  /\ UNCHANGED <<resource, objects, copy, tag, reply, gallery>>

\* One byte of the body arrives.
ReceiveByte ==
  /\ reply # None /\ reply.at < reply.end
  /\ copy' = Append(copy, <<reply.of, reply.at>>)
  /\ reply' = [reply EXCEPT !.at = @ + 1]
  /\ UNCHANGED <<resource, objects, tag, call, gallery>>

\* The body ends, or the connection breaks in it.
EndBody ==
  /\ reply # None
  /\ reply' = None
  /\ UNCHANGED <<resource, objects, copy, tag, call, gallery>>

-----------------------------------------------------------------------------
(***************************************************************************)
(* preview.                                                                *)
(***************************************************************************)

Idle == [at |-> "idle", row |-> None, shows |-> None]

\* Mutant: previews are kept by the resource.
SameKey(c) == "resource"
\* The key of a preview; the account is always the same one here.
PreviewKey(c) == c

\* The row; the request waits for a permit.
ReadPreviewRow(p) ==
  /\ preview[p] = Idle /\ resource # None
  /\ preview' = [preview EXCEPT ![p] = [at |-> "waiting", row |-> resource, shows |-> None]]
  /\ UNCHANGED <<resource, objects, download, cache>>

Working(p) == preview[p].at \in {"permitted", "open"}

\* A permit is free; it is kept until the request ends.
AcquirePermit(p) ==
  /\ preview[p].at = "waiting" /\ Cardinality({q \in Previews : Working(q)}) < Permits
  /\ preview' = [preview EXCEPT ![p].at = "permitted"]
  /\ UNCHANGED <<resource, objects, download, cache>>

\* Entries of the cache for the row of a request, by position.
Hits(p) == {i \in 1 .. Len(cache) : cache[i].key = PreviewKey(preview[p].row)}

Answer(p, c) == preview' = [preview EXCEPT ![p].at = "answered", ![p].shows = c]

\* The cache has it.
ServeCached(p) ==
  /\ preview[p].at = "permitted"
  /\ \E i \in Hits(p) : (\A j \in Hits(p) : i <= j) /\ Answer(p, cache[i].shows)
  /\ UNCHANGED <<resource, objects, download, cache>>

\* The cache does not have it, and is not looked at again; the object is opened.
OpenImage(p) ==
  /\ preview[p].at = "permitted" /\ Hits(p) = {} /\ preview[p].row \in objects
  /\ preview' = [preview EXCEPT ![p].at = "open"]
  /\ UNCHANGED <<resource, objects, download, cache>>

CacheBytes(s) ==
  LET sum[n \in 0 .. Len(s)] == IF n = 0 THEN 0 ELSE sum[n - 1] + PreviewSize[s[n].shows]
  IN sum[Len(s)]

From(s, n) == SubSeq(s, n, Len(s))

\* Mutant: at most one entry makes room for the new one.
EvictOne(s) == IF CacheBytes(s) > CacheLimit THEN From(s, 2) ELSE s
\* The oldest entries go while the rest is too large.
Evict(s) ==
  LET n == CHOOSE n \in 1 .. (Len(s) + 1) :
             /\ CacheBytes(From(s, n)) <= CacheLimit
             /\ \A m \in 1 .. (n - 1) : ~(CacheBytes(From(s, m)) <= CacheLimit)
  IN From(s, n)

\* The image is decoded and kept, next to another copy if two requests did so.
Decode(p) ==
  /\ preview[p].at = "open" /\ preview[p].row \in Images
  /\ LET c == preview[p].row IN
       /\ cache' = Evict(Append(cache, [key |-> PreviewKey(c), shows |-> c]))
       /\ Answer(p, c)
  /\ UNCHANGED <<resource, objects, download>>

\* The answer is sent, 304 to a device that has it included, or the request
\* fails or is dropped; the permit is given back.
EndPreview(p) ==
  /\ preview[p] # Idle
  /\ preview' = [preview EXCEPT ![p] = Idle]
  /\ UNCHANGED <<resource, objects, download, cache>>

-----------------------------------------------------------------------------
Init ==
  /\ resource = None /\ objects = {}
  /\ copy = << >> /\ tag = None /\ call = None /\ reply = None
  /\ preview = [p \in Previews |-> Idle] /\ cache = << >>

Next ==
  \/ \E c \in Contents : StoreObject(c) \/ ShowVersion(c) \/ Reclaim(c)
  \/ DeleteResource
  \/ AskWhole \/ AskRest \/ ReadRow \/ OpenBlob \/ Respond \/ FailCall
  \/ ReceiveByte \/ EndBody
  \/ \E p \in Previews :
       \/ ReadPreviewRow(p) \/ AcquirePermit(p) \/ ServeCached(p)
       \/ OpenImage(p) \/ Decode(p) \/ EndPreview(p)

Spec == Init /\ [][Next]_vars

-----------------------------------------------------------------------------
(***************************************************************************)
(* Properties.                                                             *)
(***************************************************************************)

Call == [at : {"asked", "row", "open"}, range : RangeForms(Nat) \cup {None},
         ifRange : Contents \cup {None}, ifNoneMatch : Contents \cup {None},
         row : Contents \cup {None}]
Reply == [of : Contents, at : Nat, end : Nat]

\* Every variable has its type, and a body stays within its object.
DeliveryTypeOK ==
  /\ resource \in Contents \cup {None} /\ objects \subseteq Contents
  /\ resource # None => resource \in objects
  /\ copy \in Seq(Contents \X Nat) /\ tag \in Contents \cup {None}
  /\ call = None \/ call \in Call
  /\ reply = None \/ (reply \in Reply /\ reply.at <= reply.end /\ reply.end <= Size[reply.of])
  /\ preview \in [Previews -> [at : {"idle", "waiting", "permitted", "open", "answered"},
                               row : Contents \cup {None}, shows : Contents \cup {None}]]
  /\ cache \in Seq([key : {PreviewKey(c) : c \in Contents}, shows : Contents])

\* Of an object opened for a call with a range, fn range would send exactly the
\* bytes that any header asks for, of any form, at the end, past the end and of
\* an empty file, and refuse when there are none.
RangesExact ==
  call # None /\ call.at = "open" /\ call.range # None =>
    \A r \in RangeForms(0 .. MaxNumber) :
      /\ Sent(SelectRange(r, Size[call.row])) = Asked(r, Size[call.row])
      /\ Asked(r, Size[call.row]) = {} => SelectRange(r, Size[call.row]) = Refused

\* What a device has put together by resuming with If-Range is the beginning of
\* one version, whatever was uploaded and reclaimed between its requests.
NeverMixed ==
  \A i \in 1 .. Len(copy) : copy[i] = <<tag, i - 1>>

\* A preview shows the content of the row its request read, although the
\* resource changes and others fill and empty the cache meanwhile.
PreviewsRight ==
  \A p \in Previews : preview[p].at = "answered" => preview[p].shows = preview[p].row

\* The cache holds no more than its limit whenever its mutex is free.
CacheBounded == CacheBytes(cache) <= CacheLimit

-----------------------------------------------------------------------------
\* What the handlers see of the library changes as Shelf says; UploadHistory
\* says as much of the protocol that changes it.
Sh == INSTANCE Shelf

ReadsShelf == Sh!Spec
=============================================================================
