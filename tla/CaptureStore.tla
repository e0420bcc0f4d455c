---------------------------- MODULE CaptureStore ----------------------------
(***************************************************************************)
(* The app's store of crawled pages: FileSystemSwimCloudCaptureStore in    *)
(* captureStore.ts, the page cache under it and the capture routes that    *)
(* call it.                                                                *)
(*                                                                         *)
(* A capture is one record file that lists pages; the bytes of a page are  *)
(* one file per URL, shared by all captures; index.json sums the records   *)
(* up.  Requests overlap between any two awaits.  Three keyed locks order  *)
(* them: one per capture, one per URL, and one around each access to the   *)
(* record files.  The first two are queues here.  The third is held for    *)
(* one file access only, and the order in which it is granted is left      *)
(* open.  Writing a file truncates it first, so a server that dies leaves  *)
(* it unreadable.                                                          *)
(*                                                                         *)
(* Two copies of a page that differ in form tokens alone are one Body.     *)
(* Subjects, validation, timestamps and the order of the pages are left    *)
(* out, and so are the requests that only read.                            *)
(***************************************************************************)
EXTENDS Naturals, Sequences, FiniteSets

CONSTANTS
  Capture,
  Url,
  Body,        \* contents of a page, up to form tokens
  Request,     \* requests in flight at once
  MaxPlan,     \* bound: page counts a crawl announces
  MaxRequests, \* bound: requests made
  MaxCrashes,  \* bound: times the server dies
  DeletesOverlap, \* a delete may overlap a page of another capture
  Missing,     \* no such file
  Torn,        \* a truncated file: JSON.parse throws
  Omitted      \* a field without a value

Nobody == "nobody"
Unlisted == "unlisted"
NotOk == "not-ok"      \* listed with an outcome other than ok, without bytes
Name == "name"         \* a label
Marks == {"in-progress", "ended"}   \* ended: whole, partial or failed

Ref == Body \cup {Unlisted, NotOk}
Record ==
  [label : {Omitted, Name}, planned : 0 .. MaxPlan, mark : Marks, pages : [Url -> Ref]]

ASSUME KeyAssumption == Capture \cap Url = {} /\ Nobody \notin Request
ASSUME ValueAssumption ==
  /\ Unlisted \notin Body /\ NotOk \notin Body
  /\ Missing \notin Body /\ Torn \notin Body /\ Missing # Torn
  /\ Missing \notin Record /\ Torn \notin Record
  /\ \A S \in SUBSET Url : S # Missing /\ S # Torn
ASSUME LimitAssumption ==
  /\ MaxPlan \in Nat /\ MaxRequests \in Nat /\ MaxCrashes \in Nat
  /\ DeletesOverlap \in BOOLEAN

VARIABLES
  record,   \* captures/<id>.json
  cache,    \* pages/<url>.json
  archive,  \* pages-superseded: the <<url, body>> kept
  index,    \* index.json
  chain,    \* the queues of writeLock (by capture) and urlLock (by URL)
  writer,   \* who has a record file open for writing, under fileLock
  at,       \* where each request in flight is
  req,      \* what it asks
  new,      \* the record it is about to write, or to delete
  sweep,    \* the pages whose bytes a delete still removes
  made,     \* history: requests made
  crashes,  \* history: times the server died
  cut,      \* history: captures whose delete the server did not survive
  spoilt,   \* history: the <<url, body>> the server died over writing
  behind,   \* history: the server died and the index was not rebuilt since
  broke     \* history: a request met an unreadable file before any crash

disk == <<record, cache, archive, index>>
local == <<at, req, new, sweep>>
history == <<made, crashes, cut, spoilt, behind, broke>>
vars == <<record, cache, archive, index, chain, writer, at, req, new, sweep,
          made, crashes, cut, spoilt, behind, broke>>
-----------------------------------------------------------------------------
Key == Capture \cup Url
Kinds == {"open", "page", "label", "delete"}
Places == {"idle", "look", "queue", "bytes", "set", "fill-page", "write", "fill",
           "others", "sweep", "unlink", "rebuild"}

Fresh ==
  [label |-> Omitted, planned |-> 0, mark |-> "in-progress", pages |-> [u \in Url |-> Unlisted]]

(* The fields of the two messages that open or update a capture. *)
Opening(n) == [label |-> Omitted, planned |-> n, mark |-> "in-progress"]
Marking(l) == [label |-> l, planned |-> Omitted, mark |-> "ended"]
Said == {Opening(n) : n \in 1 .. MaxPlan} \cup {Marking(l) : l \in {Omitted, Name}}

(* A request: the fields of an open, the page and the outcome of a page. *)
Ask(kind, c, said, u, ref) == [kind |-> kind, on |-> c, said |-> said, url |-> u, ref |-> ref]
NoRequest == Ask("label", Nobody, Marking(Omitted), Nobody, NotOk)

HasTurn(o, k) == chain[k] # <<>> /\ Head(chain[k]) = o
Queued(o, k) == [chain EXCEPT ![k] = Append(@, o)]
Released(K) == [k \in Key |-> IF k \in K THEN Tail(chain[k]) ELSE chain[k]]

(* What the routes take from a record that is not there. *)
Known(r) == IF r = Missing THEN Fresh ELSE r

(* buildMergedCaptureRecord: a field that is not stated is kept. *)
Merged(said, r) ==
  [label |-> IF said.label = Omitted THEN r.label ELSE said.label,
   planned |-> IF said.planned = Omitted THEN r.planned ELSE said.planned,
   mark |-> said.mark,
   pages |-> Fresh.pages]

(* A plausible bug: the last fetch decides, also when it failed. *)
MergePageAlways(old, ref) == ref

(* mergePageRefs: a failure does not replace a page that was saved. *)
MergePage(old, ref) == IF old \in Body /\ ref = NotOk THEN old ELSE ref

WithPages(r, pages) == [label |-> r.label, planned |-> r.planned, mark |-> r.mark, pages |-> pages]
WithPage(r, u, ref) == WithPages(r, [r.pages EXCEPT ![u] = MergePage(@, ref)])
WithLabel(r) == [label |-> Name, planned |-> r.planned, mark |-> r.mark, pages |-> r.pages]

Listed(r) == {u \in Url : r.pages[u] # Unlisted}
OkPages(r) == {u \in Url : r.pages[u] \in Body}

Summary(r) ==
  IF r = Missing THEN Missing
  ELSE [label |-> r.label, planned |-> r.planned, mark |-> r.mark,
        pageCount |-> Cardinality(Listed(r))]

Init ==
  /\ record = [c \in Capture |-> Missing]
  /\ cache = [u \in Url |-> Missing]
  /\ archive = {}
  /\ index = [c \in Capture |-> Missing]
  /\ chain = [k \in Key |-> <<>>]
  /\ writer = Nobody
  /\ at = [o \in Request |-> "idle"]
  /\ req = [o \in Request |-> NoRequest]
  /\ new = [o \in Request |-> Fresh]
  /\ sweep = [o \in Request |-> {}]
  /\ made = 0 /\ crashes = 0 /\ cut = {} /\ spoilt = {} /\ behind = FALSE /\ broke = FALSE

-----------------------------------------------------------------------------
(* Requests arrive. *)

Arrive(o, place, r) ==
  /\ at[o] = "idle"
  /\ made < MaxRequests
  /\ at' = [at EXCEPT ![o] = place]
  /\ req' = [req EXCEPT ![o] = r]
  /\ made' = made + 1
  /\ UNCHANGED <<disk, writer, new, sweep, crashes, cut, spoilt, behind, broke>>

InFlight(kind, c) == \E o \in Request : at[o] # "idle" /\ req[o].kind = kind /\ req[o].on = c

(* POST /: open a capture or update its fields. *)
Open(o, c, said) ==
  /\ Arrive(o, "look", Ask("open", c, said, Nobody, NotOk))
  /\ UNCHANGED chain

(* POST /:id/pages: one page, with its bytes if the site answered it. *)
SendPage(o, c, u, ref) ==
  /\ DeletesOverlap \/ \A d \in Capture \ {c} : ~InFlight("delete", d)
  /\ Arrive(o, "look", Ask("page", c, Marking(Omitted), u, ref))
  /\ UNCHANGED chain

(* DELETE /:id *)
Delete(o, c) ==
  /\ DeletesOverlap \/ \A d \in Capture \ {c} : ~InFlight("page", d)
  /\ Arrive(o, "look", Ask("delete", c, Marking(Omitted), Nobody, NotOk))
  /\ UNCHANGED chain

(* GET / read the name of a capture without label off a page of it, and *)
(* caches it with setCaptureLabel.                                       *)
CacheName(o, c) ==
  /\ record[c] \notin {Missing, Torn}
  /\ record[c].label = Omitted /\ record[c].mark # "in-progress"
  /\ \E u \in OkPages(record[c]) : cache[u] \in Body
  /\ Arrive(o, "queue", Ask("label", c, Marking(Omitted), Nobody, NotOk))
  /\ chain' = Queued(o, c)

-----------------------------------------------------------------------------
(* How a request goes on and ends. *)

Goes(o, place) ==
  /\ at' = [at EXCEPT ![o] = place]
  /\ UNCHANGED <<req, sweep>>

(* The request is answered and its locks K are released. *)
End(o, K) ==
  /\ at' = [at EXCEPT ![o] = "idle"]
  /\ req' = [req EXCEPT ![o] = NoRequest]
  /\ new' = [new EXCEPT ![o] = Fresh]
  /\ sweep' = [sweep EXCEPT ![o] = {}]
  /\ chain' = Released(K)

(* A plausible bug: a call that fails does not release its locks. *)
BreakHolding(o, K) ==
  /\ End(o, {})
  /\ broke' = (broke \/ crashes = 0)
  /\ UNCHANGED <<disk, writer, made, crashes, cut, spoilt, behind>>

(* A file does not parse: the request ends with status 500. *)
Break(o, K) ==
  /\ End(o, K)
  /\ broke' = (broke \/ crashes = 0)
  /\ UNCHANGED <<disk, writer, made, crashes, cut, spoilt, behind>>

(* A plausible bug: no fileLock. *)
FilesAlwaysFree == TRUE

(* fileLock: nobody has a record file open. *)
FilesFree == writer = Nobody

(* The route's own getCapture, before any lock on the capture. *)
LookBroken(o) ==
  /\ at[o] = "look" /\ FilesFree
  /\ record[req[o].on] = Torn
  /\ Break(o, {})

LookMissing(o) ==
  /\ at[o] = "look" /\ FilesFree
  /\ record[req[o].on] = Missing /\ req[o].kind # "open"
  /\ End(o, {})
  /\ UNCHANGED <<disk, writer, history>>

Look(o) ==
  LET r == record[req[o].on] IN
  /\ at[o] = "look" /\ FilesFree
  /\ r # Torn
  /\ r # Missing \/ req[o].kind = "open"
  /\ Goes(o, "queue")
  /\ new' = [new EXCEPT ![o] = IF req[o].kind = "open" THEN Merged(req[o].said, Known(r)) ELSE @]
  /\ chain' = Queued(o, req[o].on)
  /\ UNCHANGED <<disk, writer, history>>

(* The request has the capture's lock and reads the record again. *)
Enters(o) == at[o] = "queue" /\ HasTurn(o, req[o].on) /\ FilesFree

EnterBroken(o) ==
  /\ Enters(o)
  /\ record[req[o].on] = Torn
  /\ Break(o, {req[o].on})

(* upsertCapture: the caller's fields, the stored pages. *)
EnterOpen(o) ==
  LET r == record[req[o].on] IN
  /\ Enters(o) /\ req[o].kind = "open" /\ r # Torn
  /\ Goes(o, "write")
  /\ new' = [new EXCEPT ![o] = WithPages(@, Known(r).pages)]
  /\ UNCHANGED <<disk, chain, writer, history>>

(* setCaptureLabel *)
EnterLabel(o) ==
  LET r == record[req[o].on] IN
  /\ Enters(o) /\ req[o].kind = "label" /\ r # Torn
  /\ IF r # Missing /\ r.mark # "in-progress" /\ r.label = Omitted
     THEN /\ Goes(o, "write")
          /\ new' = [new EXCEPT ![o] = WithLabel(r)]
          /\ UNCHANGED chain
     ELSE End(o, {req[o].on})
  /\ UNCHANGED <<disk, writer, history>>

(* putPage: a missing capture is refused before any bytes are touched. *)
RefusePage(o) ==
  /\ Enters(o) /\ req[o].kind = "page"
  /\ record[req[o].on] = Missing
  /\ End(o, {req[o].on})
  /\ UNCHANGED <<disk, writer, history>>

EnterPage(o) ==
  LET r == record[req[o].on] IN
  /\ Enters(o) /\ req[o].kind = "page" /\ r \notin {Missing, Torn}
  /\ new' = [new EXCEPT ![o] = WithPage(r, req[o].url, req[o].ref)]
  /\ IF req[o].ref = NotOk THEN Goes(o, "write") /\ UNCHANGED chain
     ELSE Goes(o, "bytes") /\ chain' = Queued(o, req[o].url)
  /\ UNCHANGED <<disk, writer, history>>

(* deleteCapture *)
EnterDelete(o) ==
  LET r == record[req[o].on] IN
  /\ Enters(o) /\ req[o].kind = "delete" /\ r # Torn
  /\ Goes(o, IF r = Missing THEN "unlink" ELSE "others")
  /\ new' = [new EXCEPT ![o] = Known(r)]
  /\ UNCHANGED <<disk, chain, writer, history>>

-----------------------------------------------------------------------------
(* The bytes of a page, under the lock of its URL. *)

(* A plausible bug: the bytes are filed under the lock of the capture alone. *)
HasPageUnlocked(o) == at[o] = "bytes"

HasPage(o) == at[o] = "bytes" /\ HasTurn(o, req[o].url)

(* archiveIfSuperseded *)
ArchiveBroken(o) ==
  /\ HasPage(o)
  /\ cache[req[o].url] = Torn
  /\ Break(o, {req[o].on, req[o].url})

Archive(o) ==
  LET u == req[o].url IN
  /\ HasPage(o)
  /\ cache[u] # Torn
  /\ archive' = archive \cup {<<u, b>> : b \in {cache[u]} \cap (Body \ {req[o].ref})}
  /\ Goes(o, "set")
  /\ UNCHANGED <<record, cache, index, chain, writer, new, history>>

(* pageCache.set: the file is truncated, then filled. *)
TruncatePage(o) ==
  /\ at[o] = "set"
  /\ cache' = [cache EXCEPT ![req[o].url] = Torn]
  /\ Goes(o, "fill-page")
  /\ UNCHANGED <<record, archive, index, chain, writer, new, history>>

FillPage(o) ==
  /\ at[o] = "fill-page"
  /\ cache' = [cache EXCEPT ![req[o].url] = req[o].ref]
  /\ chain' = Released({req[o].url})
  /\ Goes(o, "write")
  /\ UNCHANGED <<record, archive, index, writer, new, history>>

-----------------------------------------------------------------------------
(* Delete: the pages no other capture lists, then the record. *)

FindOthersBroken(o) ==
  /\ at[o] = "others" /\ FilesFree
  /\ \E d \in Capture : record[d] = Torn
  /\ Break(o, {req[o].on})

(* A plausible bug: a delete removes every page it lists, also those others list. *)
FindNoOthers(o) ==
  /\ at[o] = "others" /\ FilesFree
  /\ \A d \in Capture : record[d] # Torn
  /\ at' = [at EXCEPT ![o] = "sweep"]
  /\ sweep' = [sweep EXCEPT ![o] = Listed(new[o])]
  /\ UNCHANGED <<disk, chain, writer, req, new, history>>

FindOthers(o) ==
  LET others == {d \in Capture \ {req[o].on} : record[d] # Missing} IN
  /\ at[o] = "others" /\ FilesFree
  /\ \A d \in Capture : record[d] # Torn
  /\ at' = [at EXCEPT ![o] = "sweep"]
  /\ sweep' = [sweep EXCEPT ![o] = Listed(new[o]) \ UNION {Listed(record[d]) : d \in others}]
  /\ UNCHANGED <<disk, chain, writer, req, new, history>>

(* One page; nobody holds the lock of its URL. *)
SweepPage(o, u) ==
  /\ at[o] = "sweep"
  /\ u \in sweep[o]
  /\ chain[u] = <<>>
  /\ cache' = [cache EXCEPT ![u] = Missing]
  /\ spoilt' = {s \in spoilt : s[1] # u}
  /\ sweep' = [sweep EXCEPT ![o] = @ \ {u}]
  /\ UNCHANGED <<record, archive, index, chain, writer, at, req, new, made, crashes, cut, behind, broke>>

SweepDone(o) ==
  /\ at[o] = "sweep" /\ sweep[o] = {}
  /\ Goes(o, "unlink")
  /\ UNCHANGED <<disk, chain, writer, new, history>>

(* A plausible bug: the index is not rebuilt after a delete. *)
UnlinkOnly(o) ==
  /\ at[o] = "unlink" /\ FilesFree
  /\ record' = [record EXCEPT ![req[o].on] = Missing]
  /\ cut' = cut \ {req[o].on}
  /\ End(o, {req[o].on})
  /\ UNCHANGED <<cache, archive, index, writer, made, crashes, spoilt, behind, broke>>

Unlink(o) ==
  /\ at[o] = "unlink" /\ FilesFree
  /\ record' = [record EXCEPT ![req[o].on] = Missing]
  /\ cut' = cut \ {req[o].on}
  /\ Goes(o, "rebuild")
  /\ UNCHANGED <<cache, archive, index, chain, writer, new, made, crashes, spoilt, behind, broke>>

-----------------------------------------------------------------------------
(* writeCapture and rebuildIndex, which end every change. *)

TruncateRecord(o) ==
  /\ at[o] = "write" /\ FilesFree
  /\ writer' = o
  /\ record' = [record EXCEPT ![req[o].on] = Torn]
  /\ Goes(o, "fill")
  /\ UNCHANGED <<cache, archive, index, chain, new, history>>

FillRecord(o) ==
  /\ at[o] = "fill"
  /\ writer' = Nobody
  /\ record' = [record EXCEPT ![req[o].on] = new[o]]
  /\ Goes(o, "rebuild")
  /\ UNCHANGED <<cache, archive, index, chain, new, history>>

RebuildBroken(o) ==
  /\ at[o] = "rebuild" /\ FilesFree
  /\ \E c \in Capture : record[c] = Torn
  /\ Break(o, {req[o].on})

RebuildIndex(o) ==
  /\ at[o] = "rebuild" /\ FilesFree
  /\ \A c \in Capture : record[c] # Torn
  /\ index' = [c \in Capture |-> Summary(record[c])]
  /\ behind' = FALSE
  /\ End(o, {req[o].on})
  /\ UNCHANGED <<record, cache, archive, writer, made, crashes, cut, spoilt, broke>>

-----------------------------------------------------------------------------
(* The server dies: its requests and locks are gone, the files stay as they are. *)
Crash ==
  /\ crashes < MaxCrashes
  /\ crashes' = crashes + 1
  /\ at' = [o \in Request |-> "idle"]
  /\ req' = [o \in Request |-> NoRequest]
  /\ new' = [o \in Request |-> Fresh]
  /\ sweep' = [o \in Request |-> {}]
  /\ chain' = [k \in Key |-> <<>>]
  /\ writer' = Nobody
  /\ cut' = cut \cup {req[o].on : o \in {p \in Request : at[p] \in {"sweep", "unlink"}}}
  /\ spoilt' = spoilt \cup {<<req[o].url, req[o].ref>> : o \in {p \in Request : at[p] = "fill-page"}}
  /\ behind' = TRUE
  /\ UNCHANGED <<disk, made, broke>>

NewRequest(o) ==
  \E c \in Capture :
    \/ \E said \in Said : Open(o, c, said)
    \/ \E u \in Url, ref \in Body \cup {NotOk} : SendPage(o, c, u, ref)
    \/ Delete(o, c)
    \/ CacheName(o, c)

Step(o) ==
  \/ LookBroken(o) \/ LookMissing(o) \/ Look(o)
  \/ EnterBroken(o) \/ EnterOpen(o) \/ EnterLabel(o)
  \/ RefusePage(o) \/ EnterPage(o) \/ EnterDelete(o)
  \/ ArchiveBroken(o) \/ Archive(o) \/ TruncatePage(o) \/ FillPage(o)
  \/ FindOthersBroken(o) \/ FindOthers(o)
  \/ (\E u \in Url : SweepPage(o, u)) \/ SweepDone(o) \/ Unlink(o)
  \/ TruncateRecord(o) \/ FillRecord(o) \/ RebuildBroken(o) \/ RebuildIndex(o)

Next == Crash \/ \E o \in Request : NewRequest(o) \/ Step(o)

Spec == Init /\ [][Next]_vars

(* The promises of a request settle and its file accesses return. *)
FairSpec == Spec /\ \A o \in Request : WF_vars(Step(o))
-----------------------------------------------------------------------------
Message ==
  [kind : Kinds, on : Capture \cup {Nobody}, said : Said, url : Url \cup {Nobody},
   ref : Body \cup {NotOk}]

RequestOK(r) == r.on \in Capture /\ (r.kind = "page" => r.url \in Url)

TypeOK ==
  /\ record \in [Capture -> Record \cup {Missing, Torn}]
  /\ cache \in [Url -> Body \cup {Missing, Torn}]
  /\ archive \subseteq Url \X Body
  /\ chain \in [Key -> Seq(Request)]
  /\ writer \in Request \cup {Nobody}
  /\ at \in [Request -> Places]
  /\ req \in [Request -> Message]
  /\ \A o \in Request : at[o] # "idle" => RequestOK(req[o])
  /\ new \in [Request -> Record]
  /\ sweep \in [Request -> SUBSET Url]
  /\ made \in 0 .. MaxRequests /\ crashes \in 0 .. MaxCrashes
  /\ cut \subseteq Capture /\ spoilt \subseteq Url \X Body
  /\ behind \in BOOLEAN /\ broke \in BOOLEAN

(* The pages a capture holds as ok; a record being written counts as       *)
(* written.                                                                *)
Kept(c) ==
  IF record[c] = Missing THEN Missing
  ELSE IF record[c] # Torn THEN OkPages(record[c])
  ELSE IF writer # Nobody /\ req[writer].on = c THEN OkPages(new[writer])
  ELSE Torn

Ledger == INSTANCE PageLedger WITH kept <- [c \in Capture |-> Kept(c)]

(* A page stored as ok stays listed as ok until its capture is deleted or  *)
(* the server dies over the record: neither an overlapping page, nor an    *)
(* update of the fields, nor a later failed fetch takes it out, and no     *)
(* request brings a capture to life with pages.                            *)
LedgerSpec == Ledger!Spec

BeingDeleted(c) ==
  c \in cut \/ \E o \in Request : req[o].on = c /\ at[o] \in {"sweep", "unlink"}

Readable(c) == record[c] \notin {Missing, Torn} /\ ~BeingDeleted(c)

(* The file of page u is being written with contents b, or was when the    *)
(* server died, and has not been removed since.                            *)
CutShort(u, b) == <<u, b>> \in spoilt
BeingWritten(u, b) == \E o \in Request : at[o] = "fill-page" /\ req[o].url = u /\ req[o].ref = b

(* A page that a capture lists as ok has bytes (captureStore.ts, putPage:  *)
(* "the page's HTML is always on disk before any reader can see the ref    *)
(* pointing at it"), but while they are written again, and but for a page  *)
(* over whose writing the server died: nothing repairs that one.           *)
ListedPageHasBytes ==
  \A c \in Capture : Readable(c) =>
    \A u \in OkPages(record[c]) :
      cache[u] \in Body \/ \E b \in Body : BeingWritten(u, b) \/ CutShort(u, b)

(* And the very contents it was listed with are its bytes or in the        *)
(* archive (putPage: "so every version survives"), a death of the server   *)
(* included: that takes no version but the one that was just being written *)
(* and, as the same contents are not archived, has no other copy.          *)
VersionSurvives ==
  \A c \in Capture : Readable(c) =>
    \A u \in OkPages(record[c]) :
      LET b == record[c].pages[u] IN
      cache[u] = b \/ <<u, b>> \in archive \/ BeingWritten(u, b) \/ CutShort(u, b)

(* Whoever reads a record file, or the page it replaces, finds a whole     *)
(* file as long as the server has not died; and the index agrees with the  *)
(* records whenever no change is under way: a change that runs to its end  *)
(* repairs what a crash left.  The comment on rebuildIndex                 *)
(* (captureStore.ts:266-272) says less, that two writes can interleave and *)
(* leave a capture out of index.json: so it was before fileLock, under     *)
(* which a rebuild reads the records and writes their summary.             *)
ReadersSeeTheRecords ==
  /\ ~broke
  /\ ~behind /\ (\A o \in Request : at[o] \notin {"fill", "rebuild"}) =>
       index = [c \in Capture |-> Summary(record[c])]

(* Every request is answered, whatever locks it waits for and whatever     *)
(* files it finds unreadable.                                              *)
EveryRequestEnds == \A o \in Request : at[o] # "idle" ~> at[o] = "idle"

(* An update never changes a field it does not state                       *)
(* (swimcloudCaptureRoutes.ts, buildMergedCaptureRecord: "an omitted field *)
(* keeps whatever the stored record holds").                               *)
OmittedFieldIsKept ==
  [][\A o \in Request : EnterOpen(o) /\ record[req[o].on] # Missing =>
       \A f \in {"label", "planned"} :
         req[o].said[f] = Omitted => new'[o][f] = record[req[o].on][f]]_vars
=============================================================================
