--------------------------- MODULE FallbackStore ---------------------------
(***************************************************************************)
(* The pages of a capture that the app did not take: appendFallbackPage    *)
(* and flushDownloads in background.ts, over chrome.storage.local, which   *)
(* has no transaction across keys.                                         *)
(*                                                                         *)
(* The service worker may be terminated between any two steps; what it was *)
(* doing is then lost, and the storage stays.  The content script relays   *)
(* one page at a time and flushes when no relay is out.  The storage key   *)
(* of a page is its number.                                                *)
(***************************************************************************)
EXTENDS Naturals

CONSTANTS
  Page,      \* pages relayed
  MaxListed, \* bound: pages in the storage
  MaxDeaths  \* bound: terminations of the worker

VARIABLES
  slot,     \* chrome.storage.local: the page under each key
  index,    \* and the keys listed, so 1 .. n
  files,    \* the pages of each downloaded file
  worker,   \* the message in hand: its step, its page, the keys it read
  answered, \* history: pages the worker said are saved
  deaths    \* history: terminations so far

vars == <<slot, index, files, worker, answered, deaths>>

Key == 1 .. MaxListed
Nothing == {}    \* no page under a key
Idle == [at |-> "idle", page |-> Nothing, keys |-> 0]

Init ==
  /\ slot = [k \in Key |-> Nothing] /\ index = 0
  /\ files = {} /\ worker = Idle
  /\ answered = {} /\ deaths = 0

At(place) == worker.at = place
-----------------------------------------------------------------------------
(* relay-page of a page the app refused *)
Relay(p) ==
  /\ At("idle") /\ index < MaxListed
  /\ worker' = [at |-> "page", page |-> {p}, keys |-> index]
  /\ UNCHANGED <<slot, index, files, answered, deaths>>

(* A plausible bug: the index first, so that the key is taken. *)
WriteIndexEarly ==
  /\ At("page")
  /\ slot' = slot
  /\ index' = worker.keys + 1
  /\ worker' = [worker EXCEPT !.at = "index"]
  /\ UNCHANGED <<files, answered, deaths>>

(* The page first, under the key after the last one listed. *)
WritePage ==
  /\ At("page")
  /\ slot' = [slot EXCEPT ![worker.keys + 1] = worker.page]
  /\ worker' = [worker EXCEPT !.at = "index"]
  /\ UNCHANGED <<index, files, answered, deaths>>

WriteIndex ==
  /\ At("index")
  /\ index' = worker.keys + 1
  /\ answered' = answered \cup worker.page
  /\ worker' = Idle
  /\ UNCHANGED <<slot, files, deaths>>

(* flush-downloads: nothing is done when nothing is listed. *)
Flush ==
  /\ At("idle") /\ index # 0
  /\ worker' = [Idle EXCEPT !.at = "download", !.keys = index]
  /\ UNCHANGED <<slot, index, files, answered, deaths>>

(* A plausible bug: the outcome of the download is not awaited. *)
DownloadUnawaited ==
  /\ At("download")
  /\ worker' = [worker EXCEPT !.at = "remove"]
  /\ UNCHANGED <<slot, index, files, answered, deaths>>

(* One file of the listed pages that are there; a download that fails      *)
(* leaves the storage as it is.                                            *)
Download ==
  /\ At("download")
  /\ files' = files \cup {UNION {slot[k] : k \in 1 .. worker.keys}}
  /\ worker' = [worker EXCEPT !.at = "remove"]
  /\ UNCHANGED <<slot, index, answered, deaths>>

DownloadFails ==
  /\ At("download")
  /\ worker' = Idle
  /\ UNCHANGED <<slot, index, files, answered, deaths>>

(* The keys and the index, in one call *)
Remove ==
  /\ At("remove")
  /\ slot' = [k \in Key |-> IF k <= worker.keys THEN Nothing ELSE slot[k]]
  /\ index' = 0
  /\ worker' = Idle
  /\ UNCHANGED <<files, answered, deaths>>

Die ==
  /\ ~At("idle") /\ deaths < MaxDeaths
  /\ worker' = Idle
  /\ deaths' = deaths + 1
  /\ UNCHANGED <<slot, index, files, answered>>

Next ==
  \/ \E p \in Page : Relay(p)
  \/ WritePage \/ WriteIndex \/ Flush \/ Download \/ DownloadFails \/ Remove \/ Die

Spec == Init /\ [][Next]_vars
-----------------------------------------------------------------------------
TypeOK ==
  /\ slot \in [Key -> {Nothing} \cup {{p} : p \in Page}] /\ index \in 0 .. MaxListed
  /\ files \subseteq SUBSET Page /\ answered \subseteq Page /\ deaths \in 0 .. MaxDeaths
  /\ worker \in [at : {"idle", "page", "index", "download", "remove"},
                page : {Nothing} \cup {{p} : p \in Page}, keys : 0 .. MaxListed]

Listed == UNION {slot[k] : k \in 1 .. index}

(* A page the panel was told is saved to the downloads is listed in the    *)
(* storage or in a downloaded file, wherever the worker was terminated:    *)
(* every key of the index has a page, and a termination between the two    *)
(* writes of an append leaves a page that is not listed, never a key       *)
(* without its page (the comment in appendFallbackPage).                   *)
AnsweredIsKept ==
  /\ answered \subseteq Listed \cup UNION files
  /\ \A k \in 1 .. index : slot[k] # Nothing
=============================================================================
