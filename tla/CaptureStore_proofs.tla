-------------------------- MODULE CaptureStore_proofs -------------------------
(***************************************************************************)
(* Proofs about CaptureStore, for any captures, pages, contents, requests  *)
(* and bounds.                                                             *)
(***************************************************************************)
EXTENDS CaptureStore, SequenceTheorems, TLAPS

Filing == {"bytes", "set", "fill-page"}
Deleting == {"others", "sweep", "unlink"}
Holding == Filing \cup Deleting \cup {"write", "fill", "rebuild"}

(* Who is past its turn holds the lock, and who has a record open is the   *)
(* writer.                                                                 *)
LocksOK ==
  \A o \in Request :
    /\ at[o] \in Holding => HasTurn(o, req[o].on)
    /\ at[o] \in Filing => req[o].kind = "page" /\ req[o].ref \in Body
    /\ at[o] \in {"set", "fill-page"} => HasTurn(o, req[o].url)
    /\ at[o] = "fill" <=> writer = o

-----------------------------------------------------------------------------
(* Types and locks *)

LEMMA RecordParts ==
  ASSUME NEW r \in Record
  PROVE  /\ r.label \in {Omitted, Name} /\ r.planned \in 0 .. MaxPlan /\ r.mark \in Marks
         /\ r.pages \in [Url -> Ref]
         /\ r # Missing /\ r # Torn
  BY ValueAssumption DEF Record

LEMMA FreshTyped == Fresh \in Record /\ \A u \in Url : Fresh.pages[u] = Unlisted
  BY LimitAssumption DEF Fresh, Record, Marks, Ref

LEMMA WithPagesTyped ==
  ASSUME NEW r \in Record, NEW s \in Record
  PROVE  /\ WithPages(r, s.pages) \in Record
         /\ WithPages(r, s.pages).pages = s.pages
  BY RecordParts DEF WithPages, Record

LEMMA WithPageTyped ==
  ASSUME NEW r \in Record, NEW u \in Url, NEW ref \in Body \cup {NotOk}
  PROVE  /\ WithPage(r, u, ref) \in Record
         /\ WithPage(r, u, ref).pages = [r.pages EXCEPT ![u] = MergePage(@, ref)]
         /\ MergePage(r.pages[u], ref) \in Ref
  BY RecordParts DEF WithPage, WithPages, Record, MergePage, Ref

LEMMA WithLabelTyped ==
  ASSUME NEW r \in Record
  PROVE  WithLabel(r) \in Record /\ WithLabel(r).pages = r.pages
  BY RecordParts DEF WithLabel, Record, Name

LEMMA MergedTyped ==
  ASSUME NEW said \in Said, NEW r \in Record
  PROVE  Merged(said, r) \in Record
<1>1. CASE \E n \in 1 .. MaxPlan : said = Opening(n)
  BY <1>1, RecordParts, FreshTyped, LimitAssumption DEF Opening, Merged, Record, Marks
<1>2. CASE \E l \in {Omitted, Name} : said = Marking(l)
  BY <1>2, RecordParts, FreshTyped DEF Marking, Merged, Record, Marks
<1> QED BY <1>1, <1>2 DEF Said

(* What a request says. *)
Message1(r) == r \in Message /\ RequestOK(r)

LEMMA NoRequestTyped == NoRequest \in Message
  BY DEF NoRequest, Ask, Message, Kinds, Said

LEMMA OpenTyped ==
  ASSUME NEW c \in Capture, NEW said \in Said
  PROVE  Message1(Ask("open", c, said, Nobody, NotOk))
  BY DEF Ask, Message1, Message, Kinds, RequestOK

LEMMA PageTyped ==
  ASSUME NEW c \in Capture, NEW u \in Url, NEW ref \in Body \cup {NotOk}
  PROVE  Message1(Ask("page", c, Marking(Omitted), u, ref))
  BY DEF Ask, Message1, Message, Kinds, RequestOK, Said

LEMMA DeleteTyped ==
  ASSUME NEW c \in Capture
  PROVE  /\ Message1(Ask("delete", c, Marking(Omitted), Nobody, NotOk))
         /\ Message1(Ask("label", c, Marking(Omitted), Nobody, NotOk))
  BY DEF Ask, Message1, Message, Kinds, RequestOK, Said

(* A queue that takes one more request, and queues whose heads leave. *)
LEMMA QueueGrows ==
  ASSUME chain \in [Key -> Seq(Request)], NEW o \in Request, NEW k \in Key
  PROVE  /\ Queued(o, k) \in [Key -> Seq(Request)]
         /\ \A p \in Request, l \in Key :
              HasTurn(p, l) => Queued(o, k)[l] # <<>> /\ Head(Queued(o, k)[l]) = p
<1>1. \A s \in Seq(Request) :
         /\ Append(s, o) \in Seq(Request)
         /\ s # <<>> => Append(s, o) # <<>> /\ Head(Append(s, o)) = Head(s)
  OBVIOUS
<1> QED BY <1>1 DEF Queued, HasTurn

LEMMA QueuesShrink ==
  ASSUME chain \in [Key -> Seq(Request)], NEW o \in Request, NEW K \in SUBSET Key,
         \A k \in K : HasTurn(o, k)
  PROVE  /\ Released(K) \in [Key -> Seq(Request)]
         /\ \A p \in Request \ {o}, l \in Key :
              HasTurn(p, l) => Released(K)[l] # <<>> /\ Head(Released(K)[l]) = p
         /\ \A l \in Key \ K : Released(K)[l] = chain[l]
<1>1. \A s \in Seq(Request) : s # <<>> => Tail(s) \in Seq(Request)
  OBVIOUS
<1> QED BY <1>1 DEF Released, HasTurn

(* Types of what a step may do to a request of its own, and to no other.   *)
Typed == TypeOK /\ LocksOK

LocalTyped ==
  /\ at \in [Request -> Places] /\ req \in [Request -> Message]
  /\ new \in [Request -> Record] /\ sweep \in [Request -> SUBSET Url]
  /\ chain \in [Key -> Seq(Request)] /\ writer \in Request \cup {Nobody}
  /\ \A p \in Request : at[p] # "idle" => RequestOK(req[p])

OthersRest(o) ==
  \A p \in Request \ {o} :
    /\ at'[p] = at[p] /\ req'[p] = req[p] /\ new'[p] = new[p] /\ sweep'[p] = sweep[p]
    /\ \A k \in Key : HasTurn(p, k) => HasTurn(p, k)'
    /\ writer' = p <=> writer = p

(* What a step of o must show about o itself. *)
OwnTyped(o) ==
  /\ at'[o] \in Places /\ req'[o] \in Message /\ new'[o] \in Record /\ sweep'[o] \in SUBSET Url
  /\ at'[o] # "idle" => RequestOK(req'[o])

OwnLocks(o) ==
  /\ at'[o] \in Holding => HasTurn(o, req[o].on)'
  /\ at'[o] \in Filing => req'[o].kind = "page" /\ req'[o].ref \in Body
  /\ at'[o] \in {"set", "fill-page"} => HasTurn(o, req[o].url)'
  /\ at'[o] = "fill" <=> writer' = o

(* The shape of every step: o changes its own place, request, plan and     *)
(* sweep.                                                                  *)
Own(o) ==
  /\ at' = [at EXCEPT ![o] = at'[o]] /\ req' = [req EXCEPT ![o] = req'[o]]
  /\ new' = [new EXCEPT ![o] = new'[o]] /\ sweep' = [sweep EXCEPT ![o] = sweep'[o]]

ChainMoves(o) ==
  /\ chain' \in [Key -> Seq(Request)]
  /\ \A p \in Request \ {o}, k \in Key : HasTurn(p, k) => HasTurn(p, k)'

LEMMA ChainSame ==
  ASSUME LocalTyped, NEW o \in Request, UNCHANGED chain
  PROVE  ChainMoves(o) /\ \A k \in Key : HasTurn(o, k) => HasTurn(o, k)'
  BY DEF LocalTyped, ChainMoves, HasTurn

LEMMA ChainQueues ==
  ASSUME LocalTyped, NEW o \in Request, NEW k \in Key, chain' = Queued(o, k)
  PROVE  ChainMoves(o) /\ \A l \in Key : HasTurn(o, l) => HasTurn(o, l)'
<1>1. chain \in [Key -> Seq(Request)]
  BY DEF LocalTyped
<1>2. /\ Queued(o, k) \in [Key -> Seq(Request)]
      /\ \A p \in Request, l \in Key :
           HasTurn(p, l) => Queued(o, k)[l] # <<>> /\ Head(Queued(o, k)[l]) = p
  BY <1>1, QueueGrows
<1> QED BY <1>2 DEF ChainMoves, HasTurn

LEMMA ChainReleases ==
  ASSUME LocalTyped, NEW o \in Request, NEW K \in SUBSET Key,
         \A k \in K : HasTurn(o, k), chain' = Released(K)
  PROVE  /\ ChainMoves(o)
         /\ \A k \in Key \ K : HasTurn(o, k) => HasTurn(o, k)'
  BY QueuesShrink DEF LocalTyped, ChainMoves, HasTurn

LEMMA TypedLocal == TypeOK => LocalTyped
  BY DEF TypeOK, LocalTyped

LEMMA OwnStep ==
  ASSUME Typed, NEW o \in Request, Own(o), OwnTyped(o), ChainMoves(o), OwnLocks(o),
         writer' \in {writer, o, Nobody}, writer' = writer \/ writer \in {o, Nobody}
  PROVE  LocalTyped' /\ LocksOK' /\ OthersRest(o)
<1> USE TypedLocal DEF Typed
<1>1. \A p \in Request \ {o} :
         at'[p] = at[p] /\ req'[p] = req[p] /\ new'[p] = new[p] /\ sweep'[p] = sweep[p]
  BY DEF LocalTyped, Own
<1>2. LocalTyped'
  <2>1. /\ at' \in [Request -> Places] /\ req' \in [Request -> Message]
        /\ new' \in [Request -> Record] /\ sweep' \in [Request -> SUBSET Url]
    BY DEF LocalTyped, Own, OwnTyped
  <2>2. \A p \in Request : at'[p] # "idle" => RequestOK(req'[p])
    BY <1>1 DEF LocalTyped, OwnTyped
  <2>3. chain' \in [Key -> Seq(Request)] /\ writer' \in Request \cup {Nobody}
    BY DEF LocalTyped, ChainMoves
  <2> QED BY <2>1, <2>2, <2>3 DEF LocalTyped
<1>3. \A p \in Request \ {o} : writer' = p <=> writer = p
  BY KeyAssumption DEF LocalTyped
<1>4. OthersRest(o)
  BY <1>1, <1>3 DEF OthersRest, ChainMoves
<1>5. \A p \in Request \ {o} :
        /\ at'[p] \in Holding => HasTurn(p, req[p].on)'
        /\ at'[p] \in Filing => req'[p].kind = "page" /\ req'[p].ref \in Body
        /\ at'[p] \in {"set", "fill-page"} => HasTurn(p, req[p].url)'
        /\ at'[p] = "fill" <=> writer' = p
  <2> SUFFICES ASSUME NEW p \in Request \ {o}
               PROVE  /\ at'[p] \in Holding => HasTurn(p, req[p].on)'
                      /\ at'[p] \in Filing => req'[p].kind = "page" /\ req'[p].ref \in Body
                      /\ at'[p] \in {"set", "fill-page"} => HasTurn(p, req[p].url)'
                      /\ at'[p] = "fill" <=> writer' = p
    OBVIOUS
  <2>1. at'[p] \in Holding => HasTurn(p, req[p].on) /\ req[p].on \in Key
    BY <1>1 DEF LocksOK, LocalTyped, RequestOK, Holding, Filing, Deleting, Key
  <2>2. at'[p] \in {"set", "fill-page"} => HasTurn(p, req[p].url)
    BY <1>1 DEF LocksOK
  <2>3. at'[p] \in {"set", "fill-page"} => req[p].url \in Key
    BY <1>1 DEF LocalTyped, RequestOK, Key, LocksOK, Filing
  <2>4. /\ at'[p] \in Holding => HasTurn(p, req[p].on)'
        /\ at'[p] \in {"set", "fill-page"} => HasTurn(p, req[p].url)'
    BY <1>1, <2>1, <2>2, <2>3 DEF ChainMoves, HasTurn
  <2> QED BY <1>1, <1>3, <2>4 DEF LocksOK
<1> QED BY <1>2, <1>4, <1>5 DEF LocksOK, OwnLocks

Shape(o) ==
  /\ Own(o) /\ OwnTyped(o) /\ ChainMoves(o) /\ OwnLocks(o)
  /\ writer' \in {writer, o, Nobody} /\ (writer' = writer \/ writer \in {o, Nobody})

LEMMA EndShape ==
  ASSUME Typed, NEW o \in Request, NEW K \in SUBSET Key, \A k \in K : HasTurn(o, k),
         End(o, K), UNCHANGED writer, at[o] # "fill"
  PROVE  Shape(o)
<1> USE TypedLocal DEF Typed
<1>1. /\ Own(o) /\ at'[o] = "idle" /\ req'[o] = NoRequest /\ new'[o] = Fresh /\ sweep'[o] = {}
  BY DEF End, Own, LocalTyped
<1>2. ChainMoves(o)
  BY ChainReleases DEF End
<1>3. OwnTyped(o)
  BY <1>1, NoRequestTyped, FreshTyped DEF OwnTyped, Places
<1>4. OwnLocks(o)
  BY <1>1 DEF OwnLocks, LocksOK, Holding, Filing, Deleting
<1> QED BY <1>1, <1>2, <1>3, <1>4 DEF Shape

LEMMA ArriveShape ==
  ASSUME Typed, NEW o \in Request, NEW place \in {"look", "queue"}, NEW r, Message1(r),
         Arrive(o, place, r), ChainMoves(o)
  PROVE  Shape(o) /\ UNCHANGED <<record, cache, archive, index, crashes, cut, spoilt, behind, broke>>
<1> USE TypedLocal DEF Typed
<1>1. /\ Own(o) /\ at'[o] = place /\ req'[o] = r /\ new'[o] = new[o] /\ sweep'[o] = sweep[o]
      /\ UNCHANGED writer /\ at[o] = "idle"
      /\ UNCHANGED <<record, cache, archive, index, crashes, cut, spoilt, behind, broke>>
  BY DEF Arrive, Own, LocalTyped, disk
<1>2. OwnTyped(o)
  BY <1>1 DEF OwnTyped, Places, Message1, LocalTyped
<1>3. OwnLocks(o)
  BY <1>1 DEF OwnLocks, LocksOK, Holding, Filing, Deleting
<1> QED BY <1>1, <1>2, <1>3 DEF Shape

(* A step that goes on to another place, with its plan and its locks. *)
LEMMA GoesShape ==
  ASSUME Typed, NEW o \in Request, NEW place \in Places \ {"idle"}, Goes(o, place), at[o] # "idle",
         new' = [new EXCEPT ![o] = new'[o]], new'[o] \in Record, ChainMoves(o),
         writer' \in {writer, o, Nobody}, writer' = writer \/ writer \in {o, Nobody},
         place \in Holding => HasTurn(o, req[o].on)',
         place \in Filing => req[o].kind = "page" /\ req[o].ref \in Body,
         place \in {"set", "fill-page"} => HasTurn(o, req[o].url)',
         place = "fill" <=> writer' = o
  PROVE  Shape(o)
<1> USE TypedLocal DEF Typed
<1>1. /\ Own(o) /\ at'[o] = place /\ req'[o] = req[o] /\ sweep'[o] = sweep[o] /\ req' = req
  BY DEF Goes, Own, LocalTyped
<1>2. OwnTyped(o)
  BY <1>1 DEF OwnTyped, LocalTyped
<1>3. OwnLocks(o)
  BY <1>1 DEF OwnLocks, HasTurn
<1> QED BY <1>1, <1>2, <1>3 DEF Shape

(* What the places of a request say of its locks. *)
LEMMA Turns ==
  ASSUME Typed, NEW o \in Request
  PROVE  /\ at[o] # "idle" => req[o].on \in Capture /\ req[o].on \in Key
         /\ at[o] \in Holding => HasTurn(o, req[o].on)
         /\ at[o] \in Filing => /\ req[o].kind = "page" /\ req[o].ref \in Body
                                /\ req[o].url \in Url /\ req[o].url \in Key
                                /\ req[o].url # req[o].on
         /\ at[o] \in {"set", "fill-page"} => HasTurn(o, req[o].url)
         /\ at[o] = "fill" <=> writer = o
         /\ req[o].ref \in Body \cup {NotOk} /\ req[o].said \in Said
         /\ writer # Nobody => writer \in Request /\ at[writer] = "fill"
         /\ new[o] \in Record /\ sweep[o] \in SUBSET Url
<1> USE TypedLocal DEF Typed
<1>1. at[o] # "idle" => req[o].on \in Capture /\ req[o].on \in Key /\ RequestOK(req[o])
  BY DEF LocalTyped, RequestOK, Key
<1>2. at[o] \in Filing =>
        /\ req[o].kind = "page" /\ req[o].ref \in Body /\ req[o].url \in Url /\ req[o].url \in Key
        /\ req[o].url # req[o].on
  BY <1>1, KeyAssumption DEF LocksOK, RequestOK, Filing, Key
<1>3. req[o].ref \in Body \cup {NotOk} /\ req[o].said \in Said
  BY DEF LocalTyped, Message
<1>4. writer # Nobody => writer \in Request /\ at[writer] = "fill"
  BY DEF LocalTyped, LocksOK
<1> QED BY <1>1, <1>2, <1>3, <1>4 DEF LocksOK, LocalTyped

LEMMA NewRequestShape ==
  ASSUME Typed, NEW o \in Request, NewRequest(o)
  PROVE  /\ Shape(o) /\ at[o] = "idle" /\ at'[o] \in {"look", "queue"} /\ UNCHANGED writer
         /\ UNCHANGED <<record, cache, archive, index, crashes, cut, spoilt, behind, broke>>
         /\ made' \in 0 .. MaxRequests
<1> USE TypedLocal DEF Typed
<1>1. PICK c \in Capture :
        \/ \E said \in Said : Open(o, c, said)
        \/ \E u \in Url, ref \in Body \cup {NotOk} : SendPage(o, c, u, ref)
        \/ Delete(o, c)
        \/ CacheName(o, c)
  BY DEF NewRequest
<1>2. \E place \in {"look", "queue"} : \E r : Message1(r) /\ Arrive(o, place, r) /\ ChainMoves(o)
  <2>1. CASE \E said \in Said : Open(o, c, said)
    <3>1. PICK said \in Said : Open(o, c, said)
      BY <2>1
    <3> QED BY <3>1, OpenTyped, ChainSame DEF Open
  <2>2. CASE \E u \in Url, ref \in Body \cup {NotOk} : SendPage(o, c, u, ref)
    <3>1. PICK u \in Url, ref \in Body \cup {NotOk} : SendPage(o, c, u, ref)
      BY <2>2
    <3> QED BY <3>1, PageTyped, ChainSame DEF SendPage
  <2>3. CASE Delete(o, c)
    BY <2>3, DeleteTyped, ChainSame DEF Delete
  <2>4. CASE CacheName(o, c)
    BY <2>4, DeleteTyped, ChainQueues DEF CacheName, Key
  <2> QED BY <1>1, <2>1, <2>2, <2>3, <2>4
<1>p. PICK place \in {"look", "queue"} : \E r : Message1(r) /\ Arrive(o, place, r) /\ ChainMoves(o)
  BY <1>2
<1>3. PICK r : Message1(r) /\ Arrive(o, place, r) /\ ChainMoves(o)
  BY <1>p
<1>4. Shape(o) /\ UNCHANGED <<record, cache, archive, index, crashes, cut, spoilt, behind, broke>>
  BY <1>3, ArriveShape
<1>5. at[o] = "idle" /\ at'[o] \in {"look", "queue"} /\ UNCHANGED writer
  BY <1>3 DEF Arrive, LocalTyped
<1>6. made' \in 0 .. MaxRequests
  BY <1>3, LimitAssumption DEF Arrive, TypeOK
<1> QED BY <1>4, <1>5, <1>6

LEMMA BreakShape ==
  ASSUME Typed, NEW o \in Request, NEW K \in SUBSET Key, \A k \in K : HasTurn(o, k),
         Break(o, K), at[o] # "fill"
  PROVE  Shape(o) /\ at'[o] = "idle" /\ broke' = (broke \/ crashes = 0)
         /\ UNCHANGED <<record, cache, archive, index, writer, made, crashes, cut, spoilt, behind>>
<1>1. Shape(o)
  BY EndShape DEF Break
<1> QED BY <1>1, TypedLocal DEF Break, End, LocalTyped, disk, Typed

LEMMA BrokenShape ==
  ASSUME Typed, NEW o \in Request,
         \/ LookBroken(o) \/ EnterBroken(o) \/ ArchiveBroken(o) \/ FindOthersBroken(o) \/ RebuildBroken(o)
  PROVE  Shape(o) /\ at'[o] = "idle" /\ broke' = (broke \/ crashes = 0)
         /\ UNCHANGED <<record, cache, archive, index, writer, made, crashes, cut, spoilt, behind>>
<1>1. CASE LookBroken(o)
  BY <1>1, BreakShape DEF LookBroken
<1>2. CASE EnterBroken(o)
  BY <1>2, BreakShape, Turns DEF EnterBroken, Enters
<1>3. CASE ArchiveBroken(o)
  BY <1>3, BreakShape, Turns DEF ArchiveBroken, HasPage, Holding, Filing
<1>4. CASE FindOthersBroken(o)
  BY <1>4, BreakShape, Turns DEF FindOthersBroken, Holding, Deleting
<1>5. CASE RebuildBroken(o)
  BY <1>5, BreakShape, Turns DEF RebuildBroken, Holding
<1> QED BY <1>1, <1>2, <1>3, <1>4, <1>5

LEMMA LookShape ==
  ASSUME Typed, NEW o \in Request, LookMissing(o) \/ Look(o)
  PROVE  Shape(o)
<1> USE TypedLocal DEF Typed
<1>1. CASE LookMissing(o)
  BY <1>1, EndShape DEF LookMissing
<1>2. CASE Look(o)
  <2>1. ChainMoves(o) /\ req[o].on \in Capture
    BY <1>2, ChainQueues, Turns DEF Look
  <2>2. Known(record[req[o].on]) \in Record
    BY <1>2, <2>1, FreshTyped DEF Known, Look, TypeOK
  <2>3. Merged(req[o].said, Known(record[req[o].on])) \in Record
    BY <2>2, Turns, MergedTyped
  <2>4. new' = [new EXCEPT ![o] = new'[o]] /\ new'[o] \in Record
    BY <1>2, <2>3 DEF Look, LocalTyped
  <2>5. writer # o
    BY <1>2, Turns DEF Look
  <2> QED BY <1>2, <2>1, <2>4, <2>5, GoesShape DEF Look, Places, Holding, Filing, Deleting
<1> QED BY <1>1, <1>2

(* The record of a capture, read under its lock. *)
LEMMA RecordRead ==
  ASSUME Typed, NEW c \in Capture
  PROVE  /\ record[c] \in Record \cup {Missing, Torn}
         /\ record[c] # Torn => Known(record[c]) \in Record
         /\ record[c] \notin {Missing, Torn} => record[c] \in Record
  BY FreshTyped DEF Typed, TypeOK, Known

LEMMA EnterShape ==
  ASSUME Typed, NEW o \in Request,
         EnterOpen(o) \/ EnterLabel(o) \/ RefusePage(o) \/ EnterPage(o) \/ EnterDelete(o)
  PROVE  Shape(o)
<1> USE TypedLocal DEF Typed
<1>1. /\ req[o].on \in Capture /\ req[o].on \in Key /\ HasTurn(o, req[o].on)
      /\ at[o] = "queue" /\ writer # o /\ new[o] \in Record
  BY Turns DEF EnterOpen, EnterLabel, RefusePage, EnterPage, EnterDelete, Enters
<1>2. CASE EnterOpen(o)
  <2>1. WithPages(new[o], Known(record[req[o].on]).pages) \in Record
    BY <1>1, <1>2, RecordRead, WithPagesTyped DEF EnterOpen
  <2>2. new' = [new EXCEPT ![o] = new'[o]] /\ new'[o] \in Record
    BY <1>2, <2>1 DEF EnterOpen, LocalTyped
  <2>3. ChainMoves(o) /\ HasTurn(o, req[o].on)'
    BY <1>1, <1>2, ChainSame DEF EnterOpen, Goes, HasTurn
  <2> QED BY <1>1, <1>2, <2>2, <2>3, GoesShape DEF EnterOpen, Places, Holding, Filing, Deleting
<1>3. CASE EnterLabel(o)
  <2>1. CASE End(o, {req[o].on})
    BY <1>1, <1>3, <2>1, EndShape DEF EnterLabel
  <2>2. CASE ~End(o, {req[o].on})
    <3>1. /\ Goes(o, "write") /\ new' = [new EXCEPT ![o] = WithLabel(record[req[o].on])]
          /\ UNCHANGED <<chain, writer>> /\ record[req[o].on] \notin {Missing, Torn}
      BY <1>3, <2>2 DEF EnterLabel
    <3>2. WithLabel(record[req[o].on]) \in Record
      BY <1>1, <3>1, RecordRead, WithLabelTyped
    <3>3. new' = [new EXCEPT ![o] = new'[o]] /\ new'[o] \in Record
      BY <3>1, <3>2 DEF LocalTyped
    <3>4. ChainMoves(o) /\ HasTurn(o, req[o].on)'
      BY <1>1, <3>1, ChainSame DEF Goes, HasTurn
    <3> QED BY <1>1, <3>1, <3>3, <3>4, GoesShape DEF Places, Holding, Filing, Deleting
  <2> QED BY <2>1, <2>2
<1>4. CASE RefusePage(o)
  BY <1>1, <1>4, EndShape DEF RefusePage
<1>5. CASE EnterPage(o)
  <2>1. req[o].url \in Url /\ req[o].url \in Key /\ req[o].ref \in Body \cup {NotOk}
    BY <1>1, <1>5, Turns DEF EnterPage, LocalTyped, RequestOK, Key
  <2>2. WithPage(record[req[o].on], req[o].url, req[o].ref) \in Record
    BY <1>1, <1>5, <2>1, RecordRead, WithPageTyped DEF EnterPage
  <2>3. new' = [new EXCEPT ![o] = new'[o]] /\ new'[o] \in Record
    BY <1>5, <2>2 DEF EnterPage, LocalTyped
  <2>4. CASE req[o].ref = NotOk
    <3>1. ChainMoves(o) /\ HasTurn(o, req[o].on)'
      BY <1>1, <1>5, <2>4, ChainSame DEF EnterPage, Goes, HasTurn
    <3> QED BY <1>1, <1>5, <2>3, <2>4, <3>1, GoesShape DEF EnterPage, Places, Holding, Filing, Deleting
  <2>5. CASE req[o].ref # NotOk
    <3>1. Goes(o, "bytes") /\ chain' = Queued(o, req[o].url)
      BY <1>5, <2>5 DEF EnterPage
    <3>2. ChainMoves(o) /\ HasTurn(o, req[o].on)'
      BY <1>1, <2>1, <3>1, ChainQueues DEF Goes, HasTurn
    <3> QED BY <1>1, <1>5, <2>1, <2>3, <2>5, <3>1, <3>2, GoesShape DEF EnterPage, Places, Holding, Filing, Deleting
  <2> QED BY <2>4, <2>5
<1>6. CASE EnterDelete(o)
  <2>1. new' = [new EXCEPT ![o] = new'[o]] /\ new'[o] \in Record
    BY <1>1, <1>6, RecordRead DEF EnterDelete, LocalTyped
  <2>2. ChainMoves(o) /\ HasTurn(o, req[o].on)'
    BY <1>1, <1>6, ChainSame DEF EnterDelete, Goes, HasTurn
  <2> QED BY <1>1, <1>6, <2>1, <2>2, GoesShape DEF EnterDelete, Places, Holding, Filing, Deleting
<1> QED BY <1>2, <1>3, <1>4, <1>5, <1>6

LEMMA BytesShape ==
  ASSUME Typed, NEW o \in Request, Archive(o) \/ TruncatePage(o) \/ FillPage(o)
  PROVE  Shape(o)
<1> USE TypedLocal DEF Typed
<1>1. /\ req[o].on \in Capture /\ req[o].on \in Key /\ HasTurn(o, req[o].on)
      /\ req[o].url \in Key /\ req[o].url # req[o].on /\ HasTurn(o, req[o].url)
      /\ at[o] \in Filing /\ req[o].kind = "page" /\ req[o].ref \in Body /\ writer # o /\ new[o] \in Record
  BY Turns DEF Archive, TruncatePage, FillPage, HasPage, Filing, Holding
<1>2. new' = [new EXCEPT ![o] = new'[o]] /\ new'[o] \in Record /\ UNCHANGED <<req, writer>>
  BY <1>1 DEF Archive, TruncatePage, FillPage, LocalTyped, Goes
<1>3. CASE Archive(o)
  <2>1. ChainMoves(o) /\ HasTurn(o, req[o].on)' /\ HasTurn(o, req[o].url)'
    BY <1>1, <1>2, <1>3, ChainSame DEF Archive, HasTurn
  <2> QED BY <1>1, <1>2, <1>3, <2>1, GoesShape DEF Archive, Places, Holding, Filing, Deleting
<1>4. CASE TruncatePage(o)
  <2>1. ChainMoves(o) /\ HasTurn(o, req[o].on)' /\ HasTurn(o, req[o].url)'
    BY <1>1, <1>2, <1>4, ChainSame DEF TruncatePage, HasTurn
  <2> QED BY <1>1, <1>2, <1>4, <2>1, GoesShape DEF TruncatePage, Places, Holding, Filing, Deleting
<1>5. CASE FillPage(o)
  <2>1. ChainMoves(o) /\ HasTurn(o, req[o].on)'
    <3>1. ChainMoves(o) /\ \A k \in Key \ {req[o].url} : HasTurn(o, k) => HasTurn(o, k)'
      BY <1>1, <1>5, ChainReleases DEF FillPage
    <3> QED BY <1>1, <1>2, <3>1 DEF HasTurn
  <2> QED BY <1>1, <1>2, <1>5, <2>1, GoesShape DEF FillPage, Places, Holding, Filing, Deleting
<1> QED BY <1>3, <1>4, <1>5

LEMMA DeleteShape ==
  ASSUME Typed, NEW o \in Request,
         FindOthers(o) \/ (\E u \in Url : SweepPage(o, u)) \/ SweepDone(o) \/ Unlink(o)
  PROVE  Shape(o)
<1> USE TypedLocal DEF Typed
<1>1. /\ req[o].on \in Capture /\ req[o].on \in Key /\ HasTurn(o, req[o].on)
      /\ at[o] \in Deleting /\ writer # o /\ new[o] \in Record /\ sweep[o] \in SUBSET Url
  BY Turns DEF FindOthers, SweepPage, SweepDone, Unlink, Deleting, Holding
<1>2. new' = [new EXCEPT ![o] = new'[o]] /\ new'[o] \in Record /\ UNCHANGED <<req, writer, chain>>
  BY <1>1 DEF FindOthers, SweepPage, SweepDone, Unlink, LocalTyped, Goes
<1>3. ChainMoves(o) /\ HasTurn(o, req[o].on)'
  BY <1>1, <1>2, ChainSame DEF HasTurn
<1>4. CASE FindOthers(o) \/ \E u \in Url : SweepPage(o, u)
  <2>1. at'[o] = "sweep" /\ at' = [at EXCEPT ![o] = "sweep"]
    BY <1>4 DEF FindOthers, SweepPage, LocalTyped
  <2>2. sweep' = [sweep EXCEPT ![o] = sweep'[o]] /\ sweep'[o] \in SUBSET Url
    <3>1. CASE FindOthers(o)
      BY <3>1 DEF FindOthers, LocalTyped, Listed
    <3>2. CASE \E u \in Url : SweepPage(o, u)
      BY <1>1, <3>2 DEF SweepPage, LocalTyped
    <3> QED BY <1>4, <3>1, <3>2
  <2>3. Own(o)
    BY <1>2, <2>1, <2>2 DEF Own, LocalTyped
  <2>4. OwnTyped(o)
    BY <1>1, <1>2, <2>1, <2>2 DEF OwnTyped, Places, LocalTyped, Deleting
  <2>5. OwnLocks(o)
    BY <1>1, <1>2, <1>3, <2>1 DEF OwnLocks, Filing
  <2> QED BY <1>2, <1>3, <2>3, <2>4, <2>5 DEF Shape
<1>5. CASE SweepDone(o) \/ Unlink(o)
  <2>1. \E place \in {"unlink", "rebuild"} : Goes(o, place)
    BY <1>5 DEF SweepDone, Unlink
  <2> QED BY <1>1, <1>2, <1>3, <2>1, GoesShape DEF Places, Holding, Filing, Deleting
<1> QED BY <1>4, <1>5

LEMMA WriteShape ==
  ASSUME Typed, NEW o \in Request, TruncateRecord(o) \/ FillRecord(o) \/ RebuildIndex(o)
  PROVE  Shape(o)
<1> USE TypedLocal DEF Typed
<1>1. /\ req[o].on \in Capture /\ req[o].on \in Key /\ HasTurn(o, req[o].on)
      /\ at[o] \in Holding /\ new[o] \in Record
  BY Turns DEF TruncateRecord, FillRecord, RebuildIndex, Holding
<1>2. CASE RebuildIndex(o)
  BY <1>1, <1>2, EndShape DEF RebuildIndex
<1>3. CASE TruncateRecord(o) \/ FillRecord(o)
  <2>1. ChainMoves(o) /\ HasTurn(o, req[o].on)' /\ new' = [new EXCEPT ![o] = new'[o]] /\ new'[o] = new[o]
    BY <1>1, <1>3, ChainSame DEF TruncateRecord, FillRecord, Goes, HasTurn, LocalTyped
  <2>2. CASE TruncateRecord(o)
    BY <1>1, <2>1, <2>2, GoesShape DEF TruncateRecord, FilesFree, Places, Holding, Filing, Deleting
  <2>3. CASE FillRecord(o)
    <3>1. writer = o /\ writer' = Nobody /\ Nobody # o
      BY <2>3, Turns, KeyAssumption DEF FillRecord
    <3> QED BY <1>1, <2>1, <2>3, <3>1, GoesShape DEF FillRecord, Places, Holding, Filing, Deleting
  <2> QED BY <1>3, <2>2, <2>3
<1> QED BY <1>2, <1>3

LEMMA StepShape ==
  ASSUME Typed, NEW o \in Request, NewRequest(o) \/ Step(o)
  PROVE  LocalTyped' /\ LocksOK' /\ OthersRest(o)
<1>1. Shape(o)
  BY NewRequestShape, BrokenShape, LookShape, EnterShape, BytesShape, DeleteShape, WriteShape DEF Step
<1> QED BY <1>1, OwnStep DEF Shape

(* The files keep their types. *)
LEMMA FilesTyped ==
  ASSUME Typed, NEW o \in Request, Step(o)
  PROVE  /\ record' \in [Capture -> Record \cup {Missing, Torn}]
         /\ cache' \in [Url -> Body \cup {Missing, Torn}]
         /\ archive' \subseteq Url \X Body
         /\ made' \in 0 .. MaxRequests /\ crashes' \in 0 .. MaxCrashes
         /\ cut' \subseteq Capture /\ spoilt' \subseteq Url \X Body
         /\ behind' \in BOOLEAN /\ broke' \in BOOLEAN
<1> USE TypedLocal DEF Typed
<1>t. /\ record \in [Capture -> Record \cup {Missing, Torn}]
      /\ cache \in [Url -> Body \cup {Missing, Torn}]
      /\ archive \subseteq Url \X Body
      /\ made \in 0 .. MaxRequests /\ crashes \in 0 .. MaxCrashes
      /\ cut \subseteq Capture /\ spoilt \subseteq Url \X Body
      /\ behind \in BOOLEAN /\ broke \in BOOLEAN
  BY DEF TypeOK
<1>1. CASE \/ LookBroken(o) \/ EnterBroken(o) \/ ArchiveBroken(o) \/ FindOthersBroken(o) \/ RebuildBroken(o)
  BY <1>t, <1>1, BrokenShape
<1>2. CASE \/ LookMissing(o) \/ Look(o)
           \/ EnterOpen(o) \/ EnterLabel(o) \/ RefusePage(o) \/ EnterPage(o) \/ EnterDelete(o)
           \/ FindOthers(o) \/ SweepDone(o)
  BY <1>t, <1>2 DEF LookMissing, Look, EnterOpen, EnterLabel, RefusePage, EnterPage, EnterDelete,
       FindOthers, SweepDone, disk, history
<1>3. CASE Archive(o)
  <2>1. \A b \in {cache[req[o].url]} \cap (Body \ {req[o].ref}) : <<req[o].url, b>> \in Url \X Body
    BY <1>3, Turns DEF Archive, HasPage, Filing
  <2> QED BY <1>t, <1>3, <2>1 DEF Archive, history
<1>4. CASE TruncatePage(o) \/ \E u \in Url : SweepPage(o, u)
  BY <1>t, <1>4 DEF TruncatePage, SweepPage, history
<1>5. CASE FillPage(o)
  <2>1. req[o].ref \in Body
    BY <1>5, Turns DEF FillPage, Filing
  <2> QED BY <1>t, <1>5, <2>1 DEF FillPage, history
<1>6. CASE Unlink(o)
  BY <1>t, <1>6 DEF Unlink
<1>7. CASE TruncateRecord(o)
  BY <1>t, <1>7 DEF TruncateRecord, history
<1>8. CASE FillRecord(o)
  BY <1>t, <1>8, Turns DEF FillRecord, history
<1>9. CASE RebuildIndex(o)
  BY <1>t, <1>9 DEF RebuildIndex
<1> QED BY <1>1, <1>2, <1>3, <1>4, <1>5, <1>6, <1>7, <1>8, <1>9 DEF Step

LEMMA InitTyped == Init => Typed
<1> SUFFICES ASSUME Init PROVE Typed
  OBVIOUS
<1>1. TypeOK
  <2>1. chain \in [Key -> Seq(Request)]
    BY DEF Init
  <2>2. /\ at \in [Request -> Places] /\ req \in [Request -> Message]
        /\ new \in [Request -> Record] /\ sweep \in [Request -> SUBSET Url]
    BY NoRequestTyped, FreshTyped DEF Init, Places
  <2>3. /\ record \in [Capture -> Record \cup {Missing, Torn}]
        /\ cache \in [Url -> Body \cup {Missing, Torn}]
        /\ archive \subseteq Url \X Body
    BY DEF Init
  <2>4. \A o \in Request : at[o] = "idle"
    BY DEF Init
  <2>5. made \in 0 .. MaxRequests /\ crashes \in 0 .. MaxCrashes
    BY LimitAssumption DEF Init
  <2>6. cut \subseteq Capture /\ spoilt \subseteq Url \X Body /\ behind \in BOOLEAN /\ broke \in BOOLEAN /\ writer = Nobody
    BY DEF Init
  <2> QED BY <2>1, <2>2, <2>3, <2>4, <2>5, <2>6 DEF TypeOK
<1>2. LocksOK
  BY KeyAssumption DEF Init, LocksOK, Holding, Filing, Deleting
<1> QED BY <1>1, <1>2 DEF Typed

LEMMA CrashTyped ==
  ASSUME Typed, Crash
  PROVE  Typed'
<1> USE DEF Typed
<1>1. TypeOK'
  <2>1. /\ at' \in [Request -> Places] /\ req' \in [Request -> Message]
        /\ new' \in [Request -> Record] /\ sweep' \in [Request -> SUBSET Url]
        /\ chain' \in [Key -> Seq(Request)]
    BY NoRequestTyped, FreshTyped DEF Crash, Places
  <2>2. \A p \in Request : at[p] \in {"sweep", "unlink"} => req[p].on \in Capture
    BY DEF TypeOK, RequestOK
  <2>3. cut' \subseteq Capture
    BY <2>2 DEF Crash, TypeOK
  <2>4. \A p \in Request : at[p] = "fill-page" => <<req[p].url, req[p].ref>> \in Url \X Body
    BY Turns DEF Filing
  <2>5. spoilt' \subseteq Url \X Body
    BY <2>4 DEF Crash, TypeOK
  <2> QED BY <2>1, <2>3, <2>5, LimitAssumption DEF Crash, TypeOK, disk
<1>2. LocksOK'
  BY KeyAssumption DEF Crash, LocksOK, Holding, Filing, Deleting
<1> QED BY <1>1, <1>2

LEMMA TypedKept == Typed /\ [Next]_vars => Typed'
<1> SUFFICES ASSUME Typed, [Next]_vars PROVE Typed'
  OBVIOUS
<1>1. CASE Crash
  BY <1>1, CrashTyped
<1>2. ASSUME NEW o \in Request, NewRequest(o) PROVE Typed'
  <2>1. LocalTyped' /\ LocksOK'
    BY <1>2, StepShape
  <2> QED BY <1>2, <2>1, NewRequestShape DEF Typed, TypeOK, LocalTyped
<1>3. ASSUME NEW o \in Request, Step(o) PROVE Typed'
  <2>1. LocalTyped' /\ LocksOK'
    BY <1>3, StepShape
  <2> QED BY <1>3, <2>1, FilesTyped DEF Typed, TypeOK, LocalTyped
<1>4. CASE UNCHANGED vars
  BY <1>4 DEF vars, Typed, TypeOK, LocksOK, HasTurn
<1> QED BY <1>1, <1>2, <1>3, <1>4 DEF Next

(* Every variable stays within its type (captureStore.ts and the capture   *)
(* routes).                                                                *)
THEOREM TypeCorrect == Spec => []TypeOK
<1>1. Typed => TypeOK
  BY DEF Typed
<1> QED BY InitTyped, TypedKept, <1>1, PTL DEF Spec

-----------------------------------------------------------------------------
(* Plans and records *)

(* What a request is about to write agrees with the record it read.        *)
WriteOK(o) ==
  LET r == record[req[o].on] IN
  \/ r = Missing /\ new[o].pages = Fresh.pages
  \/ /\ r \notin {Missing, Torn}
     /\ \/ new[o].pages = r.pages
        \/ /\ req[o].kind = "page" /\ req[o].url \in Url
           /\ new[o].pages = WithPage(r, req[o].url, req[o].ref).pages

PlanOK(o) ==
  /\ at[o] \in Filing =>
       /\ record[req[o].on] \notin {Missing, Torn}
       /\ new[o] = WithPage(record[req[o].on], req[o].url, req[o].ref)
  /\ at[o] \in Deleting => req[o].kind = "delete" /\ record[req[o].on] # Torn
  /\ at[o] = "write" => WriteOK(o)
  /\ at[o] = "fill" => record[req[o].on] = Torn

PlansOK == \A o \in Request : PlanOK(o)

LEMMA Exclusive ==
  ASSUME Typed, NEW o \in Request, NEW p \in Request
  PROVE  /\ at[o] \in Holding /\ at[p] \in Holding /\ req[o].on = req[p].on => o = p
         /\ at[o] \in {"set", "fill-page"} /\ HasTurn(p, req[o].url) => o = p
  BY DEF Typed, LocksOK, HasTurn

(* A step changes no record but that of the capture whose lock it holds.   *)
RecordMoves(o) ==
  \/ record' = record
  \/ /\ at[o] \in Holding
     /\ \A c \in Capture : c # req[o].on => record'[c] = record[c]

LEMMA StepRecords ==
  ASSUME Typed, NEW o \in Request, NewRequest(o) \/ Step(o)
  PROVE  RecordMoves(o)
<1>1. CASE NewRequest(o)
  BY <1>1, NewRequestShape DEF RecordMoves
<1>2. CASE \/ LookBroken(o) \/ EnterBroken(o) \/ ArchiveBroken(o) \/ FindOthersBroken(o) \/ RebuildBroken(o)
  BY <1>2, BrokenShape DEF RecordMoves
<1>3. CASE \/ LookMissing(o) \/ Look(o)
           \/ EnterOpen(o) \/ EnterLabel(o) \/ RefusePage(o) \/ EnterPage(o) \/ EnterDelete(o)
           \/ FindOthers(o) \/ SweepDone(o) \/ Archive(o) \/ TruncatePage(o) \/ FillPage(o)
           \/ RebuildIndex(o) \/ \E u \in Url : SweepPage(o, u)
  BY <1>3 DEF LookMissing, Look, EnterOpen, EnterLabel, RefusePage, EnterPage, EnterDelete,
       FindOthers, SweepDone, SweepPage, Archive, TruncatePage, FillPage, RebuildIndex, disk, RecordMoves
<1>4. CASE Unlink(o) \/ TruncateRecord(o) \/ FillRecord(o)
  BY <1>4 DEF Unlink, TruncateRecord, FillRecord, RecordMoves, Holding, Deleting, Typed, TypeOK
<1> QED BY <1>1, <1>2, <1>3, <1>4 DEF Step

LEMMA OthersPlans ==
  ASSUME Typed, PlansOK, NEW o \in Request, NewRequest(o) \/ Step(o), NEW p \in Request \ {o}
  PROVE  PlanOK(p)'
<1>1. /\ at'[p] = at[p] /\ req'[p] = req[p] /\ new'[p] = new[p]
  BY StepShape DEF OthersRest
<1>2. at[p] \in Holding => record'[req[p].on] = record[req[p].on]
  <2> SUFFICES ASSUME at[p] \in Holding PROVE record'[req[p].on] = record[req[p].on]
    OBVIOUS
  <2>1. req[p].on \in Capture
    BY Turns DEF Holding, Filing, Deleting
  <2>2. at[o] \in Holding => req[p].on # req[o].on
    BY Exclusive
  <2>3. RecordMoves(o)
    BY StepRecords
  <2> QED BY <2>1, <2>2, <2>3 DEF RecordMoves
<1>3. CASE at[p] \in Holding
  BY <1>1, <1>2, <1>3 DEF PlansOK, PlanOK, WriteOK, WithPage, WithPages
<1>4. CASE at[p] \notin Holding
  BY <1>1, <1>4 DEF PlanOK, Holding
<1> QED BY <1>3, <1>4

(* The plan of the request that moves. *)
LEMMA OwnPlan ==
  ASSUME Typed, PlansOK, NEW o \in Request, Step(o)
  PROVE  PlanOK(o)'
<1> USE TypedLocal DEF Typed
<1>0. PlanOK(o)
  BY DEF PlansOK
<1>1. CASE \/ LookBroken(o) \/ EnterBroken(o) \/ ArchiveBroken(o) \/ FindOthersBroken(o) \/ RebuildBroken(o)
  BY <1>1, BrokenShape DEF PlanOK, Filing, Deleting
<1>2. CASE LookMissing(o) \/ RefusePage(o) \/ RebuildIndex(o)
  BY <1>2 DEF LookMissing, RefusePage, RebuildIndex, End, LocalTyped, PlanOK, Filing, Deleting
<1>3. CASE Look(o)
  BY <1>3 DEF Look, Goes, LocalTyped, PlanOK, Filing, Deleting
<1>4. CASE EnterOpen(o)
  <2>1. /\ at'[o] = "write" /\ req' = req /\ record' = record
        /\ new'[o].pages = Known(record[req[o].on]).pages
        /\ record[req[o].on] # Torn
    BY <1>4 DEF EnterOpen, Goes, LocalTyped, WithPages, disk
  <2>2. WriteOK(o)'
    BY <2>1 DEF WriteOK, Known
  <2> QED BY <2>1, <2>2 DEF PlanOK, Filing, Deleting
<1>5. CASE EnterLabel(o)
  <2>1. CASE at'[o] = "idle"
    BY <2>1 DEF PlanOK, Filing, Deleting
  <2>2. CASE at'[o] # "idle"
    <3>1. /\ at'[o] = "write" /\ req' = req /\ record' = record
          /\ new'[o].pages = record[req[o].on].pages
          /\ record[req[o].on] \notin {Missing, Torn}
      BY <1>5, <2>2 DEF EnterLabel, End, Goes, LocalTyped, WithLabel, disk
    <3>2. WriteOK(o)'
      BY <3>1 DEF WriteOK
    <3> QED BY <3>1, <3>2 DEF PlanOK, Filing, Deleting
  <2> QED BY <2>1, <2>2
<1>6. CASE EnterPage(o)
  <2>1. /\ at'[o] \in {"write", "bytes"} /\ req' = req /\ record' = record /\ req[o].kind = "page"
        /\ new'[o] = WithPage(record[req[o].on], req[o].url, req[o].ref)
        /\ record[req[o].on] \notin {Missing, Torn} /\ req[o].url \in Url
    BY <1>6 DEF EnterPage, Enters, Goes, LocalTyped, RequestOK, disk
  <2>2. new'[o] = WithPage(record'[req'[o].on], req'[o].url, req'[o].ref)
    BY <2>1
  <2>3. WriteOK(o)'
    BY <2>1, <2>2 DEF WriteOK, WithPage, WithPages
  <2> QED BY <2>1, <2>2, <2>3 DEF PlanOK, Filing, Deleting, WithPage, WithPages
<1>7. CASE EnterDelete(o)
  BY <1>7 DEF EnterDelete, Goes, LocalTyped, PlanOK, Filing, Deleting, disk
<1>8. CASE Archive(o) \/ TruncatePage(o) \/ FillPage(o)
  <2>1. /\ at[o] \in Filing /\ at'[o] \in {"set", "fill-page", "write"} /\ req' = req /\ record' = record
        /\ new' = new
    BY <1>8 DEF Archive, TruncatePage, FillPage, HasPage, Goes, LocalTyped, Filing
  <2>2. /\ record[req[o].on] \notin {Missing, Torn} /\ req[o].kind = "page" /\ req[o].url \in Url
        /\ new[o] = WithPage(record[req[o].on], req[o].url, req[o].ref)
    BY <1>0, <2>1, Turns DEF PlanOK
  <2>3. WriteOK(o)'
    BY <2>1, <2>2 DEF WriteOK, WithPage, WithPages
  <2> QED BY <2>1, <2>2, <2>3 DEF PlanOK, Filing, Deleting, WithPage, WithPages
<1>9. CASE FindOthers(o) \/ (\E u \in Url : SweepPage(o, u)) \/ SweepDone(o)
  <2>1. /\ at[o] \in Deleting /\ at'[o] \in {"sweep", "unlink"} /\ req' = req /\ record' = record
    BY <1>9 DEF FindOthers, SweepPage, SweepDone, Goes, LocalTyped, Deleting, disk
  <2> QED BY <1>0, <2>1 DEF PlanOK, Filing, Deleting
<1>10. CASE Unlink(o) \/ FillRecord(o)
  BY <1>10 DEF Unlink, FillRecord, Goes, LocalTyped, PlanOK, Filing, Deleting
<1>11. CASE TruncateRecord(o)
  <2>1. at'[o] = "fill" /\ req' = req /\ record' = [record EXCEPT ![req[o].on] = Torn] /\ req[o].on \in Capture
    BY <1>11, Turns DEF TruncateRecord, Goes, LocalTyped
  <2>2. record'[req[o].on] = Torn
    BY <2>1 DEF TypeOK
  <2> QED BY <2>1, <2>2 DEF PlanOK, Filing, Deleting
<1> QED BY <1>1, <1>2, <1>3, <1>4, <1>5, <1>6, <1>7, <1>8, <1>9, <1>10, <1>11 DEF Step

LEMMA PlansKept == Typed /\ PlansOK /\ [Next]_vars => PlansOK'
<1> SUFFICES ASSUME Typed, PlansOK, [Next]_vars PROVE PlansOK'
  OBVIOUS
<1>1. CASE Crash
  BY <1>1 DEF Crash, PlansOK, PlanOK, Filing, Deleting
<1>2. ASSUME NEW o \in Request, NewRequest(o) PROVE PlansOK'
  <2>1. PlanOK(o)'
    BY <1>2, NewRequestShape DEF PlanOK, Filing, Deleting
  <2> QED BY <1>2, <2>1, OthersPlans DEF PlansOK
<1>3. ASSUME NEW o \in Request, Step(o) PROVE PlansOK'
  BY <1>3, OwnPlan, OthersPlans DEF PlansOK
<1>4. CASE UNCHANGED vars
  BY <1>4 DEF vars, PlansOK, PlanOK, WriteOK, WithPage, WithPages
<1> QED BY <1>1, <1>2, <1>3, <1>4 DEF Next

-----------------------------------------------------------------------------
(* What readers find *)

(* A file is unreadable while it is written, or after a crash; a record    *)
(* only until the index was rebuilt.                                       *)
TornOK ==
  /\ \A c \in Capture : record[c] = Torn => behind \/ (writer # Nobody /\ req[writer].on = c)
  /\ \A u \in Url :
       cache[u] = Torn => crashes > 0 \/ \E o \in Request : at[o] = "fill-page" /\ req[o].url = u
  /\ behind => crashes > 0

Readers == TornOK /\ ReadersSeeTheRecords

LEMMA SteadyReaders ==
  ASSUME Typed, Readers, NEW o \in Request, OthersRest(o), at[o] \notin {"fill", "rebuild", "fill-page"},
         at'[o] # "fill", UNCHANGED <<record, cache, index, crashes, behind, broke, writer>>
  PROVE  Readers'
<1>1. writer # Nobody => writer \in Request \ {o}
  BY Turns
<1>2. \A c \in Capture : record'[c] = Torn => behind' \/ (writer' # Nobody /\ req'[writer'].on = c)
  BY <1>1 DEF Readers, TornOK, OthersRest
<1>3. \A p \in Request : at[p] = "fill-page" => at'[p] = at[p] /\ req'[p] = req[p]
  BY DEF OthersRest
<1>4. TornOK'
  BY <1>2, <1>3 DEF Readers, TornOK
<1>5. \A p \in Request : at[p] \in {"fill", "rebuild"} => at'[p] = at[p]
  BY DEF OthersRest
<1> QED BY <1>4, <1>5 DEF Readers, ReadersSeeTheRecords

(* A request that meets an unreadable file meets what a crash left.        *)
LEMMA BrokenReaders ==
  ASSUME Typed, Readers, NEW o \in Request,
         \/ LookBroken(o) \/ EnterBroken(o) \/ ArchiveBroken(o) \/ FindOthersBroken(o) \/ RebuildBroken(o)
  PROVE  Readers'
<1>1. OthersRest(o) /\ at'[o] = "idle" /\ broke' = (broke \/ crashes = 0)
      /\ UNCHANGED <<record, cache, index, writer, crashes, behind>>
  BY BrokenShape, StepShape DEF Step
<1>2. crashes # 0 /\ at[o] \notin {"fill", "fill-page"} /\ (at[o] = "rebuild" => behind)
  <2>1. CASE ArchiveBroken(o)
    <3>1. HasTurn(o, req[o].url) /\ req[o].url \in Url /\ cache[req[o].url] = Torn /\ at[o] = "bytes"
      BY <2>1, Turns DEF ArchiveBroken, HasPage, Filing
    <3>2. \A p \in Request : ~(at[p] = "fill-page" /\ req[p].url = req[o].url)
      BY <3>1, Exclusive
    <3> QED BY <3>1, <3>2 DEF Readers, TornOK
  <2>2. CASE \/ LookBroken(o) \/ EnterBroken(o) \/ FindOthersBroken(o) \/ RebuildBroken(o)
    <3>1. FilesFree /\ at[o] \in {"look", "queue", "others", "rebuild"}
      BY <2>2 DEF LookBroken, EnterBroken, Enters, FindOthersBroken, RebuildBroken
    <3>2. \E c \in Capture : record[c] = Torn
      BY <2>2, <3>1, Turns DEF LookBroken, EnterBroken, FindOthersBroken, RebuildBroken
    <3> QED BY <3>1, <3>2 DEF Readers, TornOK, FilesFree
  <2> QED BY <2>1, <2>2
<1>3. \A p \in Request : at[p] = "fill-page" => at'[p] = at[p] /\ req'[p] = req[p]
  BY <1>1, <1>2 DEF OthersRest
<1>4. writer # Nobody => writer \in Request \ {o}
  BY <1>2, Turns
<1>5. \A c \in Capture : record'[c] = Torn => behind' \/ (writer' # Nobody /\ req'[writer'].on = c)
  BY <1>1, <1>4 DEF Readers, TornOK, OthersRest
<1>6. TornOK'
  BY <1>1, <1>3, <1>5 DEF Readers, TornOK
<1>7. \A p \in Request : at[p] \in {"fill", "rebuild"} => at'[p] = at[p] \/ behind
  BY <1>1, <1>2 DEF OthersRest
<1> QED BY <1>1, <1>2, <1>6, <1>7 DEF Readers, ReadersSeeTheRecords

LEMMA PageReaders ==
  ASSUME Typed, Readers, NEW o \in Request, TruncatePage(o) \/ FillPage(o) \/ \E u \in Url : SweepPage(o, u)
  PROVE  Readers'
<1> USE TypedLocal DEF Typed
<1>1. OthersRest(o)
  BY StepShape DEF Step
<1>2. /\ UNCHANGED <<record, index, crashes, behind, broke, writer>>
      /\ at[o] \in {"set", "fill-page", "sweep"} /\ at'[o] \in {"fill-page", "write", "sweep"}
  BY DEF TruncatePage, FillPage, SweepPage, Goes, LocalTyped, history
<1>3. writer # Nobody => writer \in Request \ {o}
  BY <1>2, Turns
<1>4. \A c \in Capture : record'[c] = Torn => behind' \/ (writer' # Nobody /\ req'[writer'].on = c)
  BY <1>1, <1>2, <1>3 DEF Readers, TornOK, OthersRest
<1>5. \A u \in Url :
        cache'[u] = Torn => crashes > 0 \/ \E p \in Request : at'[p] = "fill-page" /\ req'[p].url = u
  <2> SUFFICES ASSUME NEW u \in Url, cache'[u] = Torn, ~(crashes > 0)
               PROVE  \E p \in Request : at'[p] = "fill-page" /\ req'[p].url = u
    OBVIOUS
  <2>1. CASE cache[u] = Torn
    <3>1. PICK p \in Request : at[p] = "fill-page" /\ req[p].url = u
      BY <2>1 DEF Readers, TornOK
    <3>2. CASE p = o
      <4>1. FillPage(o) /\ req[o].ref \in Body
        BY <3>1, <3>2, Turns DEF TruncatePage, FillPage, SweepPage, Filing
      <4> QED BY <3>1, <3>2, <4>1, ValueAssumption DEF FillPage, TypeOK
    <3> QED BY <1>1, <3>1, <3>2 DEF OthersRest
  <2>2. CASE cache[u] # Torn
    <3>1. CASE TruncatePage(o)
      <4>1. req[o].url = u /\ at'[o] = "fill-page" /\ req'[o] = req[o]
        BY <2>2, <3>1 DEF TruncatePage, Goes, TypeOK
      <4> QED BY <4>1
    <3>2. CASE FillPage(o)
      <4>1. req[o].ref \in Body
        BY <3>2, Turns DEF FillPage, Filing
      <4> QED BY <2>2, <3>2, <4>1, ValueAssumption DEF FillPage, TypeOK
    <3>3. CASE \E v \in Url : SweepPage(o, v)
      BY <2>2, <3>3, ValueAssumption DEF SweepPage, TypeOK
    <3> QED BY <3>1, <3>2, <3>3
  <2> QED BY <2>1, <2>2
<1>6. TornOK'
  BY <1>2, <1>4, <1>5 DEF Readers, TornOK
<1>7. \A p \in Request : at[p] \in {"fill", "rebuild"} => at'[p] = at[p]
  BY <1>1, <1>2 DEF OthersRest
<1> QED BY <1>2, <1>6, <1>7 DEF Readers, ReadersSeeTheRecords

LEMMA RecordReaders ==
  ASSUME Typed, Readers, NEW o \in Request, Unlink(o) \/ TruncateRecord(o) \/ FillRecord(o)
  PROVE  Readers'
<1> USE TypedLocal DEF Typed
<1>1. OthersRest(o)
  BY StepShape DEF Step
<1>2. /\ UNCHANGED <<cache, index, crashes, behind, broke, req>> /\ req[o].on \in Capture /\ new[o] \in Record
      /\ at[o] \in {"unlink", "write", "fill"} /\ at'[o] \in {"fill", "rebuild"}
  BY Turns DEF Unlink, TruncateRecord, FillRecord, Goes, LocalTyped, history
<1>3. \A c \in Capture : record'[c] = Torn => behind' \/ (writer' # Nobody /\ req'[writer'].on = c)
  <2> SUFFICES ASSUME NEW c \in Capture, record'[c] = Torn, ~behind
               PROVE  writer' # Nobody /\ req[writer'].on = c
    BY <1>2
  <2>1. CASE Unlink(o)
    BY <2>1, <1>2, ValueAssumption DEF Unlink, TypeOK, Readers, TornOK
  <2>2. CASE TruncateRecord(o)
    <3>1. c = req[o].on
      BY <2>2 DEF TruncateRecord, TypeOK, Readers, TornOK, FilesFree
    <3> QED BY <2>2, <3>1, KeyAssumption DEF TruncateRecord
  <2>3. CASE FillRecord(o)
    <3>1. writer = o /\ c # req[o].on
      BY <2>3, <1>2, Turns, ValueAssumption DEF FillRecord, TypeOK
    <3> QED BY <2>3, <3>1 DEF FillRecord, TypeOK, Readers, TornOK
  <2> QED BY <2>1, <2>2, <2>3
<1>4. \A p \in Request : at[p] = "fill-page" => at'[p] = at[p] /\ req'[p] = req[p]
  BY <1>1, <1>2 DEF OthersRest
<1>5. TornOK'
  BY <1>2, <1>3, <1>4 DEF Readers, TornOK
<1> QED BY <1>2, <1>5 DEF Readers, ReadersSeeTheRecords

LEMMA RebuildReaders ==
  ASSUME Typed, Readers, NEW o \in Request, RebuildIndex(o)
  PROVE  Readers'
<1>1. OthersRest(o)
  BY StepShape DEF Step
<1>2. /\ UNCHANGED <<record, cache, crashes, broke, writer>> /\ at[o] = "rebuild"
      /\ index' = [c \in Capture |-> Summary(record'[c])] /\ \A c \in Capture : record'[c] # Torn
      /\ behind' = FALSE
  BY DEF RebuildIndex
<1>3. \A p \in Request : at[p] = "fill-page" => at'[p] = at[p] /\ req'[p] = req[p]
  BY <1>1, <1>2 DEF OthersRest
<1>4. TornOK'
  BY <1>2, <1>3 DEF Readers, TornOK
<1> QED BY <1>2, <1>4 DEF Readers, ReadersSeeTheRecords

LEMMA ReadersKept == Typed /\ Readers /\ [Next]_vars => Readers'
<1> SUFFICES ASSUME Typed, Readers, [Next]_vars PROVE Readers'
  OBVIOUS
<1>1. CASE Crash
  <2>1. crashes' > 0 /\ behind' /\ UNCHANGED broke
    BY <1>1 DEF Crash, Typed, TypeOK
  <2> QED BY <2>1 DEF Readers, TornOK, ReadersSeeTheRecords
<1>2. ASSUME NEW o \in Request, NewRequest(o) PROVE Readers'
  BY <1>2, NewRequestShape, StepShape, SteadyReaders
<1>3. ASSUME NEW o \in Request, Step(o) PROVE Readers'
  <2>1. CASE \/ LookMissing(o) \/ Look(o)
             \/ EnterOpen(o) \/ EnterLabel(o) \/ RefusePage(o) \/ EnterPage(o) \/ EnterDelete(o)
             \/ FindOthers(o) \/ SweepDone(o) \/ Archive(o)
    <3>1. UNCHANGED <<record, cache, index, crashes, behind, broke, writer>>
      BY <2>1 DEF LookMissing, Look, EnterOpen, EnterLabel, RefusePage, EnterPage, EnterDelete,
           FindOthers, SweepDone, Archive, disk, history
    <3>2. at[o] \in {"look", "queue", "others", "sweep", "bytes"}
      BY <2>1 DEF LookMissing, Look, EnterOpen, EnterLabel, RefusePage, EnterPage, EnterDelete, Enters,
           FindOthers, SweepDone, Archive, HasPage
    <3>3. OthersRest(o) /\ LocksOK'
      BY <1>3, StepShape
    <3>4. at'[o] # "fill"
      BY <3>1, <3>2, <3>3, Turns DEF LocksOK
    <3> QED BY <3>1, <3>2, <3>3, <3>4, SteadyReaders
  <2> QED BY <1>3, <2>1, BrokenReaders, PageReaders, RecordReaders, RebuildReaders DEF Step
<1>4. CASE UNCHANGED vars
  BY <1>4 DEF vars, Readers, TornOK, ReadersSeeTheRecords, Summary
<1> QED BY <1>1, <1>2, <1>3, <1>4 DEF Next

LEMMA InitReaders == Init => Readers
<1> SUFFICES ASSUME Init PROVE Readers
  OBVIOUS
<1>1. TornOK
  BY ValueAssumption DEF Init, TornOK
<1>2. index = [c \in Capture |-> Summary(record[c])]
  BY DEF Init, Summary
<1> QED BY <1>1, <1>2 DEF Init, Readers, ReadersSeeTheRecords

(* No reader meets a half-written file before a crash, and the index       *)
(* agrees with the records whenever no change is under way (captureStore.ts, *)
(* fileLock and rebuildIndex).                                             *)
THEOREM ReadersAlwaysSeeTheRecords == Spec => []ReadersSeeTheRecords 
<1>1. Init => Typed /\ Readers
  BY InitTyped, InitReaders
<1>2. Typed /\ Readers /\ [Next]_vars => (Typed /\ Readers)'
  BY TypedKept, ReadersKept
<1>3. Typed /\ Readers => ReadersSeeTheRecords
  BY DEF Readers
<1> QED BY <1>1, <1>2, <1>3, PTL DEF Spec

-----------------------------------------------------------------------------
(* Pages and their bytes *)

(* A capture lists contents b of page u, in its record or in the record    *)
(* that is about to replace it.                                            *)
Lists(c, u, b) ==
  \/ record[c] \notin {Missing, Torn} /\ record[c].pages[u] = b
  \/ \E o \in Request : at[o] \in {"write", "fill"} /\ req[o].on = c /\ new[o].pages[u] = b

Writing(u, b) == BeingWritten(u, b) \/ CutShort(u, b)

BytesOK ==
  \A c \in Capture, u \in Url, b \in Body :
    ~BeingDeleted(c) /\ Lists(c, u, b) =>
      /\ cache[u] \in Body \/ \E d \in Body : Writing(u, d)
      /\ cache[u] = b \/ <<u, b>> \in archive \/ Writing(u, b)

(* A file the server died over is torn, and nobody writes it again.        *)
SpoiltOK ==
  /\ \A u \in Url, b \in Body : <<u, b>> \in spoilt => cache[u] = Torn
  /\ \A o \in Request : at[o] \in {"set", "fill-page"} => \A b \in Body : <<req[o].url, b>> \notin spoilt
  /\ \A o \in Request : at[o] = "fill-page" => cache[req[o].url] = Torn

(* Contents that are about to be replaced are archived.                    *)
ReplacedOK ==
  \A o \in Request, c \in Capture, b \in Body :
    at[o] \in {"set", "fill-page"} /\ ~BeingDeleted(c) /\ Lists(c, req[o].url, b) =>
      b = req[o].ref \/ <<req[o].url, b>> \in archive

(* What a delete is about to remove, no other capture lists.               *)
SweepOK ==
  \A o \in Request, c \in Capture, u \in Url, b \in Body :
    at[o] = "sweep" /\ u \in sweep[o] /\ c # req[o].on => ~Lists(c, u, b)

(* A delete overlaps no page of another capture.                           *)
ApartOK ==
  \A o \in Request, p \in Request :
    at[o] # "idle" /\ at[p] # "idle" /\ req[o].kind = "delete" /\ req[p].kind = "page" =>
      req[o].on = req[p].on

Pages == BytesOK /\ SpoiltOK /\ ReplacedOK /\ SweepOK /\ ApartOK

LEMMA MergedPage ==
  ASSUME NEW r \in Record, NEW v \in Url, NEW ref \in Body \cup {NotOk}, NEW u \in Url, NEW b \in Body,
         WithPage(r, v, ref).pages[u] = b
  PROVE  r.pages[u] = b \/ (u = v /\ ref = b)
<1>1. WithPage(r, v, ref).pages = [r.pages EXCEPT ![v] = MergePage(@, ref)] /\ r.pages \in [Url -> Ref]
  BY WithPageTyped, RecordParts
<1> QED BY <1>1, ValueAssumption DEF MergePage

(* The plan of a request that reaches its write.                           *)
LEMMA WrittenPages ==
  ASSUME Typed, NEW o \in Request, at[o] = "write", WriteOK(o), NEW u \in Url, NEW b \in Body,
         new[o].pages[u] = b
  PROVE  /\ record[req[o].on] \in Record
         /\ \/ record[req[o].on].pages[u] = b
            \/ req[o].kind = "page" /\ u = req[o].url /\ b = req[o].ref
<1>1. req[o].on \in Capture /\ req[o].ref \in Body \cup {NotOk}
  BY Turns
<1>2. Fresh.pages[u] # b
  BY FreshTyped, ValueAssumption
<1>3. record[req[o].on] \in Record
  BY <1>1, <1>2, RecordRead DEF WriteOK
<1> QED BY <1>1, <1>2, <1>3, MergedPage DEF WriteOK

(* Nothing is listed anew but by the request that filed its bytes.         *)
LEMMA StepLists ==
  ASSUME Typed, PlansOK, NEW o \in Request, NewRequest(o) \/ Step(o),
         NEW c \in Capture, NEW u \in Url, NEW b \in Body, Lists(c, u, b)'
  PROVE  Lists(c, u, b) \/ (FillPage(o) /\ c = req[o].on /\ u = req[o].url /\ b = req[o].ref)
<1> USE TypedLocal DEF Typed
<1>1. OthersRest(o) /\ LocalTyped' /\ LocksOK'
  BY StepShape
<1>2. ASSUME NEW p \in Request \ {o}, at'[p] \in {"write", "fill"} /\ req'[p].on = c /\ new'[p].pages[u] = b
      PROVE  Lists(c, u, b)
  BY <1>1, <1>2 DEF OthersRest, Lists
<1>3. ASSUME record'[c] \notin {Missing, Torn}, record'[c].pages[u] = b
      PROVE  Lists(c, u, b)
  <2>1. CASE record'[c] = record[c]
    BY <1>3, <2>1 DEF Lists
  <2>2. CASE record'[c] # record[c]
    <3>1. FillRecord(o) /\ req[o].on = c
      <4>1. ~NewRequest(o)
        BY <2>2, NewRequestShape
      <4>2. ~(\/ LookBroken(o) \/ EnterBroken(o) \/ ArchiveBroken(o) \/ FindOthersBroken(o) \/ RebuildBroken(o))
        BY <2>2, BrokenShape
      <4>3. ~(\/ LookMissing(o) \/ Look(o)
              \/ EnterOpen(o) \/ EnterLabel(o) \/ RefusePage(o) \/ EnterPage(o) \/ EnterDelete(o)
              \/ FindOthers(o) \/ SweepDone(o) \/ Archive(o) \/ TruncatePage(o) \/ FillPage(o)
              \/ RebuildIndex(o) \/ \E v \in Url : SweepPage(o, v))
        BY <2>2 DEF LookMissing, Look, EnterOpen, EnterLabel, RefusePage, EnterPage, EnterDelete,
             FindOthers, SweepDone, SweepPage, Archive, TruncatePage, FillPage, RebuildIndex, disk
      <4>4. ~Unlink(o) /\ ~TruncateRecord(o)
        BY <1>3, <2>2 DEF Unlink, TruncateRecord, TypeOK
      <4> QED BY <2>2, <4>1, <4>2, <4>3, <4>4 DEF Step, FillRecord, TypeOK
    <3>2. record'[c] = new[o] /\ at[o] = "fill"
      BY <3>1 DEF FillRecord, TypeOK
    <3> QED BY <1>3, <3>1, <3>2 DEF Lists
  <2> QED BY <2>1, <2>2
<1>4. ASSUME at'[o] = "fill", req'[o].on = c, new'[o].pages[u] = b
      PROVE  Lists(c, u, b)
  <2>1. writer' = o
    BY <1>1, <1>4 DEF LocksOK
  <2>2. CASE writer = o
    <3>1. at[o] = "fill"
      BY <2>2, Turns
    <3>2. at'[o] # "fill"
      <4>1. ~NewRequest(o)
        BY <3>1, NewRequestShape
      <4>2. FillRecord(o)
        BY <3>1, <4>1 DEF Step, LookBroken, LookMissing, Look, EnterBroken, EnterOpen, EnterLabel, RefusePage,
             EnterPage, EnterDelete, Enters, ArchiveBroken, Archive, HasPage, TruncatePage, FillPage,
             FindOthersBroken, FindOthers, SweepPage, SweepDone, Unlink, TruncateRecord, RebuildBroken, RebuildIndex
      <4> QED BY <4>2 DEF FillRecord, Goes, LocalTyped
    <3> QED BY <1>4, <3>2
  <2>3. CASE writer # o
    <3>1. TruncateRecord(o)
      <4>1. ~NewRequest(o)
        BY <1>4, NewRequestShape
      <4>2. ~(\/ LookBroken(o) \/ EnterBroken(o) \/ ArchiveBroken(o) \/ FindOthersBroken(o) \/ RebuildBroken(o))
        BY <1>4, BrokenShape
      <4>3. ~(\/ LookMissing(o) \/ Look(o)
              \/ EnterOpen(o) \/ EnterLabel(o) \/ RefusePage(o) \/ EnterPage(o) \/ EnterDelete(o)
              \/ FindOthers(o) \/ SweepDone(o) \/ Archive(o) \/ TruncatePage(o) \/ FillPage(o)
              \/ RebuildIndex(o) \/ (\E v \in Url : SweepPage(o, v)) \/ Unlink(o))
        BY <2>1, <2>3 DEF LookMissing, Look, EnterOpen, EnterLabel, RefusePage, EnterPage, EnterDelete,
             FindOthers, SweepDone, SweepPage, Archive, TruncatePage, FillPage, RebuildIndex, Unlink, disk
      <4>4. ~FillRecord(o)
        BY <2>1, KeyAssumption DEF FillRecord
      <4> QED BY <4>1, <4>2, <4>3, <4>4 DEF Step
    <3>2. at[o] = "write" /\ new'[o] = new[o] /\ req'[o] = req[o]
      BY <3>1 DEF TruncateRecord, Goes
    <3> QED BY <1>4, <3>2 DEF Lists
  <2> QED BY <2>2, <2>3
<1>5. ASSUME at'[o] = "write", req'[o].on = c, new'[o].pages[u] = b
      PROVE  Lists(c, u, b) \/ (FillPage(o) /\ c = req[o].on /\ u = req[o].url /\ b = req[o].ref)
  <2>1. EnterOpen(o) \/ EnterLabel(o) \/ EnterPage(o) \/ FillPage(o)
    <3>1. ~NewRequest(o)
      BY <1>5, NewRequestShape
    <3>2. ~(\/ LookBroken(o) \/ EnterBroken(o) \/ ArchiveBroken(o) \/ FindOthersBroken(o) \/ RebuildBroken(o))
      BY <1>5, BrokenShape
    <3>3. ~(\/ LookMissing(o) \/ Look(o) \/ RefusePage(o) \/ EnterDelete(o)
            \/ FindOthers(o) \/ SweepDone(o) \/ Archive(o) \/ TruncatePage(o)
            \/ RebuildIndex(o) \/ (\E v \in Url : SweepPage(o, v)) \/ Unlink(o)
            \/ TruncateRecord(o) \/ FillRecord(o))
      BY <1>5 DEF LookMissing, Look, RefusePage, EnterDelete, FindOthers, SweepDone, SweepPage, Archive,
           TruncatePage, RebuildIndex, Unlink, TruncateRecord, FillRecord, Goes, End, LocalTyped
    <3> QED BY <3>1, <3>2, <3>3 DEF Step
  <2>2. req' = req /\ record' = record
    <3>1. ~End(o, {req[o].on})
      BY <1>5 DEF End, LocalTyped
    <3> QED BY <2>1, <3>1 DEF EnterOpen, EnterLabel, EnterPage, FillPage, Goes, disk
  <2>3. Step(o) /\ WriteOK(o)'
    <3>1. Step(o)
      BY <2>1 DEF Step
    <3> QED BY <1>5, <3>1, OwnPlan DEF PlanOK
  <2>4. Fresh.pages[u] # b
    BY FreshTyped, ValueAssumption
  <2>5. \/ record[c] \notin {Missing, Torn} /\ record[c].pages[u] = b
        \/ req[o].kind = "page" /\ u = req[o].url /\ b = req[o].ref
    <3>1. record[c] \notin {Missing, Torn} => record[c] \in Record
      BY RecordRead
    <3>2. req[o].ref \in Body \cup {NotOk}
      BY Turns
    <3>3. \/ record[c] = Missing /\ new'[o].pages = Fresh.pages
          \/ /\ record[c] \notin {Missing, Torn}
             /\ \/ new'[o].pages = record[c].pages
                \/ /\ req[o].kind = "page" /\ req[o].url \in Url
                   /\ new'[o].pages = WithPage(record[c], req[o].url, req[o].ref).pages
      BY <1>5, <2>2, <2>3 DEF WriteOK, WithPage, WithPages
    <3> QED BY <1>5, <2>4, <3>1, <3>2, <3>3, MergedPage
  <2>6. req[o].kind = "page" /\ req[o].ref \in Body => FillPage(o)
    <3>1. EnterPage(o) => req[o].ref = NotOk
      BY <1>5 DEF EnterPage, Goes, LocalTyped
    <3> QED BY <2>1, <3>1, ValueAssumption DEF EnterOpen, EnterLabel
  <2> QED BY <1>5, <2>2, <2>5, <2>6 DEF Lists
<1> QED BY <1>2, <1>3, <1>4, <1>5 DEF Lists

(* A capture stops being deleted when its record is gone.                  *)
LEMMA StepDeletes ==
  ASSUME Typed, PlansOK, NEW o \in Request, NewRequest(o) \/ Step(o),
         NEW c \in Capture, BeingDeleted(c), ~BeingDeleted(c)'
  PROVE  \A u \in Url, b \in Body : ~Lists(c, u, b)'
<1> USE TypedLocal DEF Typed
<1>1. OthersRest(o) /\ LocalTyped' /\ LocksOK'
  BY StepShape
<1>2. Unlink(o) /\ c = req[o].on
  <2>1. CASE cut' = cut
    <3>1. c \notin cut
      BY <2>1 DEF BeingDeleted
    <3>2. PICK p \in Request : req[p].on = c /\ at[p] \in {"sweep", "unlink"}
      BY <3>1 DEF BeingDeleted
    <3>3. p = o /\ ~(req'[o].on = c /\ at'[o] \in {"sweep", "unlink"})
      BY <1>1, <3>2 DEF OthersRest, BeingDeleted
    <3>4. SweepDone(o) \/ Unlink(o) \/ \E u \in Url : SweepPage(o, u)
      BY <3>2, <3>3, NewRequestShape DEF Step, LookBroken, LookMissing, Look, EnterBroken, EnterOpen,
           EnterLabel, RefusePage, EnterPage, EnterDelete, Enters, ArchiveBroken, Archive, HasPage,
           TruncatePage, FillPage, FindOthersBroken, FindOthers, TruncateRecord, FillRecord,
           RebuildBroken, RebuildIndex
    <3> QED BY <3>2, <3>3, <3>4 DEF SweepDone, SweepPage, Goes, LocalTyped
  <2>2. CASE cut' # cut
    <3>1. Unlink(o)
      <4>1. ~NewRequest(o)
        BY <2>2, NewRequestShape
      <4>2. ~(\/ LookBroken(o) \/ EnterBroken(o) \/ ArchiveBroken(o) \/ FindOthersBroken(o) \/ RebuildBroken(o))
        BY <2>2, BrokenShape
      <4>3. ~(\/ LookMissing(o) \/ Look(o)
              \/ EnterOpen(o) \/ EnterLabel(o) \/ RefusePage(o) \/ EnterPage(o) \/ EnterDelete(o)
              \/ FindOthers(o) \/ SweepDone(o) \/ Archive(o) \/ TruncatePage(o) \/ FillPage(o)
              \/ RebuildIndex(o) \/ (\E v \in Url : SweepPage(o, v)) \/ TruncateRecord(o) \/ FillRecord(o))
        BY <2>2 DEF LookMissing, Look, EnterOpen, EnterLabel, RefusePage, EnterPage, EnterDelete,
             FindOthers, SweepDone, SweepPage, Archive, TruncatePage, FillPage, RebuildIndex,
             TruncateRecord, FillRecord, history
      <4> QED BY <4>1, <4>2, <4>3 DEF Step
    <3>2. CASE c \in cut
      BY <3>1, <3>2 DEF Unlink, BeingDeleted
    <3>3. CASE c \notin cut
      <4>1. PICK p \in Request : req[p].on = c /\ at[p] \in {"sweep", "unlink"}
        BY <3>3 DEF BeingDeleted
      <4>2. p = o
        BY <1>1, <4>1 DEF OthersRest, BeingDeleted
      <4> QED BY <3>1, <4>1, <4>2
    <3> QED BY <3>1, <3>2, <3>3
  <2> QED BY <2>1, <2>2
<1>3. /\ record'[c] = Missing /\ at'[o] = "rebuild" /\ at[o] = "unlink"
  BY <1>2 DEF Unlink, Goes, TypeOK, LocalTyped
<1>4. \A p \in Request : ~(at'[p] \in {"write", "fill"} /\ req'[p].on = c)
  <2> SUFFICES ASSUME NEW p \in Request, at'[p] \in {"write", "fill"}, req'[p].on = c
               PROVE  FALSE
    OBVIOUS
  <2>1. p # o
    BY <1>3
  <2>2. at[p] \in Holding /\ at[o] \in Holding /\ req[p].on = req[o].on
    BY <1>1, <1>2, <1>3, <2>1 DEF OthersRest, Holding, Deleting
  <2> QED BY <2>1, <2>2, Exclusive
<1> QED BY <1>3, <1>4 DEF Lists

(* What a step may do to the bytes.                                        *)
LEMMA StepBytes ==
  ASSUME Typed, NEW o \in Request, NewRequest(o) \/ Step(o)
  PROVE  /\ archive \subseteq archive'
         /\ \/ cache' = cache /\ spoilt' = spoilt
            \/ TruncatePage(o) /\ cache' = [cache EXCEPT ![req[o].url] = Torn] /\ spoilt' = spoilt
            \/ FillPage(o) /\ cache' = [cache EXCEPT ![req[o].url] = req[o].ref] /\ spoilt' = spoilt
            \/ \E u \in sweep[o] : SweepPage(o, u)
<1>1. CASE NewRequest(o)
  BY <1>1, NewRequestShape
<1>2. CASE \/ LookBroken(o) \/ EnterBroken(o) \/ ArchiveBroken(o) \/ FindOthersBroken(o) \/ RebuildBroken(o)
  BY <1>2, BrokenShape
<1>3. CASE \/ LookMissing(o) \/ Look(o)
           \/ EnterOpen(o) \/ EnterLabel(o) \/ RefusePage(o) \/ EnterPage(o) \/ EnterDelete(o)
           \/ FindOthers(o) \/ SweepDone(o) \/ Archive(o) \/ RebuildIndex(o)
           \/ Unlink(o) \/ TruncateRecord(o) \/ FillRecord(o)
  BY <1>3 DEF LookMissing, Look, EnterOpen, EnterLabel, RefusePage, EnterPage, EnterDelete,
       FindOthers, SweepDone, Archive, RebuildIndex, Unlink, TruncateRecord, FillRecord, disk, history
<1>4. CASE TruncatePage(o) \/ FillPage(o) \/ \E u \in Url : SweepPage(o, u)
  BY <1>4 DEF TruncatePage, FillPage, SweepPage, history
<1> QED BY <1>1, <1>2, <1>3, <1>4 DEF Step

(* A sweep takes away what is known of one page. *)
LEMMA SweptPage ==
  ASSUME Typed, NEW o \in Request, NEW v \in Url, SweepPage(o, v)
  PROVE  /\ at[o] = "sweep" /\ v \in sweep[o] /\ chain[v] = <<>> /\ cache' = [cache EXCEPT ![v] = Missing]
         /\ at' = at /\ req' = req
         /\ \A u \in Url, b \in Body : <<u, b>> \in spoilt' <=> u # v /\ <<u, b>> \in spoilt
  BY DEF SweepPage

(* What is being written is filled, unless the server dies. *)
LEMMA StepWriting ==
  ASSUME Typed, NEW o \in Request, NewRequest(o) \/ Step(o), NEW u \in Url, NEW b \in Body, Writing(u, b)
  PROVE  \/ Writing(u, b)'
         \/ FillPage(o) /\ u = req[o].url /\ b = req[o].ref
         \/ u \in sweep[o] /\ SweepPage(o, u)
<1> USE DEF Typed
<1>1. CASE CutShort(u, b)
  <2>1. CASE spoilt' = spoilt
    BY <1>1, <2>1 DEF CutShort, Writing
  <2>2. CASE \E v \in sweep[o] : SweepPage(o, v)
    <3>1. PICK v \in sweep[o] : SweepPage(o, v)
      BY <2>2
    <3>2. v \in Url
      BY <3>1, Turns
    <3> QED BY <1>1, <3>1, <3>2, SweptPage DEF CutShort, Writing
  <2> QED BY <2>1, <2>2, StepBytes
<1>2. CASE BeingWritten(u, b)
  <2>1. PICK p \in Request : at[p] = "fill-page" /\ req[p].url = u /\ req[p].ref = b
    BY <1>2 DEF BeingWritten
  <2>2. CASE p # o
    <3>1. at'[p] = at[p] /\ req'[p] = req[p]
      BY <2>2, StepShape DEF OthersRest
    <3> QED BY <2>1, <3>1 DEF BeingWritten, Writing
  <2>3. CASE p = o
    <3>1. FillPage(o)
      BY <2>1, <2>3, NewRequestShape DEF Step, LookBroken, LookMissing, Look, EnterBroken, EnterOpen,
           EnterLabel, RefusePage, EnterPage, EnterDelete, Enters, ArchiveBroken, Archive, HasPage,
           TruncatePage, FindOthersBroken, FindOthers, SweepPage, SweepDone, Unlink, TruncateRecord, FillRecord,
           RebuildBroken, RebuildIndex
    <3> QED BY <2>1, <2>3, <3>1
  <2> QED BY <2>2, <2>3
<1> QED BY <1>1, <1>2 DEF Writing

(* A listed page keeps its bytes over a step. *)
LEMMA BytesKept ==
  ASSUME Typed, PlansOK, Pages, NEW o \in Request, NewRequest(o) \/ Step(o)
  PROVE  BytesOK'
<1> DEFINE Bytes(u) == cache[u] \in Body \/ \E d \in Body : Writing(u, d)
           Version(u, b) == cache[u] = b \/ <<u, b>> \in archive \/ Writing(u, b)
<1> SUFFICES ASSUME NEW c \in Capture, NEW u \in Url, NEW b \in Body,
                    ~BeingDeleted(c)', Lists(c, u, b)'
             PROVE  Bytes(u)' /\ Version(u, b)'
  BY DEF BytesOK
<1> USE DEF Typed
<1>1. ~BeingDeleted(c)
  BY StepDeletes
<1>2. cache \in [Url -> Body \cup {Missing, Torn}]
  BY DEF TypeOK
<1>3. CASE FillPage(o) /\ c = req[o].on /\ u = req[o].url /\ b = req[o].ref
  BY <1>2, <1>3 DEF FillPage
<1>4. CASE Lists(c, u, b)
  <2>1. Bytes(u) /\ Version(u, b)
    BY <1>1, <1>4 DEF Pages, BytesOK
  <2>2. archive \subseteq archive'
    BY StepBytes
  <2>3. ASSUME NEW v \in Url, FillPage(o), cache' = [cache EXCEPT ![v] = req[o].ref], v = req[o].url
        PROVE  Bytes(u)' /\ Version(u, b)'
    <3>1. at[o] = "fill-page" /\ req[o].ref \in Body
      BY <2>3, Turns DEF FillPage, Filing
    <3>2. CASE u = v
      <4>1. b = req[o].ref \/ <<u, b>> \in archive
        BY <1>1, <1>4, <2>3, <3>1, <3>2 DEF Pages, ReplacedOK
      <4>2. cache'[u] = req[o].ref
        BY <1>2, <2>3, <3>2
      <4> QED BY <2>2, <3>1, <4>1, <4>2
    <3>3. CASE u # v
      <4>1. cache'[u] = cache[u] /\ \A d \in Body : Writing(u, d) => Writing(u, d)'
        BY <1>2, <2>3, <3>3, StepWriting DEF FillPage, SweepPage
      <4> QED BY <2>1, <2>2, <4>1
    <3> QED BY <3>2, <3>3
  <2>4. ASSUME NEW v \in sweep[o], SweepPage(o, v)
        PROVE  Bytes(u)' /\ Version(u, b)'
    <3>1. v \in Url /\ at[o] = "sweep" /\ cache' = [cache EXCEPT ![v] = Missing]
      BY <2>4, Turns, SweptPage
    <3>2. c # req[o].on
      BY <1>1, <3>1 DEF BeingDeleted
    <3>3. u # v
      BY <1>4, <2>4, <3>1, <3>2 DEF Pages, SweepOK
    <3>4. cache'[u] = cache[u]
      BY <1>2, <3>1, <3>3
    <3>5. \A d \in Body : Writing(u, d) => Writing(u, d)'
      <4>1. at' = at /\ req' = req /\ \A d \in Body : <<u, d>> \in spoilt' <=> <<u, d>> \in spoilt
        BY <2>4, <3>1, <3>3, SweptPage
      <4> QED BY <4>1 DEF Writing, BeingWritten, CutShort
    <3> QED BY <2>1, <2>2, <3>4, <3>5
  <2>5. ASSUME ~FillPage(o), ~\E v \in sweep[o] : SweepPage(o, v), cache' = cache
        PROVE  Bytes(u)' /\ Version(u, b)'
    <3>1. \A d \in Body : Writing(u, d) => Writing(u, d)'
      BY <2>5, StepWriting
    <3> QED BY <2>1, <2>2, <2>5, <3>1
  <2>6. CASE TruncatePage(o) /\ cache' = [cache EXCEPT ![req[o].url] = Torn]
    <3>1. at[o] = "set" /\ req[o].url \in Url /\ req[o].ref \in Body /\ at'[o] = "fill-page" /\ req' = req
      BY <2>6, Turns, TypedLocal DEF TruncatePage, Filing, Goes, LocalTyped
    <3>2. \A d \in Body : Writing(u, d) => Writing(u, d)'
      BY <3>1, StepWriting DEF FillPage, SweepPage
    <3>3. CASE u = req[o].url
      <4>1. BeingWritten(u, req[o].ref)'
        BY <3>1, <3>3 DEF BeingWritten
      <4>2. b = req[o].ref \/ <<u, b>> \in archive
        BY <1>1, <1>4, <3>1, <3>3 DEF Pages, ReplacedOK
      <4> QED BY <2>2, <3>1, <4>1, <4>2 DEF Writing
    <3>4. CASE u # req[o].url
      <4>1. cache'[u] = cache[u]
        BY <1>2, <2>6, <3>4
      <4> QED BY <2>1, <2>2, <3>2, <4>1
    <3> QED BY <3>3, <3>4
  <2>7. FillPage(o) => req[o].url \in Url /\ cache' = [cache EXCEPT ![req[o].url] = req[o].ref]
    BY Turns DEF FillPage, Filing
  <2> QED BY <2>3, <2>4, <2>5, <2>6, <2>7, StepBytes
<1> QED BY <1>3, <1>4, StepLists

LEMMA SpoiltKept ==
  ASSUME Typed, Pages, NEW o \in Request, NewRequest(o) \/ Step(o)
  PROVE  SpoiltOK'
<1> USE TypedLocal DEF Typed
<1>1. SpoiltOK /\ OthersRest(o) /\ cache \in [Url -> Body \cup {Missing, Torn}]
  BY StepShape DEF Pages, TypeOK
<1>2. \A u \in Url, b \in Body : <<u, b>> \in spoilt' => <<u, b>> \in spoilt /\ cache'[u] = cache[u]
  <2> SUFFICES ASSUME NEW u \in Url, NEW b \in Body, <<u, b>> \in spoilt'
               PROVE  <<u, b>> \in spoilt /\ cache'[u] = cache[u]
    OBVIOUS
  <2>1. CASE cache' = cache /\ spoilt' = spoilt
    BY <2>1
  <2>2. CASE (TruncatePage(o) \/ FillPage(o)) /\ spoilt' = spoilt
    <3>1. at[o] \in {"set", "fill-page"} /\ req[o].url \in Url
      BY <2>2, Turns DEF TruncatePage, FillPage, Filing
    <3>2. u # req[o].url
      BY <1>1, <2>2, <3>1 DEF SpoiltOK
    <3> QED BY <1>1, <2>2, <3>1, <3>2 DEF TruncatePage, FillPage
  <2>3. CASE \E v \in sweep[o] : SweepPage(o, v)
    <3>1. PICK v \in sweep[o] : SweepPage(o, v)
      BY <2>3
    <3>2. v \in Url
      BY <3>1, Turns
    <3> QED BY <1>1, <3>1, <3>2, SweptPage
  <2> QED BY <2>1, <2>2, <2>3, StepBytes
<1>3. ASSUME NEW p \in Request, p # o, at'[p] \in {"set", "fill-page"}
      PROVE  /\ \A b \in Body : <<req'[p].url, b>> \notin spoilt'
             /\ at'[p] = "fill-page" => cache'[req'[p].url] = Torn
  <2>1. at[p] = at'[p] /\ req'[p] = req[p]
    BY <1>1, <1>3 DEF OthersRest
  <2>2. req[p].url \in Url /\ HasTurn(p, req[p].url)
    BY <1>3, <2>1, Turns DEF Filing
  <2>3. \A b \in Body : <<req[p].url, b>> \notin spoilt
    BY <1>1, <1>3, <2>1 DEF SpoiltOK
  <2>4. cache'[req[p].url] = cache[req[p].url]
    <3>1. CASE cache' = cache
      BY <3>1
    <3>2. CASE TruncatePage(o) \/ FillPage(o)
      <4>1. at[o] \in {"set", "fill-page"} /\ req[o].url \in Url
        BY <3>2, Turns DEF TruncatePage, FillPage, Filing
      <4>2. req[o].url # req[p].url
        BY <1>3, <2>2, <4>1, Exclusive
      <4> QED BY <1>1, <2>2, <3>2, <4>1, <4>2 DEF TruncatePage, FillPage
    <3>3. CASE \E v \in sweep[o] : SweepPage(o, v)
      <4>1. PICK v \in sweep[o] : SweepPage(o, v)
        BY <3>3
      <4>2. v \in Url /\ chain[v] = <<>> /\ cache' = [cache EXCEPT ![v] = Missing]
        BY <4>1, Turns, SweptPage
      <4>3. v # req[p].url
        BY <2>2, <4>2 DEF HasTurn
      <4> QED BY <1>1, <2>2, <4>2, <4>3
    <3> QED BY <3>1, <3>2, <3>3, StepBytes
  <2> QED BY <1>1, <1>2, <2>1, <2>2, <2>3, <2>4 DEF SpoiltOK
<1>4. ASSUME at'[o] \in {"set", "fill-page"}
      PROVE  /\ \A b \in Body : <<req'[o].url, b>> \notin spoilt'
             /\ at'[o] = "fill-page" => cache'[req'[o].url] = Torn
  <2>1. Archive(o) \/ TruncatePage(o)
    BY <1>4, NewRequestShape, BrokenShape DEF Step, LookMissing, Look, EnterOpen,
         EnterLabel, RefusePage, EnterPage, EnterDelete, FillPage, FindOthers, SweepPage, SweepDone, Unlink,
         TruncateRecord, FillRecord, RebuildIndex, Goes, End, LocalTyped
  <2>2. req' = req /\ req[o].url \in Url /\ at[o] \in {"bytes", "set"} /\ spoilt' = spoilt
    BY <2>1, Turns DEF Archive, TruncatePage, HasPage, Goes, Filing, history
  <2>3. CASE Archive(o)
    <3>1. cache[req[o].url] # Torn /\ at'[o] = "set"
      BY <2>3 DEF Archive, Goes, LocalTyped
    <3> QED BY <1>1, <2>2, <3>1 DEF SpoiltOK
  <2>4. CASE TruncatePage(o)
    <3>1. at[o] = "set" /\ cache' = [cache EXCEPT ![req[o].url] = Torn]
      BY <2>4 DEF TruncatePage
    <3> QED BY <1>1, <2>2, <3>1 DEF SpoiltOK
  <2> QED BY <2>1, <2>3, <2>4
<1>5. \A u \in Url, b \in Body : <<u, b>> \in spoilt' => cache'[u] = Torn
  BY <1>1, <1>2 DEF SpoiltOK
<1> QED BY <1>3, <1>4, <1>5 DEF SpoiltOK

LEMMA ReplacedKept ==
  ASSUME Typed, PlansOK, Pages, NEW o \in Request, NewRequest(o) \/ Step(o)
  PROVE  ReplacedOK'
<1> SUFFICES ASSUME NEW p \in Request, NEW c \in Capture, NEW b \in Body,
                    at'[p] \in {"set", "fill-page"}, ~BeingDeleted(c)', Lists(c, req[p].url, b)'
             PROVE  b = req'[p].ref \/ <<req'[p].url, b>> \in archive'
  BY DEF ReplacedOK
<1> USE TypedLocal DEF Typed
<1>1. ~BeingDeleted(c) /\ archive \subseteq archive' /\ OthersRest(o) /\ LocalTyped' /\ LocksOK'
  <2>1. req'[p].url \in Url
    BY StepShape DEF LocalTyped, LocksOK, RequestOK, Filing
  <2>2. Lists(c, req[p].url, b)' => \E u \in Url : Lists(c, u, b)'
    BY <2>1 DEF Lists
  <2> QED BY <2>2, StepDeletes, StepBytes, StepShape
<1>2. CASE p # o
  <2>1. at[p] = at'[p] /\ req'[p] = req[p]
    BY <1>1, <1>2 DEF OthersRest
  <2>2. req[p].url \in Url /\ HasTurn(p, req[p].url)
    BY <2>1, Turns DEF Filing
  <2>3. Lists(c, req[p].url, b) \/ (FillPage(o) /\ req[p].url = req[o].url)
    <3>1. \E u \in Url : u = req[p].url /\ Lists(c, u, b)'
      BY <2>1, <2>2 DEF Lists
    <3> QED BY <3>1, StepLists
  <2>4. ~(FillPage(o) /\ req[p].url = req[o].url)
    BY <1>2, <2>2, Exclusive DEF FillPage
  <2> QED BY <1>1, <2>1, <2>3, <2>4 DEF Pages, ReplacedOK
<1>3. CASE p = o
  <2>1. Archive(o) \/ TruncatePage(o)
    BY <1>3, NewRequestShape, BrokenShape DEF Step, LookMissing, Look, EnterOpen,
         EnterLabel, RefusePage, EnterPage, EnterDelete, FillPage, FindOthers, SweepPage, SweepDone, Unlink,
         TruncateRecord, FillRecord, RebuildIndex, Goes, End, LocalTyped
  <2>2. req'[o] = req[o] /\ req[o].url \in Url /\ at[o] \in {"bytes", "set"}
    BY <2>1, Turns DEF Archive, TruncatePage, HasPage, Goes, Filing
  <2>3. Lists(c, req[o].url, b)
    <3>1. \E u \in Url : u = req[o].url /\ Lists(c, u, b)'
      BY <1>3, <2>2 DEF Lists
    <3>2. ~FillPage(o)
      BY <2>2 DEF FillPage
    <3> QED BY <3>1, <3>2, StepLists
  <2>4. CASE Archive(o)
    <3>0. cache[req[o].url] # Torn /\ HasTurn(o, req[o].url)
      BY <2>4 DEF Archive, HasPage
    <3>w. ~Writing(req[o].url, b)
      <4>1. ~CutShort(req[o].url, b)
        BY <2>2, <3>0 DEF CutShort, Pages, SpoiltOK
      <4>2. ~BeingWritten(req[o].url, b)
        BY <2>2, <3>0 DEF BeingWritten, Pages, SpoiltOK
      <4> QED BY <4>1, <4>2 DEF Writing
    <3>1. cache[req[o].url] = b \/ <<req[o].url, b>> \in archive
      BY <1>1, <2>2, <2>3, <3>w DEF Pages, BytesOK
    <3>2. cache[req[o].url] = b /\ b # req[o].ref => <<req[o].url, b>> \in archive'
      BY <2>4 DEF Archive
    <3> QED BY <1>1, <1>3, <2>2, <3>1, <3>2
  <2>5. CASE TruncatePage(o)
    BY <1>1, <1>3, <2>2, <2>3, <2>5 DEF Pages, ReplacedOK, TruncatePage
  <2> QED BY <2>1, <2>4, <2>5
<1> QED BY <1>2, <1>3

LEMMA ApartKept ==
  ASSUME Typed, ApartOK, ~DeletesOverlap, NEW o \in Request, NewRequest(o) \/ Step(o)
  PROVE  ApartOK'
<1> USE TypedLocal DEF Typed
<1>1. OthersRest(o) /\ LocalTyped'
  BY StepShape
<1>2. CASE Step(o)
  <2>1. at[o] # "idle"
    BY <1>2 DEF Step, LookBroken, LookMissing, Look, EnterBroken, EnterOpen, EnterLabel, RefusePage,
         EnterPage, EnterDelete, Enters, ArchiveBroken, Archive, HasPage, TruncatePage, FillPage,
         FindOthersBroken, FindOthers, SweepPage, SweepDone, Unlink, TruncateRecord, FillRecord,
         RebuildBroken, RebuildIndex
  <2>2. at'[o] # "idle" => req'[o] = req[o]
    <3>1. CASE \/ LookBroken(o) \/ EnterBroken(o) \/ ArchiveBroken(o) \/ FindOthersBroken(o) \/ RebuildBroken(o)
      BY <3>1, BrokenShape
    <3>2. CASE LookMissing(o) \/ RefusePage(o) \/ RebuildIndex(o)
      BY <3>2 DEF LookMissing, RefusePage, RebuildIndex, End, LocalTyped
    <3>3. CASE EnterLabel(o)
      BY <3>3 DEF EnterLabel, Goes, End, LocalTyped
    <3>4. CASE \/ Look(o) \/ EnterOpen(o) \/ EnterPage(o) \/ EnterDelete(o)
               \/ FindOthers(o) \/ SweepDone(o) \/ Archive(o)
      BY <3>4 DEF Look, EnterOpen, EnterPage, EnterDelete, FindOthers, SweepDone, Archive, Goes
    <3>5. CASE \/ TruncatePage(o) \/ FillPage(o) \/ (\E v \in Url : SweepPage(o, v))
               \/ Unlink(o) \/ TruncateRecord(o) \/ FillRecord(o)
      BY <3>5 DEF SweepPage, TruncatePage, FillPage, Unlink, TruncateRecord, FillRecord, Goes
    <3> QED BY <1>2, <3>1, <3>2, <3>3, <3>4, <3>5 DEF Step
  <2>3. \A p \in Request : at'[p] # "idle" => at[p] # "idle" /\ req'[p] = req[p]
    <3> SUFFICES ASSUME NEW p \in Request, at'[p] # "idle"
                 PROVE  at[p] # "idle" /\ req'[p] = req[p]
      OBVIOUS
    <3>1. CASE p = o
      BY <2>1, <2>2, <3>1
    <3>2. CASE p # o
      BY <1>1, <3>2 DEF OthersRest
    <3> QED BY <3>1, <3>2
  <2> SUFFICES ASSUME NEW q \in Request, NEW p \in Request, at'[q] # "idle", at'[p] # "idle",
                      req'[q].kind = "delete", req'[p].kind = "page"
               PROVE  req'[q].on = req'[p].on
    BY DEF ApartOK
  <2>4. at[q] # "idle" /\ at[p] # "idle" /\ req'[q] = req[q] /\ req'[p] = req[p]
    BY <2>3
  <2> QED BY <2>4 DEF ApartOK
<1>3. CASE NewRequest(o)
  <2>1. /\ at[o] = "idle"
        /\ \A p \in Request \ {o} : at[p] # "idle" =>
             /\ req'[o].kind = "page" /\ req[p].kind = "delete" => req[p].on = req'[o].on
             /\ req'[o].kind = "delete" /\ req[p].kind = "page" => req[p].on = req'[o].on
    <3>1. PICK c \in Capture :
            \/ \E said \in Said : Open(o, c, said)
            \/ \E u \in Url, ref \in Body \cup {NotOk} : SendPage(o, c, u, ref)
            \/ Delete(o, c)
            \/ CacheName(o, c)
      BY <1>3 DEF NewRequest
    <3>p. \A p \in Request : at[p] # "idle" => req[p].on \in Capture
      BY Turns
    <3>2. CASE \E said \in Said : Open(o, c, said)
      BY <3>2 DEF Open, Arrive, Ask, LocalTyped
    <3>3. CASE \E u \in Url, ref \in Body \cup {NotOk} : SendPage(o, c, u, ref)
      <4>1. /\ req'[o].kind = "page" /\ req'[o].on = c /\ at[o] = "idle"
            /\ \A d \in Capture \ {c} : ~InFlight("delete", d)
        BY <3>3 DEF SendPage, Arrive, Ask, LocalTyped
      <4> QED BY <3>p, <4>1 DEF InFlight
    <3>4. CASE Delete(o, c)
      <4>1. /\ req'[o].kind = "delete" /\ req'[o].on = c /\ at[o] = "idle"
            /\ \A d \in Capture \ {c} : ~InFlight("page", d)
        BY <3>4 DEF Delete, Arrive, Ask, LocalTyped
      <4> QED BY <3>p, <4>1 DEF InFlight
    <3>5. CASE CacheName(o, c)
      BY <3>5 DEF CacheName, Arrive, Ask, LocalTyped
    <3> QED BY <3>1, <3>2, <3>3, <3>4, <3>5
  <2> SUFFICES ASSUME NEW p \in Request, NEW q \in Request, at'[p] # "idle", at'[q] # "idle",
                      req'[p].kind = "delete", req'[q].kind = "page"
               PROVE  req'[p].on = req'[q].on
    BY DEF ApartOK
  <2>2. CASE p # o /\ q # o
    BY <1>1, <2>2 DEF OthersRest, ApartOK
  <2>3. CASE p = o /\ q # o
    BY <1>1, <2>1, <2>3 DEF OthersRest
  <2>4. CASE p # o /\ q = o
    BY <1>1, <2>1, <2>4 DEF OthersRest
  <2>5. CASE p = o /\ q = o
    BY <2>5
  <2> QED BY <2>2, <2>3, <2>4, <2>5
<1> QED BY <1>2, <1>3

LEMMA SweepKept ==
  ASSUME Typed, PlansOK, Pages, NEW o \in Request, NewRequest(o) \/ Step(o)
  PROVE  SweepOK'
<1> SUFFICES ASSUME NEW p \in Request, NEW c \in Capture, NEW u \in Url, NEW b \in Body,
                    at'[p] = "sweep", u \in sweep'[p], c # req'[p].on, Lists(c, u, b)'
             PROVE  FALSE
  BY DEF SweepOK
<1> USE TypedLocal DEF Typed
<1>1. OthersRest(o) /\ LocalTyped' /\ LocksOK'
  BY StepShape
<1>2. CASE p # o
  <2>1. at[p] = "sweep" /\ u \in sweep[p] /\ req'[p] = req[p] /\ req[p].kind = "delete"
    BY <1>1, <1>2 DEF OthersRest, PlansOK, PlanOK, Deleting
  <2>2. ~Lists(c, u, b)
    BY <2>1 DEF Pages, SweepOK
  <2>3. FillPage(o) /\ c = req[o].on
    BY <2>2, StepLists
  <2>4. at[o] = "fill-page" /\ req[o].kind = "page"
    BY <2>3, Turns DEF FillPage, Filing
  <2> QED BY <2>1, <2>3, <2>4 DEF Pages, ApartOK
<1>3. CASE p = o
  <2>1. FindOthers(o) \/ \E v \in Url : SweepPage(o, v)
    BY <1>3, NewRequestShape, BrokenShape DEF Step, LookMissing, Look, EnterOpen,
         EnterLabel, RefusePage, EnterPage, EnterDelete, Archive, TruncatePage, FillPage, SweepDone, Unlink,
         TruncateRecord, FillRecord, RebuildIndex, Goes, End, LocalTyped
  <2>2. req' = req /\ at[o] \in {"others", "sweep"} /\ ~FillPage(o)
    BY <2>1 DEF FindOthers, SweepPage, FillPage
  <2>3. Lists(c, u, b) /\ c # req[o].on /\ req[o].kind = "delete"
    BY <1>3, <2>2, StepLists DEF PlansOK, PlanOK, Deleting
  <2>4. CASE \E v \in Url : SweepPage(o, v)
    BY <1>3, <2>3, <2>4 DEF SweepPage, LocalTyped, Pages, SweepOK
  <2>5. CASE FindOthers(o)
    <3>1. record[c] \in Record /\ record[c].pages[u] = b
      <4>1. CASE record[c] \notin {Missing, Torn} /\ record[c].pages[u] = b
        BY <4>1, RecordRead
      <4>2. CASE \E q \in Request : at[q] \in {"write", "fill"} /\ req[q].on = c /\ new[q].pages[u] = b
        <5>1. PICK q \in Request : at[q] \in {"write", "fill"} /\ req[q].on = c /\ new[q].pages[u] = b
          BY <4>2
        <5>2. at[q] = "write"
          BY <2>5, <5>1, Turns, KeyAssumption DEF FindOthers, FilesFree
        <5>3. req[q].kind # "page"
          BY <2>2, <2>3, <5>1 DEF Pages, ApartOK
        <5> QED BY <5>1, <5>2, <5>3, WrittenPages DEF PlansOK, PlanOK
      <4> QED BY <2>3, <4>1, <4>2 DEF Lists
    <3>2. u \in Listed(record[c]) /\ record[c] # Missing
      BY <3>1, ValueAssumption, RecordParts DEF Listed
    <3>3. u \notin sweep'[o]
      BY <2>3, <2>5, <3>2 DEF FindOthers, LocalTyped
    <3> QED BY <1>3, <3>3
  <2> QED BY <2>1, <2>4, <2>5
<1> QED BY <1>2, <1>3

LEMMA PagesKept ==
  ASSUME ~DeletesOverlap
  PROVE  Typed /\ PlansOK /\ Pages /\ [Next]_vars => Pages'
<1> SUFFICES ASSUME Typed, PlansOK, Pages, [Next]_vars PROVE Pages'
  OBVIOUS
<1>1. CASE Crash
  <2>1. /\ \A o \in Request : at'[o] = "idle"
        /\ UNCHANGED <<record, cache, archive>>
        /\ \A c \in Capture : BeingDeleted(c) => c \in cut'
    BY <1>1 DEF Crash, disk, BeingDeleted
  <2>2. \A c \in Capture, u \in Url, b \in Body :
          /\ Lists(c, u, b)' => Lists(c, u, b)
          /\ ~BeingDeleted(c)' => ~BeingDeleted(c)
    BY <2>1 DEF Lists, BeingDeleted
  <2>3. \A u \in Url, b \in Body : Writing(u, b) => CutShort(u, b)'
    BY <1>1 DEF Crash, Writing, BeingWritten, CutShort
  <2>4. BytesOK'
    BY <2>1, <2>2, <2>3 DEF Pages, BytesOK, Writing
  <2>5. \A u \in Url, b \in Body : CutShort(u, b)' => cache[u] = Torn
    BY <1>1 DEF Crash, CutShort, Pages, SpoiltOK
  <2>6. SpoiltOK'
    BY <2>1, <2>5 DEF SpoiltOK, CutShort
  <2> QED BY <2>1, <2>4, <2>6 DEF Pages, ReplacedOK, SweepOK, ApartOK
<1>2. ASSUME NEW o \in Request, NewRequest(o) \/ Step(o) PROVE Pages'
  BY <1>2, BytesKept, SpoiltKept, ReplacedKept, SweepKept, ApartKept DEF Pages
<1>3. CASE UNCHANGED vars
  BY <1>3 DEF vars, Pages, BytesOK, SpoiltOK, ReplacedOK, SweepOK, ApartOK, Lists, BeingDeleted, Writing,
       BeingWritten, CutShort
<1> QED BY <1>1, <1>2, <1>3 DEF Next

LEMMA InitPages == Init => PlansOK /\ Pages
<1> SUFFICES ASSUME Init PROVE PlansOK /\ Pages
  OBVIOUS
<1>1. \A o \in Request : at[o] = "idle"
  BY DEF Init
<1>2. \A c \in Capture : record[c] = Missing
  BY DEF Init
<1>3. \A c \in Capture, u \in Url, b \in Body : ~Lists(c, u, b)
  BY <1>1, <1>2 DEF Lists
<1>4. SpoiltOK
  BY <1>1 DEF Init, SpoiltOK
<1> QED BY <1>1, <1>3, <1>4 DEF PlansOK, PlanOK, Filing, Deleting, Pages, BytesOK, ReplacedOK, SweepOK, ApartOK

(* What the invariant says of a capture that can be read. *)
LEMMA ListedPages ==
  ASSUME Typed, Pages, NEW c \in Capture, Readable(c), NEW u \in OkPages(record[c])
  PROVE  LET b == record[c].pages[u] IN
         /\ cache[u] \in Body \/ \E d \in Body : Writing(u, d)
         /\ cache[u] = b \/ <<u, b>> \in archive \/ Writing(u, b)
<1>1. record[c] \notin {Missing, Torn} /\ ~BeingDeleted(c) /\ u \in Url /\ record[c].pages[u] \in Body
  BY DEF Readable, OkPages
<1>2. Lists(c, u, record[c].pages[u])
  BY <1>1 DEF Lists
<1> QED BY <1>1, <1>2 DEF Pages, BytesOK

(* A page that a capture lists as ok has bytes, whatever requests overlap, *)
(* but while they are written again and but for a page over whose writing  *)
(* the server died, unless a delete overlaps a page of another capture     *)
(* (captureStore.ts, putPage and deleteCapture).                           *)
THEOREM ListedPagesHaveBytes ==
  ASSUME ~DeletesOverlap
  PROVE  Spec => []ListedPageHasBytes
<1>1. Init => Typed /\ PlansOK /\ Pages
  BY InitTyped, InitPages
<1>2. Typed /\ PlansOK /\ Pages /\ [Next]_vars => (Typed /\ PlansOK /\ Pages)'
  BY TypedKept, PlansKept, PagesKept
<1>3. Typed /\ PlansOK /\ Pages => ListedPageHasBytes
  BY ListedPages DEF ListedPageHasBytes, Writing
<1> QED BY <1>1, <1>2, <1>3, PTL DEF Spec

(* And the contents it was listed with are its bytes or in the archive     *)
(* (putPage: "so every version survives"), but for those that were being   *)
(* written when the server died.                                           *)
THEOREM VersionsSurvive ==
  ASSUME ~DeletesOverlap
  PROVE  Spec => []VersionSurvives
<1>1. Init => Typed /\ PlansOK /\ Pages
  BY InitTyped, InitPages
<1>2. Typed /\ PlansOK /\ Pages /\ [Next]_vars => (Typed /\ PlansOK /\ Pages)'
  BY TypedKept, PlansKept, PagesKept
<1>3. Typed /\ PlansOK /\ Pages => VersionSurvives
  BY ListedPages DEF VersionSurvives, Writing
<1> QED BY <1>1, <1>2, <1>3, PTL DEF Spec

-----------------------------------------------------------------------------
(* The promise to a crawl *)

LEMMA OkPagesAreKept ==
  ASSUME NEW r
  PROVE  OkPages(r) \subseteq Url /\ OkPages(r) # Missing /\ OkPages(r) # Torn
  BY ValueAssumption DEF OkPages

(* A step that leaves the records alone, and their writer. *)
LEMMA KeptStands ==
  ASSUME UNCHANGED record, UNCHANGED writer,
         writer # Nobody => req'[writer] = req[writer] /\ new'[writer] = new[writer]
  PROVE  \A c \in Capture : Kept(c)' = Kept(c)
  BY DEF Kept, OkPages

LEMMA QuietLedger ==
  ASSUME Typed, NEW o \in Request, NewRequest(o) \/ Step(o),
         ~Unlink(o), ~TruncateRecord(o), ~FillRecord(o)
  PROVE  \A c \in Capture : Kept(c)' = Kept(c)
<1>1. UNCHANGED <<record, writer>> /\ at[o] # "fill"
  <2>1. CASE NewRequest(o)
    BY <2>1, NewRequestShape
  <2>2. CASE \/ LookBroken(o) \/ EnterBroken(o) \/ ArchiveBroken(o) \/ FindOthersBroken(o) \/ RebuildBroken(o)
    <3>1. UNCHANGED <<record, writer>>
      BY <2>2, BrokenShape
    <3> QED BY <2>2, <3>1 DEF LookBroken, EnterBroken, Enters, ArchiveBroken, HasPage, FindOthersBroken, RebuildBroken
  <2>3. CASE \/ LookMissing(o) \/ Look(o)
             \/ EnterOpen(o) \/ EnterLabel(o) \/ RefusePage(o) \/ EnterPage(o) \/ EnterDelete(o)
             \/ FindOthers(o) \/ SweepDone(o) \/ Archive(o) \/ TruncatePage(o) \/ FillPage(o)
             \/ RebuildIndex(o) \/ \E u \in Url : SweepPage(o, u)
    BY <2>3 DEF LookMissing, Look, EnterOpen, EnterLabel, RefusePage, EnterPage, EnterDelete, Enters,
         FindOthers, SweepDone, SweepPage, Archive, HasPage, TruncatePage, FillPage, RebuildIndex, disk
  <2> QED BY <2>1, <2>2, <2>3 DEF Step
<1>2. writer # Nobody => writer \in Request \ {o}
  BY <1>1, Turns
<1>3. OthersRest(o)
  BY StepShape
<1> QED BY <1>1, <1>2, <1>3, KeptStands DEF OthersRest

(* A record that is replaced keeps the ok pages it had, and takes one more *)
(* at most.                                                                *)
LEMMA WriteLedger ==
  ASSUME Typed, PlansOK, NEW o \in Request, TruncateRecord(o), NEW c \in Capture, c = req[o].on
  PROVE  /\ \A d \in Capture \ {c} : Kept(d)' = Kept(d)
         /\ \/ Kept(c) = Missing /\ Kept(c)' = {}
            \/ Kept(c) \notin {Missing, Torn} /\ Kept(c)' = Kept(c)
            \/ \E u \in Url : Kept(c) \notin {Missing, Torn} /\ Kept(c)' = Kept(c) \cup {u}
<1> USE DEF Typed
<1>1. /\ at[o] = "write" /\ writer = Nobody /\ writer' = o /\ o # Nobody
      /\ req' = req /\ new' = new /\ record' = [record EXCEPT ![c] = Torn]
      /\ req[o].ref \in Body \cup {NotOk} /\ WriteOK(o)
  BY Turns, KeyAssumption DEF TruncateRecord, FilesFree, Goes, PlansOK, PlanOK
<1>2. \A d \in Capture \ {c} : Kept(d)' = Kept(d)
  BY <1>1 DEF Kept, TypeOK, OkPages
<1>3. Kept(c)' = OkPages(new[o])
  BY <1>1, ValueAssumption DEF Kept, TypeOK, OkPages
<1>4. CASE record[c] = Missing
  <2>1. new[o].pages = Fresh.pages
    BY <1>1, <1>4 DEF WriteOK
  <2>2. OkPages(new[o]) = {}
    BY <2>1, FreshTyped, ValueAssumption DEF OkPages
  <2> QED BY <1>1, <1>2, <1>3, <1>4, <2>2 DEF Kept
<1>5. CASE record[c] # Missing
  <2>1. record[c] \in Record /\ Kept(c) = OkPages(record[c])
    <3>1. record[c] \notin {Missing, Torn}
      BY <1>1, <1>5 DEF WriteOK
    <3> QED BY <1>1, <3>1, RecordRead DEF Kept
  <2>2. Kept(c) \notin {Missing, Torn}
    BY <2>1, OkPagesAreKept
  <2>3. CASE new[o].pages = record[c].pages
    BY <1>1, <1>2, <1>3, <2>1, <2>2, <2>3 DEF OkPages
  <2>4. CASE req[o].url \in Url /\ new[o].pages = WithPage(record[c], req[o].url, req[o].ref).pages
    <3>1. /\ new[o].pages = [record[c].pages EXCEPT ![req[o].url] = MergePage(@, req[o].ref)]
          /\ record[c].pages \in [Url -> Ref]
      <4>1. req[o].url \in Url /\ req[o].ref \in Body \cup {NotOk} /\ record[c] \in Record
        BY <1>1, <2>1, <2>4
      <4>2. /\ WithPage(record[c], req[o].url, req[o].ref).pages
                 = [record[c].pages EXCEPT ![req[o].url] = MergePage(@, req[o].ref)]
            /\ record[c].pages \in [Url -> Ref]
        BY <4>1, WithPageTyped, RecordParts
      <4> QED BY <2>4, <4>2
    <3>2. OkPages(new[o]) = OkPages(record[c]) \/ OkPages(new[o]) = OkPages(record[c]) \cup {req[o].url}
      <4>1. \A u \in Url \ {req[o].url} : new[o].pages[u] = record[c].pages[u]
        BY <2>4, <3>1
      <4>2. new[o].pages[req[o].url] = MergePage(record[c].pages[req[o].url], req[o].ref)
        BY <2>4, <3>1
      <4>3. record[c].pages[req[o].url] \in Body => new[o].pages[req[o].url] \in Body
        BY <1>1, <4>2, ValueAssumption DEF MergePage
      <4> QED BY <2>4, <4>1, <4>3 DEF OkPages
    <3> QED BY <1>1, <1>2, <1>3, <2>1, <2>2, <2>4, <3>2
  <2> QED BY <1>1, <1>5, <2>3, <2>4 DEF WriteOK
<1> QED BY <1>4, <1>5

LEMMA FillLedger ==
  ASSUME Typed, PlansOK, NEW o \in Request, FillRecord(o), NEW c \in Capture
  PROVE  Kept(c)' = Kept(c)
<1> USE DEF Typed
<1>1. /\ req[o].on \in Capture /\ at[o] = "fill" /\ writer = o /\ writer' = Nobody /\ o # Nobody
      /\ req' = req /\ new' = new /\ record' = [record EXCEPT ![req[o].on] = new[o]]
      /\ record[req[o].on] = Torn /\ new[o] \in Record
  BY Turns, KeyAssumption DEF FillRecord, Goes, PlansOK, PlanOK
<1>2. CASE c = req[o].on
  <2>1. Kept(c) = OkPages(new[o])
    BY <1>1, <1>2, ValueAssumption DEF Kept
  <2>2. record'[c] = new[o] /\ record'[c] # Missing /\ record'[c] # Torn
    BY <1>1, <1>2, ValueAssumption DEF TypeOK
  <2> QED BY <2>1, <2>2 DEF Kept, OkPages
<1>3. CASE c # req[o].on
  BY <1>1, <1>3 DEF Kept, TypeOK, OkPages
<1> QED BY <1>2, <1>3

LEMMA UnlinkLedger ==
  ASSUME Typed, PlansOK, NEW o \in Request, Unlink(o), NEW c \in Capture, c = req[o].on
  PROVE  /\ \A d \in Capture \ {c} : Kept(d)' = Kept(d)
         /\ Kept(c)' = Missing
         /\ Kept(c) = Missing \/ Kept(c) \notin {Missing, Torn}
<1> USE DEF Typed
<1>1. /\ writer = Nobody /\ writer' = Nobody /\ record[c] # Torn
      /\ record' = [record EXCEPT ![c] = Missing]
  BY Turns DEF Unlink, FilesFree, PlansOK, PlanOK, Deleting
<1>2. \A d \in Capture \ {c} : Kept(d)' = Kept(d)
  BY <1>1 DEF Kept, TypeOK, OkPages
<1>3. Kept(c)' = Missing
  BY <1>1 DEF Kept, TypeOK
<1>4. Kept(c) = Missing \/ Kept(c) \notin {Missing, Torn}
  BY <1>1, OkPagesAreKept DEF Kept
<1> QED BY <1>1, <1>2, <1>3, <1>4

(* A crash loses the record that was being written, and no other. *)
LEMMA CrashLedger ==
  ASSUME Typed, PlansOK, Crash
  PROVE  \/ \A c \in Capture : Kept(c)' = Kept(c)
         \/ \E c \in Capture : /\ Kept(c)' = Torn
                               /\ \A d \in Capture \ {c} : Kept(d)' = Kept(d)
<1> USE DEF Typed
<1>1. writer' = Nobody /\ record' = record
  BY DEF Crash, disk
<1>2. CASE writer = Nobody
  BY <1>1, <1>2 DEF Kept, OkPages
<1>3. CASE writer # Nobody
  <2>1. PICK o \in Request : writer = o /\ at[o] = "fill"
    BY <1>3, Turns DEF TypeOK
  <2>2. PICK c \in Capture : c = req[o].on
    BY <2>1, Turns
  <2>3. record[c] = Torn
    BY <2>1, <2>2 DEF PlansOK, PlanOK
  <2>4. Kept(c)' = Torn
    BY <1>1, <2>3, ValueAssumption DEF Kept
  <2>5. \A d \in Capture \ {c} : Kept(d)' = Kept(d)
    BY <1>1, <2>1, <2>2 DEF Kept, OkPages
  <2> QED BY <2>4, <2>5
<1> QED BY <1>2, <1>3

KeptMap == [c \in Capture |-> Kept(c)]

LEMMA MapChanges ==
  ASSUME NEW c \in Capture, NEW v, Kept(c)' = v, \A d \in Capture \ {c} : Kept(d)' = Kept(d)
  PROVE  [d \in Capture |-> Kept(d)'] = [KeptMap EXCEPT ![c] = v] /\ KeptMap[c] = Kept(c)
  BY DEF KeptMap

LEMMA MapStands ==
  ASSUME \A d \in Capture : Kept(d)' = Kept(d)
  PROVE  [d \in Capture |-> Kept(d)'] = KeptMap
  BY DEF KeptMap

LEMMA LedgerStep ==
  ASSUME Typed, PlansOK, [Next]_vars
  PROVE  [Ledger!Next]_KeptMap
<1>1. CASE \A d \in Capture : Kept(d)' = Kept(d)
  BY <1>1, MapStands DEF KeptMap
<1>2. CASE Crash
  <2>1. CASE \E c \in Capture : Kept(c)' = Torn /\ \A d \in Capture \ {c} : Kept(d)' = Kept(d)
    <3>1. PICK c \in Capture : Kept(c)' = Torn /\ \A d \in Capture \ {c} : Kept(d)' = Kept(d)
      BY <2>1
    <3>2. Ledger!Lose(c)
      BY <3>1, MapChanges DEF Ledger!Lose, KeptMap
    <3> QED BY <3>2 DEF Ledger!Next
  <2> QED BY <1>1, <1>2, <2>1, CrashLedger
<1>3. ASSUME NEW o \in Request, Unlink(o) PROVE [Ledger!Next]_KeptMap
  <2>0. PICK c \in Capture : c = req[o].on
    BY <1>3, Turns DEF Unlink
  <2>1. /\ \A d \in Capture \ {c} : Kept(d)' = Kept(d)
        /\ Kept(c)' = Missing
        /\ Kept(c) = Missing \/ Kept(c) \notin {Missing, Torn}
    BY <1>3, <2>0, UnlinkLedger
  <2>2. CASE Kept(c) = Missing
    BY <1>1, <2>1, <2>2
  <2>3. CASE Kept(c) \notin {Missing, Torn}
    <3>1. Ledger!Delete(c)
      BY <2>1, <2>3, MapChanges DEF Ledger!Delete, KeptMap
    <3> QED BY <3>1 DEF Ledger!Next
  <2> QED BY <2>1, <2>2, <2>3
<1>4. ASSUME NEW o \in Request, TruncateRecord(o) PROVE [Ledger!Next]_KeptMap
  <2>0. PICK c \in Capture : c = req[o].on
    BY <1>4, Turns DEF TruncateRecord
  <2>1. /\ \A d \in Capture \ {c} : Kept(d)' = Kept(d)
        /\ \/ Kept(c) = Missing /\ Kept(c)' = {}
           \/ Kept(c) \notin {Missing, Torn} /\ Kept(c)' = Kept(c)
           \/ \E u \in Url : Kept(c) \notin {Missing, Torn} /\ Kept(c)' = Kept(c) \cup {u}
    BY <1>4, <2>0, WriteLedger
  <2>2. CASE Kept(c) = Missing /\ Kept(c)' = {}
    <3>1. Ledger!Open(c)
      BY <2>1, <2>2, MapChanges DEF Ledger!Open, KeptMap
    <3> QED BY <3>1 DEF Ledger!Next
  <2>3. CASE Kept(c)' = Kept(c)
    BY <1>1, <2>1, <2>3
  <2>4. CASE \E u \in Url : Kept(c) \notin {Missing, Torn} /\ Kept(c)' = Kept(c) \cup {u}
    <3>1. PICK u \in Url : Kept(c) \notin {Missing, Torn} /\ Kept(c)' = Kept(c) \cup {u}
      BY <2>4
    <3>2. Ledger!File(c, u)
      BY <2>1, <3>1, MapChanges DEF Ledger!File, KeptMap
    <3> QED BY <3>2 DEF Ledger!Next
  <2> QED BY <2>1, <2>2, <2>3, <2>4
<1>5. ASSUME NEW o \in Request, NewRequest(o) \/ Step(o) PROVE [Ledger!Next]_KeptMap
  BY <1>1, <1>3, <1>4, <1>5, QuietLedger, FillLedger
<1>6. CASE UNCHANGED vars
  BY <1>1, <1>6 DEF vars, Kept, OkPages
<1> QED BY <1>2, <1>5, <1>6 DEF Next

(* The store keeps the promise a crawl relies on: a page filed as ok stays *)
(* until its capture is deleted or lost with the server, for any requests  *)
(* that overlap (swimcloudCaptureRoutes.ts over captureStore.ts).          *)
THEOREM CapturesKeepTheLedger == Spec => LedgerSpec
<1>1. Init => Typed /\ PlansOK /\ Ledger!Init
  <2> SUFFICES ASSUME Init PROVE Ledger!Init
    BY InitTyped, InitPages
  <2>1. \A c \in Capture : Kept(c) = Missing
    BY DEF Init, Kept
  <2> QED BY <2>1 DEF Ledger!Init
<1>2. Typed /\ PlansOK /\ [Next]_vars => (Typed /\ PlansOK)'
  BY TypedKept, PlansKept
<1>3. Typed /\ PlansOK /\ [Next]_vars => [Ledger!Next]_KeptMap
  BY LedgerStep
<1>4. Spec => [][Ledger!Next]_KeptMap
  BY <1>1, <1>2, <1>3, PTL DEF Spec
<1> QED BY <1>1, <1>4, PTL DEF Spec, LedgerSpec, Ledger!Spec, KeptMap

=============================================================================
