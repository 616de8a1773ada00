------------------------------ MODULE Resources ------------------------------
(***************************************************************************)
(* The resources of the clients (dix/resource.c): the hash table that each *)
(* client has, how records are added, looked up and freed, and the windows *)
(* with all that refers to them: their parents, the events that other      *)
(* clients selected, save sets, selections, the drawable that each client  *)
(* used last, and the private that direct rendering adds under the         *)
(* window's own XID.                                                       *)
(*                                                                         *)
(* A record is freed by a walk of its bucket that calls delete functions,  *)
(* and these free further records by walks of their own.  The calls in     *)
(* progress are a stack; requests come when it is empty.                   *)
(***************************************************************************)
EXTENDS Integers, FiniteSets, Sequences, SequencesExt

CONSTANTS
  Clients,
  Server,      \* serverClient, that has the root
  None,
  Ids,         \* how many XIDs there are in each range of a client
  Fill,        \* a table grows when it has Fill records for each bucket
  InitBuckets, \* INITBUCKETS
  MaxBuckets,  \* 2^MAXHASHSIZE
  Setups       \* of which a behaviour has one

Request == {"destroy", "subwindows", "reparent", "select", "save", "selection", "dri"}

\* The numbers of the XIDs that each client uses for windows, the requests
\* that are sent, the clients whose resources are retained, and a bound: how
\* many records are added.
Setup == [own : [Clients -> SUBSET (0 .. Ids - 1)], sends : SUBSET Request,
          retain : SUBSET Clients, adds : Nat]

\* An XID has the client, whether the server chose it (SERVER_BIT), and a
\* number; "over" stands for the range of the ones that should not be needed.
XID  == (Clients \cup {Server}) \X {"own", "fake", "over"} \X (0 .. Ids - 1)
Root == <<Server, "own", 0>>
Owner(id) == id[1]

ASSUME ResourcesAssumption ==
  /\ Server \notin Clients /\ None \notin Clients \cup XID \cup Int
  /\ Ids \in Nat \ {0} /\ Fill \in Nat \ {0}
  /\ InitBuckets \in Nat \ {0} /\ MaxBuckets \in Nat \ {0}
  /\ Setups \subseteq Setup

\* A record, that is of a window: the window, its DRI private, or an entry of
\* its OtherClients.
Record == [id : XID, type : {"window", "private", "other"}, win : XID]

VARIABLES
  setup,
  state, \* of each client
  table, \* clientTable
  win,   \* the windows
  cache, \* lastDrawable of each client
  saved, \* the save set of each client
  owner, \* CurrentSelections: one selection
  stack, \* the calls in progress, the innermost at the end
  safe,  \* windows that a save set ought to keep while a client is closed down
  fatal, \* FatalError was called
  added  \* how many records were added

vars == <<setup, state, table, win, cache, saved, owner, stack, safe, fatal, added>>

Table == [buckets : Seq(Seq(Record)), elements : Nat, fakeID : Nat, endFakeID : Nat,
          expectID : Nat]
Call  == [do : {"free"}, id : XID, skip : {"none", "window"}, prev : Record \cup {None},
          elements : Nat \cup {None}, gotOne : BOOLEAN]
           \cup [do : {"crush", "forget", "events", "subwindows"}, win : XID]
           \cup [do : {"client"}, client : Clients]
Window == [parent : XID \cup {None}, private : BOOLEAN, others : SUBSET XID]
NoOwner == [win |-> None, client |-> None]

Empty == [buckets |-> <<>>, elements |-> 0, fakeID |-> 0, endFakeID |-> 0, expectID |-> 0]
ServerTable ==
  [buckets |-> <<<<[id |-> Root, type |-> "window", win |-> Root]>>>>, elements |-> 1,
   fakeID |-> 0, endFakeID |-> Ids, expectID |-> 1]

Live == DOMAIN win

(* The type invariant.  A table that had more than MaxBuckets buckets would *)
(* be indexed by -1, what Hash returns of other sizes.                     *)
TypeOK ==
  /\ setup \in Setups
  /\ state \in [Clients -> {"none", "running", "exception", "retained", "gone"}]
  /\ table \in [Clients \cup {Server} -> Table]
  /\ \A c \in Clients : Len(table[c].buckets) <= MaxBuckets
  /\ Live \subseteq XID /\ \A w \in Live : win[w] \in Window
  /\ cache \in [Clients -> XID] /\ saved \in [Clients -> SUBSET XID]
  /\ owner \in [win : XID \cup {None}, client : Clients \cup {None}]
  /\ stack \in Seq(Call)
  /\ safe \subseteq XID /\ fatal \in BOOLEAN /\ added \in 0 .. setup.adds

Init ==
  /\ setup \in Setups
  /\ state = [c \in Clients |-> "none"]
  /\ table = [c \in Clients \cup {Server} |-> IF c = Server THEN ServerTable ELSE Empty]
  /\ win = [w \in {Root} |-> [parent |-> None, private |-> FALSE, others |-> {}]]
  /\ cache = [c \in Clients |-> Root]
  /\ saved = [c \in Clients |-> {}]
  /\ owner = NoOwner
  /\ stack = <<>> /\ safe = {} /\ fatal = FALSE /\ added = 0

-----------------------------------------------------------------------------
(* The tables.                                                             *)

\* Hash: small XIDs fold to their low bits.
Hash(id, n) == 1 + (id[3] % n)

Bucket(id) ==
  LET b == table[Owner(id)].buckets
  IN  IF b = <<>> THEN <<>> ELSE b[Hash(id, Len(b))]

Once(s) == \A i, j \in DOMAIN s : s[i] = s[j] => i = j

Records(c) == UNION {Range(table[c].buckets[i]) : i \in DOMAIN table[c].buckets}

HasWindow(id) == \E r \in Range(Bucket(id)) : r.id = id /\ r.type = "window"

\* The elements of a sequence that are in a set, in their order.
Those(s, S) ==
  LET those[i \in 0 .. Len(s)] ==
        IF i = 0 THEN <<>>
        ELSE IF s[i] \in S THEN Append(those[i - 1], s[i]) ELSE those[i - 1]
  IN  those[Len(s)]

\* Mutant: the records of a bucket are turned around.
MutRebuildTable(b) ==
  LET all == FlattenSeq(b)
  IN  [i \in 1 .. 2 * Len(b) |->
         Reverse(Those(all, {r \in Range(all) : Hash(r.id, 2 * Len(b)) = i}))]

\* RebuildTable: twice as many buckets, each in the order of the old ones.
RebuildTable(b) ==
  LET all == FlattenSeq(b)
  IN  [i \in 1 .. 2 * Len(b) |-> Those(all, {r \in Range(all) : Hash(r.id, 2 * Len(b)) = i})]

Grown(t) ==
  IF t.elements >= Fill * Len(t.buckets) /\ Len(t.buckets) < MaxBuckets
    THEN RebuildTable(t.buckets) ELSE t.buckets

\* AddResource, to the front of its bucket.
AddResource(r) ==
  LET c     == Owner(r.id)
      t     == table[c]
      b     == Grown(t)
      front == [b EXCEPT ![Hash(r.id, Len(b))] = <<r>> \o @]
      next  == IF r.id[2] = "own" /\ r.id[3] >= t.expectID THEN r.id[3] + 1 ELSE t.expectID
  IN  [table EXCEPT ![c] = [t EXCEPT !.buckets = front, !.elements = t.elements + 1,
                                     !.expectID = next]]

\* Mutant: the records of the XID are unlinked, whatever their types.
MutUnlink(r, n) ==
  LET c == Owner(r.id)
      h == Hash(r.id, Len(table[c].buckets))
  IN  [table EXCEPT ![c].buckets[h] = SelectSeq(@, LAMBDA q : q.id # r.id),
                    ![c].elements = @ - n]

\* A record is unlinked; it is counted in one of the places that free records.
Unlink(r, n) ==
  LET c    == Owner(r.id)
      t    == table[c]
      left == [t.buckets EXCEPT ![Hash(r.id, Len(t.buckets))] = RemoveFirst(@, r)]
  IN  [table EXCEPT ![c] = [t EXCEPT !.buckets = left, !.elements = t.elements - n]]

\* LegalNewID.
LegalNewID(id) ==
  \/ table[Owner(id)].expectID <= id[3]
  \/ \A r \in Range(Bucket(id)) : r.id # id

-----------------------------------------------------------------------------
(* The search for XIDs that are not used.                                  *)

\* AvailableID: one that is not used, if possible the one found before.
AvailableID(used, lo, hi, good) ==
  LET free == (lo .. hi) \ used
  IN  IF good \in lo .. hi THEN good
      ELSE IF free = {} THEN None
      ELSE CHOOSE n \in free : \A m \in free : n <= m

\* Mutant: the number itself remains in the range.
MutNarrow(used, range, n) ==
  LET left  == n - range.lo >= range.hi - n
      good  == IF left THEN AvailableID(used, range.lo, n - 1, range.good)
                       ELSE AvailableID(used, n + 1, range.hi, range.good)
  IN  IF n \notin range.lo .. range.hi THEN range
      ELSE IF left = (good # None) THEN [range EXCEPT !.hi = n - 1, !.good = good]
      ELSE [range EXCEPT !.lo = n, !.good = good]

\* The larger part of the range that a number that is used divides, or the
\* smaller if all of the larger are used.
Narrow(used, range, n) ==
  LET left  == n - range.lo >= range.hi - n
      good  == IF left THEN AvailableID(used, range.lo, n - 1, range.good)
                       ELSE AvailableID(used, n + 1, range.hi, range.good)
  IN  IF n \notin range.lo .. range.hi THEN range
      ELSE IF left = (good # None) THEN [range EXCEPT !.hi = n - 1, !.good = good]
      ELSE [range EXCEPT !.lo = n + 1, !.good = good]

\* GetXIDRange: a range of numbers that are not used, empty if there is none.
GetXIDRange(c, kind) ==
  LET all   == FlattenSeq(table[c].buckets)
      nums  == [i \in DOMAIN all |-> IF all[i].id[2] = kind THEN all[i].id[3] ELSE Ids]
      cut[i \in 0 .. Len(nums)] ==
        IF i = 0 THEN [lo |-> 0, hi |-> Ids - 1, good |-> None]
        ELSE Narrow(Range(nums), cut[i - 1], nums[i])
      range == cut[Len(nums)]
  IN  range.lo .. range.hi

-----------------------------------------------------------------------------
(* The calls.                                                              *)

Top == Last(stack)
Rest == Front(stack)
Calls(what) == stack # <<>> /\ ~fatal /\ Top.do = what

FreeResource(id, type) ==
  [do |-> "free", id |-> id, skip |-> type, prev |-> None, elements |-> None, gotOne |-> FALSE]

\* FlushClientCaches.
FlushClientCaches(id) == [c \in Clients |-> IF cache[c] = id THEN Root ELSE cache[c]]

Flushed(r) == IF r.type = "window" THEN FlushClientCaches(r.id) ELSE cache

\* OtherClientGone: "client not on event list" is fatal.
OtherClientGone(r) ==
  IF r.win \in Live /\ r.id \in win[r.win].others
    THEN /\ win' = [win EXCEPT ![r.win].others = @ \ {r.id}]
         /\ UNCHANGED fatal
    ELSE fatal' = TRUE /\ UNCHANGED win

\* DRIDrawablePrivDelete: a window that was freed is as good as fatal.
DRIDrawablePrivDelete(r) ==
  IF r.win \in Live
    THEN win' = [win EXCEPT ![r.win].private = FALSE] /\ UNCHANGED fatal
    ELSE fatal' = TRUE /\ UNCHANGED win

\* DeleteWindow is a call that goes on, with CrushTree.
DeleteWindow(w) ==
  <<[do |-> "forget", win |-> w], [do |-> "crush", win |-> w]>>

\* The delete functions.
DeleteFunc(r, calls) ==
  \/ r.type = "window" /\ stack' = calls \o DeleteWindow(r.win) /\ UNCHANGED <<win, fatal>>
  \/ r.type = "other" /\ stack' = calls /\ OtherClientGone(r)
  \/ r.type = "private" /\ stack' = calls /\ DRIDrawablePrivDelete(r)

\* Mutant: the walk goes on where it was.
MutPrevOf(call) == call.prev

\* A walk starts over if the delete function has freed records of the table.
PrevOf(call) ==
  IF call.elements # None /\ table[Owner(call.id)].elements # call.elements
    THEN None ELSE call.prev

\* Where the saved link leads.
Onward(call) ==
  LET b == Bucket(call.id)
      p == PrevOf(call)
  IN  IF p = None THEN 1
      ELSE IF p \in Range(b) THEN 1 + CHOOSE i \in DOMAIN b : b[i] = p
      ELSE Len(b) + 1

\* Where there are records of the XID from there on.
Found(call) == {i \in DOMAIN Bucket(call.id) : i >= Onward(call) /\ Bucket(call.id)[i].id = call.id}

\* FreeResource up to the next record of the XID, and its delete function.
FreeNext ==
  /\ Calls("free") /\ Found(Top) # {}
  /\ LET b == Bucket(Top.id)
         i == CHOOSE j \in Found(Top) : \A k \in Found(Top) : j <= k
         r == b[i]
         call == [Top EXCEPT !.prev = IF i = Onward(Top) THEN PrevOf(Top) ELSE b[i - 1],
                             !.elements = table[Owner(Top.id)].elements - 1,
                             !.gotOne = TRUE]
     IN  /\ table' = Unlink(r, 1)
         /\ cache' = Flushed(r)
         /\ IF r.type = Top.skip
              THEN stack' = Append(Rest, call) /\ UNCHANGED <<win, fatal>>
              ELSE DeleteFunc(r, Append(Rest, call))
  /\ UNCHANGED <<setup, state, saved, owner, safe, added>>

\* ... and its end.
FreeEnd ==
  /\ Calls("free") /\ Found(Top) = {}
  /\ LET c == Owner(Top.id)
     IN  cache' = IF table[c].buckets # <<>> /\ cache[c] = Top.id
                    THEN [cache EXCEPT ![c] = Root] ELSE cache
  /\ fatal' = ~Top.gotOne
  /\ stack' = Rest
  /\ UNCHANGED <<setup, state, table, win, saved, owner, safe, added>>

\* The windows above a window: they are in every set that has its parent and,
\* with a window, the parent of that.
Above(w) ==
  LET closed == {S \in SUBSET Live : \A v \in S : win[v].parent \in S \cup {None}}
  IN  {v \in Live : \A S \in closed : win[w].parent \in S \cup {None} => v \in S}

\* CrushTree: the windows below one, leaves first.  The stacking order is
\* left out.
CrushTree ==
  /\ Calls("crush")
  /\ LET below  == {v \in Live : Top.win \in Above(v)}
         leaves == {v \in below : \A u \in below : win[u].parent # v}
     IN  \/ below = {} /\ stack' = Rest
         \/ \E v \in leaves :
              stack' = stack \o <<[do |-> "forget", win |-> v], FreeResource(v, "window")>>
  /\ UNCHANGED <<setup, state, table, win, cache, saved, owner, safe, fatal, added>>

\* DestroySubwindows.
DestroySubwindows ==
  /\ Calls("subwindows")
  /\ LET kids == {v \in Live : win[v].parent = Top.win}
     IN  \/ kids = {} /\ stack' = Rest
         \/ \E v \in kids : stack' = Append(stack, FreeResource(v, "none"))
  /\ UNCHANGED <<setup, state, table, win, cache, saved, owner, safe, fatal, added>>

\* FreeWindowResources: DeleteWindowFromAnySaveSet, DeleteWindowFromAnySelections.
ForgetWindow ==
  /\ Calls("forget")
  /\ saved' = [c \in Clients |-> saved[c] \ {Top.win}]
  /\ owner' = IF owner.win = Top.win THEN NoOwner ELSE owner
  /\ stack' = Append(Rest, [Top EXCEPT !.do = "events"])
  /\ UNCHANGED <<setup, state, table, win, cache, safe, fatal, added>>

\* DeleteWindowFromAnyEvents; then the window is freed.
FreeWindow ==
  /\ Calls("events")
  /\ \/ \E o \in win[Top.win].others :
          stack' = Append(stack, FreeResource(o, "none")) /\ UNCHANGED win
     \/ /\ win[Top.win].others = {}
        /\ win' = [v \in Live \ {Top.win} |-> win[v]]
        /\ stack' = Rest
  /\ UNCHANGED <<setup, state, table, cache, saved, owner, safe, fatal, added>>

\* FreeClientResources, bucket by bucket.
FreeClientNext ==
  /\ Calls("client")
  /\ LET c == Top.client
         b == table[c].buckets
     IN  \E i \in DOMAIN b :
           /\ b[i] # <<>> /\ \A j \in 1 .. i - 1 : b[j] = <<>>
           /\ table' = Unlink(Head(b[i]), 0)
           /\ cache' = Flushed(Head(b[i]))
           /\ DeleteFunc(Head(b[i]), stack)
  /\ UNCHANGED <<setup, state, saved, owner, safe, added>>

FreeClientEnd ==
  /\ Calls("client") /\ Records(Top.client) = {}
  /\ table' = [table EXCEPT ![Top.client] = Empty]
  /\ state' = [state EXCEPT ![Top.client] = "none"]
  /\ cache' = [cache EXCEPT ![Top.client] = Root]
  /\ stack' = Rest /\ safe' = {}
  /\ UNCHANGED <<setup, win, saved, owner, fatal, added>>

-----------------------------------------------------------------------------
(* Clients come and go.                                                    *)

Ready == stack = <<>> /\ ~fatal /\ \A c \in Clients : state[c] # "exception"

\* InitClientResources.
Connect(c) ==
  /\ Ready /\ state[c] = "none"
  /\ state' = [state EXCEPT ![c] = "running"]
  /\ table' = [table EXCEPT ![c] = [Empty EXCEPT !.buckets = [i \in 1 .. InitBuckets |-> <<>>],
                                                 !.endFakeID = Ids]]
  /\ UNCHANGED <<setup, win, cache, saved, owner, stack, safe, fatal, added>>

\* The first window above one that is not of the client.
Outside(c, w) ==
  CHOOSE v \in Above(w) : Owner(v) # c /\ \A u \in Above(w) : v \in Above(u) => Owner(u) = c

\* Mutant: only the parent is looked at.
MutHandleSaveSet(c) ==
  /\ win' = [w \in Live |->
               IF w \in saved[c] /\ w # Root /\ Owner(win[w].parent) = c
                 THEN [win[w] EXCEPT !.parent = win[win[w].parent].parent] ELSE win[w]]
  /\ saved' = [saved EXCEPT ![c] = {}]

HandleSaveSet(c) ==
  /\ win' = [w \in Live |->
               IF w \in saved[c] /\ w # Root THEN [win[w] EXCEPT !.parent = Outside(c, w)]
               ELSE win[w]]
  /\ saved' = [saved EXCEPT ![c] = {}]

\* Windows of the save set that have no window of the client above them but
\* in one group next to them.
Sheltered(c) ==
  {w \in saved[c] \ {Root} : \A u \in Above(Outside(c, w)) : Owner(u) # c}

\* CloseDownClient for a client that destroys its resources.
FreeClientResources(c) ==
  /\ state' = [state EXCEPT ![c] = "gone"]
  /\ safe' = Sheltered(c)
  /\ HandleSaveSet(c)
  /\ stack' = <<[do |-> "client", client |-> c]>>
  /\ UNCHANGED <<table, cache>>

\* ... and for one that retains them but for some.
FreeClientNeverRetainResources(c) ==
  /\ state' = [state EXCEPT ![c] = "retained"]
  /\ table' = [table EXCEPT ![c].buckets =
                 [i \in DOMAIN @ |-> Those(@[i], {r \in Range(@[i]) : r.type # "other"})]]
  /\ win' = [w \in Live |-> [win[w] EXCEPT !.others = {o \in @ : Owner(o) # c}]]
  /\ UNCHANGED <<cache, saved, stack, safe>>

CloseDownClient(c) ==
  /\ stack = <<>> /\ ~fatal
  /\ state[c] = "exception" \/ (Ready /\ state[c] = "running")
  /\ owner' = IF owner.client = c THEN NoOwner ELSE owner
  /\ IF c \in setup.retain THEN FreeClientNeverRetainResources(c) ELSE FreeClientResources(c)
  /\ UNCHANGED <<setup, fatal, added>>

\* KillClient for one that is gone but has its resources.
CloseDownRetainedResources(c) ==
  /\ Ready /\ state[c] = "retained" /\ \E d \in Clients : state[d] = "running"
  /\ FreeClientResources(c)
  /\ UNCHANGED <<setup, owner, fatal, added>>

-----------------------------------------------------------------------------
(* Requests.                                                               *)

Sends(c, request) == Ready /\ state[c] = "running" /\ request \in setup.sends

\* SecurityLookupWindow: what the client used last is not looked up again.
LookupWindow(c, w) == w # cache[c] => HasWindow(w)
Used(c, w) == [cache EXCEPT ![c] = w]

Adds == added < setup.adds /\ added' = added + 1

CreateWindow(c, id, parent) ==
  /\ Ready /\ state[c] = "running"
  /\ LegalNewID(id) /\ LookupWindow(c, parent)
  /\ win' = [w \in Live \cup {id} |->
               IF w = id THEN [parent |-> parent, private |-> FALSE, others |-> {}] ELSE win[w]]
  /\ table' = AddResource([id |-> id, type |-> "window", win |-> id])
  /\ cache' = Used(c, parent)
  /\ Adds /\ UNCHANGED <<setup, state, saved, owner, stack, safe, fatal>>

DestroyWindow(c, w) ==
  /\ Sends(c, "destroy") /\ LookupWindow(c, w) /\ win[w].parent # None
  /\ stack' = <<FreeResource(w, "none")>>
  /\ cache' = Used(c, w)
  /\ UNCHANGED <<setup, state, table, win, saved, owner, safe, fatal, added>>

ProcDestroySubwindows(c, w) ==
  /\ Sends(c, "subwindows") /\ LookupWindow(c, w)
  /\ stack' = <<[do |-> "subwindows", win |-> w]>>
  /\ cache' = Used(c, w)
  /\ UNCHANGED <<setup, state, table, win, saved, owner, safe, fatal, added>>

\* Unless the window is the parent, or above it.
ReparentWindow(c, w, parent) ==
  /\ Sends(c, "reparent") /\ LookupWindow(c, w) /\ LookupWindow(c, parent)
  /\ win' = IF w \in Above(parent) \cup {parent} THEN win
            ELSE [win EXCEPT ![w].parent = parent]
  /\ cache' = Used(c, parent)
  /\ UNCHANGED <<setup, state, table, saved, owner, stack, safe, fatal, added>>

\* The entry of a client in the OtherClients of a window.
EntryOf(c, w) == {o \in win[w].others : Owner(o) = c}

\* EventSelectForWindow by a client that has no entry, with the next XID of
\* the range that FakeClientID has, or a new range.
SelectEvents(c, w) ==
  LET t     == table[c]
      again == t.fakeID >= t.endFakeID
      range == IF again THEN GetXIDRange(c, "fake") ELSE t.fakeID .. t.endFakeID - 1
      over  == range = {}
      first == CHOOSE n \in range : \A m \in range : n <= m
      id    == IF over THEN <<c, "over", 0>> ELSE <<c, "fake", first>>
      grown == AddResource([id |-> id, type |-> "other", win |-> w])
  IN  /\ Sends(c, "select") /\ LookupWindow(c, w) /\ Owner(w) # c /\ EntryOf(c, w) = {}
      /\ table' = [grown EXCEPT ![c].fakeID = IF over THEN 1 ELSE first + 1,
                                ![c].endFakeID = IF over THEN Ids ELSE first + Cardinality(range)]
      /\ win' = [win EXCEPT ![w].others = @ \cup {id}]
      /\ state' = IF over THEN [state EXCEPT ![c] = "exception"] ELSE state
      /\ cache' = Used(c, w)
      /\ Adds /\ UNCHANGED <<setup, saved, owner, stack, safe, fatal>>

\* EventSelectForWindow with no events.
DeselectEvents(c, w) ==
  /\ Sends(c, "select") /\ LookupWindow(c, w)
  /\ \E o \in EntryOf(c, w) : stack' = <<FreeResource(o, "none")>>
  /\ cache' = Used(c, w)
  /\ UNCHANGED <<setup, state, table, win, saved, owner, safe, fatal, added>>

ChangeSaveSet(c, w) ==
  /\ Sends(c, "save") /\ LookupWindow(c, w) /\ Owner(w) # c
  /\ \E s \in {saved[c] \cup {w}, saved[c] \ {w}} : saved' = [saved EXCEPT ![c] = s]
  /\ cache' = Used(c, w)
  /\ UNCHANGED <<setup, state, table, win, owner, stack, safe, fatal, added>>

SetSelectionOwner(c, w) ==
  /\ Sends(c, "selection")
  /\ \/ w = None /\ owner' = NoOwner /\ UNCHANGED cache
     \/ /\ w # None /\ LookupWindow(c, w)
        /\ owner' = [win |-> w, client |-> c]
        /\ cache' = Used(c, w)
  /\ UNCHANGED <<setup, state, table, win, saved, stack, safe, fatal, added>>

\* DRICreateDrawable: the private has the XID of the window.
CreateDrawable(c, w) ==
  /\ Sends(c, "dri") /\ LookupWindow(c, w) /\ w # Root /\ ~win[w].private
  /\ win' = [win EXCEPT ![w].private = TRUE]
  /\ table' = AddResource([id |-> w, type |-> "private", win |-> w])
  /\ Adds /\ UNCHANGED <<setup, state, cache, saved, owner, stack, safe, fatal>>

\* DRIDestroyDrawable, by FreeResourceByType.
DestroyDrawable(c, w) ==
  /\ Sends(c, "dri") /\ LookupWindow(c, w) /\ w # Root /\ win[w].private
  /\ LET r == [id |-> w, type |-> "private", win |-> w]
     IN  table' = Unlink(r, 0) /\ DRIDrawablePrivDelete(r)
  /\ cache' = IF cache[Owner(w)] = w THEN [cache EXCEPT ![Owner(w)] = Root] ELSE cache
  /\ UNCHANGED <<setup, state, saved, owner, stack, safe, added>>

-----------------------------------------------------------------------------
Requests(c) ==
  \/ \E w \in Live : \/ DestroyWindow(c, w) \/ ProcDestroySubwindows(c, w)
                     \/ SelectEvents(c, w) \/ DeselectEvents(c, w) \/ ChangeSaveSet(c, w)
                     \/ CreateDrawable(c, w) \/ DestroyDrawable(c, w)
  \/ \E w \in Live \cup {None} : SetSelectionOwner(c, w)
  \/ \E w, p \in Live : ReparentWindow(c, w, p)
  \/ \E n \in setup.own[c], p \in Live : CreateWindow(c, <<c, "own", n>>, p)

Next ==
  \/ FreeNext \/ FreeEnd \/ CrushTree \/ DestroySubwindows \/ ForgetWindow \/ FreeWindow
  \/ FreeClientNext \/ FreeClientEnd
  \/ \E c \in Clients : Connect(c) \/ CloseDownClient(c) \/ CloseDownRetainedResources(c) \/ Requests(c)

Spec == Init /\ [][Next]_vars

-----------------------------------------------------------------------------
(* Properties.                                                             *)

(* A walk never goes on from a record that was freed, and no delete        *)
(* function or walk calls FatalError: what a list or the tree names has a  *)
(* record when it is freed, though the delete functions of one table free  *)
(* records of all of them, in buckets that are being walked.               *)
WalksGoOn ==
  /\ ~fatal
  /\ Calls("free") => PrevOf(Top) = None \/ PrevOf(Top) \in Range(Bucket(Top.id))

(* Nothing refers to a window that is freed: not the drawable a client     *)
(* used last (which is not looked up again), not a save set, a selection   *)
(* or a parent, and no record; the private that has the XID of the window  *)
(* goes first.                                                             *)
NothingDangles ==
  /\ \A c \in Clients : cache[c] \in Live /\ saved[c] \subseteq Live
  /\ owner.win \in Live \cup {None}
  /\ \A w \in Live : win[w].parent \in Live \cup {None}
  /\ \A c \in Clients : \A r \in Records(c) :
       r.type # "window" => r.win \in Live
  /\ owner.client # None => state[owner.client] \in {"running", "exception"}

(* Between requests the tables and the windows agree: each window has one  *)
(* record, of its creator, each entry of an event list and each private    *)
(* has its own, and there is no other record.  A window or an entry with   *)
(* no record would never be freed.                                         *)
TablesAgree ==
  stack = <<>> =>
    LET all   == UNION {Records(c) : c \in Clients}
        wants == {[id |-> w, type |-> "window", win |-> w] : w \in Live \ {Root}}
          \cup {[id |-> w, type |-> "private", win |-> w] : w \in {v \in Live : win[v].private}}
          \cup UNION {{[id |-> o, type |-> "other", win |-> w] : o \in win[w].others} : w \in Live}
    IN  /\ all = wants
        /\ \A c \in Clients : \A i \in DOMAIN table[c].buckets : Once(table[c].buckets[i])
        /\ \A c \in Clients : state[c] = "none" => Records(c) = {}

(* An XID that is not looked up when a request takes it is free: the ones  *)
(* FakeClientID has left, the client's own that LegalNewID lets pass by    *)
(* expectID, and the ranges that GetXIDRange finds, that are not empty     *)
(* unless all are in use.                                                  *)
IdsFresh ==
  \A c \in {d \in Clients : stack = <<>> /\ state[d] = "running"} :
    LET used(kind) == {r.id[3] : r \in {q \in Records(c) : q.id[2] = kind}}
    IN  /\ (table[c].fakeID .. table[c].endFakeID - 1) \cap used("fake") = {}
        /\ \A n \in used("own") : n < table[c].expectID
        /\ \A kind \in {"own", "fake"} :
             /\ GetXIDRange(c, kind) \cap used(kind) = {}
             /\ GetXIDRange(c, kind) = {} => 0 .. Ids - 1 \subseteq used(kind)

(* The windows of others in the save set of a client that is closed down   *)
(* are not destroyed with the client's, however deep they are inside them; *)
(* but for one that has a window of the client above the window of another *)
(* that it would be moved to.                                              *)
SavedSurvive == safe \subseteq Live
=============================================================================
