----------------------------- MODULE FriendSync -----------------------------
(***************************************************************************)
(* The incremental synchronisation of a user's list of friends: the rows   *)
(* of the server, its log of versions (version_log.go), the cached newest  *)
(* version, the answer of GetIncrementalFriends (option.go), and the       *)
(* VersionSynchronizer of the client SDK.                                  *)
(*                                                                         *)
(* A row is the revision that wrote it, 0 when there is none.  A handler   *)
(* of the server writes the row, then the log, then deletes the caches,    *)
(* then notifies; MongoDB runs without transactions.  The client runs two  *)
(* synchronisations at a time: those of notifications exclude each other   *)
(* (relationSyncMutex), that of a connection (syncData) takes no mutex.    *)
(***************************************************************************)
EXTENDS Naturals, Sequences, FiniteSets, SequencesExt

CONSTANTS Friends,      \* the users who may be friends
          LogLimit,     \* syncLimit: elements of an incremental answer
          PageSize,     \* friends in a page of a full synchronisation
          MaxItems,     \* friendSyncLimit: friends after which it reads no page
          Handlers,     \* bounds: handlers of the server at a time,
          MaxChanges,   \* changes of the list,
          MaxIncidents  \* connections, failed requests and failed handlers

ASSUME FriendSyncAssumption ==
  /\ {LogLimit, PageSize, MaxItems, Handlers} \subseteq Nat \ {0}
  /\ {MaxChanges, MaxIncidents} \subseteq Nat /\ IsFiniteSet(Friends)

VARIABLES order,     \* friends in the order of their rows
          row,       \* the row of each friend
          version,   \* of the log's document, 0 before it is created
          elem,      \* the log: the newest element of each friend
          sorted,    \* the version of the log's VersionSortChangeID, or 0
          cachedVer, \* the cached newest version, 0 when there is none
          ops,       \* what the handlers of the server are doing
          changes,   \* how many changes there have been
          notices,   \* notifications the client has not handled
          mine,      \* the friends in the client's database
          myVersion, \* LocalVersionSync.Version
          thread,    \* the synchronisations of the client
          incidents, \* connections and failures so far
          failed,    \* history: a request or a handler failed
          overlap,   \* history: two synchronisations got in each other's way
          holes,     \* history: rows moved between the pages while they
                     \* were read, or were beyond the last page
          dirty      \* history: friends changed since their element was written

FriendServer ==
  <<order, row, version, elem, sorted, cachedVer, ops, changes, dirty>>
FriendHistory == <<incidents, failed, overlap, holes>>
FriendVars == <<FriendServer, notices, mine, myVersion, thread, FriendHistory>>

Threads == {"notified", "connected"}
Kinds == {"insert", "delete", "update", "pin"}
Resting == [pc |-> "idle"]

FriendTypeOK ==
  /\ order \in Seq(Friends) /\ IsInjective(order)
  /\ row \in [Friends -> 0..MaxChanges]
  /\ \A f \in Friends : row[f] # 0 <=> \E i \in DOMAIN order : order[i] = f
  /\ version \in 0 .. MaxChanges + 1 /\ {cachedVer, sorted} \subseteq 0..version
  /\ \A f \in Friends : elem[f].ver \in 0..version
  /\ ops \in Seq([kind : Kinds, friend : Friends, pc : {"log", "uncache"}])
  /\ changes \in 0..MaxChanges /\ notices \in 0..MaxChanges
  /\ dirty \subseteq Friends
  /\ mine \in [Friends -> 0..MaxChanges] /\ myVersion \in 0..version
  /\ \A t \in Threads :
       thread[t].pc \in {"idle", "asked", "found", "answered", "paging"}

FriendInit ==
  /\ order = <<>> /\ row = [f \in Friends |-> 0]
  /\ version = 0 /\ elem = [f \in Friends |-> [ver |-> 0, state |-> "delete"]]
  /\ sorted = 0 /\ dirty = {}
  /\ cachedVer = 0 /\ ops = <<>> /\ changes = 0 /\ notices = 0
  /\ mine = [f \in Friends |-> 0] /\ myVersion = 0
  /\ thread = [t \in Threads |-> Resting]
  /\ incidents = 0 /\ failed = FALSE /\ overlap = FALSE /\ holes = FALSE

-----------------------------------------------------------------------------
(* A call fails, on the server or between it and the client. *)
Failure == incidents < MaxIncidents /\ incidents' = incidents + 1 /\ failed' = TRUE

(* The server changes the list. *)

Paging == \E t \in Threads : thread[t].pc = "paging"
NoRows == [f \in {} |-> 0]

(* BecomeFriends looks which rows there are before it inserts. *)
InsertableMutant(f) == TRUE          \* it does not look
Insertable(f) == row[f] = 0

(* BecomeFriends inserts what is missing; Delete and UpdateFriends log      *)
(* whether or not there was a row.  Rows are sorted by is_pinned first: to  *)
(* pin or to unpin one moves it, here to any place.                         *)
Moved(f) ==
  LET others == RemoveFirst(order, f)
  IN {InsertAt(others, i, f) : i \in 1 .. Len(others) + 1}

WriteRow(kind, f) ==
  /\ changes < MaxChanges /\ changes' = changes + 1 /\ Len(ops) < Handlers
  /\ CASE kind = "insert" -> Insertable(f) /\ order' = Append(order, f)
       [] kind = "delete" -> order' = RemoveFirst(order, f)
       [] kind = "update" -> UNCHANGED order
       [] kind = "pin" -> order' \in IF row[f] = 0 THEN {order} ELSE Moved(f)
  /\ row' = [row EXCEPT ![f] =
               IF kind = "insert" \/ (kind # "delete" /\ @ # 0) THEN changes + 1
               ELSE 0]
  /\ ops' = Append(ops, [kind |-> kind, friend |-> f, pc |-> "log"])
  /\ dirty' = dirty \union {f}
  /\ holes' = (holes \/ (kind \in {"delete", "pin"} /\ row[f] # 0 /\ Paging))
  /\ UNCHANGED <<version, elem, sorted, cachedVer, notices, mine, myVersion,
                 thread, incidents, failed, overlap>>

(* IncrVersion: the element of the friend is replaced by one of the next    *)
(* version, and with a pin the element of the order; the document is        *)
(* created when there is none.                                              *)
LogVersion(i) ==
  /\ ops[i].pc = "log"
  /\ version' = version + 1
  /\ elem' = [elem EXCEPT ![ops[i].friend] =
                [ver |-> version + 1, state |-> ops[i].kind]]
  /\ sorted' = IF ops[i].kind = "pin" THEN version + 1 ELSE sorted
  /\ dirty' = dirty \ {ops[i].friend}
  /\ ops' = [ops EXCEPT ![i].pc = "uncache"]
  /\ UNCHANGED <<order, row, cachedVer, changes, notices, mine, myVersion,
                 thread, FriendHistory>>

UncacheMutant(i) ==                  \* the cached version stays
  /\ ops[i].pc = "uncache"
  /\ ops' = RemoveAt(ops, i) /\ notices' = notices + 1
  /\ UNCHANGED <<order, row, version, elem, sorted, dirty, cachedVer, changes,
                 mine, myVersion, thread, FriendHistory>>

(* DelMaxFriendVersion, then the notification. *)
Uncache(i) ==
  /\ ops[i].pc = "uncache"
  /\ cachedVer' = 0
  /\ ops' = RemoveAt(ops, i)
  /\ notices' = notices + 1
  /\ UNCHANGED <<order, row, version, elem, sorted, dirty, changes, mine,
                 myVersion, thread, FriendHistory>>

(* The log or the cache cannot be written: the handler returns the error    *)
(* and notifies nobody, and the row stays as it is.                         *)
HandlerFails(i) ==
  /\ Failure
  /\ cachedVer' = cachedVer \/ (ops[i].pc = "uncache" /\ cachedVer' = 0)
  /\ ops' = RemoveAt(ops, i)
  /\ UNCHANGED <<order, row, version, elem, sorted, dirty, changes, notices, mine,
                 myVersion, thread, overlap, holes>>

-----------------------------------------------------------------------------
(* The client synchronises (IncrementalSync). *)

Begin(t) ==
  /\ thread[t].pc = "idle"
  /\ thread' = [thread EXCEPT ![t] = [pc |-> "asked", from |-> myVersion]]

(* A notification is handled under the mutex. *)
OnNotice ==
  /\ notices > 0 /\ notices' = notices - 1
  /\ Begin("notified")
  /\ UNCHANGED <<FriendServer, mine, myVersion, FriendHistory>>

(* A connection: syncData does not take the mutex. *)
OnConnect ==
  /\ incidents < MaxIncidents /\ incidents' = incidents + 1
  /\ Begin("connected")
  /\ UNCHANGED <<FriendServer, notices, mine, myVersion, failed, overlap,
                 holes>>

ChangedMutant(v) == {f \in Friends : elem[f].ver > v + 1}    \* off by one

(* What changed after a version; too many elements of the log, that of the  *)
(* order among them, ask for everything.                                    *)
Changed(v) == {f \in Friends : elem[f].ver > v}
TooMany(v) ==
  \/ version < v
  \/ Cardinality(Changed(v)) + (IF sorted > v THEN 1 ELSE 0) > LogLimit

(* getVersion: the cached newest version, read and cached when it is not,   *)
(* decides whether there is anything to ask the log.  Reading it creates    *)
(* the document (FindChangeLog).                                            *)
Created == IF version = 0 THEN 1 ELSE version
Newest == IF cachedVer # 0 THEN cachedVer ELSE Created

GetVersion(t) ==
  LET v == thread[t].from IN
  /\ thread[t].pc = "asked"
  /\ cachedVer' = Newest
  /\ version' = Created
  /\ thread' = [thread EXCEPT ![t] =
       IF v = 0 THEN [pc |-> "answered", from |-> v, full |-> TRUE,
                      ver |-> Newest, sort |-> FALSE, data |-> NoRows]
       ELSE IF v = Newest THEN Resting
       ELSE [pc |-> "found", from |-> v, full |-> TooMany(v), ver |-> version,
             sort |-> sorted > v, data |-> [f \in Changed(v) |-> elem[f].state]]]
  /\ UNCHANGED <<order, row, elem, sorted, dirty, ops, changes, notices, mine,
                 myVersion, FriendHistory>>

(* Find: the rows of the friends that changed, as they are by now.  One     *)
(* that has been deleted since is not among them.                           *)
FindRows(t) ==
  LET a == thread[t]
      here == {f \in DOMAIN a.data : a.data[f] = "delete" \/ row[f] # 0}
  IN
  /\ a.pc = "found"
  /\ thread' = [thread EXCEPT ![t].pc = "answered",
                 ![t].data = IF a.full THEN NoRows ELSE
                   [f \in here |-> IF a.data[f] = "delete" THEN 0 ELSE row[f]]]
  /\ UNCHANGED <<FriendServer, notices, mine, myVersion, FriendHistory>>

(* The changes and the version are written to the client's database; with   *)
(* nothing to write the version stays as well.  Before the version the      *)
(* order of the friends is asked for when it changed (FullID).              *)
Apply(t) ==
  LET a == thread[t] IN
  /\ a.pc = "answered" /\ ~a.full
  /\ mine' = [f \in Friends |-> IF f \in DOMAIN a.data THEN a.data[f] ELSE mine[f]]
  /\ \/ /\ myVersion' = IF DOMAIN a.data = {} THEN myVersion ELSE a.ver
        /\ UNCHANGED <<incidents, failed>>
     \/ a.sort /\ DOMAIN a.data # {} /\ Failure /\ UNCHANGED myVersion
  /\ overlap' = (overlap \/ myVersion # a.from)
  /\ thread' = [thread EXCEPT ![t] = Resting]
  /\ UNCHANGED <<FriendServer, notices, holes>>

(* An answer with changes only has come and is not applied yet. *)
Changes(a) == a.pc \in {"found", "answered"} /\ ~a.full

(* FullSync: everything is deleted, then read page by page. *)
DeleteAll(t) ==
  /\ thread[t].pc = "answered" /\ thread[t].full
  /\ mine' = [f \in Friends |-> 0]
  /\ thread' = [thread EXCEPT ![t] =
                  [pc |-> "paging", from |-> @.from, ver |-> @.ver, page |-> 0,
                   clash |-> FALSE]]
  /\ overlap' = (overlap \/ myVersion # thread[t].from \/ Paging
                   \/ \E u \in Threads : Changes(thread[u]))
  /\ holes' = FALSE
  /\ UNCHANGED <<FriendServer, notices, myVersion, incidents, failed>>

(* A page is inserted, what is there already is kept and makes the          *)
(* synchronisation fail at its end; a short page is the last one, or that   *)
(* with which there are MaxItems, and with it, after the order is asked     *)
(* for, the version is written.                                             *)
ReadPage(t) ==
  LET a == thread[t]
      page == {i \in DOMAIN order : a.page * PageSize < i
                                     /\ i =< (a.page + 1) * PageSize}
      enough == (a.page + 1) * PageSize >= MaxItems
      last == Cardinality(page) < PageSize \/ enough
      clash == a.clash \/ \E i \in page : mine[order[i]] # 0
  IN
  /\ a.pc = "paging"
  /\ mine' = [f \in Friends |->
       IF mine[f] = 0 /\ \E i \in page : order[i] = f THEN row[f] ELSE mine[f]]
  /\ \/ /\ myVersion' = IF last /\ ~clash THEN a.ver ELSE myVersion
        /\ UNCHANGED <<incidents, failed>>
     \/ last /\ ~clash /\ Failure /\ UNCHANGED myVersion
  /\ overlap' = (overlap \/ myVersion # a.from)
  /\ thread' = [thread EXCEPT ![t] =
                  IF last THEN Resting
                  ELSE [a EXCEPT !.page = @ + 1, !.clash = clash]]
  /\ holes' = (holes \/ (enough /\ Len(order) > (a.page + 1) * PageSize))
  /\ UNCHANGED <<FriendServer, notices>>

(* A request fails: the synchronisation ends where it is. *)
SyncFails(t) ==
  /\ thread[t].pc \in {"asked", "found", "paging"}
  /\ Failure
  /\ thread' = [thread EXCEPT ![t] = Resting]
  /\ UNCHANGED <<FriendServer, notices, mine, myVersion, overlap, holes>>

FriendStep(t) ==
  GetVersion(t) \/ FindRows(t) \/ Apply(t) \/ DeleteAll(t) \/ ReadPage(t)

FriendHandlers == \E i \in DOMAIN ops : LogVersion(i) \/ Uncache(i)

FriendNext ==
  \/ \E k \in Kinds, f \in Friends : WriteRow(k, f)
  \/ \E i \in DOMAIN ops : LogVersion(i) \/ Uncache(i) \/ HandlerFails(i)
  \/ OnNotice \/ OnConnect
  \/ \E t \in Threads : FriendStep(t) \/ SyncFails(t)

FriendSpec == FriendInit /\ [][FriendNext]_FriendVars

(* Handlers and synchronisations run on, notifications are handled. *)
FriendFairness ==
  /\ WF_FriendVars(FriendHandlers) /\ WF_FriendVars(OnNotice)
  /\ \A t \in Threads : WF_FriendVars(FriendStep(t))

FriendFairSpec == FriendSpec /\ FriendFairness

-----------------------------------------------------------------------------
(* Two handlers that change the same friend may write the log in another    *)
(* order than the rows: then the log says the opposite of the rows.         *)
Crossed(f) == elem[f].state = "delete" <=> row[f] # 0

(* What the log will not repeat to the client, the client has: a friend     *)
(* whose newest change is not above the client's version is in its database *)
(* as on the server.  Excepted are rows missed because rows moved between   *)
(* the pages or were beyond the last one, changes that are not in the log   *)
(* (yet, or because the handler failed), and changes that crossed; a client *)
(* that will be sent everything knows.                                      *)
VersionCovers ==
  (myVersion # 0 /\ ~Paging /\ ~TooMany(myVersion)) =>
    \A f \in Friends :
      (elem[f].ver =< myVersion /\ f \notin dirty /\ ~Crossed(f)) =>
         mine[f] = row[f] \/ (holes /\ mine[f] = 0)

(* The same as long as no two synchronisations of the client overlapped.    *)
VersionIsHonest == overlap \/ VersionCovers

(* A client that is notified of every change has the newest version in the  *)
(* end, unless a request or a handler failed or an older answer was applied  *)
(* last: then only another change or connection makes it ask again.  After   *)
(* changes that crossed there may be nothing to answer, and the version      *)
(* stays.                                                                    *)
NewestInTheEnd ==
  []<>(\/ changes = 0 \/ failed \/ overlap
       \/ ops = <<>> /\ (myVersion = version \/ \E f \in Friends : Crossed(f)))

=============================================================================
