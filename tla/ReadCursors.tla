---------------------------- MODULE ReadCursors -----------------------------
(***************************************************************************)
(* Read receipts of one group conversation in the client SDK of one user.  *)
(*                                                                         *)
(* The SDK keeps how far every other member has read (the cursors) and the *)
(* position all others have reached (the read state).  Each notification,  *)
(* each synchronisation and each call of the application runs in a         *)
(* goroutine of its own; every access to the database is atomic, what      *)
(* happens between two of them is not.                                     *)
(***************************************************************************)
EXTENDS Naturals, FiniteSets, FiniteSetsExt

CONSTANTS
    Member,      \* the other members, past, present and future
    Goroutine,   \* bound of the model: how many run at a time
    MaxSeq,      \* bound of the model: the highest seq of the conversation
    MaxEvents    \* bound of the model: goroutines started in all

ASSUME CursorsAssumption ==
    /\ IsFiniteSet(Member)
    /\ MaxSeq \in Nat \ {0} /\ MaxEvents \in Nat

Rows == 0 .. MaxSeq
None == MaxSeq + 1      \* no row

VARIABLES
    inGroup,     \* the present other members, on the server
    online,      \* the client is connected
    cursor,      \* local_read_cursor
    allRead,     \* local_read_state
    subscribed,  \* the application has subscribed
    shown,       \* what it was told last
    go,          \* the goroutines
    events,      \* goroutines started
    named,       \* history: the highest position of each the server has named to it
    overlapped,  \* history: two of them ran at the same time
    complete     \* history: no cursor of a member has been missing

serverVars == <<inGroup, named, online>>
appVars    == <<subscribed, shown>>
histVars   == <<events, overlapped, complete>>
vars == <<serverVars, cursor, allRead, appVars, go, histVars>>

(* A goroutine: its next step, whose receipt it handles, and what it has   *)
(* read: a position, the read state of before, the answer of the server    *)
(* (what is left of it), whether a cursor changed, and what it does last.  *)
Idle == [pc |-> "idle", user |-> "", seq |-> 0, old |-> 0, todo |-> {},
         changed |-> FALSE, last |-> "idle"]

At(g, pc) == go[g].pc = pc
Goto(g, pc) == go' = [go EXCEPT ![g].pc = pc]
Quiet == \A g \in Goroutine : At(g, "idle")

Value(row) == IF row = None THEN 0 ELSE row

(* (A definition named ...Mutant is an error somebody could make; a        *)
(* property below must notice it.)  Without COALESCE.                      *)
LeastMutant(S) == IF S = {} THEN None ELSE Min(S)

(* GetAllReadSeqFromCursors: COALESCE(MIN(max_read_seq), 0).               *)
Least(S) == IF S = {} THEN 0 ELSE Min(S)
AllReadSeqFromCursors == Least({cursor[m] : m \in {n \in Member : cursor[n] # None}})

Init ==
    /\ inGroup \in {S \in SUBSET Member : S # {}}
    /\ named = [m \in Member |-> 0]
    /\ online = TRUE
    /\ \/ cursor = [m \in Member |-> IF m \in inGroup THEN 0 ELSE None] /\ complete = TRUE
       \/ cursor = [m \in Member |-> None] /\ complete = FALSE
    /\ allRead = None
    /\ subscribed = FALSE /\ shown = 0
    /\ go = [g \in Goroutine |-> Idle]
    /\ events = 0 /\ overlapped = FALSE

(* A goroutine starts.  Its first step may come much later: the delay of a *)
(* notification on its way is part of it.                                  *)
Run(g, goroutine) ==
    /\ At(g, "idle") /\ events < MaxEvents
    /\ events' = events + 1
    /\ go' = [go EXCEPT ![g] = goroutine]
    /\ overlapped' = (overlapped \/ ~Quiet)

-----------------------------------------------------------------------------
(* The server.                                                             *)

(* MarkConversationAsRead by a member sends a receipt, with the position   *)
(* of the request, or that of Redis when it is higher, which may have been *)
(* fetched from MongoDB: any one.  The receipt is not stored; one sent     *)
(* while the client is not connected is missed, and no step here.          *)
Read(m, s) ==
    /\ m \in inGroup /\ online
    /\ named' = [named EXCEPT ![m] = Max({@, s})]
    /\ \E g \in Goroutine : Run(g, [Idle EXCEPT !.pc = "state", !.user = m, !.seq = s])
    /\ UNCHANGED <<inGroup, online, cursor, allRead, appVars, complete>>

(* Notifications of the group are stored: they come sooner or later.       *)
Join(m) ==
    /\ m \notin inGroup
    /\ inGroup' = inGroup \cup {m}
    /\ complete' = FALSE
    /\ \E g \in Goroutine : Run(g, [Idle EXCEPT !.pc = "fetch"])
    /\ UNCHANGED <<named, online, cursor, allRead, appVars>>

Leave(m) ==
    /\ m \in inGroup
    /\ inGroup' = inGroup \ {m}
    /\ \E g \in Goroutine : Run(g, [Idle EXCEPT !.pc = "left", !.user = m])
    /\ UNCHANGED <<named, online, cursor, allRead, appVars, complete>>

Disconnect ==
    /\ online /\ online' = FALSE
    /\ UNCHANGED <<inGroup, named, cursor, allRead, appVars, go, histVars>>

(* After a reconnect the conversations are synchronised, then all cursors  *)
(* (syncAllReadCursors), and the application is told the read state.       *)
Reconnect ==
    /\ ~online /\ online' = TRUE
    /\ \E g \in Goroutine : Run(g, [Idle EXCEPT !.pc = "fetch", !.last = "tell"])
    /\ UNCHANGED <<inGroup, named, cursor, allRead, appVars, complete>>

-----------------------------------------------------------------------------
(* updateReadCursorAndReadState, for the receipt of a member.              *)

GetReadState(g) ==
    /\ At(g, "state")
    /\ go' = [go EXCEPT ![g].pc = "cursor", ![g].old = Value(allRead)]
    /\ UNCHANGED <<serverVars, cursor, allRead, appVars, histVars>>

GetReadCursor(g) ==
    /\ At(g, "cursor")
    /\ LET row == cursor[go[g].user]
       IN  IF row # None /\ go[g].seq <= row
           THEN go' = [go EXCEPT ![g] = Idle]
           ELSE Goto(g, "upsert")
    /\ UNCHANGED <<serverVars, cursor, allRead, appVars, histVars>>

UpsertReadCursor(g) ==
    /\ At(g, "upsert")
    /\ cursor' = [cursor EXCEPT ![go[g].user] = go[g].seq]
    /\ Goto(g, "least")
    /\ UNCHANGED <<serverVars, allRead, appVars, histVars>>

(* The position of this member taken for that of all.                      *)
GetAllReadSeqMutant(g) ==
    /\ At(g, "least")
    /\ IF go[g].seq = go[g].old THEN go' = [go EXCEPT ![g] = Idle] ELSE Goto(g, "put")
    /\ UNCHANGED <<serverVars, cursor, allRead, appVars, histVars>>

(* The new read state against the one read at the beginning.               *)
GetAllReadSeq(g) ==
    /\ At(g, "least")
    /\ LET new == AllReadSeqFromCursors
       IN  IF new = go[g].old THEN go' = [go EXCEPT ![g] = Idle]
           ELSE go' = [go EXCEPT ![g].pc = "put", ![g].seq = new]
    /\ UNCHANGED <<serverVars, cursor, allRead, appVars, histVars>>

(* The last steps of every recalculation: write the read state, and tell   *)
(* the application what the database holds.                                *)
UpsertReadState(g) ==
    /\ At(g, "put")
    /\ allRead' = go[g].seq
    /\ go' = [go EXCEPT ![g].pc = "tell"]
    /\ UNCHANGED <<serverVars, cursor, appVars, histVars>>

(* What follows: nothing, the end of syncAllReadCursors or the answer of   *)
(* SubscribeConversationReadState.                                         *)
Then(g) == [Idle EXCEPT !.pc = go[g].last]

CheckAndNotify(g) ==
    /\ At(g, "tell")
    /\ go' = [go EXCEPT ![g] =
                IF subscribed THEN [@ EXCEPT !.pc = "callback", !.seq = Value(allRead)]
                ELSE Then(g)]
    /\ UNCHANGED <<serverVars, cursor, allRead, appVars, histVars>>

OnConversationReadStateChanged(g) ==
    /\ At(g, "callback")
    /\ shown' = go[g].seq
    /\ go' = [go EXCEPT ![g] = Then(g)]
    /\ UNCHANGED <<serverVars, cursor, allRead, subscribed, histVars>>

-----------------------------------------------------------------------------
(* SyncReadCursors.                                                        *)

(* The answer of the server is the position of every member in MongoDB;    *)
(* there is none without a connection.  The position is any one:           *)
(* doSetReadSeq writes it late, it may write one of another conversation   *)
(* (PositionWasRead of ReadPositions), and of two that write at the same   *)
(* time the lower one may be the last.                                     *)
GetCursorsFromServer(g) ==
    /\ At(g, "fetch")
    /\ \/ /\ online
          /\ \E stored \in [inGroup -> Rows] :
               /\ named' = [m \in Member |-> IF m \in inGroup THEN Max({named[m], stored[m]})
                                             ELSE named[m]]
               /\ go' = [go EXCEPT ![g].pc = "sync",
                                   ![g].todo = {<<m, stored[m]>> : m \in inGroup}]
       \/ ~online /\ go' = [go EXCEPT ![g] = Then(g)] /\ UNCHANGED named
    /\ UNCHANGED <<inGroup, online, cursor, allRead, appVars, histVars>>

(* One cursor of the answer: read what is there ...                        *)
SyncCursor(g) ==
    /\ At(g, "sync") /\ go[g].todo # {}
    /\ \E c \in go[g].todo :
        LET row == cursor[c[1]]
            next == IF row = None THEN "insert" ELSE IF c[2] > row THEN "update" ELSE "sync"
        IN go' = [go EXCEPT ![g].pc = next, ![g].user = c[1], ![g].seq = c[2],
                            ![g].todo = @ \ {c}]
    /\ UNCHANGED <<serverVars, cursor, allRead, appVars, histVars>>

(* ... and insert or update it.  An insert fails when there is a row by    *)
(* now, an update changes nothing when there is none.                      *)
WriteCursor(g) ==
    /\ \/ At(g, "insert") /\ cursor[go[g].user] = None
       \/ At(g, "update") /\ cursor[go[g].user] # None
    /\ cursor' = [cursor EXCEPT ![go[g].user] = go[g].seq]
    /\ go' = [go EXCEPT ![g].pc = "sync", ![g].changed = TRUE]
    /\ UNCHANGED <<serverVars, allRead, appVars, histVars>>

WriteNothing(g) ==
    /\ \/ At(g, "insert") /\ cursor[go[g].user] # None /\ Goto(g, "sync")
       \/ /\ At(g, "update") /\ cursor[go[g].user] = None
          /\ go' = [go EXCEPT ![g].pc = "sync", ![g].changed = TRUE]
    /\ UNCHANGED <<serverVars, cursor, allRead, appVars, histVars>>

(* The read state is recalculated when a cursor was written.               *)
SyncEnds(g) ==
    /\ At(g, "sync") /\ go[g].todo = {}
    /\ go' = [go EXCEPT ![g] =
                IF go[g].changed THEN [@ EXCEPT !.pc = "recalc"] ELSE Then(g)]
    /\ UNCHANGED <<serverVars, cursor, allRead, appVars, histVars>>

(* updateReadStateAfterSync: the cursors first, then the read state.       *)
RecalcFromCursors(g) ==
    /\ At(g, "recalc")
    /\ go' = [go EXCEPT ![g].pc = "compare", ![g].seq = AllReadSeqFromCursors]
    /\ UNCHANGED <<serverVars, cursor, allRead, appVars, histVars>>

CompareReadState(g) ==
    /\ At(g, "compare")
    /\ go' = [go EXCEPT ![g] =
                IF go[g].seq = Value(allRead) THEN Then(g) ELSE [@ EXCEPT !.pc = "put"]]
    /\ UNCHANGED <<serverVars, cursor, allRead, appVars, histVars>>

(* A member leaves, and nothing is recalculated.                           *)
DeleteReadCursorMutant(g) ==
    /\ At(g, "left")
    /\ cursor' = [cursor EXCEPT ![go[g].user] = None]
    /\ go' = [go EXCEPT ![g] = Idle]
    /\ UNCHANGED <<serverVars, allRead, appVars, histVars>>

(* handleMemberLeftForReadCursor                                           *)
DeleteReadCursor(g) ==
    /\ At(g, "left")
    /\ cursor' = [cursor EXCEPT ![go[g].user] = None]
    /\ Goto(g, "recalc")
    /\ UNCHANGED <<serverVars, allRead, appVars, histVars>>

-----------------------------------------------------------------------------
(* Calls of the application.                                               *)

(* SubscribeConversationReadState fetches the cursors when one is missing, *)
(* then answers with the read state.                                       *)
Subscribe ==
    /\ subscribed' = TRUE
    /\ \E g \in Goroutine : Run(g, [Idle EXCEPT !.pc = "ensure", !.last = "answer"])
    /\ UNCHANGED <<serverVars, cursor, allRead, shown, complete>>

(* The database is trusted as it is.                                       *)
EnsureReadCursorsMutant(g) ==
    /\ At(g, "ensure")
    /\ Goto(g, "answer")
    /\ UNCHANGED <<serverVars, cursor, allRead, appVars, histVars>>

(* The members are those of the server: the SDK's own list, synchronised   *)
(* elsewhere, is taken to be up to date.                                   *)
EnsureReadCursors(g) ==
    /\ At(g, "ensure")
    /\ Goto(g, IF \E m \in inGroup : cursor[m] = None THEN "fetch" ELSE "answer")
    /\ UNCHANGED <<serverVars, cursor, allRead, appVars, histVars>>

SubscribeReturns(g) ==
    /\ At(g, "answer")
    /\ shown' = Value(allRead)
    /\ go' = [go EXCEPT ![g] = Idle]
    /\ UNCHANGED <<serverVars, cursor, allRead, subscribed, histVars>>

Unsubscribe ==
    /\ subscribed /\ subscribed' = FALSE
    /\ UNCHANGED <<serverVars, cursor, allRead, shown, go, histVars>>

(* cleanupReadCursorsForDeletedConversation: cursors, read state,          *)
(* subscription.                                                           *)
DeleteConversation ==
    /\ \E g \in Goroutine : Run(g, [Idle EXCEPT !.pc = "delete"])
    /\ complete' = FALSE
    /\ UNCHANGED <<serverVars, cursor, allRead, appVars>>

DeleteCursors(g) ==
    /\ At(g, "delete")
    /\ cursor' = [m \in Member |-> None]
    /\ Goto(g, "delstate")
    /\ UNCHANGED <<serverVars, allRead, appVars, histVars>>

DeleteReadState(g) ==
    /\ At(g, "delstate")
    /\ allRead' = None
    /\ Goto(g, "unsubscribe")
    /\ UNCHANGED <<serverVars, cursor, appVars, histVars>>

DeleteSubscription(g) ==
    /\ At(g, "unsubscribe")
    /\ subscribed' = FALSE
    /\ go' = [go EXCEPT ![g] = Idle]
    /\ UNCHANGED <<serverVars, cursor, allRead, shown, histVars>>

-----------------------------------------------------------------------------
Work(g) ==
    \/ GetReadState(g) \/ GetReadCursor(g) \/ UpsertReadCursor(g) \/ GetAllReadSeq(g)
    \/ UpsertReadState(g) \/ CheckAndNotify(g) \/ OnConversationReadStateChanged(g)
    \/ GetCursorsFromServer(g) \/ SyncCursor(g) \/ WriteCursor(g) \/ WriteNothing(g)
    \/ SyncEnds(g) \/ RecalcFromCursors(g) \/ CompareReadState(g) \/ DeleteReadCursor(g)
    \/ EnsureReadCursors(g) \/ SubscribeReturns(g)
    \/ DeleteCursors(g) \/ DeleteReadState(g) \/ DeleteSubscription(g)

Next ==
    \/ \E m \in Member : \/ \E s \in 1 .. MaxSeq : Read(m, s)
                         \/ Join(m) \/ Leave(m)
    \/ Disconnect \/ Reconnect
    \/ Subscribe \/ Unsubscribe \/ DeleteConversation
    \/ \E g \in Goroutine : Work(g)

Spec == Init /\ [][Next]_vars

-----------------------------------------------------------------------------

TypeOK ==
    /\ inGroup \subseteq Member
    /\ named \in [Member -> Rows]
    /\ online \in BOOLEAN /\ subscribed \in BOOLEAN
    /\ cursor \in [Member -> Rows \cup {None}]
    /\ allRead \in Rows \cup {None}
    /\ shown \in Rows
    /\ \A g \in Goroutine :
         /\ go[g].user \in Member \cup {""} /\ go[g].seq \in Rows /\ go[g].old \in Rows
         /\ go[g].todo \subseteq Member \X Rows
         /\ go[g].changed \in BOOLEAN
         /\ go[g].last \in {"idle", "tell", "answer"}
    /\ events \in 0 .. MaxEvents
    /\ overlapped \in BOOLEAN /\ complete \in BOOLEAN

(* The read state is the least of the cursors of the others whenever       *)
(* nothing is running (docs/09, 1.2).                                      *)
StateIsLeastCursor == Quiet => Value(allRead) = AllReadSeqFromCursors

(* So it is as long as no two goroutines have run at the same time: the    *)
(* recalculations after receipts, leaving members, synchronisations and    *)
(* deletions agree.                                                        *)
StateIsLeastCursorInTurn == ~overlapped => StateIsLeastCursor

(* The eye: neither the database nor the application ever shows a message  *)
(* as read by all before the server has named such a position for each of  *)
(* the others, however the goroutines interleave, while no cursor of a     *)
(* member is missing.                                                      *)
NoEyeTooEarly ==
    complete => LET position == Least({named[m] : m \in inGroup})
                IN  inGroup # {} => Value(allRead) <= position /\ shown <= position

(* A subscribed application is shown the read state of the database, and   *)
(* it covers every member, when the goroutines run one after the other.    *)
SubscriberIsUpToDate ==
    ~overlapped /\ Quiet /\ subscribed =>
        /\ shown = Value(allRead)
        /\ online => \A m \in inGroup : cursor[m] # None
=============================================================================
