----------------------------- MODULE MsgSyncer -----------------------------
(***************************************************************************)
(* The synchronisation of messages in the client SDK (msg_sync.go), with   *)
(* the two sides it stands between: the server, which numbers, stores and  *)
(* pushes messages, and the goroutine of the conversations, which stores   *)
(* chat messages and starts a goroutine for every notification.            *)
(*                                                                         *)
(* A conversation is a chat or a notification conversation.  Messages are  *)
(* their seqs.  The server answers a pull of a number whose message is not *)
(* stored yet with a placeholder (status deleted).                         *)
(***************************************************************************)
EXTENDS Naturals, Sequences, FiniteSets, FiniteSetsExt

CONSTANTS Chats, Notices,       \* conversations of the two kinds
          LastSeq,              \* messages sent to a conversation at most
          Sent,                 \* messages sent to all conversations at most
          ConnectPull,          \* pullNums after a connection (connectPullNums)
          DefaultPull,          \* pullNums otherwise (defaultPullNums)
          SplitPull,            \* messages that close a batch of conversations
          WorkLen,              \* capacity of conversationCh
          InboxLen,             \* capacity of recvCh
          Events                \* connections, wake-ups, crashes and failures

VARIABLES told,        \* server: the highest number given (GetMaxSeq)
          written,     \* server: messages up to this number can be read
          pushed,      \* server: messages up to this number have been pushed
          online,      \* the gateway has a connection of the client
          inbox,       \* recvCh
          synced,      \* syncedMaxSeqs
          reinstalled, \* reinstalled
          syncing,     \* isSyncing
          phase,       \* what the goroutine of MsgSyncer does
          need,        \* needSyncSeqMap: conversation -> <<begin, end>>
          pullNum,     \* pullNums of the synchronisation
          batches,     \* full batches of need still to be pulled
          tail,        \* the batch of the conversations that are left
          work,        \* conversationCh
          local,       \* chat messages in the client's database
          noticeSeq,   \* seq of notification conversations in the database
          handling,    \* notifications whose goroutine has not ended
          handled,     \* notifications that were carried out
          events,      \* how many of these there have been
          lost,        \* history: messages lost, to causes named where added
          base,        \* history: notifications a new installation skips
          owed         \* history: a synchronisation was ignored or failed, or
                      \* something for recvCh was given up

Convs == Chats \cup Notices

ASSUME SyncerAssumption ==
  /\ {LastSeq, Sent, SplitPull, WorkLen, InboxLen, Events} \subseteq Nat
  /\ {ConnectPull, DefaultPull} \subseteq Nat \ {0}
  /\ Chats \cap Notices = {}

SyncerServer == <<told, written, pushed>>
SyncerStore == <<local, noticeSeq, handling, handled>>
Locals == <<phase, need, pullNum, batches, tail>>
SyncerVars == <<SyncerServer, online, inbox, synced, reinstalled, syncing,
                Locals, work, SyncerStore, events, lost, base, owed>>

Event == [type: {"push"}, conv: Convs, seq: 1..LastSeq]
           \cup [type: {"connected", "wakeup", "manual"}]

(* What one command in conversationCh carries: seqs by conversation.       *)
Commands == UNION {[S -> SUBSET (1..LastSeq)] :
                     S \in (SUBSET Chats) \cup (SUBSET Notices)}

SyncerTypeOK ==
  /\ {told, written, pushed, synced, base} \subseteq [Convs -> 0..LastSeq]
  /\ {online, reinstalled, syncing, owed} \subseteq BOOLEAN
  /\ inbox \in Seq(Event) /\ Len(inbox) =< InboxLen
  /\ phase \in {"idle", "max", "pull", "reinstall"}
  /\ DOMAIN need \subseteq Convs
  /\ \A c \in DOMAIN need : need[c] \in (1..LastSeq) \X (1..LastSeq)
  /\ pullNum \in {ConnectPull, DefaultPull}
  /\ batches \subseteq SUBSET Convs /\ tail \subseteq Convs
  /\ work \in Seq(Commands) /\ Len(work) =< WorkLen
  /\ noticeSeq \in [Notices -> 0..LastSeq]
  /\ local \subseteq Chats \X (1..LastSeq)
  /\ handling \cup handled \subseteq Notices \X (1..LastSeq)
  /\ lost \subseteq Convs \X (1..LastSeq)
  /\ events \in 0..Events

SyncerInit ==
  /\ told = [c \in Convs |-> 0] /\ written = told /\ pushed = told
  /\ synced = told /\ base = told
  /\ online = FALSE /\ inbox = <<>> /\ syncing = FALSE /\ owed = FALSE
  /\ reinstalled \in BOOLEAN
  /\ phase = "idle" /\ need = <<>> /\ pullNum = DefaultPull
  /\ batches = {} /\ tail = {}
  /\ work = <<>> /\ local = {} /\ noticeSeq = [n \in Notices |-> 0]
  /\ handling = {} /\ handled = {} /\ lost = {}
  /\ events = 0

Spend == events < Events /\ events' = events + 1

(* sendCmd to recvCh: it waits for room; after ten seconds with a full      *)
(* channel it gives up, and nobody looks at the error.                      *)
PutInbox(event) ==
  \/ Len(inbox) < InboxLen /\ inbox' = Append(inbox, event) /\ UNCHANGED owed
  \/ Len(inbox) = InboxLen /\ UNCHANGED inbox /\ owed' = TRUE

-----------------------------------------------------------------------------
(* The server.  A job of msgtransfer takes numbers for its messages, writes *)
(* them and only then pushes them, in order.                                *)

TakeNumbers(c, n) ==
  /\ pushed[c] = told[c] /\ told[c] + n =< LastSeq
  /\ n + MapThenSumSet(LAMBDA d : told[d], Convs) =< Sent
  /\ told' = [told EXCEPT ![c] = @ + n]
  /\ UNCHANGED <<written, pushed, online, inbox, synced, reinstalled, syncing,
                 Locals, work, SyncerStore, events, lost, base, owed>>

WriteMessage(c) ==
  /\ written[c] < told[c]
  /\ written' = [written EXCEPT ![c] = told[c]]
  /\ UNCHANGED <<told, pushed, online, inbox, synced, reinstalled, syncing,
                 Locals, work, SyncerStore, events, lost, base, owed>>

(* A push reaches the client only when the gateway has a connection of it; *)
(* doPushMsg puts it in recvCh.                                            *)
PushMessage(c) ==
  /\ written[c] = told[c] /\ pushed[c] < told[c]
  /\ pushed' = [pushed EXCEPT ![c] = @ + 1]
  /\ \/ online /\ PutInbox([type |-> "push", conv |-> c, seq |-> pushed[c] + 1])
     \/ ~online /\ UNCHANGED <<inbox, owed>>
  /\ UNCHANGED <<told, written, online, synced, reinstalled, syncing, Locals,
                 work, SyncerStore, events, lost, base>>

-----------------------------------------------------------------------------
(* Events of the client. *)

(* The connection is up; reConn puts the event in recvCh.                  *)
Connect ==
  /\ ~online
  /\ Spend
  /\ online' = TRUE
  /\ PutInbox([type |-> "connected"])
  /\ UNCHANGED <<SyncerServer, synced, reinstalled, syncing, Locals, work,
                 SyncerStore, lost, base>>

Disconnect ==
  /\ online /\ online' = FALSE
  /\ UNCHANGED <<SyncerServer, inbox, synced, reinstalled, syncing, Locals,
                 work, SyncerStore, events, lost, base, owed>>

(* The application wakes up, or a revocation asks for a synchronisation. *)
WakeUp ==
  /\ Spend
  /\ \E t \in {"wakeup", "manual"} : PutInbox([type |-> t])
  /\ UNCHANGED <<SyncerServer, online, synced, reinstalled, syncing, Locals,
                 work, SyncerStore, lost, base>>

SyncTimer ==
  /\ syncing /\ syncing' = FALSE
  /\ UNCHANGED <<SyncerServer, online, inbox, synced, reinstalled, Locals,
                 work, SyncerStore, events, lost, base, owed>>

-----------------------------------------------------------------------------
(* The goroutine of MsgSyncer. *)

Pairs(cmd) == {p \in (DOMAIN cmd) \X (1..LastSeq) : p[2] \in cmd[p[1]]}
Nothing(cmd) == UNION {cmd[c] : c \in DOMAIN cmd} = {}

(* A command that carries nothing is not sent. *)
AsSent(m) == IF Nothing(m) THEN <<>> ELSE <<m>>

SendMutant(m1, m2, besides) ==                  \* does not wait for room
  /\ work' = work \o AsSent(m1) \o AsSent(m2)
  /\ lost' = lost \cup besides

Dropped(m, sent) == IF sent = AsSent(m) THEN {} ELSE Pairs(m)

(* sendCmd, of one command or two: it waits for room in conversationCh;     *)
(* after ten seconds with a full channel it gives up, and its callers go on *)
(* as if the command had been sent.                                         *)
Send(m1, m2, besides) ==
  \E s1 \in {<<>>, AsSent(m1)}, s2 \in {<<>>, AsSent(m2)} :
    LET room == WorkLen - Len(work) IN
    /\ Len(s1) + Len(s2) =< room
    /\ <<s1, s2>> = <<AsSent(m1), AsSent(m2)>> \/ Len(s1) + Len(s2) = room
    /\ work' = work \o s1 \o s2
    /\ lost' = lost \cup besides \cup Dropped(m1, s1) \cup Dropped(m2, s2)

TakePushMutant ==                    \* a known message is handed on again
  LET c == Head(inbox).conv
      s == Head(inbox).seq
  IN
  /\ phase = "idle" /\ inbox # <<>> /\ Head(inbox).type = "push"
  /\ s =< synced[c] + 1
  /\ inbox' = Tail(inbox)
  /\ Send([x \in {c} |-> {s}], <<>>, {})
  /\ synced' = [synced EXCEPT ![c] = s]
  /\ UNCHANGED <<SyncerServer, online, reinstalled, syncing, Locals,
                 SyncerStore, events, base, owed>>

(* pushTriggerAndSync for the single message a push of the gateway carries: *)
(* the next one is handed on, a later one shows a gap, others are known.    *)
TakePush ==
  /\ phase = "idle" /\ inbox # <<>> /\ Head(inbox).type = "push"
  /\ inbox' = Tail(inbox)
  /\ LET c == Head(inbox).conv
         s == Head(inbox).seq
     IN \/ /\ s = synced[c] + 1
           /\ Send([x \in {c} |-> {s}], <<>>, {})
           /\ synced' = [synced EXCEPT ![c] = s]
           /\ UNCHANGED <<Locals, owed>>
        \/ /\ s > synced[c] + 1
           /\ phase' = "pull" /\ pullNum' = DefaultPull
           /\ need' = [x \in {c} |-> <<synced[c] + 1, s>>]
           /\ batches' = {} /\ tail' = {c}
           /\ UNCHANGED <<synced, work, lost, owed>>
        \/ /\ s =< synced[c]
           /\ UNCHANGED <<synced, Locals, work, lost, owed>>
  /\ UNCHANGED <<SyncerServer, online, reinstalled, syncing, SyncerStore,
                 events, base>>

(* startSync: within five seconds of the last synchronisation the event is  *)
(* ignored.  A manual synchronisation does not ask.                         *)
TakeEvent ==
  /\ phase = "idle" /\ inbox # <<>> /\ Head(inbox).type # "push"
  /\ inbox' = Tail(inbox)
  /\ LET t == Head(inbox).type IN
       IF t # "manual" /\ syncing
       THEN /\ owed' = TRUE
            /\ UNCHANGED <<phase, pullNum, syncing>>
       ELSE /\ phase' = "max"
            /\ pullNum' = IF t = "connected" THEN ConnectPull ELSE DefaultPull
            /\ syncing' = (syncing \/ t # "manual")
            /\ UNCHANGED owed
  /\ UNCHANGED <<SyncerServer, online, synced, reinstalled, need, batches,
                 tail, work, SyncerStore, events, lost, base>>

(* The handler of the event returns. *)
ReturnToLoop ==
  /\ phase' = "idle" /\ need' = <<>> /\ pullNum' = DefaultPull
  /\ batches' = {} /\ tail' = {}

(* A request over the long connection fails: without a connection always.  *)
RpcFails == IF online THEN Spend ELSE UNCHANGED events

MaxSeqFails ==
  /\ phase = "max"
  /\ RpcFails
  /\ ReturnToLoop /\ owed' = TRUE
  /\ UNCHANGED <<SyncerServer, online, inbox, synced, reinstalled, syncing,
                 work, SyncerStore, lost, base>>

(* How many messages of a conversation count for a batch. *)
Weight(c, range, num) ==
  LET n == range[2] - range[1] + 1 IN IF c \in Notices THEN n ELSE Min({n, num})

(* A batch is closed by the conversation that brings it to SplitPull; what  *)
(* is left when every conversation has been seen, maybe nothing, is the     *)
(* tail.  The order of a map is arbitrary, so are the cuts.                 *)
Full(B, range, num) ==
  MapThenSumSet(LAMBDA c : Weight(c, range[c], num), B) >= SplitPull

Cuts(range, num) ==
  {F \in SUBSET SUBSET DOMAIN range :
     /\ \A B, C \in F : B # C => B \cap C = {}
     /\ \A B \in F : /\ Full(B, range, num)
                      /\ \E c \in B : ~Full(B \ {c}, range, num)
     /\ ~Full(DOMAIN range \ UNION F, range, num)}

(* Begin to pull the ranges of a map. *)
Pulling(range, num, next) ==
  IF DOMAIN range = {} THEN ReturnToLoop
  ELSE /\ need' = range /\ pullNum' = num /\ phase' = next
       /\ \E F \in Cuts(range, num) :
            /\ tail' = DOMAIN range \ UNION F
            /\ batches' = IF next = "reinstall" THEN F \cup {tail'} ELSE F

BehindMutant(C) == {c \in C : told[c] > synced[c] + 1}    \* off by one

(* Where a conversation lags behind the number the server told. *)
Behind(C) == {c \in C : told[c] > synced[c]}

(* compareSeqsAndBatchSync with the answer of GetMaxSeq. *)
CompareSeqs ==
  /\ phase = "max" /\ online /\ ~reinstalled
  /\ Pulling([c \in Behind(Convs) |-> <<synced[c] + 1, told[c]>>], pullNum,
             "pull")
  /\ owed' = FALSE
  /\ UNCHANGED <<SyncerServer, online, inbox, synced, reinstalled, syncing,
                 work, SyncerStore, events, lost, base>>

(* The same after a new installation: notifications are not pulled at all.  *)
CompareSeqsReinstalled ==
  /\ phase = "max" /\ online /\ reinstalled
  /\ LET new == {n \in Notices : told[n] # 0} IN
       /\ synced' = [c \in Convs |-> IF c \in new THEN told[c] ELSE synced[c]]
       /\ noticeSeq' = [n \in Notices |->
                          IF n \in new THEN told[n] ELSE noticeSeq[n]]
       /\ base' = [c \in Convs |-> IF c \in new THEN told[c] ELSE base[c]]
  /\ Pulling([c \in Behind(Chats) |-> <<synced[c] + 1, told[c]>>], pullNum,
             "reinstall")
  /\ reinstalled' = (Behind(Chats) # {})
  /\ owed' = FALSE
  /\ UNCHANGED <<SyncerServer, online, inbox, syncing, work, local, handling,
                 handled, events, lost>>

AnswerAllShort(c) ==                 \* notifications are cut as well
  Max({need[c][1], need[c][2] + 1 - pullNum}) .. need[c][2]

AnswerFirst(c) ==                    \* the first seqs of the range
  IF c \in Notices THEN need[c][1] .. need[c][2]
  ELSE need[c][1] .. Min({need[c][2], need[c][1] + pullNum - 1})

(* PullMessageBySeqs: of a chat the last pullNum seqs of the range, of a    *)
(* notification conversation all; what has not been written comes as a      *)
(* placeholder, which the client takes for the message.                     *)
Answer(c) ==
  LET from == need[c][1]
      to == need[c][2]
  IN IF c \in Chats /\ to - from + 1 > pullNum
     THEN (to - pullNum + 1) .. to ELSE from .. to

Holes(B) == {p \in B \X (1..LastSeq) :
              p[2] \in Answer(p[1]) /\ p[2] > written[p[1]]}

(* The answer for a batch is handed on; the conversations in marked count   *)
(* as synchronised up to the end of their range, also those left out.       *)
Pulled(B, marked) ==
  \E skipped \in SUBSET B :
    /\ IF skipped = {} THEN UNCHANGED events ELSE Spend
    /\ Send([c \in (B \cap Chats) \ skipped |-> Answer(c)],
            [n \in (B \cap Notices) \ skipped |-> Answer(n)],
            Holes(B)
              \cup {p \in skipped \X (1..LastSeq) : p[2] \in Answer(p[1])})
    /\ synced' = [c \in Convs |->
                    IF c \in marked THEN need[c][2] ELSE synced[c]]

(* syncAndTriggerMsgs: batch after batch, the tail last and if not empty.   *)
PullBatch ==
  /\ phase = "pull" /\ online
  /\ \E B \in (IF batches = {} THEN {tail} ELSE batches) :
       /\ Pulled(B, B)
       /\ LET left == batches \ {B}
              rest == IF batches = {} THEN {} ELSE tail
          IN IF left = {} /\ rest = {} THEN ReturnToLoop
             ELSE /\ batches' = left /\ tail' = rest
                  /\ UNCHANGED <<phase, need, pullNum>>
  /\ UNCHANGED <<SyncerServer, online, inbox, reinstalled, syncing,
                 SyncerStore, base, owed>>

(* An error ends the synchronisation; the rest is not asked for. *)
PullFails ==
  /\ phase = "pull"
  /\ RpcFails
  /\ ReturnToLoop /\ owed' = TRUE
  /\ UNCHANGED <<SyncerServer, online, inbox, synced, reinstalled, syncing,
                 work, SyncerStore, lost, base>>

(* syncAndTriggerReinstallMsgs: the batches are pulled at the same time, the *)
(* tail even if it is empty; the tail marks all conversations of the map.   *)
(* With the last of them the client is no longer a new installation.        *)
ReinstallEnds(left) ==
  /\ reinstalled' = (left # {})
  /\ IF left = {} THEN ReturnToLoop
     ELSE batches' = left /\ UNCHANGED <<phase, need, pullNum, tail>>

ReinstallBatch ==
  /\ phase = "reinstall" /\ online
  /\ \E B \in batches :
       /\ Pulled(B, IF B = tail THEN DOMAIN need ELSE B)
       /\ ReinstallEnds(batches \ {B})
  /\ UNCHANGED <<SyncerServer, online, inbox, syncing, SyncerStore, base,
                 owed>>

ReinstallBatchFails ==
  /\ phase = "reinstall"
  /\ RpcFails
  /\ \E B \in batches :
       /\ lost' = lost \cup {<<c, need[c][2]>> : c \in B}
       /\ ReinstallEnds(batches \ {B})
  /\ owed' = TRUE
  /\ UNCHANGED <<SyncerServer, online, inbox, synced, syncing, work,
                 SyncerStore, base>>

-----------------------------------------------------------------------------
(* The goroutine of the conversations (Work). *)

(* doMsgNew stores the rows, placeholders too; doNotificationManager starts  *)
(* a goroutine for each notification and saves the seq of the last one.      *)
WorkCommand ==
  /\ work # <<>> /\ work' = Tail(work)
  /\ LET m == Head(work) IN
       /\ local' = local \cup (Pairs(m) \cap (Chats \X (1..LastSeq)))
       /\ handling' = handling \cup (Pairs(m) \cap (Notices \X (1..LastSeq)))
       /\ noticeSeq' = [n \in Notices |->
            IF n \in DOMAIN m /\ m[n] # {} THEN Max(m[n]) ELSE noticeSeq[n]]
  /\ UNCHANGED <<SyncerServer, online, inbox, synced, reinstalled, syncing,
                 Locals, handled, events, lost, base, owed>>

(* The goroutine of a notification ends. *)
Handle(n, s) ==
  /\ <<n, s>> \in handling
  /\ handling' = handling \ {<<n, s>>} /\ handled' = handled \cup {<<n, s>>}
  /\ UNCHANGED <<SyncerServer, online, inbox, synced, reinstalled, syncing,
                 Locals, work, local, noticeSeq, events, lost, base, owed>>

(* loadSeq: what a start finds in the database. *)
Stored(c) == IF c \in Notices THEN noticeSeq[c]
             ELSE Max({0} \cup {s \in 1..LastSeq : <<c, s>> \in local})

(* The process ends and starts again: memory is lost.  It is no longer a new *)
(* installation once the list of conversations has been stored.             *)
CrashClient ==
  /\ Spend
  /\ online' = FALSE /\ inbox' = <<>> /\ work' = <<>> /\ handling' = {}
  /\ syncing' = FALSE /\ ReturnToLoop /\ owed' = FALSE
  /\ synced' = [c \in Convs |-> Stored(c)]
  /\ reinstalled' \in {FALSE, reinstalled}
  /\ lost' = lost \cup handling
  /\ UNCHANGED <<SyncerServer, local, noticeSeq, handled, base>>

-----------------------------------------------------------------------------
ServerSteps == \E c \in Convs : WriteMessage(c) \/ PushMessage(c)

SyncerSteps == TakePush \/ TakeEvent \/ CompareSeqs \/ CompareSeqsReinstalled
                 \/ PullBatch \/ ReinstallBatch

(* Without a connection a request ends with an error. *)
Unanswered == ~online /\ (MaxSeqFails \/ PullFails \/ ReinstallBatchFails)

AppSteps == WorkCommand \/ \E n \in Notices, s \in 1..LastSeq : Handle(n, s)

SyncerNext ==
  \/ \E c \in Convs, n \in 1..LastSeq : TakeNumbers(c, n)
  \/ \E c \in Convs : WriteMessage(c) \/ PushMessage(c)
  \/ Connect \/ Disconnect \/ WakeUp \/ SyncTimer
  \/ TakePush \/ TakeEvent
  \/ MaxSeqFails \/ CompareSeqs \/ CompareSeqsReinstalled
  \/ PullBatch \/ PullFails \/ ReinstallBatch \/ ReinstallBatchFails
  \/ WorkCommand \/ (\E n \in Notices, s \in 1..LastSeq : Handle(n, s))
  \/ CrashClient

SyncerSpec == SyncerInit /\ [][SyncerNext]_SyncerVars

(* Requests are answered or end, and the goroutines of the client run on.   *)
SyncerFairness ==
  /\ WF_SyncerVars(ServerSteps) /\ WF_SyncerVars(SyncerSteps)
  /\ WF_SyncerVars(Unanswered) /\ WF_SyncerVars(AppSteps)
  /\ WF_SyncerVars(SyncTimer)

SyncerFairSpec == SyncerSpec /\ SyncerFairness

-----------------------------------------------------------------------------
Queued == UNION {Pairs(work[i]) : i \in DOMAIN work}

(* No notification up to the seq the client counts as synchronised is       *)
(* passed over: it was carried out, is about to be, or was lost to one of    *)
(* the causes recorded in lost (a number without a message, a conversation   *)
(* the server left out, a full channel, a crash of its goroutine).  Gaps     *)
(* between pushes, batches, failed pulls, restarts and ignored events lose   *)
(* nothing.                                                                  *)
NothingPassedOver ==
  \A n \in Notices : \A s \in (base[n] + 1) .. synced[n] :
    <<n, s>> \in handled \cup handling \cup Queued \cup lost

(* The newest message of a chat that counts as synchronised is in the        *)
(* database or on its way there: the gap check starts from it, so that a     *)
(* chat whose newest message is missing shows nothing of what was missed.    *)
LatestIsStored ==
  phase # "reinstall" =>
    \A c \in Chats :
      synced[c] = 0 \/ <<c, synced[c]>> \in local \cup Queued \cup lost

(* Commands on their way to the goroutine of the conversations carry only    *)
(* seqs above what it has stored, each once and in increasing order: no      *)
(* notification is carried out twice in the life of the process.  Those      *)
(* below the seq a new installation starts from are excepted: a push may     *)
(* have come before the answer of GetMaxSeq that skips them.                 *)
QueuedAreNew ==
  \A i \in DOMAIN work : \A p \in Pairs(work[i]) :
    /\ p[2] > Stored(p[1]) \/ p[2] =< base[p[1]]
    /\ \A j \in 1 .. i - 1 :
         \A q \in Pairs(work[j]) : q[1] = p[1] => q[2] < p[2]

(* A client that stays connected catches up with the numbers the server      *)
(* gave, unless since its last complete synchronisation one was ignored      *)
(* (startSync) or failed, or a push or an event was given up at a full       *)
(* recvCh: then only a later message or event makes it ask again.            *)
CatchesUp ==
  \A c \in Convs : []<>(~online \/ owed \/ synced[c] = told[c])

=============================================================================
