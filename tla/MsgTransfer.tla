---------------------------- MODULE MsgTransfer -----------------------------
(***************************************************************************)
(* The msgtransfer service: messages are read from the partitions of the   *)
(* Kafka topic toRedis, collected into batches, and handled by workers, one *)
(* job per key of the batch.  A job numbers the messages, puts them in the *)
(* Redis message cache, and sends them on to the topics toMongo and toPush. *)
(* The offset of the last message of the batch is committed when all jobs  *)
(* are done.  A second consumer group moves toMongo into MongoDB.          *)
(*                                                                         *)
(* A job treats two conversations: that of the key and the notification    *)
(* conversation beside it.  Numbers come from SeqConversation; here an     *)
(* allocation takes the next ones.                                         *)
(***************************************************************************)
EXTENDS Naturals, Sequences, FiniteSets

CONSTANTS
    Partition,    \* partitions of toRedis
    Topic,        \* what each partition holds: a sequence of messages
    Shard,        \* the worker of each key
    BatchSize,    \* size: messages in a batch (500)
    InsertLimit,  \* messages BatchInsertChat2Cache accepts (100)
    Faulty,       \* the calls that may fail: some of Calls
    MaxCrashes,   \* bounds of the model: restarts of the consumer of toRedis,
    MaxRestarts   \* and of the consumer of toMongo

Calls == {"malloc", "cache", "read", "create", "mongo", "push", "db"}

Key    == DOMAIN Shard
Part   == {"chat", "note"}
Ref    == UNION {{p} \X (1 .. Len(Topic[p])) : p \in Partition}
Msg(r) == Topic[r[1]][r[2]]
User   == {Msg(r).sender : r \in Ref}

(* A message has a key, a sender and three options: is it a notification,  *)
(* is a notification also sent as a message, is it kept in the history.    *)
ASSUME TransferAssumption ==
    /\ \A p \in Partition : \A o \in 1 .. Len(Topic[p]) :
         /\ Topic[p][o].key \in Key
         /\ Topic[p][o].note \in BOOLEAN /\ Topic[p][o].send \in BOOLEAN
         /\ Topic[p][o].hist \in BOOLEAN
    /\ \A p \in Partition : Len(Topic[p]) \in Nat
    /\ \A r, s \in Ref : Msg(r).key = Msg(s).key => r[1] = s[1]
    /\ BatchSize \in Nat \ {0} /\ InsertLimit \in Nat \ {0}
    /\ Faulty \subseteq Calls
    /\ MaxCrashes \in Nat /\ MaxRestarts \in Nat

VARIABLES
    pos,        \* messages taken from each partition since the last start
    committed,  \* the committed offset of each partition
    batch,      \* the batch: references in the order of arrival
    lists,      \* what the batch holds for each key and conversation
    sched,      \* the scheduler: collecting, or waiting for the workers
    job,        \* the job of each key
    maxSeq,     \* numbers allocated in each conversation
    cached,     \* the Redis message cache
    readSeq,    \* read seq in Redis of each key and user
    created,    \* keys whose conversations were created
    toMongo,    \* the topic toMongo
    mongoPos,   \* how much of it has been consumed
    mongo,      \* messages in MongoDB
    pushed,     \* messages sent to the topic toPush
    failed,     \* history: the calls that failed, by message
    hurt,       \* history: keys whose first numbers were used up by a job
                \* that did not create the conversations: it broke down, or
                \* never got the numbers
    crashes,
    restarts

kafkaVars == <<pos, committed, batch, lists, sched>>
mongoVars == <<toMongo, mongoPos, mongo>>
histVars  == <<failed, hurt, crashes, restarts>>
vars == <<kafkaVars, job, maxSeq, cached, readSeq, created, mongoVars, pushed, histVars>>

NoJob == [pc |-> "none", part |-> "chat", base |-> 0, done |-> 0]

(* categorizeMessageLists: what is stored in each of the two conversations *)
(* and what is only pushed.                                                *)
Stored(m, part) == IF part = "chat" THEN IF m.note THEN m.send ELSE m.hist
                                    ELSE m.note /\ m.hist
OnlyPushed(m, part) == (m.note <=> part = "note") /\ ~m.hist

NoLists == [c \in Key \X Part |-> << >>]

(* A message goes to the end of the lists of its key.  (The batcher groups   *)
(* messages by key as they arrive, the job sorts them by conversation; here  *)
(* both are done at once.)                                                   *)
Categorize(r) ==
    [c \in Key \X Part |->
        IF c[1] = Msg(r).key /\ Stored(Msg(r), c[2]) THEN Append(lists[c], r) ELSE lists[c]]

StorageList(k)    == lists[<<k, job[k].part>>]
NotStorageList(k) == {r \in Ref : /\ Msg(r).key = k /\ OnlyPushed(Msg(r), job[k].part)
                                  /\ \E i \in 1 .. Len(batch) : batch[i] = r}

(* An entry of the caches and topics: conversation, number (0 for what is  *)
(* not stored) and message.                                                *)
Entry(k, part, s, r) == [key |-> k, part |-> part, seq |-> s, msg |-> r]
(* A definition named ...Mutant is an error somebody could make; a property *)
(* below must notice it.  This one gives the numbers from the end.         *)
NumberedMutant(k) ==
    [i \in 1 .. Len(StorageList(k)) |->
        Entry(k, job[k].part, job[k].base + Len(StorageList(k)) + 1 - i, StorageList(k)[i])]

Numbered(k) ==
    [i \in 1 .. Len(StorageList(k)) |->
        Entry(k, job[k].part, job[k].base + i, StorageList(k)[i])]
Elems(s) == {s[i] : i \in 1 .. Len(s)}

Init ==
    /\ pos = [p \in Partition |-> 0]
    /\ committed = [p \in Partition |-> 0]
    /\ batch = << >> /\ lists = NoLists /\ sched = "collect"
    /\ job = [k \in Key |-> NoJob]
    /\ maxSeq = [c \in Key \X Part |-> 0]
    /\ cached = {}
    /\ readSeq = [u \in Key \X User |-> 0]
    /\ created = {}
    /\ toMongo = << >> /\ mongoPos = 0 /\ mongo = {}
    /\ pushed = {}
    /\ failed = {} /\ hurt = {} /\ crashes = 0 /\ restarts = 0

-----------------------------------------------------------------------------
(* The batcher.                                                            *)

(* ConsumeClaim puts the next message, the scheduler adds it to the batch. *)
(* (The channel between them only delays this.)                            *)
Put(p) ==
    /\ sched = "collect" /\ Len(batch) < BatchSize
    /\ pos[p] < Len(Topic[p])
    /\ pos' = [pos EXCEPT ![p] = @ + 1]
    /\ batch' = Append(batch, <<p, pos[p] + 1>>)
    /\ lists' = Categorize(<<p, pos[p] + 1>>)
    /\ UNCHANGED <<committed, sched, job, maxSeq, cached, readSeq, created, mongoVars, pushed, histVars>>

(* Without the tick: a batch waits until it is full.                       *)
DistributeMutant ==
    /\ sched = "collect" /\ Len(batch) = BatchSize
    /\ sched' = "wait"
    /\ job' = [k \in Key |->
                 IF \E i \in 1 .. Len(batch) : Msg(batch[i]).key = k
                 THEN [NoJob EXCEPT !.pc = "queued"] ELSE NoJob]
    /\ UNCHANGED <<pos, committed, batch, lists, maxSeq, cached, readSeq, created, mongoVars, pushed, histVars>>

(* A full batch, or a tick with a batch that is not empty: one job per key. *)
Distribute ==
    /\ sched = "collect" /\ batch # << >>
    /\ sched' = "wait"
    /\ job' = [k \in Key |->
                 IF \E i \in 1 .. Len(batch) : Msg(batch[i]).key = k
                 THEN [NoJob EXCEPT !.pc = "queued"] ELSE NoJob]
    /\ UNCHANGED <<pos, committed, batch, lists, maxSeq, cached, readSeq, created, mongoVars, pushed, histVars>>

(* Without syncWait: the offset is committed before the workers are done.  *)
OnCompleteMutant ==
    /\ sched = "wait"
    /\ LET last == batch[Len(batch)]
       IN  committed' = [committed EXCEPT ![last[1]] = last[2]]
    /\ batch' = << >> /\ lists' = NoLists /\ sched' = "collect"
    /\ UNCHANGED <<pos, job, maxSeq, cached, readSeq, created, mongoVars, pushed, histVars>>

(* The workers are done: OnComplete marks the last message and commits.    *)
OnComplete ==
    /\ sched = "wait" /\ \A k \in Key : job[k].pc = "none"
    /\ LET last == batch[Len(batch)]
       IN  committed' = [committed EXCEPT ![last[1]] = last[2]]
    /\ batch' = << >> /\ lists' = NoLists /\ sched' = "collect"
    /\ UNCHANGED <<pos, job, maxSeq, cached, readSeq, created, mongoVars, pushed, histVars>>

-----------------------------------------------------------------------------
(* The job of a key.                                                       *)

At(k, pc) == job[k].pc = pc
Goto(k, pc) == job' = [job EXCEPT ![k].pc = pc]

(* handleMsg is followed by handleNotification.                            *)
EndPart(k) ==
    job' = [job EXCEPT ![k] = IF @.part = "chat"
                              THEN [NoJob EXCEPT !.pc = "start", !.part = "note"]
                              ELSE NoJob]

(* A failed call is only logged.                                           *)
Blame(call, refs) == failed' = failed \cup {<<call, r>> : r \in refs}

(* A worker runs one job at a time.                                        *)
StartJob(k) ==
    /\ At(k, "queued")
    /\ \A l \in Key : Shard[l] = Shard[k] => job[l].pc \in {"none", "queued"}
    /\ Goto(k, "start")
    /\ UNCHANGED <<kafkaVars, maxSeq, cached, readSeq, created, mongoVars, pushed, histVars>>

(* toPushTopic, for each message by itself.                                *)
ToPushTopic(entries) ==
    \E lost \in SUBSET entries :
        /\ lost # {} => "push" \in Faulty
        /\ pushed' = pushed \cup (entries \ lost)
        /\ Blame("push", {e.msg : e \in lost})

PushNotStored(k) ==
    /\ At(k, "start")
    /\ ToPushTopic({Entry(k, job[k].part, 0, r) : r \in NotStorageList(k)})
    /\ IF StorageList(k) = << >> THEN EndPart(k) ELSE Goto(k, "malloc")
    /\ UNCHANGED <<kafkaVars, maxSeq, cached, readSeq, created, mongoVars, hurt, crashes, restarts>>

(* One number is taken, however many messages the list has.                *)
MallocMutant(k) ==
    /\ At(k, "malloc") /\ Len(StorageList(k)) <= InsertLimit
    /\ LET c == <<k, job[k].part>>
       IN  /\ job' = [job EXCEPT ![k].pc = "cache", ![k].base = maxSeq[c]]
           /\ maxSeq' = [maxSeq EXCEPT ![c] = @ + 1]
    /\ UNCHANGED <<kafkaVars, cached, readSeq, created, mongoVars, pushed, histVars>>

(* BatchInsertChat2Cache: allocate, then write the messages one by one.    *)
Malloc(k) ==
    /\ At(k, "malloc") /\ Len(StorageList(k)) <= InsertLimit
    /\ LET c == <<k, job[k].part>>
       IN  /\ job' = [job EXCEPT ![k].pc = "cache", ![k].base = maxSeq[c]]
           /\ maxSeq' = [maxSeq EXCEPT ![c] = @ + Len(StorageList(k))]
    /\ UNCHANGED <<kafkaVars, cached, readSeq, created, mongoVars, pushed, histVars>>

(* A job that took the first numbers of the conversation and has not       *)
(* created it.                                                             *)
Owes(k) ==
    /\ job[k].part = "chat" /\ job[k].base = 0
    /\ job[k].pc \in {"cache", "read", "create"}

(* Without the return after the error.                                     *)
InsertFailsMutant(k) ==
    /\ \/ At(k, "malloc") /\ Len(StorageList(k)) > InsertLimit
       \/ At(k, "cache") /\ "cache" \in Faulty
    /\ Blame("insert", Elems(StorageList(k)))
    /\ hurt' = IF Owes(k) THEN hurt \cup {k} ELSE hurt
    /\ Goto(k, "mongo")
    /\ UNCHANGED <<kafkaVars, maxSeq, cached, readSeq, created, mongoVars, pushed, crashes, restarts>>

(* Too many messages, or an error of the cache: the messages of this       *)
(* conversation are dropped.                                               *)
InsertFails(k) ==
    /\ \/ At(k, "malloc") /\ Len(StorageList(k)) > InsertLimit
       \/ At(k, "cache") /\ "cache" \in Faulty
    /\ Blame("insert", Elems(StorageList(k)))
    /\ hurt' = IF Owes(k) THEN hurt \cup {k} ELSE hurt
    /\ EndPart(k)
    /\ UNCHANGED <<kafkaVars, maxSeq, cached, readSeq, created, mongoVars, pushed, crashes, restarts>>

(* An error of the allocation.  MongoDB may have taken the numbers already *)
(* (its answer is lost, or Redis does not take the block): they are used   *)
(* up, and if they were the first, no job ever gets the answer 0.  (A      *)
(* process that ends in this place is a Malloc followed by a Crash.)       *)
MallocFails(k) ==
    /\ At(k, "malloc") /\ Len(StorageList(k)) <= InsertLimit /\ "malloc" \in Faulty
    /\ Blame("insert", Elems(StorageList(k)))
    /\ \E n \in {0, Len(StorageList(k))} :
         /\ maxSeq' = [maxSeq EXCEPT ![<<k, job[k].part>>] = @ + n]
         /\ hurt' = IF n > 0 /\ job[k].part = "chat" /\ maxSeq[<<k, "chat">>] = 0
                    THEN hurt \cup {k} ELSE hurt
    /\ EndPart(k)
    /\ UNCHANGED <<kafkaVars, cached, readSeq, created, mongoVars, pushed, crashes, restarts>>

SetMessage(k) ==
    /\ At(k, "cache")
    /\ LET n == job[k].done + 1
       IN  /\ cached' = cached \cup {Numbered(k)[n]}
           /\ job' = [job EXCEPT ![k].done = n,
                                 ![k].pc = IF n < Len(StorageList(k)) THEN "cache"
                                           ELSE IF job[k].part = "chat" THEN "read"
                                           ELSE "mongo"]
    /\ UNCHANGED <<kafkaVars, maxSeq, readSeq, created, mongoVars, pushed, histVars>>

(* userSeqMap: the highest number each sender got.                         *)
UserSeqMap(k) ==
    [u \in User |->
        LET own == {e.seq : e \in {f \in Elems(Numbered(k)) : Msg(f.msg).sender = u}}
        IN  IF own = {} THEN 0 ELSE CHOOSE s \in own : \A t \in own : t <= s]

(* The previous highest number taken for the first number.                 *)
IsNewMutant(k) == job[k].base = 1

(* isNewConversation: Malloc answered 0.                                   *)
IsNew(k) == job[k].base = 0

(* SetHasReadSeqs raises the read seq in Redis user by user and stops at  *)
(* the first error, which is only logged.  (The copy in MongoDB, written   *)
(* through conversationUserHasReadChan, is left out.)                      *)
SetHasReadSeqs(k) ==
    /\ At(k, "read")
    /\ \E done \in SUBSET User :
         /\ done # User => "read" \in Faulty
         /\ readSeq' = [x \in Key \X User |->
              IF x[1] = k /\ x[2] \in done /\ readSeq[x] < UserSeqMap(k)[x[2]]
              THEN UserSeqMap(k)[x[2]] ELSE readSeq[x]]
         /\ Blame("read", {r \in Elems(StorageList(k)) : Msg(r).sender \notin done})
    /\ Goto(k, IF IsNew(k) THEN "create" ELSE "mongo")
    /\ UNCHANGED <<kafkaVars, maxSeq, cached, created, mongoVars, pushed, hurt, crashes, restarts>>

(* The first numbers of a conversation: create it for its members.         *)
CreateConversation(k) ==
    /\ At(k, "create")
    /\ \/ created' = created \cup {k} /\ UNCHANGED hurt
       \/ "create" \in Faulty /\ hurt' = hurt \cup {k} /\ UNCHANGED created
    /\ Goto(k, "mongo")
    /\ UNCHANGED <<kafkaVars, maxSeq, cached, readSeq, mongoVars, pushed, failed, crashes, restarts>>

MsgToMongoMQ(k) ==
    /\ At(k, "mongo")
    /\ \/ toMongo' = Append(toMongo, Elems(Numbered(k))) /\ UNCHANGED failed
       \/ "mongo" \in Faulty /\ Blame("mongo", Elems(StorageList(k))) /\ UNCHANGED toMongo
    /\ Goto(k, "push")
    /\ UNCHANGED <<kafkaVars, maxSeq, cached, readSeq, created, mongoPos, mongo, pushed, hurt, crashes, restarts>>

PushStored(k) ==
    /\ At(k, "push")
    /\ ToPushTopic(Elems(Numbered(k)))
    /\ EndPart(k)
    /\ UNCHANGED <<kafkaVars, maxSeq, cached, readSeq, created, mongoVars, hurt, crashes, restarts>>

-----------------------------------------------------------------------------
(* The consumer of toMongo: marks the message, inserted or not.            *)
HandleChatWs2Mongo ==
    /\ mongoPos < Len(toMongo)
    /\ mongoPos' = mongoPos + 1
    /\ \/ mongo' = mongo \cup toMongo[mongoPos + 1] /\ UNCHANGED failed
       \/ /\ "db" \in Faulty
          /\ Blame("db", {e.msg : e \in toMongo[mongoPos + 1]})
          /\ UNCHANGED mongo
    /\ UNCHANGED <<kafkaVars, job, maxSeq, cached, readSeq, created, toMongo, pushed, hurt, crashes, restarts>>

(* Without the committed offset: reading goes on behind what was read.     *)
CrashMutant ==
    /\ crashes < MaxCrashes
    /\ crashes' = crashes + 1
    /\ batch' = << >> /\ lists' = NoLists /\ sched' = "collect"
    /\ job' = [k \in Key |-> NoJob]
    /\ hurt' = hurt \cup {k \in Key : Owes(k)}
    /\ UNCHANGED <<pos, committed, maxSeq, cached, readSeq, created, mongoVars, pushed, failed, restarts>>

(* The process ends and starts again: what is in memory is lost, every     *)
(* partition is read again from its committed offset.                      *)
Crash ==
    /\ crashes < MaxCrashes
    /\ crashes' = crashes + 1
    /\ pos' = committed /\ batch' = << >> /\ lists' = NoLists /\ sched' = "collect"
    /\ job' = [k \in Key |-> NoJob]
    /\ hurt' = hurt \cup {k \in Key : Owes(k)}
    /\ UNCHANGED <<committed, maxSeq, cached, readSeq, created, mongoVars, pushed, failed, restarts>>

(* The consumer of toMongo starts again from an earlier offset.            *)
MongoRestart ==
    /\ restarts < MaxRestarts
    /\ restarts' = restarts + 1
    /\ \E n \in 0 .. mongoPos : mongoPos' = n
    /\ UNCHANGED <<kafkaVars, job, maxSeq, cached, readSeq, created, toMongo, mongo, pushed, failed, hurt, crashes>>

-----------------------------------------------------------------------------
Work(k) ==
    \/ StartJob(k) \/ PushNotStored(k) \/ Malloc(k) \/ MallocFails(k) \/ InsertFails(k)
    \/ SetMessage(k) \/ SetHasReadSeqs(k) \/ CreateConversation(k) \/ MsgToMongoMQ(k) \/ PushStored(k)

Next ==
    \/ \E p \in Partition : Put(p)
    \/ Distribute \/ OnComplete
    \/ \E k \in Key : Work(k)
    \/ HandleChatWs2Mongo
    \/ Crash \/ MongoRestart

Spec == Init /\ [][Next]_vars

(* The goroutines run, Kafka delivers, the ticker ticks.                   *)
FairSpec ==
    /\ Spec
    /\ \A p \in Partition : WF_vars(Put(p))
    /\ WF_vars(Distribute) /\ WF_vars(OnComplete)
    /\ \A k \in Key : WF_vars(Work(k))
    /\ WF_vars(HandleChatWs2Mongo)

-----------------------------------------------------------------------------
Entries == [key : Key, part : Part, seq : Nat, msg : Ref]

TypeOK ==
    /\ pos \in [Partition -> Nat] /\ committed \in [Partition -> Nat]
    /\ batch \in Seq(Ref) /\ lists \in [Key \X Part -> Seq(Ref)] /\ sched \in {"collect", "wait"}
    /\ job \in [Key -> [pc : {"none", "queued", "start"} \cup Calls, part : Part,
                        base : Nat, done : Nat]]
    /\ maxSeq \in [Key \X Part -> Nat]
    /\ cached \subseteq Entries /\ mongo \subseteq Entries /\ pushed \subseteq Entries
    /\ readSeq \in [Key \X User -> Nat]
    /\ created \subseteq Key /\ hurt \subseteq Key
    /\ mongoPos \in 0 .. Len(toMongo)
    /\ crashes \in 0 .. MaxCrashes /\ restarts \in 0 .. MaxRestarts

CachedAs(r, part) == {e \in cached : e.msg = r /\ e.part = part}
OnTheWayToMongo   == mongo \cup UNION {toMongo[i] : i \in 1 .. Len(toMongo)}
Failed(call, r)   == <<call, r>> \in failed

(* Everything a message asks for has been done, but for the calls that     *)
(* failed.                                                                 *)
StoredIn(r, part) ==
    \/ Failed("insert", r)
    \/ \E e \in CachedAs(r, part) :
         /\ e \in OnTheWayToMongo \/ Failed("mongo", r)
         /\ e \in pushed \/ Failed("push", r)

PushedIn(r, part) ==
    \/ Failed("push", r)
    \/ \E e \in pushed : e.msg = r /\ e.part = part

HandledIn(r, part) ==
    /\ Stored(Msg(r), part) => StoredIn(r, part)
    /\ OnlyPushed(Msg(r), part) => PushedIn(r, part)

Handled(r) == \A part \in Part : HandledIn(r, part)

(* A committed offset never skips a message that has not been handled,     *)
(* although only the last message of a batch, which may span partitions,   *)
(* is marked: what is lost in a crash is read again.                       *)
NothingSkipped ==
    \A p \in Partition : \A o \in 1 .. committed[p] : Handled(<<p, o>>)

(* The numbers follow the order of the partition (docs/04, the chain of    *)
(* five layers): when a message can be read, every earlier message of its  *)
(* conversation can be read under a lower number, or was dropped.          *)
OrderKept ==
    \A e \in cached : \A o \in 1 .. e.msg[2] - 1 :
        LET r == <<e.msg[1], o>>
        IN  Msg(r).key = e.key /\ Stored(Msg(r), e.part) =>
              \/ Failed("insert", r)
              \/ \E f \in CachedAs(r, e.part) : f.seq < e.seq

(* What is pushed with a number can be read under it, and its sender is    *)
(* never shown his own message as unread (unless Redis refused the write). *)
PushedIsReadable ==
    \A e \in pushed : e.seq # 0 =>
        /\ e \in cached
        /\ e.part = "chat" =>
             \/ readSeq[<<e.key, Msg(e.msg).sender>>] >= e.seq
             \/ Failed("read", e.msg)

(* Nobody is pushed a message of a conversation that does not exist for    *)
(* him, unless the job that used up its first numbers broke down, be it    *)
(* that MongoDB gave the numbers and the answer never came.                *)
ConversationBeforePush ==
    \A e \in pushed : e.part = "chat" /\ e.seq # 0 => e.key \in created \cup hurt

(* To its readers each conversation is a log: messages are only added at   *)
(* the end, no gap is filled later, although batches are handled by        *)
(* workers, break off between two messages and are read again.             *)
Log == INSTANCE MsgLog WITH
    Conversation <- Key \X Part, top <- maxSeq, readable <- cached,
    durable <- mongo, told <- {e \in pushed : e.seq # 0}
KeepsTheLog == Log!Spec

(* Each message is handled in the end, each stored message reaches MongoDB *)
(* unless a call failed: no restart and no lost batch stops the pipeline.  *)
Everything ==
    \A r \in Ref :
        /\ Handled(r)
        /\ \A part \in Part : \A e \in CachedAs(r, part) :
             e \in mongo \/ Failed("mongo", r) \/ Failed("db", r) \/ Failed("insert", r)
             \/ \E f \in CachedAs(r, part) : f.seq > e.seq
AllHandled == <>Everything

(* Processing a message again leaves one copy of it (docs/04: repeated     *)
(* processing is allowed and the result is the same).                      *)
StoredOnce ==
    \A e, f \in cached : e.msg = f.msg /\ e.part = f.part => e.seq = f.seq
=============================================================================
