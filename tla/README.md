# kids-im: specification and verification

kids-im is an instant messaging system: a Go server (`src/server`), a client
SDK (`src/sdk-core`), bindings of the SDK for browsers (`src/sdk-js-wasm`) and
the protocol between them (`src/protocol`). This directory holds TLA+
specifications of the parts of it whose correctness depends on the order in
which things happen, TLC configurations that check them on small instances, and
proofs checked by TLAPS. `tlc -config X.cfg M` runs a configuration (the module of
each is in section 3); `tlapm M.tla` checks the proofs of a module.

`PROJECT.json` lists the components, the runs, the mutants (an error in the
model for each property, which the property must notice), the source lines every
definition stands for, the findings, the hazards and the theorems.

## 1. The system

A message goes this way:

    client SDK -> gateway -> message RPC -> Kafka toRedis
      -> msgtransfer: number it, cache it in Redis, raise the sender's read
         position, create the conversation -> Kafka toMongo -> MongoDB
                                           -> Kafka toPush -> push -> gateway
      -> client SDK: in order? show it : pull what is missing

| Component | State | Operations | Interaction | What is hard |
|---|---|---|---|---|
| Sequence numbers (`seq_conversation.go`, Redis and MongoDB) | a hash LOCK, CURR, LAST per conversation; a document `max_seq`, `min_seq`; a cached `min_seq` | Malloc, GetMaxSeq, batched questions, SetMinSeqs, GetMinSeq | called by msgtransfer workers and RPC handlers in any number of processes | a lock that expires, calls that fail after they took effect, loss of Redis |
| Message store (`controller/msg.go`, `redis/msg.go`, `mgo/msg.go`) | documents of consecutive numbers in MongoDB; a copy and a lock per number in Redis | insert, read, revoke, delete for one user or for all | msgtransfer writes, RPC handlers read and mark | messages read or deleted before they are inserted; a reader that fills a copy while others write |
| Batcher (`tools/batcher`) | a batch, a channel per worker, a counter of running jobs | Put, scheduler (size or tick), distribute, run, OnComplete | between the Kafka consumer and 50 workers | order, one commit for many jobs |
| msgtransfer, toRedis | the batch, the committed offsets; jobs in progress | do, handleMsg, handleNotification | numbers, message cache, read positions, conversation RPC, two topics | restarts, failed calls that are only logged |
| msgtransfer, toMongo | the offset | handleChatWs2Mongo | MongoDB | a message is marked whether its insert worked |
| Read positions (`seq_user.go`, `as_read.go`) | Redis and MongoDB copies per user and conversation | SetUserReadSeq, mark as read, doSetReadSeq | RPC handlers, msgtransfer, the SDK | read, compare and write without a lock; two copies |
| SDK: read receipts (`read_drawing.go`, `sync.go`) | a cursor per member, a read state, a subscription | receipts, synchronisation, members, subscribe, delete | server, application callbacks | a goroutine per notification |
| SDK: message synchronisation (`msg_sync.go`) | the highest synchronised seq per conversation | push, connect, reinstall, pull | long connection, message store | gaps, pushes of several conversations, a failed pull |
| SDK: long connection (`long_conn_mgr.go`, `ws_resp_asyn.go`, `subscription.go`) | the connection and its status, waiting requests, entries for the status of users | request, answer, reconnect, close, kick, logout, ask for a status | gateway, `MsgSyncer`, application | three goroutines that wait for each other, late answers, connections that are replaced |
| Versions (`incrversion`, `syncer`) | a version log on the server, a copy in the client | incremental and full synchronisation | group, friend, conversation tables | lost notifications, full synchronisation in between |
| Gateway, tokens, online status | connections by user and platform, tokens by state, leases in Redis | register, kick, login, logout, renew | SDK, auth RPC, push | two logins at once, dropped status changes |
| Local caches | cached answers of other services | get, delete by Redis message | all services | a fill that races with a deletion |
| Group, relation, user, conversation RPC; API; push; files; webhooks; tasks | documents | business rules | | mostly single database operations |

What makes each component correct, in short: a number is given once and later
messages get higher ones; no message is lost, numbered out of order or pushed
before it can be read; a read position never moves back, and nothing is shown as
read by all before it is; the client shows every message once and in order; two
copies of versioned data agree in the end; a kicked login stays kicked; a cache
does not stay stale.

## 2. Modules

| Module | Models |
|---|---|
| `SeqAllocator` | what the allocation promises: blocks of numbers that never overlap |
| `SeqConversation`, `MCSeqConversation` | `seq_conversation.go` of Redis and MongoDB, for one conversation; its instances, with the history of expired locks |
| `MsgLog` | what the pipeline promises to the readers of a conversation: a log that only grows at its end |
| `MsgTransfer`, `MCMsgTransfer` | batcher, consumer of toRedis, consumer of toMongo; what the partitions hold |
| `ReadPositions` | `as_read.go`, `seq_user.go` of Redis and MongoDB, the receipts on their way through Kafka and msgtransfer, for one user |
| `MsgStore` | `BatchInsertBlock` and the message service on the documents of one conversation and their copies in Redis |
| `Tokens` | `controller/auth.go`, `rpc/auth/auth.go`, `redis/token.go`, for one user |
| `Gateway` | `ws_server.go`, `client.go`, `user_map.go`, `hub_server.go`, for one user on one platform |
| `Online` | the status reports of the gateways, the script of `redis/online.go`, the copy of the push service, for one user |
| `MCServer` | one instance of the five modules above |
| `MsgSyncer` | `msg_sync.go` of the client SDK between the server and the database of the client |
| `FriendSync` | `version_log.go`, `option.go` and `friend.go` on the server, `version_synchronizer.go` and `syncer.go` in the client, for the list of friends |
| `LongConn` | `long_conn_mgr.go`, `ws_resp_asyn.go` and `subscription.go` of the client SDK, `subscription.go` of the gateway |
| `MCClient` | one instance of these three |
| `ReadCursors`, `MCReadCursors` | read receipts of one group conversation in the SDK of one user; symmetry |
| `SeqConversationProofs`, `MsgTransferProofs`, `ServerProofs` (of `Tokens`, `Gateway`, `ReadPositions`, `MsgStore` and `Online`), `ClientProofs` (of `MsgSyncer`, `FriendSync` and `LongConn`), `ReadCursorsProofs` | theorems, section 4 |

Definitions called `...Mutant` are plausible errors. No specification uses them;
each belongs to a property that has to fail when the definition of that name
takes its place.

How the modules meet. `SeqConversation` shows what a worker of `MsgTransfer` gets
when it asks for numbers: there the allocation is one step. `MsgTransfer` hands
messages to toMongo, where inserting a message is one step; `MsgStore` takes that
step apart. The announced numbers without a message that `MsgTransfer` produces
are what the server of `MsgSyncer` answers with placeholders. The positions that
`MsgTransfer` raises for senders, and those `ReadCursors` is sent, come from
`ReadPositions`. `Gateway` registers the connections whose tokens `Tokens`
judges, and its map is what `Online` reports; the status `Online` brings to a
gateway is what the gateway of `LongConn` knows. The connection, its loss and the
failed requests that `MsgSyncer` takes as given are what `LongConn` produces, and
`LongConn` has of `MsgSyncer` that it takes events and sends a request. Each module keeps of its
neighbours what its own properties depend on; the composition of two modules by a
common variable would multiply their state spaces without a property that needs
both.

### SeqConversation

One conversation: different ones share nothing. `cache` is the Redis hash
(absent, locked, or with the rest of a block), `maxSeq` and `minSeq` the MongoDB
document, `minCache` the cached copy of `min_seq`. Each caller is a goroutine
with a program counter: `EvalMalloc` is the Lua script (`MallocMiss`,
`MallocBusy`, `MallocRefill`, `MallocHit` are its states 1, 2, 3, 0), atomic in
Redis; `MongoMalloc` the block from MongoDB with the choice between the joined
and the new block; `SetSeq`, `SetSeqFails`, `SetSeqLost`, `SetSeqGivesUp` the
rounds of `setSeqRetry`; `Fail` an error return, a cancelled context or the end
of the process at any step. `Expire` removes the hash: the end of its time to
live, or loss of Redis. Lock values come from a small set, so that two locks may
coincide. `log`, `top` and `since` are history: the answers, the highest number
told, and what was known when a call began.

Two constants choose the environment: `TimelyLock` forbids that the hash goes
while a holder is between the script and `setSeq`; `LostReplies` allows
that a `setSeq` was applied and its answer lost. `MCSeqConversation` adds the
history `late`: a hash has gone under its holder. Not kept: the TIME field, the
three seconds as a duration (`Expire` may happen at any moment), `SetMaxSeq` (a
migration tool). MongoDB's find-and-update with upsert is taken as atomic.

### MsgTransfer

A message is a record of key, sender and the three options
`categorizeMessageLists` looks at. `Put` is ConsumeClaim, the channel and the
scheduler's append (the channel only delays it); `Distribute` the size or the
tick; the job of a key runs `handleMsg` (`part = "chat"`) and then
`handleNotification` (`part = "note"`) over the lists `lists` makes of its
messages, each call of the code a step:
`PushNotStored`, `Malloc`, `SetMessage` (one message at a time, as the cache is
written), `SetHasReadSeqs`, `CreateConversation`, `MsgToMongoMQ`, `PushStored`;
`MallocFails` an error of the allocation, which may have used up the numbers (MongoDB's
`$inc` was done, or the script of Redis ran), `InsertFails` the early return for the
other reasons. Failures in `Faulty` are only logged, as in
the code; `failed` and `hurt` are history and say which messages and
conversations a failure touched. `Crash` is the end of the process at any
moment and the start from the committed offsets, `MongoRestart` the same for the
consumer of toMongo, which may read again.

`Log` maps these variables to those of `MsgLog`: the numbers given, what is in the
message cache (what can be read), what is in MongoDB, and what was pushed with a
number; a message that is only pushed is not part of the log. The rest (batches,
jobs, offsets, topics, failures, restarts) does not show there. A message that is
read again after a crash is a new message of the log, behind all others: the
log says nothing of copies (finding 3), but that none lands in the middle and
none replaces another one.

Not kept: parsing, rebalancing between several members of a consumer group, the
orderly shutdown. A list of pushes is one step: a crash in its middle repeats the
pushes already made, which the model does with all or none of them.

### ReadPositions

`redis` and `mongo` are the two copies of a position, `owner` the lock with which
rockscache lets one goroutine fill in a missing value. A request
(`MarkMsgsAsRead`, `MarkConversationAsRead`, `SetConversationHasReadSeq`) and the
worker that stores the user's own messages run through the same pieces: look at
Redis, miss and fill it from MongoDB, compare, set. `MarkConversationAsRead` takes
any position, the two others none above the last number of the conversation. A request then leaves a
receipt, a message one entry of `conversationUserHasReadChan`;
`HandleReceipts` is `doSetReadSeq` on a batch of receipts with one key, which may
come in any order and selection, `HandleSent` the goroutine of the channel; both
get MongoDB's position and set the higher one in two steps. `claimed` is history:
how far the user said to have read. `mixed`, `raced` and `lost` record
conversations whose receipts shared a batch with another one's, that two
goroutines worked on at once, and of which a position was lost to a failed call.

### MsgStore

`slots` is what the documents hold under each number (a message or not, the marks
"revoke" and "delete"), `copies` what Redis holds, `locks` the state of
rockscache. `SetMessageBySeqs` puts a batch into Redis and into toMongo;
`TakeList`, `UpdateMsg` and `CreateDoc` are the loop of `BatchInsertBlock` with
its turns between updating an existing document and creating one, and the
duplicate key that sends it back. A client of the service reads (`ReadCopy`,
`LockCopy`, `FindSeqs`, `SetCopy`), revokes, deletes for one user or erases for
all; each writes MongoDB and then calls `DelMessageBySeqs`, which marks the copy
as to be read anew. What is revoked is a message; that an administrator may revoke a
placeholder too is not kept. `WorkFails` ends any of them at any step,
`ConsumerRestarts` makes toMongo read a list again.

What the module shows of the code besides its properties: a placeholder that was
read before the message was inserted stays in Redis until it expires (a day),
since inserting does not touch copies; a deletion for all of a message that is
not in MongoDB yet is undone by its insertion.

### Tokens

`flags` are the hashes of a user's tokens per platform. A login reads them,
decides by policy which to delete and which to kick, and writes in separate calls
(`DeleteOld`, `KickOld`, `SetToken`); `ForceLogout`, `KickTokens` and
`Invalidate` are the other writers, the last two from the event loop of the
gateway when it registers a connection. Any may fail half way. What the module
shows of the code besides its properties: the flags of the tokens to kick are
written to the hash of the platform of the new login, so tokens of another
platform are not marked in their own hash; `PCAndOther` kicks no token of a PC.

### Gateway

The map of users, the pool of `Client` objects, the three channels of the event
loop, and for each connection its socket and its reading goroutine. An object goes
back to the pool when it is unregistered, while a reader, a kick or a list of
clients may still refer to it: `holder` and `conn` say which object belongs to
which connection. `Register`, `Registered`, `Unregister`, `Kick` and
`KickElsewhere` are the event loop, `ReadEnds` and `ReaderCloses` the reader,
`KickUserOffline`, `DeleteConn` and `KickUserConn` the RPC handler; `Close` and
`UnRegister` are the locked part and the sending of a `Client`, which waits for
room in `unregisterChan`. When a client is registered the event loop also waits for the
other gateways to answer `MultiTerminalLoginCheck` (`ws_server.go:281-298`). That wait
is not kept: it ends by itself and changes nothing here, and what another gateway asks of
this one is `KickElsewhere`. `LoopComesBack` therefore speaks of the channels of one
gateway, and not of gateways that wait for each other.

### Online

Each gateway has a map and reports on their way to Redis; Redis a set of
platforms with leases; each change is published to the gateways and to the push
service. `Renew` is the ticker that reports again, `LeaseEnds` the end of a lease,
`SetUserOnlineFails`, `PublishFails` and a full channel drop a report,
`Crash` empties a gateway. `spoiled` records that the push service had no way to
know of a change.

### MsgSyncer

The goroutine of `MsgSyncer`: a push that follows, that leaves a gap, or that is
old; `connected`, wake-up and manual synchronisation with the comparison of all
numbers, batches of conversations, the split of a pull and the pull of a new
installation; `startSync`'s pause of five seconds (`syncing`); the bounded
channels to and from it. Who puts an event or a push into its channel gives up after ten
seconds without room, and the event is gone (`PutInbox`). Around it: a server that numbers, writes and pushes in
this order, and the goroutine of the conversations that stores chat messages and
starts a goroutine per notification. `lost`, `base` and `owed` record the causes
for which the code gives a message up.

### FriendSync

On the server a handler writes the row (`WriteRow`), then the log (`LogVersion`), then
removes the cached version and notifies (`Uncache`), without a transaction; it may fail
after each of them, and what is written stays (`HandlerFails`). It inserts, deletes,
updates or pins a friend; pins come first in the order of the rows, so that pinning moves
a row, to any place in the model. `UpdateFriends` writes the log also when there is no
such friend. A client asks with its version and is
answered with the elements of the log above it, with everything when there are
too many or it is behind, and reads the rows afterwards. The client applies the
answer or deletes all and reads pages, until one is short or there are `MaxItems`
friends (`friendSyncLimit`, 10000). The request for the order (`FullID`) before the
version is written is one step with it, and may fail. Two synchronisations may run at once, as
in the code: one under `relationSyncMutex`, one of `syncData` without it.
`failed`, `overlap`, `holes` and `dirty` are history. `overlap` is set when two
synchronisations get in each other's way: one applies an answer, or reads a page,
after the other moved the version, or deletes everything while the other is
reading pages or holds an answer with changes. `holes` is set when a row is
deleted or pinned between two pages, which moves others, and when there are rows behind
the last page that is read. `dirty` holds the friends whose newest change is not in the
log, because its handler is not so far or has failed.

What the module shows of the code besides its properties: a change whose handler fails
before the log is never sent to a client that reads changes; rows beyond the limit are
missing under the newest version; an update of a friend who has just been deleted
replaces "deleted" in the log by "updated", finds no row, and the client keeps him.

### LongConn

`reader` is `readPump` with `reConn` (`Loop` to `Announce` when there is no
connection, `ReadFrame` and the `Handle...` actions when there is), `writer` is
`writePump` with the attempts of `writeBinaryMsgAndRetry` and the wait for an
answer. `status` is what the client thinks of its connection, `link` whether it
works. `Shut` is `close`, which the reader, the writer (`WriteFailed`,
`WriterEnds`) and the application (`NetworkChanged`) call on whatever connection
there is. A request waits for room (`Enqueue`), is written, and its caller is told
(`Told`) by the writer or by its own context; `table` holds the requests whose
answers are still wanted. The goroutine of `MsgSyncer` takes events from the
bounded `recvCh` and does nothing while its own request is under way. The lock
`connWrite` is held by the reader from `Dial` to `Announce`.

A call for the status of a user finds an entry or makes one (`AskStatus`) and
writes a message that subscribes to it and ends the subscriptions nobody wants any
more (`WriteSubInfo`); the gateway subscribes, reads the status and answers in
separate steps, between which a change may be pushed (`Turn`). `noticed` and
`excused` are history.

Not kept: pings (that a lost link is noticed at last is `ReadFails`, that the
gateway gives up a client that has logged out is `LinkExpires`), the pauses between
attempts, encodings, messages the client cannot parse. What the module shows of the
code besides its properties: the set `sub` is never filled, so subscriptions are
not renewed after a reconnect; a request that waits for room when the writer ends
panics on the closed channel; a request whose writer ended stays in the channel and
its caller returns only because its context ends with the session.

### ReadCursors

One group conversation from the side of one user, whose own cursor the code
skips everywhere. `inGroup` is on the server. The positions it names, in receipts
and in the answer to a synchronisation, are any: a receipt names what the request
or Redis says (`MarkConversationAsRead`), the answer what MongoDB holds, which lags
behind, may go back when two write at once, and may be a position of another
conversation (finding 5). `named` keeps the highest named for each member. `cursor` and `allRead` the two tables of the
SDK, `shown` what the application was told last. Every notification, every
synchronisation and every call of the application is a goroutine (`go`); each of
its steps is one database access, and between two steps others run. Starting a
goroutine includes the delay of the notification that causes it. Receipts are
not stored and are missed by a client that is not connected; notifications of
the group are stored and come sooner or later; a synchronisation fails only
without a connection.

Assumed: the conversation exists locally (deleting it keeps the row), the SDK's
list of members is up to date when it is asked, the server answers a record for
every member (they are created with the group conversation), database calls do
not fail. Single chats run the same function on two users.

## 3. What the runs check

All bounds are constants given in the `.cfg` files.

| Run | Module | Checks |
|---|---|---|
| `SeqExpiring` | `MCSeqConversation` | `EveryNumberOnce`: every number is in one place at most, so that none is handed out twice (`NoDuplicates` is part of it); `Implements`: the steps are those of `SeqAllocator`, although locks expire at any moment; `LaterIsHigherInTime`, `PeekIsCurrentInTime`: as long as no lock expired under its holder, who calls later gets higher numbers, and the batched question, which ignores the lock, never lags behind an answer |
| `SeqFaults` | `SeqConversation` | `DurableAbove`: nothing is handed out above `max_seq`; `EveryCallEnds`: every call comes back although a dead holder leaves its lock behind |
| `SeqLostReply` | `MCSeqConversation` | violated: `NoDuplicates` |
| `SeqMinReset` | `SeqConversation` | violated: `ClearedStaysHidden` |
| `Transfer` | `MCMsgTransfer` | `NothingSkipped`: no committed offset passes a message that is not handled; `OrderKept`; `KeepsTheLog`: the steps are those of `MsgLog`; `AllHandled` |
| `TransferFaults` | `MCMsgTransfer` | `PushedIsReadable`; `ConversationBeforePush`; `AllHandled` |
| `TransferTwice` | `MCMsgTransfer` | violated: `StoredOnce` |
| `Cursors` | `MCReadCursors` | `TypeOK`; `NoEyeTooEarly`: nothing is shown as read by all before the server has named such a position for each member, in every interleaving; `StateIsLeastCursorInTurn` and `SubscriberIsUpToDate`: goroutines that run one after the other keep the read state exact |
| `CursorsRace` | `MCReadCursors` | violated: `StateIsLeastCursor` |
| `Client` | `MCClient` | messages: `NothingPassedOver`, `LatestIsStored`, `QueuedAreNew`, `CatchesUp`; friends: `VersionIsHonest`, `NewestInTheEnd`; connection: `KnownIsTrue`, `RestInTheEnd`; `ClientTypeOK` |
| `Server` | `MCServer` | tokens: `LimitKept`, `NewestStaysValid`, `KickedStaysKicked`; gateway: `OneTerminal`, `QuietIsRight`, `LoopComesBack`; online status: `OnlineInTheEnd`, `PushInTheEnd`; read positions: `OnlyReadIsStored`, `PositionStays`; message store: `NothingStoredIsLost`, `CallsAreTold`; `ServerTypeOK` |
| `ReadMixed` | `ReadPositions` | violated: `PositionWasRead` |

`MCClient` and `MCServer` hold modules that share no state. A constant of each
behaviour, `studied`, says which of them moves; the others stay in their first
state, where nothing their fairness is about is enabled. So each module is
explored on its own, and the state spaces add up (some 1.5 million states for each of
them) instead of multiplying. `LongConn` moves in three parts: requests, a logout,
and questions for the status; each with all that happens to the connection. The
type invariants of `SeqConversation` and `MsgTransfer` are not checked by a run:
they are proved (`TypeCorrect`, `TransferTypeCorrect`).

### Bounds

| Part | Instance | Enough for |
|---|---|---|
| allocation | `SeqExpiring`: 3 callers, 3 calls, blocks of 1 and 3 from blocks of 2 and 4, 2 lock values, 2 rounds of `setSeqRetry`; `SeqFaults`: 2 callers, clearing, all faults | a holder, one that takes over its expired lock, and one that sees the result of both; a block used up in the middle (refill and join) and one left with a rest; one retry and the last |
| transfer | 2 partitions with two and one messages, 2 workers, batches of up to 3, an insert limit of 2, a crash; with faults one key with a message, a notification shown as a message and a signal, and a limit of 1 | a batch that marks only one of its partitions; jobs that end in either order; a limit that bites; each call failing in either part |
| read receipts | 2 other members, 2 goroutines at a time, 3 in all, seqs up to 2 | two that overlap and one before or after: receipt against receipt, receipt against leave, synchronisation against deletion |
| messages | a chat and a notification conversation, 2 messages of a conversation and 3 in all, 2 connections, wake-ups or crashes, channels of one place, pulls of 1 and 2 | a gap behind a push, a pull that splits, a full channel with a second push, a reconnect after a crash; a number announced before its message |
| friends | 3 friends, 3 changes, 2 handlers, answers of 2 elements, pages of one, 2 in a full synchronisation, 1 connection or failure of a request or handler | a log that is too long, also by the element of the order; a second page after a deletion or a pin; a third row beyond the limit; two changes of one friend whose logs cross, or of which the first is not logged. The first change is an insertion, and the second begins after it |
| connection | channels of one place, 2 attempts to write, 1 loss, failure, kick or change of the network, 1 pushed message; 3 requests (one of `MsgSyncer`, and two of the application or a logout); 2 questions about 2 users, 1 change of a status | a full `recvCh` while `MsgSyncer` waits; a request that waits for room behind one that is not answered; a logout during `Dial`; an answer overtaken by a change; two questions whose messages cross. Questions are alike and begin in order, as friends are changed for the first time in a fixed order |
| tokens | 2 devices (of one class where the policy speaks of classes), 3 logins, 1 forced logout, 1 waiting connection, a caller and the event loop, 4 policies | a login that finds two older tokens; an invalidation between the read and the write of a login. The first login is on Android where the policy treats both alike; connections come and go only while no two operations have overlapped, after which the properties claim nothing |
| gateway | 2 `Client` objects, 3 connections, channels of 2 places, 1 kick | an object used again while its old reader and a kick still refer to it; a full `unregisterChan` |
| online status | 2 gateways, 2 platforms, 3 connections made or closed, 1 dropped report, 1 crash; `Renew` only while none of the gateway's reports is under way | both gateways reporting one platform; two publications that cross; a lease that ends |
| read positions | 2 conversations, one of them private, a request and the sender's worker, numbers up to 2, 3 requests, 1 loss | two writers of a copy, a receipt overtaken by a later one, receipts of two conversations in a batch, an expiry before a receipt arrives |
| message store | 3 messages, documents of two, 2 clients, 2 calls, 1 failure; the calls are about one number, the last of the first document or the first of the second, and the second client begins while the first works | a document created by a revocation before the insert and one created by the insert; an update and a creation in one list; a reader that fills a copy between a mark and its `DelMessageBySeqs` |

Where a run does not check for deadlock, the model really stops: all
bounded calls, messages or events have been used up.

### Exceptions

Several promises hold only until something named happens. The properties
name it, by a history variable that is set by nothing else:

| Property | Excuses |
|---|---|
| `LaterIsHigherInTime`, `PeekIsCurrentInTime` | `late`: a lock expired under its holder. A slow holder answers with an old block, and the promise of `docs/02-seq-design.md:14` fails |
| `EveryNumberOnce`, `Implements` | (run `SeqExpiring`) no answer of `setSeq` is lost |
| `NothingSkipped`, `OrderKept`, `AllHandled`, `PushedIsReadable` | `failed`: the call in question failed for this message; the code logs it and goes on |
| `ConversationBeforePush` | `hurt`: the job that took the first numbers broke down, or they were used up in an allocation that failed; nobody then sees the answer 0, and the conversation is indeed never created |
| `NoEyeTooEarly` | until a cursor of a member is missing (`complete`) |
| `StateIsLeastCursorInTurn`, `SubscriberIsUpToDate` | `overlapped`: two goroutines ran at once |
| `NothingPassedOver`, `LatestIsStored` | `lost`: a number that had no message when it was pulled, a conversation missing from an answer, a full channel, a crash of the goroutine of a notification, a failed batch of a new installation |
| `QueuedAreNew` | `base`: what a new installation skips |
| `CatchesUp` | `owed`: a synchronisation was ignored (less than five seconds after the last) or failed, or a push or an event was given up at a full `recvCh`; until the next synchronisation |
| `VersionIsHonest`, `NewestInTheEnd` | `overlap`: two synchronisations of the client at once (an answer applied to another version than it was made for, or everything deleted while the other reads pages or holds changes); `holes` (the former): friends missed because rows moved between two pages or were beyond the limit; `dirty` (the former): changes that are not in the log, for a time or because the handler failed; `Crossed`: the logs of two changes of one friend in the other order, or an update of somebody who is no friend; `failed` (the latter): a request or a handler failed |
| `KnownIsTrue` | `excused`: the entry came over from a connection whose end the reader did not see (`readPump` then calls no `onConnClosed`); an older message ended the subscription; the gateway could not read the status, or a change overtook the answer. Each ends with the next change that reaches the client, but not by itself |
| `LimitKept`, `KickedStaysKicked`, `NewestStaysValid` | `overlapped`; `excused`: a login failed half way, or a connection was registered after a later login |
| `QuietIsRight` | `early`: a client was unregistered before it was registered |
| `LoopComesBack` | `unregisterChan` is full: then the event loop waits for itself |
| `PushInTheEnd` | `spoiled`: a lease ended (nobody publishes it), a publication failed, or two crossed |
| `OnlyReadIsStored` | `mixed` (finding 5) |
| `PositionStays` | `mixed`; `raced`: two goroutines worked on the position at once; `lost` |
| `NothingStoredIsLost`, `CallsAreTold` | `erased`: a place that was emptied loses its marks; a message deleted before it is inserted comes back |

### Fairness

A weakly fair action is one the code takes by itself: the Go scheduler runs a
goroutine that can run, a call of a database or of another service is answered or
ends with an error, a ticker ticks, a lease or a key with a time to live ends.
What users, networks and machines do is never fair: calls, messages, connections,
crashes, failures.

- `SeqConversation!FairSpec`: the steps of the callers and the expiry of the hash
  (every key gets an EXPIRE).
- `MsgTransfer!FairSpec`: Kafka delivers, the ticker ticks, workers and consumers
  run.
- `SyncerFairness`: the server goes on writing and pushing what it numbered, the
  goroutines of the client run, a request without a connection ends, the pause of
  `startSync` passes. `FriendFairness`: handlers and synchronisations run on,
  notifications are handled.
- `LongConnFairness`: the reader and the writer run, their time-outs (sending an
  event, waiting for an answer) and those of the callers pass, a logout that was
  asked for is carried out, and the gateway gives up a connection without pings. A
  gateway need not answer, a push need not come, and `MsgSyncer` need not take
  its next event.
- `GatewayFairness`: the event loop and the goroutines that close connections.
  `OnlineFairness`: tickers, requests, publications, and the end of leases. A lease
  is half an hour and renewed three times in it: it ends only when no gateway
  holds the platform or is about to report it, since renewals are not dropped that
  long.

### Disagreements found

1. **`SeqLostReply`.** `setSeqRetry` repeats a script that is not idempotent:
   when only the answer was lost, others took numbers and the hash went away,
   the second try finds no hash (`EXISTS` = 0), writes the old CURR back, and
   numbers are repeated. In the trace one call takes the block 1-2 and loses the
   answer, a second takes number 2, the hash goes, the first tries again, and a
   third is given number 2 once more.
2. **`SeqMinReset`.** Taking a block from MongoDB sets `min_seq` to 0, so a
   cleared conversation shows its old messages again.
3. **`TransferTwice`.** A batch read again after a crash gets new numbers; the
   same message is stored and pushed twice.
4. **`CursorsRace`.** Two goroutines that recalculate at the same time leave a read
   state that is not the least cursor. In the run a receipt of a member writes his
   cursor and computes the least, 1; his leaving deletes the cursor and finds the
   read state, still 0, right; then the receipt writes 1, with no cursor left.
5. **`ReadMixed`.** The receipts of all groups of a user have one key, and
   `doSetReadSeq` writes the highest position of a batch to the conversation of
   its last receipt: a group gets the position of another one, which the user
   has not read there.

## 4. What is proved

For all values of the constants, from the assumptions the modules state about
them (`CursorsAssumption`, `GatewayAssumption`, ...): bounds are natural numbers,
channels have room for something, names of different things differ. `MCSpec` of
`MCSeqConversation` is the specification with the history `late`; those of `MCServer`
and `MCClient` let one of several parts move. Every invariant a passing run checks is
the property of a theorem.

| Theorem | States | In |
|---|---|---|
| `TypeCorrect` | `Spec => []TypeOK` | `SeqConversationProofs` |
| `NumbersAreDurable` | `Spec => []DurableAbove` | |
| `PlacesAreDistinct` | `Spec => []EveryNumberOnce`, if `~LostReplies` | |
| `SeqsAreUnique` | `Spec => []NoDuplicates`, if `~LostReplies` | |
| `NumbersFollowTime` | `MCSpec => []LaterIsHigherInTime`, if `~LostReplies` | |
| `PeeksAreCurrent` | `MCSpec => []PeekIsCurrentInTime`, if `~LostReplies` | |
| `AllocatorIsImplemented` | `Spec => Implements`, if `~LostReplies` | |
| `NoMessageIsSkipped` | `Spec => []NothingSkipped` | `MsgTransferProofs` |
| `NumbersFollowTheTopic` | `Spec => []OrderKept` | |
| `TransferTypeCorrect` | `Spec => []TypeOK` | |
| `PushedCanBeRead` | `Spec => []PushedIsReadable` | |
| `CreatedBeforePush` | `Spec => []ConversationBeforePush` | |
| `LogIsKept` | `Spec => KeepsTheLog` | |
| `NumbersAreNotReused` | `Spec => []Log!OneMessagePerNumber` | |
| `OnlyOwnIsRead` | `Spec => []OwnIsRead` | |
| `CommitsNeverGoBack` | `Spec => [][CommitForward]_vars` | |
| `PositionsTypeCorrect` | `ReadPositionsSpec => []ReadPositionsTypeOK` | `ServerProofs` |
| `StoredWasRead` | `ReadPositionsSpec => []OnlyReadIsStored` | |
| `PositionDoesNotMoveBack` | `ReadPositionsSpec => PositionStays` | |
| `OneClientOfATerminal` | `GatewaySpec => []OneTerminal` | |
| `GatewayTypeCorrect` | `GatewaySpec => []GatewayTypeOK` | |
| `QuietMapIsRight` | `GatewaySpec => []QuietIsRight` | |
| `TokensTypeCorrect` | `TokensSpec => []TokensTypeOK` | |
| `ValidTokensAreLimited` | `TokensSpec => []LimitKept` | |
| `NewestTokenIsValid` | `TokensSpec => []NewestStaysValid` | |
| `KickedTokenStaysKicked` | `TokensSpec => KickedStaysKicked` | |
| `InsertedIsStored` | `MsgStoreSpec => []NothingStoredIsLost` | |
| `ReadersAreTold` | `MsgStoreSpec => []CallsAreTold` | |
| `OnlineTypeCorrect` | `OnlineSpec => []OnlineTypeOK` | |
| `PushLagsOnePublication` | `OnlineSpec => []PushIsCurrent` | |
| `ServerTypeCorrect` | `MCSpec => []ServerTypeOK` of `MCServer` | |
| `SyncerInvariant` | `SyncerSpec => []SyncerInv` | `ClientProofs` |
| `NoNotificationPassedOver` | `SyncerSpec => []NothingPassedOver` | |
| `NewestOfChatIsStored` | `SyncerSpec => []LatestIsStored` | |
| `QueueHoldsOnlyNew` | `SyncerSpec => []QueuedAreNew` | |
| `VersionTellsTheTruth` | `FriendSpec => []VersionIsHonest` | |
| `ConnTypeCorrect` | `LongConnSpec => []LongConnTypeOK` | |
| `KnownStatusIsTrue` | `LongConnSpec => []KnownIsTrue` | |
| `NoConnectionIsLeft` | `LongConnSpec => []OneConnection` | |
| `NoCallerIsForgotten` | `LongConnSpec => []NobodyForgotten` | |
| `FriendTypeCorrect` | `FriendSpec => []FriendTypeOK` | |
| `ClientTypeCorrect` | `MCSpec => []ClientTypeOK` of `MCClient` | |
| `CursorsTypeCorrect` | `Spec => []TypeOK` | `ReadCursorsProofs` |
| `NothingShownTooEarly` | `Spec => []NoEyeTooEarly` | |
| `StateFollowsCursors` | `Spec => []StateIsLeastCursorInTurn` | |
| `SubscriberFollowsState` | `Spec => []SubscriberIsUpToDate` | |

The arguments.

**Numbers.** `NoDuplicates` speaks of answers only and is not inductive: a
number may come back from a caller's hand or from the cache. The invariant
therefore follows each number: it is in at most one of an answer, the interval
(curr, last] a caller has in hand, and the interval left in the cache
(`AnswersApart`, `HandsApart`), and all of them end at or below `maxSeq`
(`Bounded`, `InHand`). `Sound` (types, `Bounded`, `InHand`) is inductive by
itself, even with lost answers, and gives `TypeCorrect` and `NumbersAreDurable`.
`Unique` adds the disjointness. A step moves an interval from one place to another
(the script: cache to hand; `SetSeq`: hand to cache and answer; `Return`: hand to
log) or adds numbers above `maxSeq` (`MongoMalloc`); the lemmas `Move`,
`AboveAway`, `PartAway` say that each of these keeps the others apart, and
`SetSeq` is where `~LostReplies` is used: a hand that was written back once must
not be written back again. The refinement follows from `Unique`, as `Return` is
the only step that changes the log.

That later calls get higher numbers holds only while no lock expired under its
holder, so all of `TimeInv` but `Sound` is under `~late`. `OneHolder`: the caller
between the script and `setSeq` is the only one, and the lock in the cache is its
own. `CurrIsAhead`: the CURR of the cache is not below anything told or about to
be told, also while it is locked, as long as the holder lives; a holder that died
leaves a hash that can only expire. `NotBehind` carries `since` of a call through
its steps: what it has in hand is not below what was known when it began, and what
it will write back with `setSeq` is not below what was answered meanwhile.

**Transfer.** An offset is committed when all jobs of the batch have ended, and
`NothingSkipped` alone says nothing of the jobs. `SkipInv` has `Covered`: what has
been read of a partition is handled or in the batch; `BatchWasRead` and `InLists`:
the jobs' lists hold the batch; and `JobOK`: for each step a job can stand at,
which of its messages are handled by then. When no worker has a job left, the
batch is handled. `OrderInv` adds that lists are in the order of the partition,
and `Before(k)`: a message before those of a list was dropped or has a number
given before the job took its own. `PushInv` adds that a message about to be
pushed is in the cache and its sender's position is raised (`Raised`), and that
the numbers from 0 on went to the job that creates the conversation (`Founded`).

That the readers of a conversation see a log (`LogIsKept`) does not follow from the
order of the numbers alone. A job takes its numbers in one step and puts the messages
into the cache one by one; the log would break if, between two of them, the cache
held a message of the conversation with a higher number, for then a gap would be
filled behind a reader's back. `AtEnd(k)` says that it holds none: what is cached of
the conversation ends where the job is. It starts at `Malloc` (what is cached has
numbers that were given, `CachedTyped`, and the new ones are above all of these)
and is kept because a key has one job at a time, whatever becomes of the job: a gap it
leaves behind stays one. `Shipped` says that toMongo and MongoDB hold only what is
cached, which needs `JobOK`: a job sends on what it has put there. The mapping of steps is
then short: `Malloc` is `Number`, `SetMessage` is `Show`, the consumer of toMongo
is `Keep`, and all others are `Tell` or change nothing of the log. That a number has
one message (`NumbersAreNotReused`) is proved of `MsgLog` alone and carried over by
the refinement: a theorem about every log, whatever implements it. Both rest on the
allocation being what `Malloc` of this module is, numbers above all earlier ones, which
`NumbersFollowTime` gives as long as no lock has expired under its holder; and on
messages of a key being in one partition, which one member of the group reads.

`OnlyOwnIsRead` (a position the service sets in Redis is the number of a readable
message of the user's own) comes from the order of a job: all messages are cached
before `SetHasReadSeqs` takes the positions from their numbers (`JobOK`), and only
chats set positions (`ChatsOnly`). `CommitsNeverGoBack` needs what the batch holds to
come after what is committed of its partition (`NeverBehind`), which a crash keeps as
it brings the reading back to the committed offset and no further.

**Read positions.** `WasRead` says of every place a position can be (the copies,
the hands of the goroutines, the receipts, the channel, the writers) that the user
claimed it, outside `mixed`; all steps move positions among these places.
`PositionStays` needs in addition who may still write a smaller one: `InTurn(c)`
says, for a conversation that is not in `mixed`, `raced` or `lost`, that at most
one task and one writer are at work, that what they set is not below what is
answered, and that whatever Redis knows and MongoDB does not is still on its way
(`Reaches`), so that an expired copy moves nothing back.

**Gateway.** The event loop takes the old clients of the map when it begins with a
new one and adds it when it has closed them. `OneOrNone` says that the map is
empty of others in between: only the loop adds, and it handles one client at a
time.

`QuietIsRight` says nothing unless all is quiet; `GatewayInv` says it of every
state. A `Client` object that was closed is in one place only (`OneStage`): the hand
of the goroutine that closes it, `unregisterChan`, or the pool; so an address
belongs to one object (`Addresses`), whatever the object was used for before. An
open client is in the map, in `registerChan` or in the hand of somebody who will
put it there or close it (`OpenIsKnown`). `Counted` counts the connections in two
ways: what has been registered and what has been unregistered, each with what is on
its way; it also bounds `onlineUserConnNum`, which is negative when a client is
unregistered before it is registered. That nobody in the map is in the pool
(`KnownIsUsed`) holds only until this has happened (`early`).

**Tokens.** An operation is several calls of Redis, and each may be the last. All of
`TokensInv` but the types holds while no two operations have overlapped. `Fresh`: a
map that is to be written whole makes no token valid that is not; this is
`KickedStaysKicked`, as `SetTokenMapByUidPid` is the only way back. `RoomForNew`: a
login that has chosen what to kick leaves room for one token more; it does not
follow from `WithinLimit`, and `LimitKept` alone would not survive `SetToken`.
`NewestHolds` lets the newest token be invalid only while a login of its platform is
about to replace it, and `NewestKept` says that what the event loop preserves, and
what the map it is about to write still holds, is the newest.

**Message store.** Neither property is inductive: a revocation between its write
and `DelMessageBySeqs` is in MongoDB and not in the copy, and a reader holds what
it has read while others write. `StoreInv` says of the consumer which numbers of
its list are stored by now (`Inserting`), of a client what it has written
(`Serving`), and of a reader that what it holds is as good as a copy as long as the
lock is its own: `DelMessageBySeqs` takes the lock away, and a copy cannot be
set without it. `Sent` and `SlotsKnown` tie lists and copies to what was sent.

**Message synchronisation.** The three properties hold each other up. That nothing is
passed over when the process starts again from the seq it stored
(`NothingSkippedByStore`) needs the queue to be in increasing order
(`QueueInOrder`); that it is needs every range still to be pulled to begin above all
that was handed on (`RangesAreNew`); and that no range is handed on twice needs the
batches of a synchronisation to be apart (`BatchesApart`), since `synced` is moved
batch by batch. `RangesAreNew` also says that such a range begins just after
`synced`: what the goroutine is about to pull covers the gap. `LatestReached` treats
a new installation apart: its last batch marks all chats as synchronised, whether
their own batches failed or are still to come.

**Versions.** `VersionIsHonest` speaks of the client's database at rest; the invariant
`FriendInv` follows the truth from the log to the database. A friend is `SettledAt` a
version when its newest change is in the log, not above the version, and did not
cross another. Every step of the server makes fewer friends settled or leaves their
rows alone (`ServerMoves`), which takes care of all that may be written between the
log and the rows of an answer. `AnswerTrue`: what an answer says of a settled friend
is the row, and a friend it is silent about did not change since `from`. `PageTrue`:
while pages are read, a settled friend is there already or at an index that is still
to come, unless rows moved or the last page was not the end (`holes`). A change whose
handler failed leaves its friend unsettled for good (`dirty`). `IntactWhere` says where the database is what its
version says, and this is the part that is easily got wrong: not when everything will
be sent again anyway (a full synchronisation that failed leaves half a list under the
old version), but then no answer with changes may wait to be applied on top of it
(`Alone`). That the limit, once exceeded, stays so (`TooManyStays`) is why a
failed full synchronisation is repeated and never followed by changes. An earlier
form of the model set `overlap` too rarely: with three friends TLC found
that one synchronisation may delete everything, while the other still holds an answer
with changes from the same version, which then moves the version over half a list.
For the types `CountsOK` follows each change from its handler (`Logging`, while it is
not in the log) to the notification, so that neither the version nor the number of
notifications passes the number of changes.

**Online status.** `KnownIsTrue` says nothing unless all is quiet; `KnownInv` says what
is on its way meanwhile. As long as the connection works, there is for every entry
(`OnItsWay`) a call that is about to write its subscription, a message on its way up
that subscribes and that no later one revokes, an answer the gateway has read and not
sent, or a user the gateway watches whose last frame on its way down, or else whose
entry, is true. `EntriesOK` takes care of reconnects: after an end the reader has
noticed, an entry that is there has not been written yet, so it will be on the new
connection. The runs take requests, logouts and questions apart; the theorem has
them all at once. The types need one fact about names (`RequestsAreNames`): a
request is no subscription, as both travel in `uplink`.

In the server (`Online`), liveness (`PushInTheEnd`) rests on a safety property that no
run needs to state: what the push service believes is what Redis says, or the one
publication under way brings it (`PushLagsOnePublication`), unless a lease ended, a
publication failed or two were under way at once. The script publishes only when one of
three counts differs, so the proof is about cardinalities: it counts before it removes,
after it removed and after it added, the set in the middle is contained in both others,
and of a finite set no proper subset has as many members (`SameNumberSameSet`).
Comparing the first with the last, as `NumberChangedMutant` does, would miss a platform that
replaces another. That no member has passed its score unnoticed (`NonePassed`) is why a
lease that ends must be excepted. There are finitely many platforms
(`OnlineAssumption`).

**Connections and callers.** The reader, the writer and the application close the connection, and `close` does
nothing unless it counts as connected; between Dial and `Established` it does not.
`LinkInv` says that this moment is the only one in which a connection is open without
counting as connected, and that it does not count as connected wherever the reader may
dial or has ended; so none is left open (`NoConnectionIsLeft`). `CallersInv` follows a
request from its caller through the channel to the writer: it is in one of these places
and once there, so that whoever waits is told, or gives up after the logout
(`NoCallerIsForgotten`): the safety half of `RestInTheEnd`.

**Read receipts.** `Early` says that no position in the tables or in the hand of a
goroutine is above what the server has named for the member, and that one meant for
all (at the steps put, compare and callback) is above that of no member, while no
cursor is missing: then the least cursor was named for everybody, and what is written late is
only too low. `InTurn` describes, for goroutines one after the other, what the one
that runs still owes (`Turn`): at most steps the read state is the least cursor; at
the others the goroutine holds what will make it so. `LeastOf` (a set of
numbers has a least one) rests on the well-foundedness of `<` in the library.

Only model-checked: the liveness properties (`EveryCallEnds`,
`AllHandled`, `CatchesUp`, `NewestInTheEnd`, `LoopComesBack`, `OnlineInTheEnd`,
`PushInTheEnd`, `RestInTheEnd`), which the provers do not reach, as they do not
reach ENABLED. Every inductive invariant named above was first checked by TLC, as an
invariant of the instances of section 3 or larger ones. Induction over data needs
theorems with operator parameters, which the provers at hand cannot instantiate, so
what a recursive definition computes for all inputs would be left to TLC as well;
the modules have none that a theorem depends on.

## 5. Not modelled

`PROJECT.json` lists every component with what is left out of it. The source
holds about 137,000 lines of implementation, most of them generated protocol
code (`src/protocol`), translations of requests and rows, single database
operations and their wrappers; these have no states of several steps to check.
Of the files the modules are mainly about (some 10,000 lines), the definitions
stand for more than a third; the rest of these files is logging, conversion, error
wrapping, interfaces and the parts named here:

- of the connection of the client SDK: pings as such, pauses between reconnects,
  encodings, several users in one question, the connection of browsers;
- the search for gaps in `message_check.go`, a function on lists of seqs read from
  the local database; `LatestIsStored` states what it starts from;
- the local caches of the services: a stale answer is bounded by the time to live
  only, so there is no safety property the code would keep;
- deleting whole documents and the periodic deletion of old messages; what they
  clear reaches `SeqConversation` as `SetMinSeqs`;
- several members of a consumer group and the moving of partitions between them;
- in `Gateway`: messages, heartbeats and subscriptions over a connection, several
  platforms in one map, the event loop's calls to other gateways; in `MsgStore`: an
  administrator's revocation of a placeholder; expiry of tokens, administrators;
- groups, conversations and users besides friends, whose tables the same code of
  versions synchronises;
- HTTP translation, webhooks, files, push providers, the JavaScript bindings.

## 6. What is left

In this order: the search for gaps of `message_check.go` as operators checked
against "every missing seq once"; rebalancing in `MsgTransfer`; the batches of
`IncrVersion` for several lists.

Theorems worth proving next: those of these modules. Of the modules at hand every
safety property that a run checks is proved; what would add to it are abstract
specifications, such as a list of friends that is copied in one step, with a
refinement like those of `SeqAllocator` and `MsgLog`.
