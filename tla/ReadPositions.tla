---------------------------- MODULE ReadPositions ---------------------------
(***************************************************************************)
(* How far one user has read, on the server: the requests of the message   *)
(* service (as_read.go), the copy in Redis (redis/seq_user.go), the        *)
(* receipts on their way through Kafka and msgtransfer, and the copy in    *)
(* MongoDB (mgo/seq_user.go), which other services read.                   *)
(*                                                                         *)
(* A receipt may wait in the queue of notifications as long as it likes,   *)
(* so msgtransfer may find any receipts in a batch, in any order.  The     *)
(* seqs listed in a request do not exceed the position it names.           *)
(***************************************************************************)
EXTENDS Integers, Sequences

CONSTANTS Conversations,
          Private,       \* single chats, whose receipts have a key of their own
          Requests,      \* goroutines of the message service
          Sender,        \* the worker of msgtransfer that stores messages
          Nil,           \* no value, nobody
          MaxSeq,        \* bounds: messages of a conversation,
          MaxRequests,   \* requests and messages of the user,
          MaxLosses      \* calls that fail

ASSUME ReadPositionsAssumption ==
  /\ Private \subseteq Conversations
  /\ Nil \notin Nat /\ Nil \notin Requests \cup {Sender}
  /\ {MaxSeq, MaxRequests, MaxLosses} \subseteq Nat

VARIABLES top,       \* the last number of each conversation
          claimed,   \* history: how far the user has said to have read, or sent
          redis,     \* the position in Redis, Nil when it is not there
          owner,     \* rockscache: who is to fill the value in
          mongo,     \* read_seq in MongoDB
          task,      \* what the goroutines that read and write Redis do
          receipts,  \* receipts on their way to msgtransfer
          sent,      \* conversationUserHasReadChan
          writers,   \* what the goroutines that write MongoDB do
          requests,  \* requests and messages of the user so far
          losses,    \* calls that failed so far
          mixed,     \* history: conversations whose receipts were mixed
          raced,     \* history: conversations two goroutines worked on at once
          lost       \* history: conversations of which a position was lost

chats == <<top, claimed>>
caches == <<redis, owner>>
queues == <<receipts, sent>>
counts == <<requests, losses>>
history == <<mixed, raced, lost>>
ReadPositionsVars ==
  <<chats, caches, mongo, task, queues, writers, counts, history>>

Tasks == Requests \cup {Sender}
Writers == {"receipts", "sent"}   \* doSetReadSeq, HandleUserHasReadSeqMessages
Idle == [pc |-> "idle"]

ReadPositionsInit ==
  /\ top = [c \in Conversations |-> 0] /\ claimed = top
  /\ redis = [c \in Conversations |-> Nil] /\ owner = redis
  /\ mongo = [c \in Conversations |-> 0]
  /\ task = [g \in Tasks |-> Idle] /\ writers = [w \in Writers |-> Idle]
  /\ receipts = {} /\ sent = <<>>
  /\ requests = 0 /\ losses = 0
  /\ mixed = {} /\ raced = {} /\ lost = {}

Position == 0..MaxSeq
Keys == Private \cup {Nil}
Receipt == [c : Conversations, s : Position, key : Keys]
Piece == [pc : {"look", "compare", "fill", "set", "done"}, c : Conversations,
          s : Position, keep : BOOLEAN, key : Keys, stage : {"look", "compare"},
          v : Position]
Writing == [pc : {"get", "set"}, c : Conversations, s : Position]

ReadPositionsTypeOK ==
  /\ top \in [Conversations -> Position] /\ claimed \in [Conversations -> Position]
  /\ redis \in [Conversations -> Position \cup {Nil}]
  /\ owner \in [Conversations -> Tasks \cup {Nil}]
  /\ mongo \in [Conversations -> Position]
  /\ task \in [Tasks -> {Idle} \cup Piece]
  /\ writers \in [Writers -> {Idle} \cup Writing]
  /\ receipts \subseteq Receipt
  /\ sent \in Seq([c : Conversations, s : Position])
  /\ requests \in 0..MaxRequests /\ losses \in 0..MaxLosses
  /\ {mixed, raced, lost} \subseteq SUBSET Conversations

Works(x, c) == x.pc # "idle" /\ x.c = c
Tasked(c) == \E g \in Tasks : Works(task[g], c)
Written(c) == \E w \in Writers : Works(writers[w], c)
Filling(c) == \E g \in Tasks : task[g].pc = "fill" /\ task[g].c = c

RacedIf(c, condition) == raced' = IF condition THEN raced \cup {c} ELSE raced
Claims(c, s) == claimed' = [claimed EXCEPT ![c] = IF s > @ THEN s ELSE @]

-----------------------------------------------------------------------------
(* The requests.  MarkConversationAsRead and MarkMsgsAsRead look at the     *)
(* position before they set it, SetConversationHasReadSeq does not.  That   *)
(* it is not above the last number is looked at by all but the first.  The  *)
(* receipt of a single chat has its key, unless it is of the last of them;  *)
(* all the others of the user have one key.                                 *)

Calls ==
  {"MarkConversationAsRead", "MarkMsgsAsRead", "SetConversationHasReadSeq"}

Stage(call) == IF call = "SetConversationHasReadSeq" THEN "compare" ELSE "look"

NewTask(stage, c, s, keep, key) ==
  [pc |-> stage, c |-> c, s |-> s, keep |-> keep, key |-> key,
   stage |-> stage, v |-> 0]

Request(r, c, call) ==
  /\ task[r].pc = "idle" /\ requests < MaxRequests
  /\ \E s \in Position \ {0} :
       /\ call # "MarkConversationAsRead" => s =< top[c]
       /\ task' = [task EXCEPT ![r] = NewTask(Stage(call), c, s,
                     call = "MarkConversationAsRead",
                     IF c \in Private /\ Stage(call) = "look" THEN c ELSE Nil)]
       /\ Claims(c, s)
  /\ RacedIf(c, Tasked(c))
  /\ requests' = requests + 1
  /\ UNCHANGED <<top, caches, mongo, queues, writers, losses, mixed, lost>>

(* A message of the user: BatchInsertChat2Cache, then SetHasReadSeqs.       *)
Send(c) ==
  /\ task[Sender].pc = "idle" /\ top[c] < MaxSeq /\ requests < MaxRequests
  /\ top' = [top EXCEPT ![c] = @ + 1] /\ Claims(c, top[c] + 1)
  /\ task' = [task EXCEPT ![Sender] =
                NewTask("compare", c, top[c] + 1, FALSE, Nil)]
  /\ RacedIf(c, Tasked(c))
  /\ requests' = requests + 1
  /\ UNCHANGED <<caches, mongo, queues, writers, losses, mixed, lost>>

(* A message of somebody else, which the same worker stores. *)
Receive(c) ==
  /\ task[Sender].pc = "idle" /\ top[c] < MaxSeq
  /\ top' = [top EXCEPT ![c] = @ + 1]
  /\ UNCHANGED <<claimed, caches, mongo, task, queues, writers, counts,
                 history>>

(* What a goroutine does when GetUserReadSeq has answered v: first the      *)
(* request compares, then SetUserReadSeq.  A position that is not higher is *)
(* not set, and the receipt of MarkConversationAsRead then names the old.   *)
Answered(a, stage, v) ==
  IF a.s > v
  THEN [a EXCEPT !.pc = IF stage = "look" THEN "compare" ELSE "set"]
  ELSE [a EXCEPT !.pc = "done", !.s = IF stage = "look" /\ a.keep THEN v ELSE @]

GetUserReadSeq(g) ==
  LET a == task[g] IN
  /\ a.pc \in {"look", "compare"} /\ redis[a.c] # Nil
  /\ task' = [task EXCEPT ![g] = Answered(a, a.pc, redis[a.c])]
  /\ UNCHANGED <<chats, caches, mongo, queues, writers, counts, history>>

(* A value that is not in Redis is read from MongoDB and then filled in, by *)
(* one goroutine at a time.                                                 *)
Miss(g) ==
  LET a == task[g] IN
  /\ a.pc \in {"look", "compare"} /\ redis[a.c] = Nil /\ owner[a.c] = Nil
  /\ owner' = [owner EXCEPT ![a.c] = g]
  /\ task' = [task EXCEPT ![g] =
                [a EXCEPT !.pc = "fill", !.stage = a.pc, !.v = mongo[a.c]]]
  /\ RacedIf(a.c, Written(a.c))
  /\ UNCHANGED <<chats, redis, mongo, queues, writers, counts, mixed, lost>>

Fill(g) ==
  LET a == task[g] IN
  /\ a.pc = "fill" /\ owner[a.c] = g
  /\ owner' = [owner EXCEPT ![a.c] = Nil]
  /\ redis' = [redis EXCEPT ![a.c] = a.v]
  /\ task' = [task EXCEPT ![g] = Answered(a, a.stage, a.v)]
  /\ UNCHANGED <<chats, mongo, queues, writers, counts, history>>

RawSet(g) ==
  LET a == task[g] IN
  /\ a.pc = "set"
  /\ redis' = [redis EXCEPT ![a.c] = a.s]
  /\ task' = [task EXCEPT ![g].pc = "done"]
  /\ UNCHANGED <<chats, owner, mongo, queues, writers, counts, history>>

(* sendMarkAsReadNotification, or the channel of msgtransfer. *)
Pass(g) ==
  LET a == task[g] IN
  /\ a.pc = "done"
  /\ task' = [task EXCEPT ![g] = Idle]
  /\ IF g = Sender
     THEN sent' = Append(sent, [c |-> a.c, s |-> a.s]) /\ UNCHANGED receipts
     ELSE /\ receipts' = receipts \cup {[c |-> a.c, s |-> a.s, key |-> a.key]}
          /\ UNCHANGED sent
  /\ UNCHANGED <<chats, caches, mongo, writers, counts, history>>

(* A call of a request fails, or the message service ends: without a        *)
(* receipt.  msgtransfer only logs that it cannot set the position.         *)
Fail(g) ==
  LET a == task[g] IN
  /\ a.pc # "idle" /\ losses < MaxLosses /\ losses' = losses + 1
  /\ IF g = Sender
     THEN task' = [task EXCEPT ![g].pc = "done"]
     ELSE task' = [task EXCEPT ![g] = Idle]
  /\ owner' = [owner EXCEPT ![a.c] = IF @ = g THEN Nil ELSE @]
  /\ lost' = lost \cup {a.c}
  /\ UNCHANGED <<chats, redis, mongo, queues, writers, requests, mixed, raced>>

-----------------------------------------------------------------------------
(* msgtransfer. *)

Loses(c) == losses < MaxLosses /\ losses' = losses + 1 /\ lost' = lost \cup {c}

LoseReceipt(x) ==
  /\ x \in receipts /\ receipts' = receipts \ {x} /\ Loses(x.c)
  /\ UNCHANGED <<chats, caches, mongo, task, sent, writers, requests, mixed,
                 raced>>

Highest(batch) == {x \in batch : \A y \in batch : y.s =< x.s}

(* Mutant: the number after the last one read. *)
DoSetReadSeqMutant(batch, last) ==
  {[c |-> last.c, s |-> x.s + 1] : x \in Highest(batch)}

(* doSetReadSeq: the conversation of the last receipt, and the highest      *)
(* position of all.                                                         *)
DoSetReadSeq(batch, last) ==
  {[c |-> last.c, s |-> x.s] : x \in Highest(batch)}

Writes(w, x) ==
  /\ writers[w].pc = "idle"
  /\ writers' = [writers EXCEPT ![w] = [pc |-> "get", c |-> x.c, s |-> x.s]]
  /\ RacedIf(x.c, Written(x.c) \/ Filling(x.c))

(* The receipts of a batch have one key. *)
HandleReceipts ==
  /\ \E last \in receipts : \E batch \in SUBSET receipts :
       /\ last \in batch /\ \A x \in batch : x.key = last.key
       /\ receipts' = receipts \ batch
       /\ mixed' = IF \A x \in batch : x.c = last.c
                   THEN mixed ELSE mixed \cup {x.c : x \in batch}
       /\ \E x \in DoSetReadSeq(batch, last) : Writes("receipts", x)
  /\ UNCHANGED <<chats, caches, mongo, task, sent, counts, lost>>

HandleSent ==
  /\ sent # <<>> /\ sent' = Tail(sent)
  /\ Writes("sent", Head(sent))
  /\ UNCHANGED <<chats, caches, mongo, task, receipts, counts, mixed, lost>>

(* Mutant: the position is not compared. *)
WriterGetsMutant(w) ==
  /\ writers[w].pc = "get"
  /\ writers' = [writers EXCEPT ![w].pc = "set"]
  /\ UNCHANGED <<chats, caches, mongo, task, queues, counts, history>>

(* SetUserReadSeq of MongoDB: reads, then writes what is not lower. *)
WriterGets(w) ==
  /\ writers[w].pc = "get"
  /\ writers' = [writers EXCEPT ![w] =
       IF mongo[@.c] > @.s THEN Idle ELSE [@ EXCEPT !.pc = "set"]]
  /\ UNCHANGED <<chats, caches, mongo, task, queues, counts, history>>

WriterSets(w) ==
  LET a == writers[w] IN
  /\ a.pc = "set"
  /\ mongo' = [mongo EXCEPT ![a.c] = a.s]
  /\ writers' = [writers EXCEPT ![w] = Idle]
  /\ UNCHANGED <<chats, caches, task, queues, counts, history>>

WriterFails(w) ==
  /\ writers[w].pc # "idle" /\ Loses(writers[w].c)
  /\ writers' = [writers EXCEPT ![w] = Idle]
  /\ UNCHANGED <<chats, caches, mongo, task, queues, requests, mixed, raced>>

(* The value in Redis expires after thirty days without a new one: nothing  *)
(* about the conversation is on its way any more.                           *)
Calm(c) ==
  /\ ~Tasked(c) /\ ~Written(c)
  /\ \A x \in receipts : x.c # c
  /\ \A i \in 1..Len(sent) : sent[i].c # c

Expire(c) ==
  /\ redis[c] # Nil /\ Calm(c)
  /\ redis' = [redis EXCEPT ![c] = Nil]
  /\ UNCHANGED <<chats, owner, mongo, task, queues, writers, counts, history>>

ReadPositionsNext ==
  \/ \E r \in Requests, c \in Conversations, call \in Calls :
       Request(r, c, call)
  \/ \E c \in Conversations : Send(c) \/ Receive(c) \/ Expire(c)
  \/ \E g \in Tasks : \/ GetUserReadSeq(g) \/ Miss(g) \/ Fill(g) \/ RawSet(g)
                      \/ Pass(g) \/ Fail(g)
  \/ \E x \in receipts : LoseReceipt(x)
  \/ HandleReceipts \/ HandleSent
  \/ \E w \in Writers : WriterGets(w) \/ WriterSets(w) \/ WriterFails(w)

ReadPositionsSpec ==
  ReadPositionsInit /\ [][ReadPositionsNext]_ReadPositionsVars

-----------------------------------------------------------------------------
(* No copy names more than the user has read or sent: what MongoDB says is  *)
(* shown to the other members of a group.                                   *)
PositionWasRead ==
  \A c \in Conversations : /\ redis[c] # Nil => redis[c] =< claimed[c]
                           /\ mongo[c] =< claimed[c]

(* The same for all conversations whose receipts never shared a batch with  *)
(* those of another one, whatever calls overlap, fail or are lost.          *)
OnlyReadIsStored ==
  \A c \in Conversations \ mixed : /\ redis[c] # Nil => redis[c] =< claimed[c]
                                   /\ mongo[c] =< claimed[c]

(* The position the server answers does not move back, neither by a smaller *)
(* request nor by a late receipt nor when the copy in Redis expires, unless *)
(* two goroutines worked on the conversation at once, a position was lost   *)
(* on its way or receipts were mixed.                                       *)
Answer(c) == IF redis[c] # Nil THEN redis[c] ELSE mongo[c]

PositionStays ==
  [][\A c \in Conversations :
       c \notin (mixed \cup raced \cup lost)' => Answer(c)' >= Answer(c)
    ]_ReadPositionsVars
=============================================================================
