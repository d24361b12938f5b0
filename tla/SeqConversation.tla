-------------------------- MODULE SeqConversation ---------------------------
(***************************************************************************)
(* Allocation of the sequence numbers of one conversation.                 *)
(*                                                                         *)
(* A Redis hash caches a block of numbers taken from MongoDB.  Callers     *)
(* (the msgtransfer workers that store messages, the RPC handlers that ask *)
(* for the highest number) run a Lua script on the hash; the caller that   *)
(* finds it missing or used up locks it, takes a new block from MongoDB    *)
(* and writes the rest of the block back.  The lock is a field of the hash *)
(* and goes with the hash when its time to live is over.                   *)
(*                                                                         *)
(* Conversations do not share state, so one is modelled.                   *)
(***************************************************************************)
EXTENDS Integers, Sequences

CONSTANTS
    Caller,         \* the goroutines that use the cache
    Sizes,          \* numbers of messages a writer allocates for
    Basic,          \* what getMallocSize adds to the size (100 or 50)
    LockValues,     \* the values math.random may give a lock
    MinSeqs,        \* arguments of SetMinSeqs (empty: nobody calls it)
    MaxTries,       \* the ten rounds of mallocTime and of setSeqRetry
    MaxCalls,       \* bound of the model: the calls that are started
    TimelyLock,     \* TRUE: the hash does not expire under a live lock holder
    LostReplies     \* TRUE: Redis may apply setSeq and its answer get lost

ASSUME ConstantAssumption ==
    /\ Sizes \subseteq Nat \ {0}
    /\ Basic \in Nat
    /\ LockValues \subseteq Nat
    /\ MinSeqs \subseteq Nat
    /\ MaxTries \in Nat \ {0}
    /\ MaxCalls \in Nat
    /\ TimelyLock \in BOOLEAN
    /\ LostReplies \in BOOLEAN

VARIABLES
    cache,      \* the hash MALLOC_SEQ: fields LOCK, CURR, LAST; Nil if absent
    maxSeq,     \* max_seq of the document in MongoDB, 0 without a document
    minSeq,     \* min_seq of the same document
    minCache,   \* the cached copy of min_seq, Nil if absent
    pc,         \* where each caller is
    size,       \* what it asks for; 0 asks for the highest number
    tries,      \* rounds of the loop it is in
    hold,       \* the lock value and the numbers (curr, last] it has in hand
    since,      \* the highest number anybody had been told when its call began
    top,        \* the highest number any call has been told
    log,        \* the answers, in order: [seq, size, since]
    calls       \* calls started

Nil == -1

callVars == <<pc, size, tries, hold, since>>
minVars  == <<minSeq, minCache>>
toldVars == <<top, log>>
vars == <<cache, maxSeq, minVars, callVars, toldVars, calls>>

Hash(l, c, n) == [lock |-> l, curr |-> c, last |-> n]
NoHash == Hash(Nil, Nil, Nil)
Locked == cache.lock # Nil

(* The block taken from MongoDB: none for a question, otherwise some more  *)
(* than is asked for.                                                      *)
MallocSize(n) == IF n = 0 THEN 0 ELSE Basic + n

Larger(a, b) == IF a < b THEN b ELSE a

Init ==
    /\ cache = NoHash
    /\ maxSeq = 0 /\ minSeq = 0 /\ minCache = Nil
    /\ pc = [p \in Caller |-> "idle"]
    /\ size = [p \in Caller |-> 0]
    /\ tries = [p \in Caller |-> 0]
    /\ hold = [p \in Caller |-> NoHash]
    /\ since = [p \in Caller |-> 0]
    /\ top = 0 /\ log = << >> /\ calls = 0

Goto(p, l) == pc' = [pc EXCEPT ![p] = l]

(* A call that ends leaves nothing behind in its goroutine.                *)
Finish(p) ==
    /\ Goto(p, "idle")
    /\ size' = [size EXCEPT ![p] = 0]
    /\ tries' = [tries EXCEPT ![p] = 0]
    /\ hold' = [hold EXCEPT ![p] = NoHash]
    /\ since' = [since EXCEPT ![p] = 0]

(* The answer of a call: seq is the highest number taken before it, so the *)
(* writer owns seq+1 .. seq+n and a question (n = 0) learns seq.           *)
Answer(seq, n, s) ==
    /\ log' = Append(log, [seq |-> seq, size |-> n, since |-> s])
    /\ top' = Larger(top, seq + n)

-----------------------------------------------------------------------------
(* Calls.                                                                  *)

Start(p, n) ==
    /\ pc[p] = "idle" /\ calls < MaxCalls
    /\ calls' = calls + 1
    /\ Goto(p, "malloc")
    /\ size' = [size EXCEPT ![p] = n]
    /\ since' = [since EXCEPT ![p] = top]
    /\ UNCHANGED <<cache, maxSeq, minVars, tries, hold, toldVars>>

(* A writer: BatchInsertChat2Cache.                                        *)
Malloc(p) == \E n \in Sizes : Start(p, n)

(* A question: GetMaxSeq is Malloc of size 0.                              *)
GetMaxSeq(p) == Start(p, 0)

(* The batched question reads CURR without looking at LOCK, and falls back *)
(* to GetMaxSeq when the field is missing.  Its answer is not in the log:  *)
(* see PeekIsCurrent.                                                      *)
BatchGetMaxSeq ==
    /\ cache.curr # Nil
    /\ top' = Larger(top, cache.curr)
    /\ UNCHANGED <<cache, maxSeq, minVars, callVars, log, calls>>

-----------------------------------------------------------------------------
(* The script malloc, which Redis runs atomically.                         *)

(* State 1: no hash.  The caller locks it and has nothing in hand.         *)
MallocMiss(p) ==
    /\ cache = NoHash
    /\ \E l \in LockValues :
         /\ cache' = Hash(l, Nil, Nil)
         /\ hold' = [hold EXCEPT ![p] = Hash(l, Nil, Nil)]
    /\ Goto(p, "mongo")

(* State 2: somebody has it locked.                                        *)
MallocBusy(p) ==
    /\ Locked
    /\ Goto(p, "wait")
    /\ UNCHANGED <<cache, hold>>

(* (A definition named ...Mutant is an error somebody could make; one of   *)
(* the properties must notice it.)  The rest stays in the cache as well.   *)
MallocRefillMutant(p) ==
    /\ ~Locked /\ cache # NoHash
    /\ size[p] # 0 /\ cache.curr + size[p] > cache.last
    /\ \E l \in LockValues :
         /\ cache' = Hash(l, cache.curr, cache.last)
         /\ hold' = [hold EXCEPT ![p] = Hash(l, cache.curr, cache.last)]
    /\ Goto(p, "mongo")

(* State 3: too few numbers left.  The caller locks the hash and takes     *)
(* what is left in hand.                                                   *)
MallocRefill(p) ==
    /\ ~Locked /\ cache # NoHash
    /\ size[p] # 0 /\ cache.curr + size[p] > cache.last
    /\ \E l \in LockValues :
         /\ cache' = Hash(l, cache.last, cache.last)
         /\ hold' = [hold EXCEPT ![p] = Hash(l, cache.curr, cache.last)]
    /\ Goto(p, "mongo")

(* CURR is not written.                                                    *)
MallocHitMutant(p) ==
    /\ ~Locked /\ cache # NoHash
    /\ size[p] = 0 \/ cache.curr + size[p] <= cache.last
    /\ UNCHANGED cache
    /\ hold' = [hold EXCEPT ![p] = Hash(Nil, cache.curr, cache.curr + size[p])]
    /\ Goto(p, "return")

(* State 0: the numbers are in the cache, or nothing is asked for.         *)
MallocHit(p) ==
    /\ ~Locked /\ cache # NoHash
    /\ size[p] = 0 \/ cache.curr + size[p] <= cache.last
    /\ cache' = Hash(Nil, cache.curr + size[p], cache.last)
    /\ hold' = [hold EXCEPT ![p] = Hash(Nil, cache.curr, cache.curr + size[p])]
    /\ Goto(p, "return")

EvalMalloc(p) ==
    /\ pc[p] = "malloc"
    /\ MallocMiss(p) \/ MallocBusy(p) \/ MallocRefill(p) \/ MallocHit(p)
    /\ UNCHANGED <<maxSeq, minVars, size, tries, since, toldVars, calls>>

(* A locked hash: wait a quarter of a second and try again.  The last      *)
(* round ends the call with an error.                                      *)
WaitLock(p) ==
    /\ pc[p] = "wait" /\ tries[p] + 1 < MaxTries
    /\ Goto(p, "malloc")
    /\ tries' = [tries EXCEPT ![p] = tries[p] + 1]
    /\ UNCHANGED <<cache, maxSeq, minVars, size, hold, since, toldVars, calls>>

LockTimeout(p) ==
    /\ pc[p] = "wait" /\ tries[p] + 1 >= MaxTries
    /\ Finish(p)
    /\ UNCHANGED <<cache, maxSeq, minVars, toldVars, calls>>

-----------------------------------------------------------------------------
(* $inc by what is asked for, not by the block.                            *)
IncMutant(p) ==
    /\ pc[p] = "mongo"
    /\ LET block == MallocSize(size[p])
           first == IF hold[p].last = maxSeq THEN hold[p].curr ELSE maxSeq
       IN  /\ maxSeq' = maxSeq + size[p]
           /\ hold' = [hold EXCEPT ![p] = Hash(hold[p].lock, first, maxSeq + block)]
    /\ minSeq' = IF size[p] = 0 THEN minSeq ELSE 0
    /\ tries' = [tries EXCEPT ![p] = 0]
    /\ Goto(p, "set")
    /\ UNCHANGED <<cache, minCache, size, since, toldVars, calls>>

(* The block from MongoDB: one FindOneAndUpdate that adds to max_seq and   *)
(* sets min_seq back to 0, or a plain read for size 0.  When the block     *)
(* follows what the caller has in hand it keeps both, otherwise it drops   *)
(* what it had.                                                            *)
MongoMalloc(p) ==
    /\ pc[p] = "mongo"
    /\ LET block == MallocSize(size[p])
           first == IF hold[p].last = maxSeq THEN hold[p].curr ELSE maxSeq
       IN  /\ maxSeq' = maxSeq + block
           /\ hold' = [hold EXCEPT ![p] = Hash(hold[p].lock, first, maxSeq + block)]
    /\ minSeq' = IF size[p] = 0 THEN minSeq ELSE 0
    /\ tries' = [tries EXCEPT ![p] = 0]
    /\ Goto(p, "set")
    /\ UNCHANGED <<cache, minCache, size, since, toldVars, calls>>

(* The numbers of the answer are not taken off the block.                  *)
AfterSetMutant(p) ==
    IF cache = NoHash \/ cache.lock = hold[p].lock
    THEN Hash(Nil, hold[p].curr, hold[p].last)
    ELSE cache

(* What the script setSeq leaves in Redis: the rest of the block when the  *)
(* hash is gone or carries the lock value of the caller, no change         *)
(* otherwise.                                                              *)
AfterSet(p) ==
    IF cache = NoHash \/ cache.lock = hold[p].lock
    THEN Hash(Nil, hold[p].curr + size[p], hold[p].last)
    ELSE cache

(* The last numbers of the block, as in the answer of MongoDB.             *)
KeepAnswerMutant(p) ==
    hold' = [hold EXCEPT ![p] = Hash(Nil, hold[p].last - size[p], hold[p].last)]

(* The numbers the caller answers with.                                    *)
KeepAnswer(p) ==
    hold' = [hold EXCEPT ![p] = Hash(Nil, hold[p].curr, hold[p].curr + size[p])]

SetSeq(p) ==
    /\ pc[p] = "set"
    /\ cache' = AfterSet(p)
    /\ KeepAnswer(p)
    /\ Goto(p, "return")
    /\ UNCHANGED <<maxSeq, minVars, size, tries, since, toldVars, calls>>

(* No limit.                                                               *)
RetryMutant(p) == UNCHANGED <<pc, hold, tries>>

(* setSeqRetry after an error of Redis: again, up to MaxTries times; then, *)
(* as when the context is done, the caller answers without having written. *)
Retry(p) ==
    \/ /\ tries[p] + 1 < MaxTries
       /\ tries' = [tries EXCEPT ![p] = tries[p] + 1]
       /\ UNCHANGED <<pc, hold>>
    \/ /\ tries[p] + 1 >= MaxTries
       /\ KeepAnswer(p)
       /\ Goto(p, "return")
       /\ UNCHANGED tries

(* The script did not run.                                                 *)
SetSeqFails(p) ==
    /\ pc[p] = "set"
    /\ Retry(p)
    /\ UNCHANGED <<cache, maxSeq, minVars, size, since, toldVars, calls>>

(* The script ran and its answer was lost.                                 *)
SetSeqLost(p) ==
    /\ LostReplies
    /\ pc[p] = "set"
    /\ cache' = AfterSet(p)
    /\ Retry(p)
    /\ UNCHANGED <<maxSeq, minVars, size, since, toldVars, calls>>

SetSeqGivesUp(p) ==
    /\ pc[p] = "set"
    /\ KeepAnswer(p)
    /\ Goto(p, "return")
    /\ UNCHANGED <<cache, maxSeq, minVars, size, tries, since, toldVars, calls>>

Return(p) ==
    /\ pc[p] = "return"
    /\ Answer(hold[p].curr, size[p], since[p])
    /\ Finish(p)
    /\ UNCHANGED <<cache, maxSeq, minVars, calls>>

(* An error of Redis or MongoDB, a cancelled context, or the end of the    *)
(* process: the call gives no answer and what it has in hand is lost.  A   *)
(* lock it took stays until the hash expires.                              *)
Fail(p) ==
    /\ pc[p] # "idle"
    /\ Finish(p)
    /\ UNCHANGED <<cache, maxSeq, minVars, toldVars, calls>>

-----------------------------------------------------------------------------
(* The hash goes when its time to live is over (3 s with a lock, 365 days  *)
(* without) or when Redis loses it.                                        *)
Expire ==
    /\ cache # NoHash
    /\ TimelyLock => \A p \in Caller : pc[p] \notin {"mongo", "set"}
    /\ cache' = NoHash
    /\ UNCHANGED <<maxSeq, minVars, callVars, toldVars, calls>>

(* Clearing the conversation up to a number in use: SetMinSeqs writes      *)
(* MongoDB, then deletes the cached copy; GetMinSeq fetches it again.      *)
SetMinSeqs(p) ==
    /\ pc[p] = "idle" /\ calls < MaxCalls
    /\ \E s \in MinSeqs : s <= top + 1 /\ minSeq' = s
    /\ calls' = calls + 1
    /\ Goto(p, "delmin")
    /\ UNCHANGED <<cache, maxSeq, minCache, size, tries, hold, since, top, log>>

DeleteMinCache(p) ==
    /\ pc[p] = "delmin"
    /\ minCache' = Nil
    /\ Goto(p, "idle")
    /\ UNCHANGED <<cache, maxSeq, minSeq, size, tries, hold, since, toldVars, calls>>

GetMinSeq ==
    /\ minCache = Nil /\ MinSeqs # {}
    /\ minCache' = minSeq
    /\ UNCHANGED <<cache, maxSeq, minSeq, callVars, toldVars, calls>>

ExpireMinSeq ==
    /\ minCache # Nil
    /\ minCache' = Nil
    /\ UNCHANGED <<cache, maxSeq, minSeq, callVars, toldVars, calls>>

-----------------------------------------------------------------------------
(* The steps a running caller takes by itself.                             *)
Work(p) ==
    \/ EvalMalloc(p) \/ WaitLock(p) \/ LockTimeout(p) \/ MongoMalloc(p)
    \/ SetSeq(p) \/ SetSeqFails(p) \/ SetSeqLost(p) \/ SetSeqGivesUp(p)
    \/ Return(p) \/ DeleteMinCache(p)

Next ==
    \/ \E p \in Caller :
         \/ Malloc(p) \/ GetMaxSeq(p) \/ SetMinSeqs(p)
         \/ Work(p) \/ Fail(p)
    \/ BatchGetMaxSeq \/ Expire \/ GetMinSeq \/ ExpireMinSeq

Spec == Init /\ [][Next]_vars

(* Redis expires keys, and the Go scheduler runs every goroutine.          *)
FairSpec ==
    /\ Spec
    /\ \A p \in Caller : WF_vars(Work(p))
    /\ WF_vars(Expire)

-----------------------------------------------------------------------------
TypeOK ==
    /\ cache \in [lock : Nat \cup {Nil}, curr : Nat \cup {Nil}, last : Nat \cup {Nil}]
    /\ maxSeq \in Nat /\ minSeq \in Nat /\ minCache \in Nat \cup {Nil}
    /\ pc \in [Caller -> {"idle", "malloc", "wait", "mongo", "set", "return", "delmin"}]
    /\ size \in [Caller -> Nat]
    /\ tries \in [Caller -> Nat]
    /\ hold \in [Caller -> [lock : Nat \cup {Nil}, curr : Nat \cup {Nil},
                            last : Nat \cup {Nil}]]
    /\ since \in [Caller -> Nat]
    /\ top \in Nat
    /\ log \in Seq([seq : Nat, size : Nat, since : Nat])
    /\ calls \in Nat

(* No number is handed out twice: the blocks of two answers have no number *)
(* in common (docs/04: a seq of a conversation is never repeated).         *)
Apart(a, b, c, d) == a >= b \/ c >= d \/ b <= c \/ d <= a

NoDuplicates ==
    \A i, j \in 1 .. Len(log) :
        i # j => Apart(log[i].seq, log[i].seq + log[i].size,
                       log[j].seq, log[j].seq + log[j].size)

(* Why: at every moment each number up to max_seq is in at most one place, *)
(* an answer, the hand of a caller or the rest of the block in the cache,  *)
(* and a locked hash has no rest.                                          *)
Bounded ==
    /\ cache.curr <= cache.last /\ cache.last <= maxSeq
    /\ (cache.lock # Nil => cache.curr = cache.last)
    /\ (cache.lock = Nil /\ cache # NoHash => cache.curr # Nil)
    /\ top <= maxSeq
    /\ \A i \in 1 .. Len(log) : log[i].seq + log[i].size <= maxSeq

InHand(p) ==
    /\ hold[p].curr <= hold[p].last /\ hold[p].last <= maxSeq
    /\ pc[p] \in {"idle", "malloc", "wait", "delmin"} => hold[p] = NoHash
    /\ pc[p] \in {"mongo", "set"} => hold[p].lock # Nil
    /\ pc[p] = "mongo" => (hold[p].curr = Nil <=> hold[p].last = Nil)
    /\ pc[p] = "set" => hold[p].curr # Nil /\ hold[p].curr + size[p] <= hold[p].last
    /\ pc[p] = "return" => hold[p].curr # Nil /\ hold[p].curr + size[p] = hold[p].last

AnswersApart ==
    /\ NoDuplicates
    /\ \A i \in 1 .. Len(log) :
         /\ Apart(log[i].seq, log[i].seq + log[i].size, cache.curr, cache.last)
         /\ \A p \in Caller : Apart(log[i].seq, log[i].seq + log[i].size,
                                    hold[p].curr, hold[p].last)

HandsApart ==
    \A p \in Caller :
        /\ Apart(hold[p].curr, hold[p].last, cache.curr, cache.last)
        /\ \A q \in Caller : p # q => Apart(hold[p].curr, hold[p].last,
                                           hold[q].curr, hold[q].last)

EveryNumberOnce ==
    Bounded /\ (\A p \in Caller : InHand(p)) /\ AnswersApart /\ HandsApart

(* A call that begins after others were answered gets higher numbers than  *)
(* they did, and no question learns a highest number below one that was    *)
(* already known (docs/02: a message sent later has the larger seq).       *)
LaterIsHigher == \A i \in 1 .. Len(log) : log[i].seq >= log[i].since

(* A batched question, which does not look at the lock, is never told less *)
(* than somebody was told before, as long as the lock has a live holder.   *)
(* (When Redis refuses setSeq ten times, CURR stays behind until the lock  *)
(* expires.)                                                               *)
PeekIsCurrent ==
    cache.curr # Nil /\ (Locked => \E p \in Caller : pc[p] \in {"mongo", "set"})
        => cache.curr >= top

(* Nobody answers with a number MongoDB does not know to be taken: after   *)
(* the loss of Redis the numbering goes on above all that was handed out.  *)
DurableAbove == top <= maxSeq

(* A caller always comes back, with an answer or with an error, whatever   *)
(* becomes of the lock it waits for.                                       *)
EveryCallEnds == \A p \in Caller : pc[p] # "idle" ~> pc[p] = "idle"

(* What readers see as the lower end of the conversation never moves back, *)
(* so a cleared message stays hidden (docs/08).                            *)
VisibleFrom == IF minCache = Nil THEN minSeq ELSE minCache
ClearedStaysHidden == [][VisibleFrom' >= VisibleFrom]_vars

(* The answers are those of the abstract allocator.                        *)
Allocator == INSTANCE SeqAllocator WITH blocks <- log
Implements == Allocator!Spec
=============================================================================
