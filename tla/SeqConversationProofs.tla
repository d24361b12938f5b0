----------------------- MODULE SeqConversationProofs ------------------------
(***************************************************************************)
(* Proofs about SeqConversation, for every set of callers, every size and  *)
(* every bound.  Uniqueness is proved for a Redis whose answers to setSeq  *)
(* are not lost (LostReplies = FALSE) and makes no assumption about locks: *)
(* they may expire at any moment and their values may coincide.  Order in  *)
(* time is proved until a lock expires under its holder.                   *)
(***************************************************************************)
EXTENDS MCSeqConversation, TLAPS

-----------------------------------------------------------------------------
(* Types and bounds.  They go together: an answer is a number only because *)
(* of what the caller has in hand when it answers.                         *)

Sound == TypeOK /\ Bounded /\ \A p \in Caller : InHand(p)

(* The value of an absent field is the integer -1, not a number.           *)
LEMMA NilNat == Nil \notin Nat /\ Nil = -1
  BY DEF Nil

(* An element of a sequence.                                               *)
LEMMA Element ==
    ASSUME NEW S, NEW s \in Seq(S), NEW i \in 1 .. Len(s)
    PROVE  s[i] \in S
  OBVIOUS

(* A bound of a sum that does not decrease is kept.                        *)
LEMMA StillBelow ==
    ASSUME NEW a \in Nat, NEW b \in Nat, NEW c \in Nat, NEW d \in Nat, a + b <= c, c <= d
    PROVE  a + b <= d
  OBVIOUS

(* The initial state is sound.                                             *)
LEMMA SoundInit == Init => Sound
  BY NilNat DEF Init, Sound, TypeOK, Bounded, InHand, NoHash, Hash

(* setSeqRetry: another round, or the answer without a written cache.      *)
LEMMA RetrySound ==
    ASSUME Sound, NEW p \in Caller, Retry(p), pc[p] = "set",
           UNCHANGED <<maxSeq, minVars, size, since, toldVars, calls>>,
           cache' \in [lock : Nat \cup {Nil}, curr : Nat \cup {Nil}, last : Nat \cup {Nil}],
           Bounded'
    PROVE  Sound'
<1> USE NilNat DEF Sound, TypeOK, Goto, Hash, NoHash, minVars, toldVars
<1>1. CASE tries[p] + 1 < MaxTries
  <2>1. pc' = pc /\ hold' = hold /\ tries' = [tries EXCEPT ![p] = tries[p] + 1]
    BY <1>1, ConstantAssumption DEF Retry
  <2>2. TypeOK'
    BY <2>1
  <2>3. QED  BY <2>1, <2>2 DEF InHand
<1>2. CASE ~(tries[p] + 1 < MaxTries)
  <2>1. /\ tries' = tries
        /\ pc' = [pc EXCEPT ![p] = "return"]
        /\ hold' = [hold EXCEPT ![p] = Hash(Nil, hold[p].curr, hold[p].curr + size[p])]
    BY <1>2, ConstantAssumption DEF Retry, KeepAnswer
  <2>2. TypeOK'
    BY <2>1 DEF InHand
  <2>3. ASSUME NEW q \in Caller  PROVE InHand(q)'
    BY <2>1 DEF InHand
  <2>4. QED  BY <2>2, <2>3
<1>3. QED  BY <1>1, <1>2

(* The steps of one caller, action by action.                              *)
LEMMA SoundCaller ==
    ASSUME Sound, NEW p \in Caller,
           \/ Malloc(p) \/ GetMaxSeq(p) \/ SetMinSeqs(p) \/ Work(p) \/ Fail(p)
    PROVE  Sound'
<1> USE ConstantAssumption, NilNat DEF Sound, TypeOK, Goto, Hash, NoHash, minVars, toldVars
<1>1. CASE Malloc(p)
  <2>1. TypeOK'
    BY <1>1 DEF Malloc, Start
  <2>2. Bounded' /\ \A q \in Caller : InHand(q)'
    BY <1>1 DEF Malloc, Start, Bounded, InHand
  <2>3. QED  BY <2>1, <2>2
<1>2. CASE GetMaxSeq(p)
  <2>1. TypeOK'
    BY <1>2 DEF GetMaxSeq, Start
  <2>2. Bounded' /\ \A q \in Caller : InHand(q)'
    BY <1>2 DEF GetMaxSeq, Start, Bounded, InHand
  <2>3. QED  BY <2>1, <2>2
<1>3. CASE SetMinSeqs(p)
  <2>1. TypeOK'
    BY <1>3 DEF SetMinSeqs
  <2>2. Bounded' /\ \A q \in Caller : InHand(q)'
    BY <1>3 DEF SetMinSeqs, Bounded, InHand
  <2>3. QED  BY <2>1, <2>2
<1>4. CASE EvalMalloc(p)
  <2>1. CASE MallocMiss(p)
    <3>1. TypeOK'
      BY <1>4, <2>1 DEF EvalMalloc, MallocMiss
    <3>2. Bounded' /\ \A q \in Caller : InHand(q)'
      BY <1>4, <2>1 DEF EvalMalloc, MallocMiss, Bounded, InHand
    <3>3. QED  BY <3>1, <3>2
  <2>2. CASE MallocBusy(p)
    <3>1. TypeOK'
      BY <1>4, <2>2 DEF EvalMalloc, MallocBusy
    <3>2. Bounded' /\ \A q \in Caller : InHand(q)'
      BY <1>4, <2>2 DEF EvalMalloc, MallocBusy, Bounded, InHand
    <3>3. QED  BY <3>1, <3>2
  <2>3. CASE MallocRefill(p)
    <3>1. TypeOK'
      BY <1>4, <2>3 DEF EvalMalloc, MallocRefill
    <3>2. Bounded' /\ \A q \in Caller : InHand(q)'
      BY <1>4, <2>3 DEF EvalMalloc, MallocRefill, Bounded, InHand, Locked
    <3>3. QED  BY <3>1, <3>2
  <2>4. CASE MallocHit(p)
    <3>1. TypeOK'
      BY <1>4, <2>4 DEF EvalMalloc, MallocHit, Bounded, Locked
    <3>2. Bounded' /\ \A q \in Caller : InHand(q)'
      BY <1>4, <2>4, SMTT(30) DEF EvalMalloc, MallocHit, Bounded, InHand, Locked
    <3>3. QED  BY <3>1, <3>2
  <2>5. QED  BY <1>4, <2>1, <2>2, <2>3, <2>4 DEF EvalMalloc
<1>5. CASE WaitLock(p)
  <2>1. TypeOK'
    BY <1>5 DEF WaitLock
  <2>2. Bounded' /\ \A q \in Caller : InHand(q)'
    BY <1>5 DEF WaitLock, Bounded, InHand
  <2>3. QED  BY <2>1, <2>2
<1>6. CASE LockTimeout(p)
  <2>1. TypeOK'
    BY <1>6 DEF LockTimeout, Finish
  <2>2. Bounded' /\ \A q \in Caller : InHand(q)'
    BY <1>6 DEF LockTimeout, Finish, Bounded, InHand
  <2>3. QED  BY <2>1, <2>2
<1>7. CASE Fail(p)
  <2>1. TypeOK'
    BY <1>7 DEF Fail, Finish
  <2>2. Bounded' /\ \A q \in Caller : InHand(q)'
    BY <1>7 DEF Fail, Finish, Bounded, InHand
  <2>3. QED  BY <2>1, <2>2
<1>8. CASE MongoMalloc(p)
  <2> DEFINE block == MallocSize(size[p])
             first == IF hold[p].last = maxSeq THEN hold[p].curr ELSE maxSeq
  <2>1. block \in Nat /\ size[p] \in Nat /\ size[p] <= block
    BY DEF MallocSize
  <2>2. /\ first \in Nat /\ first <= maxSeq
    BY <1>8 DEF MongoMalloc, InHand
  <2>3. /\ maxSeq' = maxSeq + block
        /\ hold' = [hold EXCEPT ![p] = Hash(hold[p].lock, first, maxSeq + block)]
        /\ pc' = [pc EXCEPT ![p] = "set"]
    BY <1>8 DEF MongoMalloc
  <2> HIDE DEF block, first
  <2>4. TypeOK'
    BY <1>8, <2>1, <2>2, <2>3 DEF MongoMalloc
  <2>5. maxSeq <= maxSeq' /\ UNCHANGED <<cache, size, top, log>>
    BY <1>8, <2>1, <2>3 DEF MongoMalloc
  <2>6. ASSUME NEW i \in 1 .. Len(log)  PROVE log[i].seq + log[i].size <= maxSeq'
    <3>1. log[i].seq \in Nat /\ log[i].size \in Nat
      <4>1. log \in Seq([seq : Nat, size : Nat, since : Nat])
        OBVIOUS
      <4>2. log[i] \in [seq : Nat, size : Nat, since : Nat]
        BY <4>1, Element
      <4>3. QED  BY <4>2
    <3>2. log[i].seq + log[i].size <= maxSeq
      BY DEF Bounded
    <3>3. maxSeq \in Nat /\ maxSeq' \in Nat
      BY <2>4
    <3>4. QED  BY <3>1, <3>2, <3>3, <2>5, StillBelow
  <2>7. Bounded'
    BY <2>4, <2>5, <2>6, SMTT(30) DEF Bounded
  <2>8. InHand(p)'
    BY <1>8, <2>1, <2>2, <2>3, <2>5 DEF MongoMalloc, InHand
  <2>9. ASSUME NEW q \in Caller, q # p  PROVE InHand(q)'
    <3>1. hold'[q] = hold[q] /\ pc'[q] = pc[q] /\ size'[q] = size[q]
      BY <2>3, <2>5, <2>9
    <3>2. InHand(q) /\ hold[q].last <= maxSeq'
      <4>1. hold[q].last \in Nat \cup {Nil} /\ maxSeq \in Nat /\ maxSeq' \in Nat
        BY <2>4
      <4>2. QED  BY <4>1, <2>5 DEF InHand
    <3>3. QED  BY <3>1, <3>2 DEF InHand
  <2>10. QED  BY <2>4, <2>7, <2>8, <2>9
<1>9. CASE SetSeq(p)
  <2>1. TypeOK'
    BY <1>9, SMTT(30) DEF SetSeq, AfterSet, KeepAnswer, InHand
  <2>2. Bounded'
    BY <1>9 DEF SetSeq, AfterSet, KeepAnswer, InHand, Bounded
  <2>3. \A q \in Caller : InHand(q)'
    BY <1>9 DEF SetSeq, AfterSet, KeepAnswer, InHand, Bounded
  <2>4. QED  BY <2>1, <2>2, <2>3
<1>10. CASE SetSeqFails(p)
  <2>1. /\ UNCHANGED <<cache, maxSeq, minVars, size, since, toldVars, calls>>
        /\ pc[p] = "set"
        /\ Retry(p)
    BY <1>10 DEF SetSeqFails
  <2>2. /\ cache' \in [lock : Nat \cup {Nil}, curr : Nat \cup {Nil}, last : Nat \cup {Nil}]
        /\ Bounded'
    BY <2>1 DEF Bounded
  <2>3. QED  BY <2>1, <2>2, RetrySound
<1>11. CASE SetSeqLost(p)
  <2>1. cache' \in [lock : Nat \cup {Nil}, curr : Nat \cup {Nil}, last : Nat \cup {Nil}]
    BY <1>11 DEF SetSeqLost, AfterSet, InHand
  <2>2. Bounded'
    BY <1>11 DEF SetSeqLost, AfterSet, InHand, Bounded
  <2>3. UNCHANGED <<maxSeq, minVars, size, since, toldVars, calls>> /\ Retry(p) /\ pc[p] = "set"
    BY <1>11 DEF SetSeqLost
  <2>4. QED  BY <2>1, <2>2, <2>3, RetrySound
<1>12. CASE SetSeqGivesUp(p)
  <2>1. TypeOK'
    BY <1>12, SMTT(30) DEF SetSeqGivesUp, KeepAnswer, InHand
  <2>2. Bounded' /\ \A q \in Caller : InHand(q)'
    BY <1>12 DEF SetSeqGivesUp, KeepAnswer, InHand, Bounded
  <2>3. QED  BY <2>1, <2>2
<1>13. CASE Return(p)
  <2>0. hold[p].curr \in Nat
    BY <1>13 DEF Return, InHand
  <2>1. log' \in Seq([seq : Nat, size : Nat, since : Nat])
    BY <1>13, <2>0 DEF Return, Answer
  <2>2. top' \in Nat
    BY <1>13, <2>0 DEF Return, Answer, Larger
  <2>3. TypeOK'
    BY <1>13, <2>1, <2>2 DEF Return, Finish
  <2>4. Bounded'
    BY <1>13, SMTT(30) DEF Return, Finish, Answer, Larger, InHand, Bounded
  <2>5. \A q \in Caller : InHand(q)'
    BY <1>13 DEF Return, Finish, Answer, InHand, Bounded
  <2>6. QED  BY <2>3, <2>4, <2>5
<1>14. CASE DeleteMinCache(p)
  <2>1. TypeOK'
    BY <1>14 DEF DeleteMinCache
  <2>2. Bounded' /\ \A q \in Caller : InHand(q)'
    BY <1>14 DEF DeleteMinCache, InHand, Bounded
  <2>3. QED  BY <2>1, <2>2
<1>15. QED
  BY <1>1, <1>2, <1>3, <1>4, <1>5, <1>6, <1>7, <1>8, <1>9, <1>10, <1>11, <1>12,
     <1>13, <1>14 DEF Work

(* Every step keeps the state sound, whatever is lost or expires.          *)
LEMMA SoundStep == Sound /\ [Next]_vars => Sound'
<1> SUFFICES ASSUME Sound, [Next]_vars  PROVE Sound'
  OBVIOUS
<1> USE NilNat DEF Sound, TypeOK, Bounded, InHand, Hash, NoHash, minVars, callVars, toldVars
<1>1. CASE BatchGetMaxSeq
  BY <1>1 DEF BatchGetMaxSeq, Larger
<1>2. CASE Expire
  BY <1>2 DEF Expire
<1>3. CASE GetMinSeq \/ ExpireMinSeq
  BY <1>3, ZenonT(60) DEF GetMinSeq, ExpireMinSeq
<1>4. CASE UNCHANGED vars
  BY <1>4 DEF vars
<1>5. QED
  BY <1>1, <1>2, <1>3, <1>4, SoundCaller DEF Next

(* The variables keep their types.                                         *)
THEOREM TypeCorrect == Spec => []TypeOK
<1>1. Sound => TypeOK
  BY DEF Sound
<1>2. QED
  BY <1>1, SoundInit, SoundStep, PTL DEF Spec

(* MongoDB's max_seq is never below a number that somebody has been told,  *)
(* so after the loss of Redis the numbering goes on above it.              *)
THEOREM NumbersAreDurable == Spec => []DurableAbove
<1>1. Sound => DurableAbove
  BY DEF Sound, Bounded, DurableAbove
<1>2. QED
  BY <1>1, SoundInit, SoundStep, PTL DEF Spec

-----------------------------------------------------------------------------
(* Uniqueness.  A step of caller p moves numbers between the cache, the    *)
(* hand of p and the answers; what it moves must be away from everything   *)
(* else.                                                                   *)

AwayFrom(p, a, b) ==
    /\ \A i \in 1 .. Len(log) : Apart(log[i].seq, log[i].seq + log[i].size, a, b)
    /\ \A q \in Caller : q # p => Apart(a, b, hold[q].curr, hold[q].last)

(* What is compared by Apart is integers.                                  *)
LEMMA IntegerFacts ==
    ASSUME TypeOK
    PROVE  /\ maxSeq \in Nat
           /\ cache.curr \in Int /\ cache.last \in Int
           /\ \A p \in Caller : hold[p].curr \in Int /\ hold[p].last \in Int /\ size[p] \in Nat
           /\ \A i \in 1 .. Len(log) : log[i].seq \in Int /\ log[i].size \in Int
<1>1. /\ maxSeq \in Nat
      /\ cache.curr \in Int /\ cache.last \in Int
      /\ \A p \in Caller : hold[p].curr \in Int /\ hold[p].last \in Int /\ size[p] \in Nat
  BY NilNat DEF TypeOK
<1>2. ASSUME NEW i \in 1 .. Len(log)  PROVE log[i].seq \in Int /\ log[i].size \in Int
  <2>1. log[i] \in [seq : Nat, size : Nat, since : Nat]
    BY Element DEF TypeOK
  <2>2. QED  BY <2>1
<1>3. QED  BY <1>1, <1>2

(* What p has in hand, and the rest in the cache, are away from the others. *)
LEMMA HandAway ==
    ASSUME AnswersApart, HandsApart, NEW p \in Caller
    PROVE  AwayFrom(p, hold[p].curr, hold[p].last)
  BY DEF AnswersApart, HandsApart, AwayFrom

(* What the cache holds is away from every answer and from the other hands. *)
LEMMA CacheAway ==
    ASSUME TypeOK, AnswersApart, HandsApart, NEW p \in Caller
    PROVE  AwayFrom(p, cache.curr, cache.last)
  BY IntegerFacts DEF AnswersApart, HandsApart, AwayFrom, Apart

(* A part of an interval, and an empty one.                                *)
LEMMA PartAway ==
    ASSUME TypeOK, NEW p \in Caller, NEW a \in Int, NEW b \in Int,
           NEW c \in Int, NEW d \in Int,
           AwayFrom(p, a, b), (a <= c /\ d <= b) \/ c >= d
    PROVE  AwayFrom(p, c, d)
<1>1. ASSUME NEW i \in 1 .. Len(log)
      PROVE  Apart(log[i].seq, log[i].seq + log[i].size, c, d)
  <2>1. PICK x \in Int, y \in Int : x = log[i].seq /\ y = log[i].seq + log[i].size
    BY IntegerFacts
  <2>2. Apart(x, y, a, b)
    BY <2>1 DEF AwayFrom
  <2>3. Apart(x, y, c, d)
    BY <2>2 DEF Apart
  <2>4. QED  BY <2>1, <2>3
<1>2. ASSUME NEW q \in Caller, q # p
      PROVE  Apart(c, d, hold[q].curr, hold[q].last)
  <2>1. PICK x \in Int, y \in Int : x = hold[q].curr /\ y = hold[q].last
    BY IntegerFacts
  <2>2. Apart(a, b, x, y)
    BY <1>2, <2>1 DEF AwayFrom
  <2>3. Apart(c, d, x, y)
    BY <2>2 DEF Apart
  <2>4. QED  BY <2>1, <2>3
<1>3. QED  BY <1>1, <1>2 DEF AwayFrom

(* An interval that ends at max_seq can be prolonged, because nobody has   *)
(* numbers above max_seq.                                                  *)
LEMMA AboveAway ==
    ASSUME Sound, NEW p \in Caller, NEW a \in Int, NEW b \in Int,
           AwayFrom(p, a, maxSeq), maxSeq <= b
    PROVE  AwayFrom(p, a, b)
<1>1. ASSUME NEW i \in 1 .. Len(log)
      PROVE  Apart(log[i].seq, log[i].seq + log[i].size, a, b)
  BY IntegerFacts DEF Sound, Bounded, AwayFrom, Apart
<1>2. ASSUME NEW q \in Caller, q # p
      PROVE  Apart(a, b, hold[q].curr, hold[q].last)
  BY <1>2, IntegerFacts DEF Sound, InHand, AwayFrom, Apart
<1>3. QED  BY <1>1, <1>2 DEF AwayFrom

(* A step of p that gives no answer and leaves (c, d] in the hand of p and *)
(* (x, y] in the cache.                                                    *)
LEMMA Move ==
    ASSUME TypeOK, AnswersApart, HandsApart, NEW p \in Caller,
           NEW l, NEW c \in Int, NEW d \in Int,
           log' = log,
           hold' = [hold EXCEPT ![p] = Hash(l, c, d)],
           AwayFrom(p, c, d),
           AwayFrom(p, cache'.curr, cache'.last),
           Apart(c, d, cache'.curr, cache'.last)
    PROVE  AnswersApart' /\ HandsApart'
<1>1. /\ hold'[p].curr = c /\ hold'[p].last = d
      /\ \A q \in Caller : q # p => hold'[q] = hold[q]
  BY DEF TypeOK, Hash
<1>2. NoDuplicates'
  BY DEF AnswersApart, NoDuplicates
<1>3. ASSUME NEW i \in 1 .. Len(log'), NEW q \in Caller
      PROVE  Apart(log[i].seq, log[i].seq + log[i].size, hold'[q].curr, hold'[q].last)
  BY <1>1 DEF AnswersApart, AwayFrom
<1>4. AnswersApart'
  BY <1>2, <1>3 DEF AnswersApart, AwayFrom
<1>5. ASSUME NEW q \in Caller
      PROVE  Apart(hold'[q].curr, hold'[q].last, cache'.curr, cache'.last)
  <2>1. CASE q = p
    BY <1>1, <2>1
  <2>2. CASE q # p
    BY <1>1, <2>2 DEF AwayFrom, Apart
  <2>3. QED  BY <2>1, <2>2
<1>6. ASSUME NEW q \in Caller, NEW r \in Caller, q # r
      PROVE  Apart(hold'[q].curr, hold'[q].last, hold'[r].curr, hold'[r].last)
  <2>1. CASE q = p
    BY <1>1, <1>6, <2>1 DEF AwayFrom
  <2>2. CASE r = p
    BY <1>1, <1>6, <2>2 DEF AwayFrom, Apart
  <2>3. CASE q # p /\ r # p
    BY <1>1, <1>6, <2>3 DEF HandsApart
  <2>4. QED  BY <2>1, <2>2, <2>3
<1>7. QED
  BY <1>4, <1>5, <1>6 DEF HandsApart

Unique == Sound /\ AnswersApart /\ HandsApart

(* An answer takes the numbers out of the hand of p.                       *)
LEMMA ReturnApart ==
    ASSUME Unique, NEW p \in Caller, Return(p)
    PROVE  AnswersApart' /\ HandsApart'
<1> DEFINE new == [seq |-> hold[p].curr, size |-> size[p], since |-> since[p]]
<1>1. /\ log' = Append(log, new)
      /\ hold' = [hold EXCEPT ![p] = NoHash]
      /\ UNCHANGED cache
      /\ hold[p].curr + size[p] = hold[p].last
  BY DEF Return, Finish, Answer, Unique, Sound, InHand
<1>2. /\ Len(log') = Len(log) + 1
      /\ \A i \in 1 .. Len(log) : log'[i] = log[i]
      /\ log'[Len(log) + 1] = new
      /\ Len(log) \in Nat
  BY <1>1 DEF Unique, Sound, TypeOK
<1>3. /\ new.seq = hold[p].curr /\ new.seq + new.size = hold[p].last
      /\ new.seq \in Int /\ new.size \in Int
      /\ hold[p].curr \in Int /\ hold[p].last \in Int
  BY <1>1, IntegerFacts DEF Unique, Sound
<1> HIDE DEF new
<1>4. /\ hold'[p].curr = hold'[p].last /\ hold'[p].curr \in Int
      /\ \A q \in Caller : q # p => hold'[q] = hold[q]
  BY <1>1, NilNat DEF Unique, Sound, TypeOK, NoHash, Hash
<1>5. ASSUME NEW i \in 1 .. Len(log)
      PROVE  /\ Apart(log[i].seq, log[i].seq + log[i].size, new.seq, new.seq + new.size)
             /\ Apart(new.seq, new.seq + new.size, log[i].seq, log[i].seq + log[i].size)
  BY <1>3, IntegerFacts DEF Unique, Sound, AnswersApart, Apart
<1>6. NoDuplicates'
  <2> SUFFICES ASSUME NEW i \in 1 .. Len(log'), NEW j \in 1 .. Len(log'), i # j
               PROVE  Apart(log'[i].seq, log'[i].seq + log'[i].size,
                            log'[j].seq, log'[j].seq + log'[j].size)
    BY DEF NoDuplicates
  <2>1. CASE i \in 1 .. Len(log) /\ j \in 1 .. Len(log)
    BY <1>2, <2>1 DEF Unique, AnswersApart, NoDuplicates
  <2>2. CASE i = Len(log) + 1 /\ j \in 1 .. Len(log)
    BY <1>2, <1>5, <2>2
  <2>3. CASE j = Len(log) + 1 /\ i \in 1 .. Len(log)
    BY <1>2, <1>5, <2>3
  <2>4. QED  BY <1>2, <2>1, <2>2, <2>3
<1>7. ASSUME NEW i \in 1 .. Len(log')
      PROVE  /\ Apart(log'[i].seq, log'[i].seq + log'[i].size, cache.curr, cache.last)
             /\ \A q \in Caller : Apart(log'[i].seq, log'[i].seq + log'[i].size,
                                        hold'[q].curr, hold'[q].last)
  <2>1. CASE i \in 1 .. Len(log)
    <3>1. ASSUME NEW q \in Caller
          PROVE  Apart(log[i].seq, log[i].seq + log[i].size, hold'[q].curr, hold'[q].last)
      BY <1>4, <2>1, IntegerFacts, SMTT(30) DEF Unique, Sound, AnswersApart, Apart
    <3>2. QED  BY <1>2, <2>1, <3>1 DEF Unique, AnswersApart
  <2>2. CASE i = Len(log) + 1
    <3>1. ASSUME NEW q \in Caller
          PROVE  Apart(new.seq, new.seq + new.size, hold'[q].curr, hold'[q].last)
      BY <1>3, <1>4, IntegerFacts, SMTT(30) DEF Unique, Sound, HandsApart, Apart
    <3>2. Apart(new.seq, new.seq + new.size, cache.curr, cache.last)
      BY <1>3 DEF Unique, HandsApart
    <3>3. QED  BY <1>2, <2>2, <3>1, <3>2
  <2>3. QED  BY <1>2, <2>1, <2>2
<1>8. AnswersApart'
  BY <1>1, <1>6, <1>7 DEF AnswersApart
<1>9. HandsApart'
  <2>1. ASSUME NEW q \in Caller
        PROVE  Apart(hold'[q].curr, hold'[q].last, cache.curr, cache.last)
    BY <1>4 DEF Unique, HandsApart, Apart
  <2>2. ASSUME NEW q \in Caller, NEW r \in Caller, q # r
        PROVE  Apart(hold'[q].curr, hold'[q].last, hold'[r].curr, hold'[r].last)
    BY <1>4, <2>2 DEF Unique, HandsApart, Apart
  <2>3. QED  BY <1>1, <2>1, <2>2 DEF HandsApart
<1>10. QED  BY <1>8, <1>9

(* Everything but an answer, action by action.                             *)
LEMMA CallerApart ==
    ASSUME Unique, NEW p \in Caller, ~LostReplies,
           \/ Malloc(p) \/ GetMaxSeq(p) \/ SetMinSeqs(p) \/ Work(p) \/ Fail(p)
    PROVE  AnswersApart' /\ HandsApart'
<1> USE IntegerFacts, NilNat, ConstantAssumption DEF Unique, Sound, Hash, toldVars
<1>i. /\ TypeOK /\ Bounded /\ InHand(p) /\ AnswersApart /\ HandsApart
      /\ AwayFrom(p, hold[p].curr, hold[p].last)
      /\ AwayFrom(p, cache.curr, cache.last)
      /\ AwayFrom(p, Nil, Nil)
      /\ size[p] \in Nat /\ maxSeq \in Nat /\ Nil \in Int
      /\ cache.curr \in Int /\ cache.last \in Int
  BY HandAway, CacheAway, PartAway, SMTT(30)
<1>1. CASE UNCHANGED <<log, cache, hold>>
  BY <1>1 DEF AnswersApart, HandsApart, NoDuplicates
<1>2. CASE LockTimeout(p) \/ Fail(p)
  <2>1. log' = log /\ hold' = [hold EXCEPT ![p] = Hash(Nil, Nil, Nil)] /\ cache' = cache
    BY <1>2 DEF LockTimeout, Fail, Finish, NoHash
  <2>2. Apart(Nil, Nil, cache'.curr, cache'.last)
    BY <2>1 DEF Apart
  <2>3. AwayFrom(p, cache'.curr, cache'.last)
    BY <1>i, <2>1
  <2>4. QED  BY <1>i, <2>1, <2>2, <2>3, Move
<1>3. CASE EvalMalloc(p) /\ MallocMiss(p)
  <2>1. PICK l \in LockValues :
             cache' = Hash(l, Nil, Nil) /\ hold' = [hold EXCEPT ![p] = Hash(l, Nil, Nil)]
    BY <1>3 DEF MallocMiss
  <2>2. log' = log /\ cache'.curr = Nil /\ cache'.last = Nil
    BY <1>3, <2>1 DEF EvalMalloc
  <2>3. Apart(Nil, Nil, cache'.curr, cache'.last)
    BY <2>2 DEF Apart
  <2>4. AwayFrom(p, cache'.curr, cache'.last)
    BY <1>i, <2>2
  <2>5. QED  BY <1>i, <2>1, <2>2, <2>3, <2>4, Move
<1>4. CASE EvalMalloc(p) /\ MallocRefill(p)
  <2>1. PICK l \in LockValues :
             /\ cache' = Hash(l, cache.last, cache.last)
             /\ hold' = [hold EXCEPT ![p] = Hash(l, cache.curr, cache.last)]
    BY <1>4 DEF MallocRefill
  <2>2. log' = log /\ cache'.curr = cache.last /\ cache'.last = cache.last
    BY <1>4, <2>1 DEF EvalMalloc
  <2>3. Apart(cache.curr, cache.last, cache'.curr, cache'.last)
    BY <2>2 DEF Apart
  <2>4. AwayFrom(p, cache.last, cache.last)
    BY <1>i, PartAway
  <2>4a. AwayFrom(p, cache'.curr, cache'.last)
    BY <2>2, <2>4
  <2>5. QED  BY <1>i, <2>1, <2>2, <2>3, <2>4a, Move
<1>5. CASE EvalMalloc(p) /\ MallocHit(p)
  <2> DEFINE mid == cache.curr + size[p]
  <2>1. /\ cache' = Hash(Nil, mid, cache.last)
        /\ hold' = [hold EXCEPT ![p] = Hash(Nil, cache.curr, mid)]
        /\ log' = log
    BY <1>5 DEF EvalMalloc, MallocHit
  <2>2. mid \in Int /\ cache.curr <= mid /\ mid <= cache.last
    BY <1>5, <1>i DEF MallocHit, Bounded
  <2> HIDE DEF mid
  <2>3. cache'.curr = mid /\ cache'.last = cache.last
    BY <2>1
  <2>4. AwayFrom(p, cache.curr, mid) /\ AwayFrom(p, mid, cache.last)
    BY <1>i, <2>2, PartAway
  <2>5. Apart(cache.curr, mid, cache'.curr, cache'.last)
    BY <2>2, <2>3 DEF Apart
  <2>6. QED  BY <1>i, <2>1, <2>2, <2>3, <2>4, <2>5, Move
<1>6. CASE MongoMalloc(p)
  <2> DEFINE first == IF hold[p].last = maxSeq THEN hold[p].curr ELSE maxSeq
             end == maxSeq + MallocSize(size[p])
  <2>1. /\ hold' = [hold EXCEPT ![p] = Hash(hold[p].lock, first, end)]
        /\ log' = log /\ cache' = cache
    BY <1>6 DEF MongoMalloc
  <2>2. first \in Int /\ end \in Int /\ maxSeq <= end
    BY <1>i DEF MallocSize
  <2>3. AwayFrom(p, first, maxSeq)
    <3>1. CASE hold[p].last = maxSeq
      BY <1>i, <3>1
    <3>2. CASE hold[p].last # maxSeq
      BY <1>i, <3>2, PartAway
    <3>3. QED  BY <3>1, <3>2
  <2>4. Apart(first, end, cache.curr, cache.last)
    <3>1. CASE hold[p].last = maxSeq
      BY <1>i, <3>1, <2>2 DEF HandsApart, Bounded, Apart
    <3>2. CASE hold[p].last # maxSeq
      BY <1>i, <3>2, <2>2 DEF Bounded, Apart
    <3>3. QED  BY <3>1, <3>2
  <2> HIDE DEF first, end
  <2>5. AwayFrom(p, first, end)
    BY <2>2, <2>3, AboveAway
  <2>6. QED  BY <1>i, <2>1, <2>2, <2>4, <2>5, Move
<1>7. CASE pc[p] = "set" /\ KeepAnswer(p) /\ log' = log
           /\ (cache' = cache \/ cache' = AfterSet(p))
  <2> DEFINE mid == hold[p].curr + size[p]
  <2>1. hold' = [hold EXCEPT ![p] = Hash(Nil, hold[p].curr, mid)] /\ log' = log
    BY <1>7 DEF KeepAnswer
  <2>2. mid \in Int /\ hold[p].curr <= mid /\ mid <= hold[p].last
    BY <1>7, <1>i DEF InHand
  <2>3. cache' = cache \/ cache' = Hash(Nil, mid, hold[p].last)
    BY <1>7 DEF AfterSet
  <2> HIDE DEF mid
  <2>4. AwayFrom(p, hold[p].curr, mid) /\ AwayFrom(p, mid, hold[p].last)
    BY <1>i, <2>2, PartAway
  <2>5. AwayFrom(p, cache'.curr, cache'.last)
    BY <1>i, <2>3, <2>4
  <2>6. Apart(hold[p].curr, mid, cache'.curr, cache'.last)
    BY <1>i, <2>2, <2>3 DEF HandsApart, Apart
  <2>7. QED  BY <1>i, <2>1, <2>2, <2>4, <2>5, <2>6, Move
<1>8. CASE Return(p)
  BY <1>8, ReturnApart
<1>9. QED
  <2>1. CASE Malloc(p) \/ GetMaxSeq(p)
    BY <1>1, <2>1 DEF Malloc, GetMaxSeq, Start
  <2>2. CASE SetMinSeqs(p) \/ DeleteMinCache(p)
    BY <1>1, <2>2 DEF SetMinSeqs, DeleteMinCache
  <2>3. CASE EvalMalloc(p)
    BY <1>1, <1>3, <1>4, <1>5, <2>3 DEF EvalMalloc, MallocBusy
  <2>4. CASE WaitLock(p)
    BY <1>1, <2>4 DEF WaitLock
  <2>5. CASE SetSeq(p) \/ SetSeqGivesUp(p)
    BY <1>7, <2>5 DEF SetSeq, SetSeqGivesUp
  <2>6. CASE SetSeqFails(p)
    BY <1>1, <1>7, <2>6 DEF SetSeqFails, Retry
  <2>7. CASE SetSeqLost(p)
    BY <2>7 DEF SetSeqLost
  <2>8. QED
    BY <1>2, <1>6, <1>8, <2>1, <2>2, <2>3, <2>4, <2>5, <2>6, <2>7 DEF Work

(* Every step keeps the numbers in different places.                       *)
LEMMA UniqueStep ==
    ASSUME ~LostReplies
    PROVE  Unique /\ [Next]_vars => Unique'
<1> SUFFICES ASSUME Unique, [Next]_vars  PROVE Unique'
  OBVIOUS
<1>1. Sound'
  BY SoundStep DEF Unique
<1>2. CASE BatchGetMaxSeq \/ GetMinSeq \/ ExpireMinSeq \/ UNCHANGED vars
  BY <1>1, <1>2 DEF BatchGetMaxSeq, GetMinSeq, ExpireMinSeq, vars, callVars, toldVars,
                    Unique, AnswersApart, HandsApart, NoDuplicates
<1>3. CASE Expire
  <2>1. log' = log /\ hold' = hold /\ cache'.curr = Nil /\ cache'.last = Nil
    BY <1>3 DEF Expire, callVars, toldVars, NoHash, Hash
  <2>2. QED
    BY <1>1, <2>1, NilNat, IntegerFacts
       DEF Unique, Sound, AnswersApart, HandsApart, NoDuplicates, Apart
<1>4. QED
  BY <1>1, <1>2, <1>3, CallerApart DEF Next, Unique

(* Nobody has any number at the start.                                     *)
LEMMA UniqueInit == Init => Unique
  BY SoundInit DEF Init, Unique, AnswersApart, HandsApart, NoDuplicates, NoHash, Hash, Apart, Nil

(* Each number is in one place, as long as no answer of setSeq is lost.    *)
THEOREM PlacesAreDistinct ==
    ASSUME ~LostReplies
    PROVE  Spec => []EveryNumberOnce
<1>1. Unique => EveryNumberOnce
  BY DEF Unique, Sound, EveryNumberOnce
<1>2. Unique /\ [Next]_vars => Unique'
  BY UniqueStep
<1>3. QED
  BY <1>1, <1>2, UniqueInit, PTL DEF Spec

(* No number is ever handed out twice, as long as no answer of setSeq is   *)
(* lost: whoever holds the lock, and whenever it expires.                  *)
THEOREM SeqsAreUnique ==
    ASSUME ~LostReplies
    PROVE  Spec => []NoDuplicates
<1>1. EveryNumberOnce => NoDuplicates
  BY DEF EveryNumberOnce, AnswersApart
<1>2. QED
  BY <1>1, PlacesAreDistinct, PTL

(* The detailed allocation implements the abstract one.                    *)
THEOREM AllocatorIsImplemented ==
    ASSUME ~LostReplies
    PROVE  Spec => Implements
<1>1. Init => Allocator!Init
  BY DEF Init, Allocator!Init
<1>2. Unique /\ Unique' /\ [Next]_vars => [Allocator!Grant]_log
  <2> SUFFICES ASSUME Unique, Unique', [Next]_vars, log' # log
               PROVE  Allocator!Grant
    OBVIOUS
  <2>1. PICK p \in Caller : Return(p)
    BY DEF Next, vars, Work, Malloc, GetMaxSeq, Start, SetMinSeqs, EvalMalloc, WaitLock,
           LockTimeout, MongoMalloc, SetSeq, SetSeqFails, SetSeqLost, SetSeqGivesUp,
           DeleteMinCache, Fail, BatchGetMaxSeq, Expire, GetMinSeq, ExpireMinSeq, toldVars
  <2> DEFINE b == [seq |-> hold[p].curr, size |-> size[p], since |-> since[p]]
  <2>2. log' = Append(log, b) /\ log \in Seq([seq : Nat, size : Nat, since : Nat])
        /\ log' \in Seq([seq : Nat, size : Nat, since : Nat])
    BY <2>1 DEF Return, Answer, Unique, Sound, TypeOK
  <2> HIDE DEF b
  <2>3. /\ Len(log) \in Nat /\ Len(log') = Len(log) + 1 /\ log'[Len(log')] = b
        /\ \A i \in 1 .. Len(log) : log'[i] = log[i]
    BY <2>2
  <2>4. b.seq \in Nat /\ b.size \in Nat
    BY <2>2, <2>3, Element
  <2>5. ASSUME NEW i \in 1 .. Len(log)
        PROVE  Allocator!Numbers(b) \cap Allocator!Numbers(log[i]) = {}
    <3>1. Apart(b.seq, b.seq + b.size, log[i].seq, log[i].seq + log[i].size)
      BY <2>3 DEF Unique, AnswersApart, NoDuplicates
    <3>2. log[i] \in [seq : Nat, size : Nat, since : Nat]
      BY <2>2, Element
    <3>3. QED  BY <2>4, <3>1, <3>2, SMTT(30) DEF Apart, Allocator!Numbers
  <2>6. QED
    BY <2>2, <2>3, <2>4, <2>5 DEF Allocator!Grant
<1>3. Unique /\ [Next]_vars => Unique'
  BY UniqueStep
<1>4. QED
  BY <1>1, <1>2, <1>3, UniqueInit, PTL DEF Spec, Implements, Allocator!Spec
-----------------------------------------------------------------------------
(* Order in time, as long as no lock expires under its holder.  The caller *)
(* that has the lock is then the only one that takes numbers, and what it  *)
(* will leave in the cache is above all that anybody was told meanwhile.   *)

Holds(p) == pc[p] \in {"mongo", "set"}

OneHolder ==
    \A p \in Caller : Holds(p) =>
        /\ cache.lock = hold[p].lock
        /\ \A q \in Caller : Holds(q) => q = p

(* n is not below what anybody has been told or is about to be told.       *)
AheadOfAll(n) ==
    /\ top <= n
    /\ \A p \in Caller : pc[p] = "return" => hold[p].last <= n

CurrIsAhead ==
    cache.curr # Nil /\ (Locked => \E p \in Caller : Holds(p))
        => AheadOfAll(cache.curr)

(* What p has in hand is not below what was known when its call began.     *)
NotBehind(p) ==
    /\ since[p] <= top
    /\ hold[p].curr # Nil => since[p] <= hold[p].curr
    /\ pc[p] = "mongo" =>
         /\ hold[p].last = cache.curr
         /\ cache.curr # Nil => cache.curr < hold[p].curr + size[p]
    /\ pc[p] = "set" =>
         /\ cache.curr <= hold[p].curr + size[p]
         /\ AheadOfAll(hold[p].curr + size[p])

Timely ==
    /\ OneHolder /\ CurrIsAhead /\ LaterIsHigher
    /\ \A p \in Caller : NotBehind(p)

TimeInv == Sound /\ (late \/ Timely)


-----------------------------------------------------------------------------
(* The numbers that are compared, and where a call has something in hand.  *)
LEMMA TimeFacts ==
    ASSUME Sound
    PROVE  /\ Nil = -1 /\ top \in Nat /\ maxSeq \in Nat /\ top <= maxSeq
           /\ {cache.lock, cache.curr, cache.last} \subseteq Nat \cup {-1}
           /\ cache.curr <= cache.last /\ cache.last <= maxSeq
           /\ Locked => cache.curr = cache.last
           /\ ~Locked /\ cache # NoHash => cache.curr # Nil
           /\ \A p \in Caller :
                /\ since[p] \in Nat /\ size[p] \in Nat
                /\ {hold[p].lock, hold[p].curr, hold[p].last} \subseteq Nat \cup {-1}
                /\ hold[p].last <= maxSeq
                /\ Holds(p) => hold[p].lock # Nil
BY NilNat DEF Sound, TypeOK, Bounded, InHand, Locked, Holds

Others(p) == \A q \in Caller : q # p =>
    /\ pc'[q] = pc[q] /\ size'[q] = size[q]
    /\ hold'[q] = hold[q] /\ since'[q] = since[q]

(* A caller that takes nothing in hand, or gives up what it has, changes   *)
(* nothing for the others.                                                 *)
LEMMA TimelyCalm ==
    ASSUME Sound, Timely, NEW p \in Caller, Others(p), UNCHANGED <<cache, top, log>>,
           pc'[p] \notin {"mongo", "set", "return"}, since'[p] \in 0 .. top,
           hold'[p] = NoHash
    PROVE  Timely'
<1>1. OneHolder'
  BY DEF Timely, OneHolder, Holds, Others
<1>2. \A n : AheadOfAll(n) => AheadOfAll(n)'
  BY DEF AheadOfAll, Others
<1>3. CurrIsAhead'
  BY <1>2 DEF Timely, CurrIsAhead, Locked, Holds, Others, AheadOfAll
<1>4. ASSUME NEW q \in Caller  PROVE NotBehind(q)'
  <2>1. CASE q = p
    BY <2>1, TimeFacts DEF NotBehind, NoHash, Hash
  <2>2. CASE q # p
    BY <2>2, <1>2 DEF Timely, NotBehind, Others, AheadOfAll
  <2>3. QED  BY <2>1, <2>2
<1>5. LaterIsHigher'
  BY DEF Timely, LaterIsHigher
<1>6. QED  BY <1>1, <1>3, <1>4, <1>5 DEF Timely

(* Without a lock nobody is taking numbers, and the cache is ahead.        *)
LEMMA Unlocked ==
    ASSUME Sound, Timely, ~Locked
    PROVE  /\ \A q \in Caller : ~Holds(q)
           /\ cache # NoHash => AheadOfAll(cache.curr)
<1>1. \A q \in Caller : ~Holds(q)
  BY TimeFacts DEF Timely, OneHolder, Locked
<1>2. cache # NoHash => AheadOfAll(cache.curr)
  BY TimeFacts DEF Timely, CurrIsAhead
<1>3. QED  BY <1>1, <1>2

(* A caller takes the lock, with the rest of the numbers or with nothing.  *)
LEMMA TimelyLocks ==
    ASSUME Sound, Timely, NEW p \in Caller, Others(p), ~Locked, pc[p] = "malloc",
           UNCHANGED <<top, log, size, since>>, NEW l \in Nat, pc'[p] = "mongo",
           \/ /\ cache = NoHash
              /\ cache' = Hash(l, Nil, Nil) /\ hold'[p] = Hash(l, Nil, Nil)
           \/ /\ cache # NoHash /\ cache.curr + size[p] > cache.last
              /\ cache' = Hash(l, cache.last, cache.last)
              /\ hold'[p] = Hash(l, cache.curr, cache.last)
    PROVE  Timely'
<1>1. /\ \A q \in Caller : ~Holds(q)
      /\ cache # NoHash => AheadOfAll(cache.curr)
  BY Unlocked
<1>2. OneHolder'
  BY <1>1 DEF OneHolder, Holds, Others, Hash
<1>3. ASSUME cache # NoHash  PROVE AheadOfAll(cache.curr)'
  <2>1. cache' = Hash(l, cache.last, cache.last) /\ cache'.curr = cache.last
    BY <1>3 DEF Hash
  <2>2. \A q \in Caller : pc'[q] = "return" => hold'[q].last <= cache.last
    BY <1>1, <1>3, TimeFacts DEF AheadOfAll, Others
  <2>3. top' <= cache.last
    BY <1>1, <1>3, TimeFacts DEF AheadOfAll
  <2>4. QED  BY <2>1, <2>2, <2>3 DEF AheadOfAll
<1>4. CurrIsAhead'
  BY <1>3 DEF CurrIsAhead, Hash
<1>5. ASSUME NEW q \in Caller, q # p  PROVE NotBehind(q)'
  BY <1>1, <1>5 DEF Timely, NotBehind, Others, Holds
<1>6. NotBehind(p)'
  <2>1. since[p] <= top /\ size[p] \in Nat
    BY TimeFacts DEF Timely, NotBehind
  <2>2. CASE cache = NoHash /\ cache' = Hash(l, Nil, Nil) /\ hold'[p] = Hash(l, Nil, Nil)
    BY <2>1, <2>2, TimeFacts DEF NotBehind, Hash
  <2>3. CASE /\ cache # NoHash /\ cache.curr + size[p] > cache.last
             /\ cache' = Hash(l, cache.last, cache.last)
             /\ hold'[p] = Hash(l, cache.curr, cache.last)
    BY <2>1, <2>3, <1>1, TimeFacts DEF NotBehind, Hash, AheadOfAll
  <2>4. QED  BY <2>2, <2>3
<1>7. LaterIsHigher'
  BY DEF Timely, LaterIsHigher
<1>8. QED  BY <1>2, <1>4, <1>5, <1>6, <1>7 DEF Timely

(* The numbers are taken from the cache, which stays ahead.                *)
LEMMA TimelyHit ==
    ASSUME Sound, Timely, NEW p \in Caller, Others(p), MallocHit(p), pc[p] = "malloc",
           UNCHANGED <<top, log, size, since>>
    PROVE  Timely'
<1>1. /\ ~Locked /\ cache # NoHash
      /\ cache' = Hash(Nil, cache.curr + size[p], cache.last)
      /\ hold'[p] = Hash(Nil, cache.curr, cache.curr + size[p])
      /\ pc'[p] = "return"
  BY DEF MallocHit, Goto, Sound, TypeOK
<1>2. /\ \A q \in Caller : ~Holds(q)
      /\ AheadOfAll(cache.curr)
  BY <1>1, Unlocked
<1>3. OneHolder'
  BY <1>1, <1>2 DEF OneHolder, Holds, Others
<1>4. CurrIsAhead'
  BY <1>1, <1>2, TimeFacts DEF CurrIsAhead, AheadOfAll, Others, Hash
<1>5. ASSUME NEW q \in Caller, q # p  PROVE NotBehind(q)'
  BY <1>2, <1>5 DEF Timely, NotBehind, Others, Holds
<1>6. NotBehind(p)'
  BY <1>1, <1>2, TimeFacts DEF Timely, NotBehind, AheadOfAll, Hash
<1>7. LaterIsHigher'
  BY DEF Timely, LaterIsHigher
<1>8. QED  BY <1>3, <1>4, <1>5, <1>6, <1>7 DEF Timely

(* MongoDB's block: with what the caller has, or above all that is known.  *)
LEMMA TimelyMongo ==
    ASSUME Sound, Timely, NEW p \in Caller, Others(p), MongoMalloc(p)
    PROVE  Timely'
<1> DEFINE first == IF hold[p].last = maxSeq THEN hold[p].curr ELSE maxSeq
           block == MallocSize(size[p])
<1>1. /\ pc[p] = "mongo" /\ pc'[p] = "set"
      /\ hold'[p] = Hash(hold[p].lock, first, maxSeq + block)
      /\ UNCHANGED <<cache, top, log, size, since>>
  BY DEF MongoMalloc, Goto, Sound, TypeOK, toldVars
<1> HIDE DEF block
<1>2. Holds(p) /\ hold[p].last = cache.curr /\ cache.lock = hold[p].lock /\ Locked
  BY <1>1, TimeFacts DEF Timely, NotBehind, OneHolder, Holds, Locked
<1>3. hold[p].curr = Nil <=> hold[p].last = Nil
  BY <1>1 DEF Sound, InHand
<1>4. /\ first \in Nat /\ since[p] <= first
      /\ cache.curr <= first + size[p] /\ AheadOfAll(first + size[p])
  <2>1. CASE hold[p].last = maxSeq
    <3>1. cache.curr # Nil /\ hold[p].curr # Nil /\ first = hold[p].curr
      BY <1>2, <1>3, <2>1, TimeFacts
    <3>2. AheadOfAll(cache.curr)
      BY <1>2, <3>1 DEF Timely, CurrIsAhead
    <3>3. since[p] <= hold[p].curr /\ cache.curr < hold[p].curr + size[p]
      BY <1>1, <3>1 DEF Timely, NotBehind
    <3>4. first \in Nat /\ first + size[p] \in Nat /\ cache.curr \in Nat
      BY <3>1, TimeFacts
    <3>5. AheadOfAll(first + size[p])
      BY <3>1, <3>2, <3>3, <3>4, TimeFacts DEF AheadOfAll
    <3>6. QED  BY <3>1, <3>3, <3>4, <3>5
  <2>2. CASE hold[p].last # maxSeq
    <3>1. first = maxSeq
      BY <2>2
    <3> HIDE DEF first
    <3>2. since[p] <= top
      BY DEF Timely, NotBehind
    <3>3. AheadOfAll(first + size[p])
      BY <3>1, TimeFacts DEF AheadOfAll
    <3>4. QED  BY <3>1, <3>2, <3>3, TimeFacts
  <2>3. QED  BY <2>1, <2>2
<1> HIDE DEF first
<1>5. \A n : AheadOfAll(n) => AheadOfAll(n)'
  BY <1>1 DEF AheadOfAll, Others
<1>6. OneHolder'
  BY <1>1, <1>2 DEF Timely, OneHolder, Holds, Others, Hash
<1>7. CurrIsAhead'
  BY <1>1, <1>2, <1>5 DEF Timely, CurrIsAhead, Locked, AheadOfAll
<1>8. ASSUME NEW q \in Caller, q # p  PROVE NotBehind(q)'
  BY <1>1, <1>2, <1>8 DEF Timely, NotBehind, OneHolder, Others, Holds
<1>9. NotBehind(p)'
  <2>1. /\ hold'[p].curr = first /\ since'[p] = since[p] /\ top' = top
        /\ cache' = cache /\ size'[p] = size[p]
    BY <1>1 DEF Hash
  <2>2. since[p] <= top
    BY DEF Timely, NotBehind
  <2>3. PICK n \in Nat : n = first + size[p]
    BY <1>4, TimeFacts
  <2>4. AheadOfAll(n)' /\ cache.curr <= n
    BY <1>4, <1>5, <2>3
  <2>5. hold'[p].curr + size'[p] = n
    BY <2>1, <2>3
  <2>6. QED  BY <1>1, <1>4, <2>1, <2>2, <2>4, <2>5 DEF NotBehind, AheadOfAll
<1>10. LaterIsHigher'
  BY <1>1 DEF Timely, LaterIsHigher
<1>11. QED  BY <1>6, <1>7, <1>8, <1>9, <1>10 DEF Timely

(* The caller answers; what it took from the lock, it has left above that. *)
LEMMA TimelySets ==
    ASSUME Sound, Timely, NEW p \in Caller, Others(p), pc[p] = "set",
           UNCHANGED <<top, log, size, since>>, pc'[p] = "return", KeepAnswer(p),
           \/ cache' = cache
           \/ cache' = AfterSet(p)
    PROVE  Timely'
<1>1. hold'[p] = Hash(Nil, hold[p].curr, hold[p].curr + size[p])
  BY DEF KeepAnswer, Sound, TypeOK
<1>2. /\ Holds(p) /\ cache.lock = hold[p].lock /\ Locked /\ cache # NoHash
      /\ \A q \in Caller : Holds(q) => q = p
  BY TimeFacts DEF Timely, OneHolder, Holds, Locked, NoHash, Hash
<1>3. PICK n \in Nat : n = hold[p].curr + size[p]
  <2>1. hold[p].curr \in Nat
    BY NilNat DEF Sound, TypeOK, InHand
  <2>2. QED  BY <2>1, TimeFacts
<1>4. AheadOfAll(n) /\ since[p] <= top /\ since[p] <= hold[p].curr /\ hold[p].curr # Nil
  BY <1>3 DEF Timely, NotBehind, Sound, InHand
<1>5. AheadOfAll(n)'
  BY <1>1, <1>3, <1>4 DEF AheadOfAll, Others, Hash
<1>6. \A q \in Caller : ~Holds(q)'
  BY <1>2 DEF Others, Holds
<1>7. CurrIsAhead'
  <2>1. CASE cache' = cache
    BY <1>2, <1>6, <2>1 DEF CurrIsAhead, Locked
  <2>2. CASE cache' = AfterSet(p)
    <3>1. cache'.curr = n
      BY <1>2, <1>3, <2>2 DEF AfterSet, Hash
    <3>2. QED  BY <1>5, <3>1 DEF CurrIsAhead, AheadOfAll
  <2>3. QED  BY <2>1, <2>2
<1>8. OneHolder'
  BY <1>6 DEF OneHolder, Holds
<1>9. ASSUME NEW q \in Caller  PROVE NotBehind(q)'
  <2>1. CASE q = p
    BY <1>1, <1>4, <2>1 DEF NotBehind, Hash
  <2>2. CASE q # p
    BY <1>6, <2>2 DEF Timely, NotBehind, Others, Holds
  <2>3. QED  BY <2>1, <2>2
<1>10. LaterIsHigher'
  BY DEF Timely, LaterIsHigher
<1>11. QED  BY <1>7, <1>8, <1>9, <1>10 DEF Timely

(* An answer is not above what the cache, or who has the lock, is ahead of. *)
LEMMA TimelyReturn ==
    ASSUME Sound, Timely, NEW p \in Caller, Others(p), Return(p)
    PROVE  Timely'
<1>1. /\ pc[p] = "return" /\ pc'[p] = "idle" /\ hold'[p] = NoHash /\ since'[p] = 0
      /\ UNCHANGED cache
      /\ log' = Append(log, [seq |-> hold[p].curr, size |-> size[p], since |-> since[p]])
      /\ top' = Larger(top, hold[p].curr + size[p])
  BY DEF Return, Finish, Goto, Answer, Sound, TypeOK
<1>2. hold[p].curr # Nil /\ hold[p].curr + size[p] = hold[p].last /\ hold[p].last \in Nat
  BY <1>1, TimeFacts, NilNat DEF Sound, InHand
<1>3. top' \in Nat /\ top <= top' /\ (top' = top \/ top' = hold[p].last)
  BY <1>1, <1>2, TimeFacts DEF Larger
<1>4. ASSUME NEW n, AheadOfAll(n)  PROVE AheadOfAll(n)'
  <2>1. top' <= n
    BY <1>1, <1>3, <1>4 DEF AheadOfAll
  <2>2. QED  BY <1>1, <1>4, <2>1 DEF AheadOfAll, Others
<1>5. CurrIsAhead'
  <2>1. ASSUME cache.curr # Nil, Locked => \E q \in Caller : Holds(q)'
        PROVE  AheadOfAll(cache.curr)
    BY <1>1, <2>1 DEF Timely, CurrIsAhead, Holds, Others
  <2>2. QED  BY <1>1, <1>4, <2>1 DEF CurrIsAhead, Holds, Locked, AheadOfAll
<1>6. OneHolder'
  BY <1>1 DEF Timely, OneHolder, Holds, Others
<1>7. ASSUME NEW q \in Caller  PROVE NotBehind(q)'
  <2>1. CASE q = p
    BY <1>1, <1>3, <2>1 DEF NotBehind, NoHash, Hash
  <2>2. CASE q # p
    <3>1. since[q] <= top'
      BY <1>3, TimeFacts DEF Timely, NotBehind
    <3>2. pc[q] = "set" => AheadOfAll(hold[q].curr + size[q])'
      <4>1. hold'[q] = hold[q] /\ size'[q] = size[q]
        BY <2>2 DEF Others
      <4>2. QED  BY <1>4, <4>1 DEF Timely, NotBehind, AheadOfAll
    <3>3. QED  BY <1>1, <2>2, <3>1, <3>2 DEF Timely, NotBehind, Others
  <2>3. QED  BY <2>1, <2>2
<1>8. LaterIsHigher'
  <2>1. log \in Seq([seq : Nat, size : Nat, since : Nat])
    BY DEF Sound, TypeOK
  <2>2. since[p] <= hold[p].curr
    BY <1>2 DEF Timely, NotBehind
  <2>3. ASSUME NEW i \in 1 .. Len(log')  PROVE log'[i].seq >= log'[i].since
    <3>1. CASE i \in 1 .. Len(log)
      <4>1. log'[i] = log[i]
        BY <1>1, <2>1, <3>1
      <4>2. QED  BY <3>1, <4>1 DEF Timely, LaterIsHigher
    <3>2. CASE i \notin 1 .. Len(log)
      <4>1. log'[i] = [seq |-> hold[p].curr, size |-> size[p], since |-> since[p]]
        BY <1>1, <2>1, <3>2
      <4>2. QED  BY <2>2, <4>1, <1>2, TimeFacts
    <3>3. QED  BY <3>1, <3>2
  <2>4. QED  BY <2>3 DEF LaterIsHigher
<1>9. QED  BY <1>5, <1>6, <1>7, <1>8 DEF Timely

(* The steps of one caller, unless an answer of setSeq is lost.            *)
LEMMA TimelyCaller ==
    ASSUME Sound, Timely, ~LostReplies, NEW p \in Caller,
           \/ Malloc(p) \/ GetMaxSeq(p) \/ SetMinSeqs(p) \/ Work(p) \/ Fail(p)
    PROVE  Timely'
<1> USE DEF Goto
<1>1. /\ DOMAIN pc = Caller /\ size \in [Caller -> Nat] /\ tries \in [Caller -> Nat]
      /\ hold = [q \in Caller |-> hold[q]] /\ since \in [Caller -> Nat] /\ top \in Nat
      /\ pc[p] \in {"idle", "malloc", "wait", "delmin"} => hold[p] = NoHash
      /\ since[p] \in 0 .. top /\ pc = [q \in Caller |-> pc[q]]
  <2>1. pc[p] \in {"idle", "malloc", "wait", "delmin"} => hold[p] = NoHash
    BY DEF Sound, InHand
  <2>2. since[p] <= top
    BY DEF Timely, NotBehind
  <2>3. /\ size \in [Caller -> Nat] /\ tries \in [Caller -> Nat]
        /\ since \in [Caller -> Nat] /\ top \in Nat
        /\ DOMAIN pc = Caller /\ DOMAIN hold = Caller
        /\ pc = [q \in Caller |-> pc[q]] /\ hold = [q \in Caller |-> hold[q]]
    BY DEF Sound, TypeOK
  <2>4. since[p] \in 0 .. top
    BY <2>2, <2>3
  <2>5. QED  BY <2>1, <2>2, <2>3, <2>4
<1>2. CASE \E n \in Nat : Start(p, n)
  <2>1. /\ Others(p) /\ UNCHANGED <<cache, top, log>> /\ pc'[p] = "malloc"
        /\ since'[p] = top /\ hold'[p] = NoHash
    BY <1>1, <1>2 DEF Start, Others, toldVars
  <2>2. QED  BY <1>1, <2>1, TimelyCalm
<1>3. CASE SetMinSeqs(p) \/ DeleteMinCache(p) \/ WaitLock(p)
  <2>1. /\ Others(p) /\ UNCHANGED <<cache, top, log, since, hold>>
        /\ pc'[p] \in {"idle", "malloc", "delmin"} /\ hold'[p] = NoHash
    BY <1>1, <1>3 DEF SetMinSeqs, DeleteMinCache, WaitLock, Others, toldVars
  <2>2. QED  BY <1>1, <2>1, TimelyCalm
<1>4. CASE LockTimeout(p) \/ Fail(p)
  <2>1. /\ Others(p) /\ UNCHANGED <<cache, top, log>> /\ pc'[p] = "idle"
        /\ since'[p] = 0 /\ hold'[p] = NoHash
    BY <1>1, <1>4 DEF LockTimeout, Fail, Finish, Others, toldVars
  <2>2. QED  BY <1>1, <2>1, TimelyCalm
<1>5. CASE EvalMalloc(p)
  <2>1. pc[p] = "malloc" /\ UNCHANGED <<top, log, size, since>>
    BY <1>5 DEF EvalMalloc, toldVars
  <2>2. Others(p)
    BY <1>1, <1>5 DEF EvalMalloc, MallocMiss, MallocBusy, MallocRefill, MallocHit, Others
  <2>3. CASE MallocMiss(p)
    <3>1. ~Locked /\ cache = NoHash /\ pc'[p] = "mongo"
      BY <1>1, <2>3 DEF MallocMiss, Locked, NoHash, Hash
    <3>2. PICK l \in LockValues : cache' = Hash(l, Nil, Nil) /\ hold'[p] = Hash(l, Nil, Nil)
      BY <1>1, <2>3 DEF MallocMiss
    <3>3. l \in Nat
      BY ConstantAssumption
    <3>4. QED  BY <2>1, <2>2, <3>1, <3>2, <3>3, TimelyLocks
  <2>4. CASE MallocRefill(p)
    <3>1. /\ ~Locked /\ cache # NoHash /\ cache.curr + size[p] > cache.last
          /\ pc'[p] = "mongo"
      BY <1>1, <2>4 DEF MallocRefill
    <3>2. PICK l \in LockValues : /\ cache' = Hash(l, cache.last, cache.last)
                                  /\ hold'[p] = Hash(l, cache.curr, cache.last)
      BY <1>1, <2>4 DEF MallocRefill
    <3>3. l \in Nat
      BY ConstantAssumption
    <3>4. QED  BY <2>1, <2>2, <3>1, <3>2, <3>3, TimelyLocks
  <2>5. CASE MallocHit(p)
    BY <2>1, <2>2, <2>5, TimelyHit
  <2>6. CASE MallocBusy(p)
    <3>1. UNCHANGED <<cache, hold>> /\ pc'[p] = "wait"
      BY <1>1, <2>6 DEF MallocBusy
    <3>2. QED  BY <1>1, <2>1, <2>2, <3>1, TimelyCalm
  <2>7. QED  BY <1>5, <2>3, <2>4, <2>5, <2>6 DEF EvalMalloc
<1>6. CASE MongoMalloc(p)
  <2>1. Others(p)
    BY <1>1, <1>6 DEF MongoMalloc, Others
  <2>2. QED  BY <1>6, <2>1, TimelyMongo
<1>7. CASE SetSeq(p) \/ SetSeqGivesUp(p)
  <2>1. /\ Others(p) /\ pc[p] = "set" /\ pc'[p] = "return" /\ KeepAnswer(p)
        /\ UNCHANGED <<top, log, size, since>>
        /\ cache' = cache \/ cache' = AfterSet(p)
    BY <1>1, <1>7 DEF SetSeq, SetSeqGivesUp, KeepAnswer, Others, toldVars
  <2>2. QED  BY <2>1, TimelySets
<1>8. CASE SetSeqFails(p)
  <2>1. pc[p] = "set" /\ Retry(p) /\ UNCHANGED <<cache, top, log, size, since>>
    BY <1>8 DEF SetSeqFails, toldVars
  <2>2. CASE UNCHANGED <<pc, hold>>
    BY <2>1, <2>2 DEF Timely, OneHolder, CurrIsAhead, AheadOfAll, NotBehind,
          LaterIsHigher, Holds, Locked
  <2>3. CASE KeepAnswer(p) /\ pc' = [pc EXCEPT ![p] = "return"]
    <3>1. Others(p) /\ pc'[p] = "return"
      BY <1>1, <2>1, <2>3 DEF KeepAnswer, Others
    <3>2. QED  BY <2>1, <2>3, <3>1, TimelySets
  <2>4. QED  BY <2>1, <2>2, <2>3 DEF Retry
<1>9. CASE Return(p)
  <2>1. Others(p)
    BY <1>1, <1>9 DEF Return, Finish, Others
  <2>2. QED  BY <1>9, <2>1, TimelyReturn
<1>10. \A n \in Sizes : n \in Nat
  BY ConstantAssumption
<1>11. QED
  BY <1>2, <1>3, <1>4, <1>5, <1>6, <1>7, <1>8, <1>9, <1>10
     DEF Work, Malloc, GetMaxSeq, SetSeqLost

(* A batched question is told what whoever has the lock is ahead of, and   *)
(* the hash goes when nobody has the lock.                                 *)
LEMMA TimelyShared ==
    ASSUME Sound, Timely,
           \/ BatchGetMaxSeq
           \/ Expire /\ \A p \in Caller : ~Holds(p)
           \/ GetMinSeq \/ ExpireMinSeq \/ UNCHANGED vars
    PROVE  Timely'
<1>1. CASE BatchGetMaxSeq
  <2>1. /\ cache.curr # Nil /\ top' = Larger(top, cache.curr)
        /\ UNCHANGED <<cache, pc, size, hold, since, log>>
    BY <1>1 DEF BatchGetMaxSeq, callVars
  <2>2. top' \in Nat /\ top <= top' /\ cache.curr \in Nat
        /\ \A n \in Nat : top <= n /\ cache.curr <= n => top' <= n
    BY <2>1, TimeFacts DEF Larger
  <2>3. CurrIsAhead'
    BY <2>1, <2>2 DEF Timely, CurrIsAhead, AheadOfAll, Holds, Locked
  <2>4. ASSUME NEW p \in Caller  PROVE NotBehind(p)'
    <3>1. since[p] <= top'
      BY <2>2, TimeFacts DEF Timely, NotBehind
    <3>2. ASSUME pc[p] = "set"  PROVE AheadOfAll(hold[p].curr + size[p])'
      <4>1. PICK n \in Nat : n = hold[p].curr + size[p]
        BY <3>2, TimeFacts, NilNat DEF Sound, InHand
      <4>2. AheadOfAll(n) /\ cache.curr <= n
        BY <3>2, <4>1 DEF Timely, NotBehind
      <4>3. QED  BY <2>1, <2>2, <4>1, <4>2 DEF AheadOfAll
    <3>3. QED  BY <2>1, <3>1, <3>2 DEF Timely, NotBehind
  <2>5. OneHolder' /\ LaterIsHigher'
    BY <2>1 DEF Timely, OneHolder, Holds, LaterIsHigher
  <2>6. QED  BY <2>3, <2>4, <2>5 DEF Timely
<1>2. CASE Expire /\ \A p \in Caller : ~Holds(p)
  BY <1>2 DEF Expire, Timely, OneHolder, CurrIsAhead, AheadOfAll, NotBehind,
        LaterIsHigher, Holds, Locked, NoHash, Hash, callVars, toldVars
<1>3. CASE GetMinSeq \/ ExpireMinSeq \/ UNCHANGED vars
  BY <1>3 DEF GetMinSeq, ExpireMinSeq, Timely, OneHolder, CurrIsAhead, AheadOfAll,
        NotBehind, LaterIsHigher, Holds, Locked, vars, callVars, toldVars
<1>4. QED  BY <1>1, <1>2, <1>3

(* As long as no answer of setSeq is lost, every state in which no lock    *)
(* has expired under its holder is timely.                                 *)
LEMMA TimeInvStep ==
    ASSUME ~LostReplies, TimeInv, [MCNext]_<<vars, late>>
    PROVE  TimeInv'
<1>1. Sound'
  BY SoundStep DEF TimeInv, MCNext
<1>2. ASSUME ~late'  PROVE Timely'
  <2>1. CASE UNCHANGED <<vars, late>>
    BY <1>2, <2>1, TimelyShared DEF TimeInv
  <2>2. CASE MCNext
    <3>1. /\ Sound /\ Timely /\ Next
          /\ cache # NoHash /\ cache' = NoHash => \A p \in Caller : ~Holds(p)
      BY <1>2, <2>2 DEF MCNext, TimeInv, Holds
    <3>2. Expire => \A p \in Caller : ~Holds(p)
      BY <3>1 DEF Expire
    <3>3. QED  BY <3>1, <3>2, TimelyCaller, TimelyShared DEF Next
  <2>3. QED  BY <2>1, <2>2
<1>3. QED  BY <1>1, <1>2 DEF TimeInv

(* Nobody has been told anything. *)
LEMMA TimeInvInit == MCInit => TimeInv
<1> SUFFICES ASSUME MCInit  PROVE TimeInv
  OBVIOUS
<1>1. Sound
  BY SoundInit DEF MCInit
<1>2. Timely
  BY NilNat DEF MCInit, Init, Timely, OneHolder, CurrIsAhead, NotBehind, LaterIsHigher,
        Holds, Locked, NoHash, Hash
<1>3. QED  BY <1>1, <1>2 DEF TimeInv

(* Whatever callers, sizes and failures there are: a call that begins      *)
(* after others were answered gets higher numbers than they did, unless a  *)
(* lock expired under its holder or an answer of setSeq was lost.          *)
THEOREM NumbersFollowTime ==
    ASSUME ~LostReplies
    PROVE  MCSpec => []LaterIsHigherInTime
<1>1. TimeInv => LaterIsHigherInTime
  BY DEF TimeInv, Timely, LaterIsHigherInTime
<1>2. TimeInv /\ [MCNext]_<<vars, late>> => TimeInv'
  BY TimeInvStep
<1>3. QED
  BY <1>1, <1>2, TimeInvInit, PTL DEF MCSpec

(* Under the same conditions no batched question, which reads CURR without *)
(* looking at the lock, is told less than anybody was told before.         *)
THEOREM PeeksAreCurrent ==
    ASSUME ~LostReplies
    PROVE  MCSpec => []PeekIsCurrentInTime
<1>1. TimeInv => PeekIsCurrentInTime
  <2>1. Timely => PeekIsCurrent
    BY DEF Timely, CurrIsAhead, AheadOfAll, PeekIsCurrent, Holds
  <2>2. QED  BY <2>1, TimeFacts DEF TimeInv, PeekIsCurrentInTime
<1>2. TimeInv /\ [MCNext]_<<vars, late>> => TimeInv'
  BY TimeInvStep
<1>3. QED
  BY <1>1, <1>2, TimeInvInit, PTL DEF MCSpec
=============================================================================
