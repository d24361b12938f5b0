------------------------- MODULE MsgTransferProofs --------------------------
(***************************************************************************)
(* For all topics, partitions, keys, workers, batch sizes, failing calls   *)
(* and restarts: no committed offset skips a message, the numbers of a     *)
(* conversation follow the order of its partition, and what is pushed can  *)
(* be read.                                                                *)
(*                                                                         *)
(* First, that nothing is skipped.  What has been read of a partition is   *)
(* handled or in the batch; what a job has done so far depends on where it *)
(* stands (JobOK); when the workers have no job left, all of the batch is  *)
(* handled, and the offset of its last message may be committed.           *)
(***************************************************************************)
EXTENDS MsgTransfer, TLAPS, FiniteSetTheorems, WellFoundedInduction

Pcs == {"none", "queued", "start"} \cup Calls
Jobs == [pc : Pcs, part : Part, base : Nat, done : Nat]

TransferTypes ==
    /\ pos \in [Partition -> Nat] /\ committed \in [Partition -> Nat]
    /\ batch \in Seq(Ref) /\ lists \in [Key \X Part -> Seq(Ref)]
    /\ sched \in {"collect", "wait"}
    /\ job \in [Key -> Jobs]
    /\ maxSeq \in [Key \X Part -> Nat]
    /\ toMongo \in Seq(SUBSET Entries)

(* What has been read is handled or in the batch, and what is committed is  *)
(* handled.                                                                 *)
Covered ==
    \A p \in Partition : \A o \in 1 .. pos[p] :
        Handled(<<p, o>>) \/ <<p, o>> \in Elems(batch)

BatchWasRead == \A r \in Elems(batch) : r[2] =< pos[r[1]]

(* What a key is to store of the batch is in its lists. *)
InLists ==
    \A r \in Elems(batch) : \A part \in Part :
        Stored(Msg(r), part) => r \in Elems(lists[<<Msg(r).key, part>>])

Mine(k) == {r \in Elems(batch) : Msg(r).key = k}

(* The job has ended with a conversation. *)
Over(k, part) == job[k].pc = "none" \/ (part = "chat" /\ job[k].part = "note")

(* The message at that place of the list is in the message cache. *)
WasCached(k, i) ==
    \/ job[k].pc = "cache" /\ i =< job[k].done
    \/ job[k].pc \in {"read", "create", "mongo", "push"}

(* The job of a key: what it has ended is handled, and what is under way is *)
(* as far as its place says.                                                *)
JobOK(k) ==
    /\ \A part \in Part : Over(k, part) => \A r \in Mine(k) : HandledIn(r, part)
    /\ job[k].pc \in Calls =>
         \A r \in Mine(k) :
             OnlyPushed(Msg(r), job[k].part) => PushedIn(r, job[k].part)
    /\ job[k].pc \in {"queued", "start", "malloc"} => job[k].done = 0
    /\ job[k].pc \in {"malloc", "cache"} => job[k].done < Len(StorageList(k))
    /\ \A i \in 1 .. Len(StorageList(k)) :
         WasCached(k, i) => Numbered(k)[i] \in cached
    /\ job[k].pc = "push" =>
         \A i \in 1 .. Len(StorageList(k)) :
             \/ Numbered(k)[i] \in OnTheWayToMongo
             \/ Failed("mongo", StorageList(k)[i])

Workers ==
    /\ sched = "collect" => \A k \in Key : job[k].pc = "none"
    /\ sched = "wait" => batch # << >> /\ \A k \in Key : JobOK(k)

SkipInv ==
    /\ TransferTypes /\ NothingSkipped /\ Covered /\ BatchWasRead /\ InLists
    /\ Workers

-----------------------------------------------------------------------------
(* The elements of a sequence.                                             *)
LEMMA ElemsOfSeq ==
    ASSUME NEW S, NEW s \in Seq(S), NEW x \in S
    PROVE  /\ Elems(s) \subseteq S
           /\ Elems(Append(s, x)) = Elems(s) \cup {x}
           /\ s # << >> => s[Len(s)] \in Elems(s)
           /\ \A i \in 1 .. Len(s) :
                i \in 1 .. Len(Append(s, x)) /\ Append(s, x)[i] = s[i]
<1>0. \A i \in 1 .. Len(s) :
        i \in 1 .. Len(Append(s, x)) /\ Append(s, x)[i] = s[i]
  OBVIOUS
<1>1. Elems(s) \subseteq S
  BY DEF Elems
<1>2. Elems(s) \cup {x} \subseteq Elems(Append(s, x))
  <2>1. ASSUME NEW i \in 1 .. Len(s)  PROVE s[i] \in Elems(Append(s, x))
    BY <1>0 DEF Elems
  <2>2. x \in Elems(Append(s, x))
    <3>1. /\ Len(s) + 1 \in 1 .. Len(Append(s, x))
          /\ Append(s, x)[Len(s) + 1] = x
      OBVIOUS
    <3>2. QED  BY <3>1 DEF Elems
  <2>3. QED  BY <2>1, <2>2 DEF Elems
<1>3. Elems(Append(s, x)) \subseteq Elems(s) \cup {x}
  <2>1. ASSUME NEW i \in 1 .. Len(Append(s, x))
        PROVE  Append(s, x)[i] \in Elems(s) \cup {x}
    <3>1. CASE i = Len(s) + 1
      BY <3>1
    <3>2. CASE i # Len(s) + 1
      <4>1. i \in 1 .. Len(s) /\ Append(s, x)[i] = s[i]
        BY <3>2
      <4>2. QED  BY <4>1 DEF Elems
    <3>3. QED  BY <3>1, <3>2
  <2>2. QED  BY <2>1 DEF Elems
<1>4. s # << >> => s[Len(s)] \in Elems(s)
  <2>1. s # << >> => Len(s) \in 1 .. Len(s)
    OBVIOUS
  <2>2. QED  BY <2>1 DEF Elems
<1>5. QED  BY <1>0, <1>1, <1>2, <1>3, <1>4

(* A reference is a partition and a place in it. *)
LEMMA Refs ==
    /\ \A r \in Ref : /\ r[1] \in Partition /\ r[2] \in 1 .. Len(Topic[r[1]])
                      /\ r = <<r[1], r[2]>> /\ Msg(r).key \in Key
    /\ \A p \in Partition : \A o \in 1 .. Len(Topic[p]) : <<p, o>> \in Ref
<1>1. ASSUME NEW r \in Ref
      PROVE  /\ r[1] \in Partition /\ r[2] \in 1 .. Len(Topic[r[1]])
             /\ r = <<r[1], r[2]>> /\ Msg(r).key \in Key
  <2>1. PICK p \in Partition : r \in {p} \X (1 .. Len(Topic[p]))
    BY DEF Ref
  <2>2. /\ r[1] = p /\ r[2] \in 1 .. Len(Topic[p]) /\ r = <<r[1], r[2]>>
    BY <2>1
  <2>3. QED  BY <2>2, TransferAssumption DEF Msg
<1>2. ASSUME NEW p \in Partition, NEW o \in 1 .. Len(Topic[p])
      PROVE  <<p, o>> \in Ref
  BY DEF Ref
<1>3. QED  BY <1>1, <1>2

(* What a job sends is made of entries. *)
LEMMA EntriesOfJob ==
    ASSUME TransferTypes, NEW k \in Key
    PROVE  /\ StorageList(k) \in Seq(Ref) /\ job[k].part \in Part
           /\ \A i \in 1 .. Len(StorageList(k)) :
                /\ StorageList(k)[i] \in Ref
                /\ Numbered(k)[i] =
                     Entry(k, job[k].part, job[k].base + i, StorageList(k)[i])
                /\ Numbered(k)[i] \in Elems(Numbered(k))
           /\ \A e \in Elems(Numbered(k)) :
                \E i \in 1 .. Len(StorageList(k)) : e = Numbered(k)[i]
           /\ Elems(Numbered(k)) \subseteq Entries
<1>1. /\ job[k].part \in Part /\ job[k].base \in Nat
      /\ StorageList(k) \in Seq(Ref)
  BY DEF TransferTypes, Jobs, StorageList
<1>2. Len(StorageList(k)) \in Nat
  BY <1>1
<1>3. /\ Len(Numbered(k)) = Len(StorageList(k))
      /\ \A i \in 1 .. Len(StorageList(k)) : Numbered(k)[i] =
           Entry(k, job[k].part, job[k].base + i, StorageList(k)[i])
  BY <1>2 DEF Numbered
<1>4. \A i \in 1 .. Len(StorageList(k)) :
        StorageList(k)[i] \in Ref /\ Numbered(k)[i] \in Entries
  <2>1. SUFFICES ASSUME NEW i \in 1 .. Len(StorageList(k))
                 PROVE  StorageList(k)[i] \in Ref /\ Numbered(k)[i] \in Entries
    OBVIOUS
  <2>2. StorageList(k)[i] \in Ref
    BY <1>1
  <2>3. job[k].base + i \in Nat
    BY <1>1, <1>2
  <2>4. Entry(k, job[k].part, job[k].base + i, StorageList(k)[i]) \in Entries
    BY <1>1, <2>2, <2>3 DEF Entry, Entries
  <2>5. QED  BY <1>3, <2>2, <2>4
<1>5. QED  BY <1>1, <1>3, <1>4 DEF Elems

-----------------------------------------------------------------------------
(* Nothing is taken back from the caches and topics.                       *)
Grows ==
    /\ cached \subseteq cached' /\ pushed \subseteq pushed'
    /\ failed \subseteq failed'
    /\ OnTheWayToMongo \subseteq OnTheWayToMongo'
(* Every step of Next only adds to them. *)
LEMMA GrowsByNext ==
    ASSUME TransferTypes, [Next]_vars
    PROVE  Grows
<1> USE DEF Grows, OnTheWayToMongo, mongoVars, histVars
<1>1. CASE UNCHANGED vars
  BY <1>1 DEF vars
<1>2. ASSUME NEW p \in Partition, Put(p)  PROVE Grows
  BY <1>2 DEF Put
<1>3. CASE Distribute \/ OnComplete \/ Crash \/ MongoRestart
  BY <1>3 DEF Distribute, OnComplete, Crash, MongoRestart
<1>4. ASSUME NEW k \in Key, Work(k)  PROVE Grows
  <2>1. CASE StartJob(k) \/ PushNotStored(k) \/ Malloc(k) \/ MallocFails(k)
               \/ InsertFails(k) \/ SetMessage(k) \/ SetHasReadSeqs(k)
               \/ CreateConversation(k) \/ PushStored(k)
    BY <2>1 DEF StartJob, PushNotStored, ToPushTopic, Malloc, InsertFails, MallocFails,
      SetMessage, SetHasReadSeqs, CreateConversation, PushStored, Blame
  <2>2. CASE MsgToMongoMQ(k)
    <3>1. /\ UNCHANGED <<cached, pushed, mongo>> /\ failed \subseteq failed'
          /\ \/ toMongo' = Append(toMongo, Elems(Numbered(k)))
             \/ UNCHANGED toMongo
      BY <2>2 DEF MsgToMongoMQ, Blame
    <3>2. \A i \in 1 .. Len(toMongo) :
            i \in 1 .. Len(toMongo') /\ toMongo'[i] = toMongo[i]
      <4>1. Elems(Numbered(k)) \in SUBSET Entries
        BY EntriesOfJob
      <4>2. toMongo \in Seq(SUBSET Entries)
        BY DEF TransferTypes
      <4>3. QED  BY <3>1, <4>1, <4>2, ElemsOfSeq
    <3>3. QED  BY <3>1, <3>2
  <2>3. QED  BY <1>4, <2>1, <2>2 DEF Work
<1>5. CASE HandleChatWs2Mongo
  BY <1>5 DEF HandleChatWs2Mongo, Blame
<1>6. QED  BY <1>1, <1>2, <1>3, <1>4, <1>5 DEF Next

(* What is handled remains so. *)
LEMMA HandledStays ==
    ASSUME Grows, NEW r, NEW part \in Part
    PROVE  /\ PushedIn(r, part) => PushedIn(r, part)'
           /\ StoredIn(r, part) => StoredIn(r, part)'
           /\ HandledIn(r, part) => HandledIn(r, part)'
<1>1. PushedIn(r, part) => PushedIn(r, part)'
  BY DEF Grows, PushedIn, Failed
<1>2. StoredIn(r, part) => StoredIn(r, part)'
  BY DEF Grows, StoredIn, Failed, CachedAs
<1>3. QED  BY <1>1, <1>2 DEF HandledIn

(* A job that a step leaves as it is. *)
LEMMA JobStays ==
    ASSUME NEW k \in Key, JobOK(k), Grows, job[k] \in Jobs,
           UNCHANGED <<batch, lists>>, job'[k] = job[k]
    PROVE  JobOK(k)'
<1>1. Mine(k)' = Mine(k) /\ StorageList(k)' = StorageList(k)
  BY DEF Mine, StorageList, Elems
<1>2. Numbered(k)' = Numbered(k)
  BY <1>1 DEF Numbered
<1>3. job[k].part \in Part
  BY DEF Jobs
<1>4. \A part \in Part : Over(k, part)' => \A r \in Mine(k)' : HandledIn(r, part)'
  BY <1>1, HandledStays DEF JobOK, Over
<1>5. (job[k].pc \in Calls =>
         \A r \in Mine(k) :
             OnlyPushed(Msg(r), job[k].part) => PushedIn(r, job[k].part))'
  <2>1. SUFFICES ASSUME job[k].pc \in Calls, NEW r \in Mine(k),
                        OnlyPushed(Msg(r), job[k].part)
                 PROVE  PushedIn(r, job[k].part)'
    BY <1>1
  <2>2. PushedIn(r, job[k].part)
    BY <2>1 DEF JobOK
  <2>3. \A part \in Part : PushedIn(r, part) => PushedIn(r, part)'
    BY HandledStays
  <2>4. job'[k].part = job[k].part
    OBVIOUS
  <2>5. QED  BY <1>3, <2>2, <2>3, <2>4 DEF PushedIn
<1>6. \A i \in 1 .. Len(StorageList(k)') :
         WasCached(k, i)' => Numbered(k)'[i] \in cached'
  BY <1>1, <1>2 DEF JobOK, WasCached, Grows
<1>7. job'[k].pc = "push" =>
         \A i \in 1 .. Len(StorageList(k)') :
             \/ Numbered(k)'[i] \in OnTheWayToMongo'
             \/ Failed("mongo", StorageList(k)[i])'
  BY <1>1, <1>2 DEF JobOK, Failed, Grows
<1>8. QED  BY <1>1, <1>4, <1>5, <1>6, <1>7 DEF JobOK

-----------------------------------------------------------------------------
(* The types of what the invariant speaks of. *)
LEMMA NoJobIsAJob ==
    /\ NoJob \in Jobs /\ [NoJob EXCEPT !.pc = "queued"] \in Jobs
    /\ [NoJob EXCEPT !.pc = "start", !.part = "note"] \in Jobs
BY DEF NoJob, Jobs, Pcs, Part

(* An allocation that fails raises the numbers of its conversation, or      *)
(* leaves all as they are.                                                  *)
LEMMA NumbersUsedUp ==
    ASSUME TransferTypes, NEW k \in Key, MallocFails(k)
    PROVE  /\ maxSeq' \in [Key \X Part -> Nat]
           /\ \A c \in Key \X Part : maxSeq[c] =< maxSeq'[c]
           /\ maxSeq' = [maxSeq EXCEPT ![<<k, job[k].part>>] =
                                         maxSeq'[<<k, job[k].part>>]]
<1> DEFINE d == <<k, job[k].part>>
<1>1. /\ maxSeq \in [Key \X Part -> Nat] /\ d \in Key \X Part
      /\ Len(StorageList(k)) \in Nat
  BY EntriesOfJob DEF TransferTypes, Jobs
<1>2. PICK n \in {0, Len(StorageList(k))} :
        maxSeq' = [maxSeq EXCEPT ![d] = @ + n]
  BY DEF MallocFails
<1>3. n \in Nat /\ maxSeq[d] \in Nat
  BY <1>1
<1> HIDE DEF d
<1>4. /\ maxSeq'[d] = maxSeq[d] + n
      /\ \A c \in Key \X Part : c # d => maxSeq'[c] = maxSeq[c]
  BY <1>1, <1>2
<1>5. \A c \in Key \X Part : maxSeq[c] =< maxSeq'[c] /\ maxSeq'[c] \in Nat
  <2>1. ASSUME NEW c \in Key \X Part
        PROVE  maxSeq[c] =< maxSeq'[c] /\ maxSeq'[c] \in Nat
    <3>1. maxSeq[c] \in Nat
      BY <1>1
    <3>2. QED  BY <1>3, <1>4, <3>1
  <2>2. QED  BY <2>1
<1>6. maxSeq' = [maxSeq EXCEPT ![d] = maxSeq'[d]]
  BY <1>1, <1>2, <1>4
<1>7. maxSeq' \in [Key \X Part -> Nat]
  BY <1>1, <1>2, <1>5
<1>8. QED  BY <1>5, <1>6, <1>7 DEF d

(* The numbers of other keys stay. *)
LEMMA OthersNumbers ==
    ASSUME TransferTypes, NEW k \in Key, MallocFails(k), NEW l \in Key, l # k,
           NEW part \in Part
    PROVE  maxSeq'[<<l, part>>] = maxSeq[<<l, part>>]
<1>1. /\ maxSeq' = [maxSeq EXCEPT ![<<k, job[k].part>>] =
                                    maxSeq'[<<k, job[k].part>>]]
      /\ maxSeq \in [Key \X Part -> Nat]
  BY NumbersUsedUp DEF TransferTypes
<1>2. QED  BY <1>1

(* A step of a job keeps the types. *)
LEMMA TypesOfWork ==
    ASSUME TransferTypes, NEW k \in Key, Work(k)
    PROVE  TransferTypes'
<1> USE DEF TransferTypes, kafkaVars, mongoVars, histVars
<1>1. job[k] \in Jobs /\ job \in [Key -> Jobs]
  OBVIOUS
<1>2. ASSUME NEW pc \in Pcs, Goto(k, pc)  PROVE job' \in [Key -> Jobs]
  BY <1>1, <1>2 DEF Goto, Jobs
<1>3. ASSUME EndPart(k)  PROVE job' \in [Key -> Jobs]
  BY <1>1, <1>3, NoJobIsAJob DEF EndPart
<1>4. UNCHANGED <<pos, committed, batch, lists, sched>>
  BY DEF Work, StartJob, PushNotStored, Malloc, InsertFails, MallocFails, SetMessage,
    SetHasReadSeqs, CreateConversation, MsgToMongoMQ, PushStored
<1>5. CASE StartJob(k)
  BY <1>4, <1>5, <1>2 DEF StartJob, Pcs
<1>6. CASE PushNotStored(k)
  BY <1>4, <1>6, <1>2, <1>3 DEF PushNotStored, Pcs, Calls
<1>7. CASE Malloc(k)
  <2>1. /\ job[k].part \in Part /\ Len(StorageList(k)) \in Nat
    BY <1>1, EntriesOfJob DEF Jobs
  <2>2. maxSeq[<<k, job[k].part>>] \in Nat
    BY <2>1
  <2>3. maxSeq' \in [Key \X Part -> Nat]
    BY <1>7, <2>1, <2>2 DEF Malloc
  <2>4. job' \in [Key -> Jobs]
    BY <1>1, <1>7, <2>2 DEF Malloc, Jobs, Pcs, Calls
  <2>5. QED  BY <1>4, <1>7, <2>3, <2>4 DEF Malloc
<1>8. CASE InsertFails(k)
  BY <1>4, <1>8, <1>3 DEF InsertFails
<1>9. CASE SetMessage(k)
  <2>1. job[k].done + 1 \in Nat
    BY <1>1 DEF Jobs
  <2>2. \E pc \in {"cache", "read", "mongo"} :
          job' = [job EXCEPT ![k].done = job[k].done + 1, ![k].pc = pc]
    BY <1>1, <1>9 DEF SetMessage
  <2>3. job' \in [Key -> Jobs]
    <3>1. PICK pc \in {"cache", "read", "mongo"} :
            job' = [job EXCEPT ![k].done = job[k].done + 1, ![k].pc = pc]
      BY <2>2
    <3>2. [job[k] EXCEPT !.done = job[k].done + 1, !.pc = pc] \in Jobs
      BY <1>1, <2>1 DEF Jobs, Pcs, Calls
    <3>3. job' = [job EXCEPT ![k] =
                    [job[k] EXCEPT !.done = job[k].done + 1, !.pc = pc]]
      BY <1>1, <3>1 DEF Jobs
    <3>4. QED  BY <1>1, <3>2, <3>3
  <2>4. QED  BY <1>4, <1>9, <2>3 DEF SetMessage
<1>10. CASE SetHasReadSeqs(k)
  <2>1. \E pc \in {"create", "mongo"} : Goto(k, pc)
    BY <1>10 DEF SetHasReadSeqs
  <2>2. QED  BY <1>4, <1>10, <2>1, <1>2 DEF SetHasReadSeqs, Pcs, Calls
<1>11. CASE CreateConversation(k)
  BY <1>4, <1>11, <1>2 DEF CreateConversation, Pcs, Calls
<1>12. CASE MsgToMongoMQ(k)
  <2>1. Elems(Numbered(k)) \in SUBSET Entries
    BY EntriesOfJob
  <2>2. toMongo' \in Seq(SUBSET Entries)
    <3>1. \/ toMongo' = Append(toMongo, Elems(Numbered(k)))
          \/ toMongo' = toMongo
      BY <1>12 DEF MsgToMongoMQ
    <3>2. toMongo \in Seq(SUBSET Entries)
      OBVIOUS
    <3>3. QED  BY ONLY <2>1, <3>1, <3>2
  <2>3. QED  BY <1>4, <1>12, <1>2, <2>2 DEF MsgToMongoMQ, Pcs, Calls
<1>13. CASE PushStored(k)
  BY <1>4, <1>13, <1>3 DEF PushStored
<1>14. CASE MallocFails(k)
  <2>1. maxSeq' \in [Key \X Part -> Nat]
    BY <1>14, NumbersUsedUp DEF Jobs
  <2>2. QED  BY <1>4, <1>14, <1>3, <2>1 DEF MallocFails
<1>15. QED
  BY <1>5, <1>6, <1>7, <1>8, <1>9, <1>10, <1>11, <1>12, <1>13, <1>14 DEF Work

(* A message that is put is one of the topic, and goes to the lists of its  *)
(* key.                                                                     *)
LEMMA PutsARef ==
    ASSUME TransferTypes, NEW p \in Partition, pos[p] < Len(Topic[p])
    PROVE  /\ <<p, pos[p] + 1>> \in Ref
           /\ Categorize(<<p, pos[p] + 1>>) \in [Key \X Part -> Seq(Ref)]
<1>1. pos[p] \in Nat /\ Len(Topic[p]) \in Nat
  BY TransferAssumption DEF TransferTypes
<1>2. <<p, pos[p] + 1>> \in Ref
  BY <1>1, Refs
<1>3. \A c \in Key \X Part :
        lists[c] \in Seq(Ref) /\ Append(lists[c], <<p, pos[p] + 1>>) \in Seq(Ref)
  BY <1>2 DEF TransferTypes
<1>4. QED  BY <1>2, <1>3 DEF Categorize

(* Every step does. *)
LEMMA Types ==
    ASSUME TransferTypes, Workers, [Next]_vars
    PROVE  TransferTypes'
<1> USE DEF TransferTypes, kafkaVars, mongoVars, histVars
<1>1. CASE UNCHANGED vars
  BY <1>1 DEF vars
<1>2. ASSUME NEW p \in Partition, Put(p)  PROVE TransferTypes'
  <2>1. pos' \in [Partition -> Nat]
    BY <1>2 DEF Put
  <2>2. batch' \in Seq(Ref) /\ lists' \in [Key \X Part -> Seq(Ref)]
    BY <1>2, PutsARef, SMTT(30) DEF Put
  <2>3. QED  BY <1>2, <2>1, <2>2 DEF Put
<1>3. CASE Distribute
  BY <1>3, NoJobIsAJob DEF Distribute
<1>4. NoLists \in [Key \X Part -> Seq(Ref)]
  BY DEF NoLists
<1>5. CASE OnComplete
  <2>1. committed' \in [Partition -> Nat]
    <3>1. batch[Len(batch)] \in Ref => batch[Len(batch)][2] \in Nat
      BY Refs
    <3>2. batch # << >> => batch[Len(batch)] \in Ref
      OBVIOUS
    <3>3. CASE batch # << >>
      BY <1>5, <3>1, <3>2, <3>3 DEF OnComplete
    <3>4. QED  BY <1>5, <3>3 DEF OnComplete, Workers
  <2>2. QED  BY <1>5, <1>4, <2>1 DEF OnComplete
<1>6. CASE Crash
  BY <1>4, <1>6, NoJobIsAJob DEF Crash
<1>7. CASE MongoRestart \/ HandleChatWs2Mongo
  BY <1>7 DEF MongoRestart, HandleChatWs2Mongo
<1>8. QED  BY <1>1, <1>2, <1>3, <1>5, <1>6, <1>7, TypesOfWork DEF Next

-----------------------------------------------------------------------------
(* A step that leaves the batch and the offsets as they are. *)
LEMMA BatchKept ==
    ASSUME SkipInv, Grows, UNCHANGED kafkaVars
    PROVE  NothingSkipped' /\ Covered' /\ BatchWasRead' /\ InLists'
<1>1. UNCHANGED <<pos, committed, batch, lists>>
  BY DEF kafkaVars
<1>2. \A r : Handled(r) => Handled(r)'
  <2>1. SUFFICES ASSUME NEW r, Handled(r), NEW part \in Part
                 PROVE  HandledIn(r, part)'
    BY DEF Handled
  <2>2. QED  BY <2>1, HandledStays DEF Handled
<1>3. NothingSkipped'
  BY <1>1, <1>2 DEF SkipInv, NothingSkipped
<1>4. Covered'
  BY <1>1, <1>2 DEF SkipInv, Covered, Elems
<1>5. BatchWasRead' /\ InLists'
  BY <1>1 DEF SkipInv, BatchWasRead, InLists, Elems
<1>6. QED  BY <1>3, <1>4, <1>5

(* A step of one job. *)
LEMMA OneJobMoves ==
    ASSUME SkipInv, TransferTypes', Grows, UNCHANGED kafkaVars, sched = "wait",
           NEW k \in Key, JobOK(k)',
           \A l \in Key : l # k => job'[l] = job[l]
    PROVE  SkipInv'
<1>1. UNCHANGED <<pos, committed, batch, lists, sched>>
  BY DEF kafkaVars
<1>2. ASSUME NEW l \in Key  PROVE JobOK(l)'
  <2>1. CASE l = k
    BY <2>1
  <2>2. CASE l # k
    <3>1. JobOK(l) /\ job[l] \in Jobs /\ job'[l] = job[l]
      BY <2>2 DEF SkipInv, Workers, TransferTypes
    <3>2. UNCHANGED <<batch, lists>>
      BY <1>1
    <3>3. QED  BY <3>1, <3>2, JobStays
  <2>3. QED  BY <2>1, <2>2
<1>3. Workers'
  BY <1>1, <1>2 DEF SkipInv, Workers
<1>4. QED  BY <1>3, BatchKept DEF SkipInv

(* What such a step owes when it stays with the same conversation ... *)
LEMMA JobMoves ==
    ASSUME NEW k \in Key, JobOK(k), Grows, job[k] \in Jobs,
           UNCHANGED <<batch, lists>>, job'[k].part = job[k].part,
           job'[k].pc # "none",
           job'[k].pc \in Calls =>
             \A r \in Mine(k) :
               OnlyPushed(Msg(r), job[k].part) => PushedIn(r, job[k].part)',
           job'[k].pc \in {"queued", "start", "malloc"} => job'[k].done = 0,
           job'[k].pc \in {"malloc", "cache"} => job'[k].done < Len(StorageList(k)),
           \A i \in 1 .. Len(StorageList(k)) :
             WasCached(k, i)' => (Numbered(k)[i] \in cached)',
           job'[k].pc = "push" =>
             \A i \in 1 .. Len(StorageList(k)) :
               \/ (Numbered(k)[i] \in OnTheWayToMongo)'
               \/ Failed("mongo", StorageList(k)[i])'
    PROVE  JobOK(k)'
<1>1. Mine(k)' = Mine(k) /\ StorageList(k)' = StorageList(k)
  BY DEF Mine, StorageList, Elems
<1>2. \A part \in Part : Over(k, part)' => \A r \in Mine(k)' : HandledIn(r, part)'
  BY <1>1, HandledStays DEF JobOK, Over
<1>3. (job[k].pc \in Calls =>
         \A r \in Mine(k) :
             OnlyPushed(Msg(r), job[k].part) => PushedIn(r, job[k].part))'
  BY <1>1 DEF PushedIn
<1>4. QED  BY <1>1, <1>2, <1>3 DEF JobOK

(* ... and when it ends with it. *)
LEMMA JobEnds ==
    ASSUME NEW k \in Key, JobOK(k), Grows, job \in [Key -> Jobs],
           UNCHANGED <<batch, lists>>, EndPart(k),
           \A r \in Mine(k) : \A part \in {job[k].part} : HandledIn(r, part)'
    PROVE  JobOK(k)'
<1>1. Mine(k)' = Mine(k)
  BY DEF Mine, Elems
<1>2. job[k].part \in Part
  BY DEF Jobs
<1>3. job'[k] = IF job[k].part = "chat"
                THEN [NoJob EXCEPT !.pc = "start", !.part = "note"] ELSE NoJob
  BY DEF EndPart
<1>4. job'[k].pc \in {"none", "start"} /\ job'[k].done = 0
  BY <1>3 DEF NoJob
<1>5. ASSUME NEW part \in Part, Over(k, part)', NEW r \in Mine(k)
      PROVE  HandledIn(r, part)'
  <2>1. CASE part = job[k].part
    BY <2>1
  <2>2. CASE part # job[k].part
    <3>1. CASE job[k].part = "chat"
      <4>1. job'[k].pc = "start"
        BY <1>3, <3>1 DEF NoJob
      <4>2. part = "note"
        BY <2>2, <3>1 DEF Part
      <4>3. QED  BY <1>5, <4>1, <4>2 DEF Over
    <3>2. CASE job[k].part = "note"
      <4>1. part = "chat"
        BY <2>2, <3>2 DEF Part
      <4>2. HandledIn(r, part)
        BY <3>2, <4>1 DEF JobOK, Over
      <4>3. QED  BY <4>2, HandledStays
    <3>3. QED  BY <1>2, <3>1, <3>2 DEF Part
  <2>3. QED  BY <2>1, <2>2
<1>6. QED  BY <1>1, <1>4, <1>5 DEF JobOK, WasCached, Calls

-----------------------------------------------------------------------------
(* Jobs run only while the scheduler waits. *)
LEMMA AtWork ==
    ASSUME SkipInv, NEW k \in Key, job[k].pc # "none"
    PROVE  /\ sched = "wait" /\ JobOK(k) /\ job[k] \in Jobs /\ batch # << >>
           /\ job \in [Key -> Jobs] /\ job[k].part \in Part
BY DEF SkipInv, Workers, TransferTypes, Jobs

(* A message of the batch that is to be stored is in the storage list. *)
LEMMA InStorageList ==
    ASSUME SkipInv, NEW k \in Key, NEW r \in Mine(k), job[k].part \in Part,
           Stored(Msg(r), job[k].part)
    PROVE  r \in Elems(StorageList(k))
BY DEF SkipInv, InLists, Mine, StorageList

(* What ToPushTopic is given is pushed, or its push has failed. *)
LEMMA PushesAll ==
    ASSUME NEW STATE entries, ToPushTopic(entries), NEW STATE e,
           e \in entries
    PROVE  e \in pushed' \/ <<"push", e.msg>> \in failed'
BY DEF ToPushTopic, Blame, Failed

(* StartJob: the job has done nothing yet. *)
LEMMA StartJobStep ==
    ASSUME SkipInv, Grows, NEW k \in Key, StartJob(k)
    PROVE  JobOK(k)'
<1>1. JobOK(k) /\ job[k] \in Jobs /\ job \in [Key -> Jobs] /\ job[k].pc = "queued"
      /\ job[k].done = 0
  BY AtWork DEF StartJob, At, JobOK
<1>2. UNCHANGED <<batch, lists>>
  BY DEF StartJob, kafkaVars
<1>3. job'[k] = [job[k] EXCEPT !.pc = "start"]
  BY <1>1 DEF StartJob, Goto
<1>4. job'[k].pc = "start" /\ job'[k].part = job[k].part /\ job'[k].done = 0
  BY <1>1, <1>3 DEF Jobs
<1>5. ~WasCached(k, 1)' /\ \A i : ~WasCached(k, i)'
  BY <1>4 DEF WasCached
<1>6. QED  BY <1>1, <1>2, <1>4, <1>5, JobMoves DEF Calls

(* PushNotStored: each message only pushed is pushed, or its push failed. *)
LEMMA PushNotStoredStep ==
    ASSUME SkipInv, Grows, NEW k \in Key, PushNotStored(k)
    PROVE  JobOK(k)'
<1>1. /\ JobOK(k) /\ job[k] \in Jobs /\ job \in [Key -> Jobs]
      /\ job[k].pc = "start" /\ job[k].part \in Part /\ job[k].done = 0
  BY AtWork DEF PushNotStored, At, JobOK
<1>2. UNCHANGED <<batch, lists>>
  BY DEF PushNotStored, kafkaVars
<1>3. ASSUME NEW r \in Mine(k), OnlyPushed(Msg(r), job[k].part),
             NEW part \in {job[k].part}
      PROVE  PushedIn(r, part)'
  <2>1. r \in NotStorageList(k)
    BY <1>3 DEF NotStorageList, Mine, Elems, SkipInv, TransferTypes
  <2>2. Entry(k, job[k].part, 0, r)
          \in {Entry(k, job[k].part, 0, q) : q \in NotStorageList(k)}
    BY <2>1
  <2>3. \/ Entry(k, job[k].part, 0, r) \in pushed'
        \/ <<"push", Entry(k, job[k].part, 0, r).msg>> \in failed'
    <3>1. ToPushTopic({Entry(k, job[k].part, 0, q) : q \in NotStorageList(k)})
      BY DEF PushNotStored
    <3>2. QED  BY <2>2, <3>1, PushesAll
  <2>4. /\ Entry(k, job[k].part, 0, r).msg = r
        /\ Entry(k, job[k].part, 0, r).part = job[k].part
    BY DEF Entry
  <2>5. QED  BY <2>3, <2>4 DEF PushedIn, Failed
<1>4. CASE StorageList(k) = << >>
  <2>1. EndPart(k)
    BY <1>4 DEF PushNotStored
  <2>2. ASSUME NEW r \in Mine(k), NEW part \in {job[k].part}
        PROVE  HandledIn(r, part)'
    <3>1. ~Stored(Msg(r), part)
      <4>1. Elems(StorageList(k)) = {}
        BY <1>4 DEF Elems
      <4>2. QED  BY <1>1, <4>1, InStorageList
    <3>2. OnlyPushed(Msg(r), part) => PushedIn(r, part)'
      BY <1>3
    <3>3. QED  BY <3>1, <3>2 DEF HandledIn
  <2>3. QED  BY <1>1, <1>2, <2>1, <2>2, JobEnds
<1>5. CASE StorageList(k) # << >>
  <2>1. job'[k] = [job[k] EXCEPT !.pc = "malloc"]
    BY <1>1, <1>5 DEF PushNotStored, Goto
  <2>2. /\ job'[k].pc = "malloc" /\ job'[k].part = job[k].part
        /\ job'[k].done = job[k].done
    BY <1>1, <2>1 DEF Jobs
  <2>3. \A i : ~WasCached(k, i)'
    BY <2>2 DEF WasCached
  <2>4. 0 < Len(StorageList(k))
    <3>1. StorageList(k) \in Seq(Ref)
      BY EntriesOfJob DEF SkipInv
    <3>2. QED  BY <1>5, <3>1
  <2>5. \A r \in Mine(k) :
          OnlyPushed(Msg(r), job[k].part) => PushedIn(r, job[k].part)'
    <3>1. SUFFICES ASSUME NEW r \in Mine(k), OnlyPushed(Msg(r), job[k].part)
                   PROVE  PushedIn(r, job[k].part)'
      OBVIOUS
    <3>2. \A part \in {job[k].part} : PushedIn(r, part)'
      BY <1>3, <3>1
    <3>3. QED  BY <2>2, <3>2 DEF PushedIn
  <2>6. QED  BY <1>1, <1>2, <2>2, <2>3, <2>4, <2>5, JobMoves
<1>6. QED  BY <1>4, <1>5

(* Malloc: nothing is cached under the new numbers yet. *)
LEMMA MallocStep ==
    ASSUME SkipInv, Grows, NEW k \in Key, Malloc(k)
    PROVE  JobOK(k)'
<1>1. /\ JobOK(k) /\ job[k] \in Jobs /\ job \in [Key -> Jobs]
      /\ job[k].pc = "malloc" /\ job[k].part \in Part
      /\ job[k].done = 0 /\ job[k].done < Len(StorageList(k))
  BY AtWork DEF Malloc, At, JobOK
<1>2. UNCHANGED <<batch, lists>>
  BY DEF Malloc, kafkaVars
<1>3. /\ job'[k].pc = "cache" /\ job'[k].part = job[k].part
      /\ job'[k].done = 0
  BY <1>1 DEF Malloc, Jobs
<1>4. ASSUME NEW r \in Mine(k), OnlyPushed(Msg(r), job[k].part)
      PROVE  PushedIn(r, job[k].part)'
  <2>1. PushedIn(r, job[k].part)
    BY <1>1, <1>4 DEF JobOK, Calls
  <2>2. QED  BY <1>3, <2>1 DEF PushedIn, Grows, Failed
<1>5. \A i \in 1 .. Len(StorageList(k)) : ~WasCached(k, i)'
  <2>1. SUFFICES ASSUME NEW i \in 1 .. Len(StorageList(k))
                 PROVE  ~WasCached(k, i)'
    OBVIOUS
  <2>2. ~ (i =< 0)
    OBVIOUS
  <2>3. QED  BY <1>3, <2>2 DEF WasCached
<1>6. QED  BY <1>1, <1>2, <1>3, <1>4, <1>5, JobMoves

(* InsertFails, MallocFails: the messages to be stored are marked as        *)
(* dropped.                                                                 *)
LEMMA InsertFailsStep ==
    ASSUME SkipInv, Grows, NEW k \in Key, InsertFails(k) \/ MallocFails(k)
    PROVE  JobOK(k)'
<1>1. /\ JobOK(k) /\ job \in [Key -> Jobs]
      /\ job[k].pc \in Calls /\ job[k].part \in Part
  BY AtWork DEF InsertFails, MallocFails, At, Calls
<1>2. UNCHANGED <<batch, lists>>
  BY DEF InsertFails, MallocFails, kafkaVars
<1>3. ASSUME NEW r \in Mine(k), NEW part \in {job[k].part}
      PROVE  HandledIn(r, part)'
  <2>1. ASSUME Stored(Msg(r), part)  PROVE StoredIn(r, part)'
    <3>1. r \in Elems(StorageList(k))
      BY <1>1, <2>1, InStorageList
    <3>2. <<"insert", r>> \in failed'
      BY <3>1 DEF InsertFails, MallocFails, Blame
    <3>3. QED  BY <3>2 DEF StoredIn, Failed
  <2>2. ASSUME OnlyPushed(Msg(r), part)  PROVE PushedIn(r, part)'
    <3>1. PushedIn(r, part)
      BY <1>1, <2>2 DEF JobOK
    <3>2. QED  BY <3>1, <1>1, HandledStays
  <2>3. QED  BY <2>1, <2>2 DEF HandledIn
<1>4. EndPart(k)
  BY DEF InsertFails, MallocFails
<1>5. QED  BY <1>1, <1>2, <1>3, <1>4, JobEnds

(* SetMessage: one message more; the last one leads on. *)
LEMMA SetMessageStep ==
    ASSUME SkipInv, Grows, NEW k \in Key, SetMessage(k)
    PROVE  JobOK(k)'
<1>1. /\ JobOK(k) /\ job[k] \in Jobs /\ job \in [Key -> Jobs]
      /\ job[k].pc = "cache" /\ job[k].part \in Part
      /\ job[k].done \in Nat /\ job[k].done < Len(StorageList(k))
  BY AtWork DEF SetMessage, At, JobOK, Jobs
<1>2. UNCHANGED <<batch, lists>>
  BY DEF SetMessage, kafkaVars
<1>3. PICK pc \in {"cache", "read", "mongo"} :
        /\ job' = [job EXCEPT ![k].done = job[k].done + 1, ![k].pc = pc]
        /\ pc = "cache" <=> job[k].done + 1 < Len(StorageList(k))
  BY DEF SetMessage
<1>4. /\ job'[k].pc = pc /\ job'[k].part = job[k].part
      /\ job'[k].base = job[k].base
      /\ job'[k].done = job[k].done + 1
  BY <1>1, <1>3 DEF Jobs
<1>5. ASSUME NEW r \in Mine(k), OnlyPushed(Msg(r), job[k].part)
      PROVE  PushedIn(r, job[k].part)'
  <2>1. PushedIn(r, job[k].part)
    BY <1>1, <1>5 DEF JobOK, Calls
  <2>2. QED  BY <1>4, <2>1 DEF PushedIn, Grows, Failed
<1>6. StorageList(k)' = StorageList(k)
  BY <1>2, <1>4 DEF StorageList
<1>7. Numbered(k)' = Numbered(k)
  BY <1>4, <1>6 DEF Numbered
<1>8. Len(StorageList(k)) \in Nat
  BY EntriesOfJob DEF SkipInv
<1>9. ASSUME NEW i \in 1 .. Len(StorageList(k)), WasCached(k, i)'
      PROVE  (Numbered(k)[i] \in cached)'
  <2>1. i =< job[k].done + 1
    <3>1. CASE pc = "cache"
      BY <1>4, <1>9, <3>1 DEF WasCached
    <3>2. CASE pc # "cache"
      <4>1. ~ (job[k].done + 1 < Len(StorageList(k)))
        BY <1>3, <3>2
      <4>2. QED  BY <1>1, <1>8, <4>1
    <3>3. QED  BY <3>1, <3>2
  <2>2. CASE i = job[k].done + 1
    BY <1>7, <2>2 DEF SetMessage
  <2>3. CASE i # job[k].done + 1
    <3>1. i =< job[k].done
      BY <1>1, <2>1, <2>3
    <3>2. Numbered(k)[i] \in cached
      BY <1>1, <3>1 DEF JobOK, WasCached
    <3>3. QED  BY <1>7, <3>2 DEF Grows
  <2>4. QED  BY <2>2, <2>3
<1>10. QED
  BY <1>1, <1>2, <1>3, <1>4, <1>5, <1>9, JobMoves

(* SetHasReadSeqs and CreateConversation: the messages are in the cache, and *)
(* the invariant asks for no more.                                           *)
LEMMA BeforeMongoStep ==
    ASSUME SkipInv, Grows, NEW k \in Key, NEW pc \in {"create", "mongo"},
           job[k].pc \in {"read", "create"}, Goto(k, pc), UNCHANGED kafkaVars
    PROVE  JobOK(k)'
<1>1. /\ JobOK(k) /\ job[k] \in Jobs /\ job \in [Key -> Jobs]
      /\ job[k].part \in Part
  BY AtWork
<1>2. UNCHANGED <<batch, lists>>
  BY DEF kafkaVars
<1>3. /\ job'[k].pc = pc /\ job'[k].part = job[k].part
      /\ job'[k].base = job[k].base
  BY <1>1 DEF Goto, Jobs
<1>4. ASSUME NEW r \in Mine(k), OnlyPushed(Msg(r), job[k].part)
      PROVE  PushedIn(r, job[k].part)'
  <2>1. PushedIn(r, job[k].part)
    BY <1>1, <1>4 DEF JobOK, Calls
  <2>2. QED  BY <1>3, <2>1 DEF PushedIn, Grows, Failed
<1>5. Numbered(k)' = Numbered(k)
  BY <1>2, <1>3 DEF Numbered, StorageList
<1>6. ASSUME NEW i \in 1 .. Len(StorageList(k))
      PROVE  (Numbered(k)[i] \in cached)'
  BY <1>1, <1>5 DEF JobOK, WasCached, Grows
<1>7. QED  BY <1>1, <1>2, <1>3, <1>4, <1>6, JobMoves

(* MsgToMongoMQ: all messages of the list are in the topic, or it failed. *)
LEMMA MsgToMongoMQStep ==
    ASSUME SkipInv, Grows, NEW k \in Key, MsgToMongoMQ(k)
    PROVE  JobOK(k)'
<1>1. /\ JobOK(k) /\ job[k] \in Jobs /\ job \in [Key -> Jobs]
      /\ job[k].pc = "mongo" /\ job[k].part \in Part
  BY AtWork DEF MsgToMongoMQ, At
<1>2. UNCHANGED <<batch, lists>>
  BY DEF MsgToMongoMQ, kafkaVars
<1>3. /\ job'[k].pc = "push" /\ job'[k].part = job[k].part
      /\ job'[k].base = job[k].base
  BY <1>1 DEF MsgToMongoMQ, Goto, Jobs
<1>4. ASSUME NEW r \in Mine(k), OnlyPushed(Msg(r), job[k].part)
      PROVE  PushedIn(r, job[k].part)'
  <2>1. PushedIn(r, job[k].part)
    BY <1>1, <1>4 DEF JobOK, Calls
  <2>2. QED  BY <1>3, <2>1 DEF PushedIn, Grows, Failed
<1>5. StorageList(k)' = StorageList(k)
  BY <1>2, <1>3 DEF StorageList
<1>6. Numbered(k)' = Numbered(k)
  BY <1>3, <1>5 DEF Numbered
<1>7. ASSUME NEW i \in 1 .. Len(StorageList(k))
      PROVE  (Numbered(k)[i] \in cached)'
  BY <1>1, <1>6 DEF JobOK, WasCached, Grows
<1>8. ASSUME NEW i \in 1 .. Len(StorageList(k))
      PROVE  \/ (Numbered(k)[i] \in OnTheWayToMongo)'
             \/ Failed("mongo", StorageList(k)[i])'
  <2>1. CASE toMongo' = Append(toMongo, Elems(Numbered(k)))
    <3>1. toMongo \in Seq(SUBSET Entries) /\ Elems(Numbered(k)) \in SUBSET Entries
      BY EntriesOfJob DEF SkipInv, TransferTypes
    <3>2. /\ Len(toMongo) + 1 \in 1 .. Len(toMongo')
          /\ toMongo'[Len(toMongo) + 1] = Elems(Numbered(k))
      BY <2>1, <3>1
    <3>3. Numbered(k)[i] \in Elems(Numbered(k))
      BY EntriesOfJob DEF SkipInv
    <3>4. QED  BY <1>6, <3>2, <3>3 DEF OnTheWayToMongo
  <2>2. CASE Blame("mongo", Elems(StorageList(k)))
    BY <1>5, <2>2 DEF Blame, Failed, Elems
  <2>3. QED  BY <2>1, <2>2 DEF MsgToMongoMQ
<1>9. QED  BY <1>1, <1>2, <1>3, <1>4, <1>7, <1>8, JobMoves

(* PushStored: then each message of the list is stored and pushed. *)
LEMMA PushStoredStep ==
    ASSUME SkipInv, Grows, NEW k \in Key, PushStored(k)
    PROVE  JobOK(k)'
<1>1. /\ JobOK(k) /\ job \in [Key -> Jobs]
      /\ job[k].pc = "push" /\ job[k].part \in Part
  BY AtWork DEF PushStored, At
<1>2. UNCHANGED <<batch, lists>> /\ EndPart(k) /\ ToPushTopic(Elems(Numbered(k)))
  BY DEF PushStored, kafkaVars
<1>3. ASSUME NEW r \in Mine(k), NEW part \in {job[k].part}
      PROVE  HandledIn(r, part)'
  <2>1. ASSUME Stored(Msg(r), part)  PROVE StoredIn(r, part)'
    <3>1. PICK i \in 1 .. Len(StorageList(k)) : StorageList(k)[i] = r
      BY <1>1, <2>1, InStorageList DEF Elems
    <3>2. PICK e \in Elems(Numbered(k)) :
            e = Numbered(k)[i] /\ e.msg = r /\ e.part = part
      <4>1. /\ Numbered(k)[i] \in Elems(Numbered(k))
            /\ Numbered(k)[i] = Entry(k, part, job[k].base + i, r)
        BY <3>1, EntriesOfJob DEF SkipInv
      <4>2. QED  BY <4>1 DEF Entry
    <3>3. e \in cached
      BY <1>1, <3>2 DEF JobOK, WasCached
    <3>4. e \in OnTheWayToMongo \/ Failed("mongo", r)
      BY <1>1, <3>1, <3>2 DEF JobOK
    <3>5. e \in pushed' \/ Failed("push", r)'
      BY <1>2, <3>2, PushesAll DEF Failed
    <3>6. e \in CachedAs(r, part)'
      BY <3>2, <3>3 DEF CachedAs, Grows
    <3>7. e \in OnTheWayToMongo' \/ Failed("mongo", r)'
      BY <3>4 DEF Grows, Failed
    <3>8. QED  BY <3>5, <3>6, <3>7 DEF StoredIn
  <2>2. ASSUME OnlyPushed(Msg(r), part)  PROVE PushedIn(r, part)'
    <3>1. PushedIn(r, part)
      BY <1>1, <2>2 DEF JobOK, Calls
    <3>2. QED  BY <3>1, <1>1, HandledStays
  <2>3. QED  BY <2>1, <2>2 DEF HandledIn
<1>4. QED  BY <1>1, <1>2, <1>3, JobEnds

(* Every step of a job. *)
LEMMA WorkStep ==
    ASSUME SkipInv, Grows, TransferTypes', NEW k \in Key, Work(k)
    PROVE  SkipInv'
<1>1. job[k].pc # "none"
  BY DEF Work, At, StartJob, PushNotStored, Malloc, InsertFails, MallocFails, SetMessage,
    SetHasReadSeqs, CreateConversation, MsgToMongoMQ, PushStored
<1>2. UNCHANGED kafkaVars
  BY DEF Work, StartJob, PushNotStored, Malloc, InsertFails, MallocFails, SetMessage,
    SetHasReadSeqs, CreateConversation, MsgToMongoMQ, PushStored
<1>3. \A l \in Key : l # k => job'[l] = job[l]
  <2>1. job \in [Key -> Jobs]
    BY DEF SkipInv, TransferTypes
  <2>2. QED
    BY <2>1 DEF Work, Goto, EndPart, StartJob, PushNotStored, Malloc,
      InsertFails, MallocFails, SetMessage, SetHasReadSeqs, CreateConversation,
      MsgToMongoMQ, PushStored
<1>4. JobOK(k)'
  <2>1. CASE SetHasReadSeqs(k)
    <3>1. \E pc \in {"create", "mongo"} : Goto(k, pc)
      BY <2>1 DEF SetHasReadSeqs
    <3>2. QED  BY <1>2, <2>1, <3>1, BeforeMongoStep DEF SetHasReadSeqs, At
  <2>2. CASE CreateConversation(k)
    BY <1>2, <2>2, BeforeMongoStep DEF CreateConversation, At
  <2>3. QED
    BY <2>1, <2>2, StartJobStep, PushNotStoredStep, MallocStep,
      InsertFailsStep, SetMessageStep, MsgToMongoMQStep, PushStoredStep
      DEF Work
<1>5. QED  BY <1>1, <1>2, <1>3, <1>4, AtWork, OneJobMoves

-----------------------------------------------------------------------------
(* The batcher.                                                            *)

(* What is handled remains so, in both conversations. *)
LEMMA HandledGrows ==
    ASSUME Grows, NEW r, Handled(r)
    PROVE  Handled(r)'
BY HandledStays DEF Handled

(* Put: the message that was read is in the batch and in its lists. *)
LEMMA PutStep ==
    ASSUME SkipInv, Grows, TransferTypes', NEW p \in Partition, Put(p)
    PROVE  SkipInv'
<1> DEFINE x == <<p, pos[p] + 1>>
<1>1. /\ pos \in [Partition -> Nat] /\ batch \in Seq(Ref)
      /\ lists \in [Key \X Part -> Seq(Ref)] /\ x \in Ref
  BY PutsARef DEF SkipInv, TransferTypes, Put
<1>2. /\ pos' = [pos EXCEPT ![p] = @ + 1] /\ batch' = Append(batch, x)
      /\ lists' = Categorize(x) /\ UNCHANGED <<committed, sched, job>>
      /\ sched = "collect"
  BY DEF Put
<1>3. Elems(batch)' = Elems(batch) \cup {x}
  <2>1. Elems(Append(batch, x)) = Elems(batch) \cup {x}
    BY <1>1, ElemsOfSeq
  <2>2. QED  BY <1>2, <2>1 DEF Elems
<1>4. NothingSkipped'
  BY <1>2, HandledGrows DEF SkipInv, NothingSkipped
<1>5. Covered'
  <2>1. SUFFICES ASSUME NEW q \in Partition, NEW o \in 1 .. pos'[q]
                 PROVE  Handled(<<q, o>>)' \/ <<q, o>> \in Elems(batch)'
    BY DEF Covered
  <2>2. CASE o \in 1 .. pos[q]
    BY <1>3, <2>2, HandledGrows DEF SkipInv, Covered
  <2>3. CASE o \notin 1 .. pos[q]
    <3>1. q = p /\ o = pos[p] + 1
      BY <1>1, <1>2, <2>3
    <3>2. QED  BY <1>3, <3>1
  <2>4. QED  BY <2>2, <2>3
<1>6. BatchWasRead'
  <2>1. SUFFICES ASSUME NEW r \in Elems(batch)'
                 PROVE  r[2] =< pos'[r[1]]
    BY DEF BatchWasRead
  <2>2. CASE r = x
    BY <1>1, <1>2, <2>2
  <2>3. CASE r \in Elems(batch)
    <3>1. r[1] \in Partition /\ r[2] \in Nat
      BY <1>1, <2>3, Refs, ElemsOfSeq
    <3>2. r[2] =< pos[r[1]]
      BY <2>3 DEF SkipInv, BatchWasRead
    <3>3. QED  BY <1>1, <1>2, <3>1, <3>2
  <2>4. QED  BY <1>3, <2>2, <2>3
<1>7. InLists'
  <2>1. SUFFICES ASSUME NEW r \in Elems(batch)', NEW part \in Part,
                        Stored(Msg(r), part)
                 PROVE  r \in Elems(lists'[<<Msg(r).key, part>>])
    BY DEF InLists, Elems
  <2> DEFINE c == <<Msg(r).key, part>>
  <2>2. r \in Ref
    <3>1. Elems(batch) \subseteq Ref
      BY <1>1 DEF Elems
    <3>2. QED  BY <1>1, <1>3, <3>1
  <2>3. c \in Key \X Part /\ lists[c] \in Seq(Ref)
    BY <1>1, <2>2, Refs
  <2>4. Elems(Append(lists[c], x)) = Elems(lists[c]) \cup {x}
    <3> HIDE DEF c, x
    <3>1. lists[c] \in Seq(Ref) /\ x \in Ref
      BY <1>1, <2>3
    <3>2. QED  BY <3>1, ElemsOfSeq
  <2>5. CASE r = x
    <3>1. lists'[c] = Append(lists[c], x)
      BY <1>2, <2>1, <2>3, <2>5 DEF Categorize
    <3>2. QED  BY <2>4, <2>5, <3>1
  <2>6. CASE r \in Elems(batch)
    <3>1. r \in Elems(lists[c])
      BY <2>1, <2>6 DEF SkipInv, InLists
    <3>2. lists'[c] \in {lists[c], Append(lists[c], x)}
      BY <1>2, <2>3 DEF Categorize
    <3>3. QED  BY <2>4, <3>1, <3>2
  <2>7. QED  BY <1>3, <2>5, <2>6
<1>8. Workers'
  BY <1>2 DEF SkipInv, Workers
<1>9. QED  BY <1>4, <1>5, <1>6, <1>7, <1>8 DEF SkipInv

(* Distribute: a key without a message in the batch gets no job. *)
LEMMA DistributeStep ==
    ASSUME SkipInv, Grows, TransferTypes', Distribute
    PROVE  SkipInv'
<1>1. /\ UNCHANGED <<pos, committed, batch, lists>> /\ sched' = "wait"
      /\ batch # << >>
  BY DEF Distribute
<1>2. NothingSkipped' /\ Covered'
  BY <1>1, HandledGrows DEF SkipInv, NothingSkipped, Covered, Elems
<1>3. BatchWasRead' /\ InLists'
  BY <1>1 DEF SkipInv, BatchWasRead, InLists, Elems
<1>4. ASSUME NEW k \in Key  PROVE JobOK(k)'
  <2>1. CASE \E i \in 1 .. Len(batch) : Msg(batch[i]).key = k
    <3>1. job'[k] = [NoJob EXCEPT !.pc = "queued"]
      BY <2>1 DEF Distribute
    <3>2. /\ job'[k].pc = "queued" /\ job'[k].part = "chat"
          /\ job'[k].done = 0
      BY <3>1 DEF NoJob
    <3>3. QED  BY <3>2 DEF JobOK, Over, WasCached, Calls
  <2>2. CASE ~ \E i \in 1 .. Len(batch) : Msg(batch[i]).key = k
    <3>1. job'[k] = NoJob
      BY <2>2 DEF Distribute
    <3>2. job'[k].pc = "none" /\ job'[k].done = 0
      BY <3>1 DEF NoJob
    <3>3. Mine(k)' = {}
      BY <1>1, <2>2 DEF Mine, Elems
    <3>4. QED  BY <3>2, <3>3 DEF JobOK, WasCached, Calls
  <2>3. QED  BY <2>1, <2>2
<1>5. Workers'
  BY <1>1, <1>4 DEF Workers
<1>6. QED  BY <1>2, <1>3, <1>5 DEF SkipInv

(* When no job is left, the whole batch is handled. *)
LEMMA BatchHandled ==
    ASSUME SkipInv, sched = "wait", \A k \in Key : job[k].pc = "none",
           NEW r \in Elems(batch)
    PROVE  Handled(r)
<1>1. r \in Ref
  BY DEF Elems, SkipInv, TransferTypes
<1>2. PICK k \in Key : Msg(r).key = k
  BY <1>1, Refs
<1>3. r \in Mine(k) /\ JobOK(k)
  BY <1>2 DEF Mine, SkipInv, Workers
<1>4. QED  BY <1>3 DEF JobOK, Over, Handled

(* OnComplete: all that was read has been handled. *)
LEMMA OnCompleteStep ==
    ASSUME SkipInv, Grows, TransferTypes', OnComplete
    PROVE  SkipInv'
<1> DEFINE last == batch[Len(batch)]
<1>1. /\ sched = "wait" /\ \A k \in Key : job[k].pc = "none"
      /\ committed' = [committed EXCEPT ![last[1]] = last[2]]
      /\ batch' = << >> /\ lists' = NoLists /\ sched' = "collect"
      /\ UNCHANGED <<pos, job>>
  BY DEF OnComplete
<1>2. /\ pos \in [Partition -> Nat] /\ committed \in [Partition -> Nat]
      /\ batch \in Seq(Ref) /\ batch # << >>
  BY <1>1 DEF SkipInv, TransferTypes, Workers
<1>3. last \in Ref /\ last \in Elems(batch)
  BY <1>2 DEF Elems
<1>4. last[1] \in Partition /\ last[2] \in Nat /\ last[2] =< pos[last[1]]
  BY <1>3, Refs DEF SkipInv, BatchWasRead
<1>5. ASSUME NEW p \in Partition, NEW o \in 1 .. pos[p]
      PROVE  Handled(<<p, o>>)'
  <2>1. Handled(<<p, o>>)
    BY <1>1, BatchHandled DEF SkipInv, Covered
  <2>2. QED  BY <2>1, HandledGrows
<1>6. NothingSkipped'
  <2>1. SUFFICES ASSUME NEW p \in Partition, NEW o \in 1 .. committed'[p]
                 PROVE  Handled(<<p, o>>)'
    BY DEF NothingSkipped
  <2>2. CASE p = last[1]
    <3>1. o \in 1 .. pos[p]
      BY <1>1, <1>2, <1>4, <2>2
    <3>2. QED  BY <1>5, <3>1
  <2>3. CASE p # last[1]
    <3>1. Handled(<<p, o>>)
      BY <1>1, <1>2, <2>3 DEF SkipInv, NothingSkipped
    <3>2. QED  BY <3>1, HandledGrows
  <2>4. QED  BY <2>2, <2>3
<1>7. Covered'
  BY <1>1, <1>5 DEF Covered
<1>8. Elems(batch)' = {}
  BY <1>1 DEF Elems
<1>9. BatchWasRead' /\ InLists'
  BY <1>8 DEF BatchWasRead, InLists
<1>10. Workers'
  BY <1>1 DEF Workers
<1>11. QED  BY <1>6, <1>7, <1>9, <1>10 DEF SkipInv

(* Crash: reading starts again from what is handled. *)
LEMMA CrashStep ==
    ASSUME SkipInv, Grows, TransferTypes', Crash
    PROVE  SkipInv'
<1>1. /\ pos' = committed /\ UNCHANGED committed
      /\ batch' = << >> /\ sched' = "collect"
      /\ \A k \in Key : job'[k].pc = "none"
  BY DEF Crash, NoJob
<1>2. NothingSkipped'
  BY <1>1, HandledGrows DEF SkipInv, NothingSkipped
<1>3. Covered'
  BY <1>1, HandledGrows DEF SkipInv, NothingSkipped, Covered
<1>4. Elems(batch)' = {}
  BY <1>1 DEF Elems
<1>5. BatchWasRead' /\ InLists'
  BY <1>4 DEF BatchWasRead, InLists
<1>6. Workers'
  BY <1>1 DEF Workers
<1>7. QED  BY <1>2, <1>3, <1>5, <1>6 DEF SkipInv

(* What does not concern the batch and its jobs. *)
LEMMA ElsewhereStep ==
    ASSUME SkipInv, Grows, TransferTypes',
           UNCHANGED vars \/ HandleChatWs2Mongo \/ MongoRestart
    PROVE  SkipInv'
<1>1. UNCHANGED <<pos, committed, batch, lists, sched, job>>
  BY DEF vars, kafkaVars, HandleChatWs2Mongo, MongoRestart
<1>2. ASSUME NEW k \in Key, sched = "wait"  PROVE JobOK(k)'
  <2>1. JobOK(k) /\ job[k] \in Jobs
    BY <1>2 DEF SkipInv, Workers, TransferTypes
  <2>2. QED  BY <1>1, <2>1, JobStays
<1>3. Workers'
  BY <1>1, <1>2 DEF SkipInv, Workers
<1>4. UNCHANGED kafkaVars
  BY <1>1 DEF kafkaVars
<1>5. QED  BY <1>3, <1>4, BatchKept DEF SkipInv

-----------------------------------------------------------------------------
(* The invariant holds in the beginning ... *)
LEMMA InitSkipInv == Init => SkipInv
<1> SUFFICES ASSUME Init PROVE SkipInv
  OBVIOUS
<1> USE DEF Init
<1>1. TransferTypes
  <2>1. job \in [Key -> Jobs]
    BY NoJobIsAJob
  <2>2. lists \in [Key \X Part -> Seq(Ref)]
    BY DEF NoLists
  <2>3. QED  BY <2>1, <2>2 DEF TransferTypes
<1>2. NothingSkipped /\ Covered
  BY DEF NothingSkipped, Covered
<1>3. Elems(batch) = {}
  BY DEF Elems
<1>4. BatchWasRead /\ InLists
  BY <1>3 DEF BatchWasRead, InLists
<1>5. Workers
  BY DEF Workers, NoJob
<1>6. QED  BY <1>1, <1>2, <1>4, <1>5 DEF SkipInv

(* ... and every step keeps it. *)
LEMMA NextSkipInv == SkipInv /\ [Next]_vars => SkipInv'
<1> SUFFICES ASSUME SkipInv, [Next]_vars PROVE SkipInv'
  OBVIOUS
<1>1. TransferTypes' /\ Grows
  BY Types, GrowsByNext DEF SkipInv
<1>2. QED
  BY <1>1, PutStep, DistributeStep, OnCompleteStep, WorkStep, CrashStep,
    ElsewhereStep DEF Next

(* The committed offset of a partition never goes beyond a message that has *)
(* not been handled: whatever a crash loses is read again, although one     *)
(* offset is committed for a batch that spans partitions.                   *)
THEOREM NoMessageIsSkipped == Spec => []NothingSkipped
<1>1. SkipInv => NothingSkipped
  BY DEF SkipInv
<1>2. QED  BY InitSkipInv, NextSkipInv, <1>1, PTL DEF Spec

-----------------------------------------------------------------------------
(***************************************************************************)
(* The numbers of a conversation follow the order of its partition, for    *)
(* all topics, batches, workers, failing calls and restarts.               *)
(*                                                                         *)
(* The list of a conversation in the batch is in the order of the          *)
(* partition.  A message before those of the list is handled already, so   *)
(* that it was dropped or has a number that was given before the job took  *)
(* its own; a message of the list before another one was cached first.     *)
(***************************************************************************)

(* The list of a conversation holds its messages, in order. *)
ListsOrdered ==
    \A c \in Key \X Part :
        /\ \A i \in 1 .. Len(lists[c]) :
             /\ Msg(lists[c][i]).key = c[1]
             /\ lists[c][i][2] =< pos[lists[c][i][1]]
        /\ \A i, j \in 1 .. Len(lists[c]) :
             i < j => lists[c][i][2] < lists[c][j][2]

(* What is cached is an entry under a number that was given. *)
CachedTyped ==
    \A e \in cached :
        /\ e \in Entries /\ e.key = Msg(e.msg).key
        /\ e.seq =< maxSeq[<<e.key, e.part>>]

(* What is cached of the conversation a job is about, the job has cached,   *)
(* or it has a number from before.                                          *)
Before(k) ==
    job[k].pc \in {"cache", "read", "create", "mongo", "push"} =>
        /\ job[k].base + Len(StorageList(k)) = maxSeq[<<k, job[k].part>>]
        /\ \A e \in cached :
             e.key = k /\ e.part = job[k].part =>
               \/ e.seq =< job[k].base
               \/ \E i \in 1 .. Len(StorageList(k)) : e = Numbered(k)[i]

OrderInv ==
    /\ SkipInv /\ OrderKept /\ ListsOrdered /\ CachedTyped
    /\ \A k \in Key : Before(k)

-----------------------------------------------------------------------------
(* Messages of a key are in one partition. *)
LEMMA OnePartition ==
    ASSUME NEW r \in Ref, NEW s \in Ref, Msg(r).key = Msg(s).key
    PROVE  r[1] = s[1]
BY TransferAssumption

(* Put keeps the lists in order: what it adds is behind all that was read. *)
LEMMA ListsOrderedByPut ==
    ASSUME TransferTypes, ListsOrdered, NEW p \in Partition, Put(p)
    PROVE  ListsOrdered'
<1> DEFINE x == <<p, pos[p] + 1>>
<1>1. /\ pos \in [Partition -> Nat] /\ lists \in [Key \X Part -> Seq(Ref)]
      /\ x \in Ref
  BY PutsARef DEF TransferTypes, Put
<1>2. pos' = [pos EXCEPT ![p] = @ + 1] /\ lists' = Categorize(x)
  BY DEF Put
<1>3. SUFFICES ASSUME NEW c \in Key \X Part
               PROVE
      /\ \A i \in 1 .. Len(lists'[c]) :
           /\ Msg(lists'[c][i]).key = c[1]
           /\ lists'[c][i][2] =< pos'[lists'[c][i][1]]
      /\ \A i, j \in 1 .. Len(lists'[c]) :
           i < j => lists'[c][i][2] < lists'[c][j][2]
  BY DEF ListsOrdered, Msg
<1>4. lists[c] \in Seq(Ref)
  BY <1>1
<1>5. ASSUME NEW i \in 1 .. Len(lists[c])
      PROVE  /\ lists[c][i] \in Ref /\ lists[c][i][1] \in Partition
             /\ lists[c][i][2] \in Nat
             /\ Msg(lists[c][i]).key = c[1]
             /\ lists[c][i][2] =< pos[lists[c][i][1]]
             /\ lists[c][i][2] =< pos'[lists[c][i][1]]
  <2>1. lists[c][i] \in Ref
    BY <1>4
  <2>2. lists[c][i][1] \in Partition /\ lists[c][i][2] \in Nat
    BY <2>1, Refs
  <2>3. /\ Msg(lists[c][i]).key = c[1]
        /\ lists[c][i][2] =< pos[lists[c][i][1]]
    BY DEF ListsOrdered
  <2>4. pos[lists[c][i][1]] =< pos'[lists[c][i][1]]
    BY <1>1, <1>2, <2>2
  <2>5. pos[lists[c][i][1]] \in Nat /\ pos'[lists[c][i][1]] \in Nat
    BY <1>1, <1>2, <2>2
  <2>6. QED  BY <2>1, <2>2, <2>3, <2>4, <2>5
<1>6. CASE lists'[c] = lists[c]
  BY <1>5, <1>6 DEF ListsOrdered
<1>7. CASE Msg(x).key = c[1] /\ lists'[c] = Append(lists[c], x)
  <2> DEFINE n == Len(lists[c])
  <2>1. /\ n \in Nat /\ Len(lists'[c]) = n + 1
        /\ lists'[c][n + 1] = x
        /\ \A i \in 1 .. n : lists'[c][i] = lists[c][i]
    BY <1>1, <1>4, <1>7
  <2>2. ASSUME NEW i \in 1 .. n  PROVE lists[c][i][2] < x[2]
    <3>1. lists[c][i][1] = p
      BY <1>1, <1>5, <1>7, OnePartition
    <3>2. lists[c][i][2] =< pos[p] /\ lists[c][i][2] \in Nat
      BY <1>5, <3>1
    <3>3. QED  BY <1>1, <3>2
  <2>3. ASSUME NEW i \in 1 .. Len(lists'[c])
        PROVE  /\ Msg(lists'[c][i]).key = c[1]
               /\ lists'[c][i][2] =< pos'[lists'[c][i][1]]
    <3>1. CASE i = n + 1
      <4>1. lists'[c][i] = x /\ x[1] = p /\ x[2] = pos[p] + 1
        BY <2>1, <3>1
      <4>2. pos'[p] = pos[p] + 1 /\ pos[p] \in Nat
        BY <1>1, <1>2
      <4>3. Msg(x).key = c[1]
        BY <1>7
      <4>4. QED  BY <4>1, <4>2, <4>3
    <3>2. CASE i # n + 1
      <4>1. i \in 1 .. n
        BY <2>1, <3>2
      <4>2. QED  BY <1>5, <2>1, <4>1
    <3>3. QED  BY <3>1, <3>2
  <2>4. ASSUME NEW i \in 1 .. Len(lists'[c]), NEW j \in 1 .. Len(lists'[c]),
               i < j
        PROVE  lists'[c][i][2] < lists'[c][j][2]
    <3>1. i \in 1 .. n
      BY <2>1, <2>4
    <3>2. CASE j = n + 1
      BY <2>1, <2>2, <3>1, <3>2
    <3>3. CASE j # n + 1
      <4>1. j \in 1 .. n
        BY <2>1, <3>3
      <4>2. QED  BY <2>1, <2>4, <3>1, <4>1 DEF ListsOrdered
    <3>4. QED  BY <3>2, <3>3
  <2>5. QED  BY <2>3, <2>4
<1>8. QED  BY <1>2, <1>6, <1>7 DEF Categorize

-----------------------------------------------------------------------------
(* A step that caches nothing and takes no number back. *)
LEMMA NumbersRise ==
    ASSUME OrderInv, Grows, UNCHANGED cached,
           \A c \in Key \X Part : maxSeq'[c] \in Nat /\ maxSeq[c] =< maxSeq'[c]
    PROVE  OrderKept' /\ CachedTyped'
<1>1. OrderKept'
  <2>1. SUFFICES ASSUME NEW e \in cached, NEW o \in 1 .. e.msg[2] - 1,
                        Msg(<<e.msg[1], o>>).key = e.key,
                        Stored(Msg(<<e.msg[1], o>>), e.part)
                 PROVE  \/ Failed("insert", <<e.msg[1], o>>)'
                        \/ \E f \in CachedAs(<<e.msg[1], o>>, e.part)' :
                             f.seq < e.seq
    BY DEF OrderKept
  <2>2. \/ Failed("insert", <<e.msg[1], o>>)
        \/ \E f \in CachedAs(<<e.msg[1], o>>, e.part) : f.seq < e.seq
    BY <2>1 DEF OrderInv, OrderKept
  <2>3. QED  BY <2>2 DEF Failed, CachedAs, Grows
<1>2. CachedTyped'
  <2>1. SUFFICES ASSUME NEW e \in cached
                 PROVE  e.seq =< maxSeq'[<<e.key, e.part>>]
    BY DEF OrderInv, CachedTyped
  <2>2. e \in Entries /\ e.seq =< maxSeq[<<e.key, e.part>>]
    BY DEF OrderInv, CachedTyped
  <2>3. /\ <<e.key, e.part>> \in Key \X Part /\ e.seq \in Nat
        /\ maxSeq[<<e.key, e.part>>] \in Nat
    BY <2>2 DEF Entries, OrderInv, SkipInv, TransferTypes
  <2>4. /\ maxSeq'[<<e.key, e.part>>] \in Nat
        /\ maxSeq[<<e.key, e.part>>] =< maxSeq'[<<e.key, e.part>>]
    BY <2>3
  <2>5. QED  BY <2>2, <2>3, <2>4
<1>3. QED  BY <1>1, <1>2

(* In particular, one that gives no number. *)
LEMMA CacheKept ==
    ASSUME OrderInv, Grows, UNCHANGED <<cached, maxSeq>>
    PROVE  OrderKept' /\ CachedTyped'
<1>1. \A c \in Key \X Part : maxSeq[c] \in Nat
  BY DEF OrderInv, SkipInv, TransferTypes
<1>2. QED  BY <1>1, NumbersRise

(* A job whose conversation and numbers a step leaves alone. *)
LEMMA BeforeStays ==
    ASSUME NEW k \in Key, Before(k), UNCHANGED lists,
           job'[k].part = job[k].part, job'[k].base = job[k].base,
           job'[k].pc \in {"cache", "read", "create", "mongo", "push"} =>
             job[k].pc \in {"cache", "read", "create", "mongo", "push"},
           maxSeq'[<<k, job[k].part>>] = maxSeq[<<k, job[k].part>>],
           \A e \in cached' :
             \/ e \in cached \/ e.key # k
             \/ \E i \in 1 .. Len(StorageList(k)) : e = Numbered(k)[i]
    PROVE  Before(k)'
<1>1. StorageList(k)' = StorageList(k) /\ Numbered(k)' = Numbered(k)
  BY DEF StorageList, Numbered
<1>2. QED  BY <1>1 DEF Before

(* A job that is at its beginning or its end. *)
LEMMA BeforeNumbers ==
    ASSUME NEW k \in Key,
           job'[k].pc \in {"none", "queued", "start", "malloc"}
    PROVE  Before(k)'
BY DEF Before

(* A job that has ended with a conversation knows nothing of it any more. *)
LEMMA BeforeEnds ==
    ASSUME NEW k \in Key, job \in [Key -> Jobs], EndPart(k)
    PROVE  Before(k)'
<1>1. job'[k].pc \in {"none", "start"}
  BY DEF EndPart, NoJob
<1>2. QED  BY <1>1, BeforeNumbers

(* Malloc: all numbers given so far are at most the base of the job. *)
LEMMA BeforeMalloc ==
    ASSUME OrderInv, NEW k \in Key, Malloc(k)
    PROVE  /\ Before(k)'
           /\ \A l \in Key : l # k => \A part \in Part :
                maxSeq'[<<l, part>>] = maxSeq[<<l, part>>]
           /\ CachedTyped'
<1>1. /\ job \in [Key -> Jobs] /\ maxSeq \in [Key \X Part -> Nat]
      /\ job[k].part \in Part
  BY DEF OrderInv, SkipInv, TransferTypes, Jobs
<1> DEFINE c == <<k, job[k].part>>
<1>2. /\ maxSeq' = [maxSeq EXCEPT ![c] = @ + Len(StorageList(k))]
      /\ UNCHANGED <<cached, lists>>
  BY DEF Malloc, kafkaVars
<1>3. c \in Key \X Part /\ maxSeq[c] \in Nat /\ Len(StorageList(k)) \in Nat
  BY <1>1, EntriesOfJob DEF OrderInv, SkipInv
<1>4. job'[k].part = job[k].part /\ job'[k].base = maxSeq[c]
  BY <1>1 DEF Malloc, Jobs
<1>5. StorageList(k)' = StorageList(k)
  BY <1>2, <1>4 DEF StorageList
<1>6. maxSeq'[c] = maxSeq[c] + Len(StorageList(k))
  BY <1>1, <1>2, <1>3
<1>7. \A e \in cached : e.key = k /\ e.part = job[k].part => e.seq =< maxSeq[c]
  BY DEF OrderInv, CachedTyped
<1>8. Before(k)'
  BY <1>2, <1>4, <1>5, <1>6, <1>7 DEF Before
<1>9. \A l \in Key : l # k => \A part \in Part :
        maxSeq'[<<l, part>>] = maxSeq[<<l, part>>]
  BY <1>1, <1>2
<1>10. CachedTyped'
  <2>1. SUFFICES ASSUME NEW e \in cached
                 PROVE  e.seq =< maxSeq'[<<e.key, e.part>>]
    BY <1>2 DEF OrderInv, CachedTyped
  <2>2. /\ e \in Entries /\ e.seq =< maxSeq[<<e.key, e.part>>]
    BY DEF OrderInv, CachedTyped
  <2>3. <<e.key, e.part>> \in Key \X Part /\ e.seq \in Nat
    BY <2>2 DEF Entries
  <2>4. maxSeq[<<e.key, e.part>>] \in Nat /\ maxSeq'[<<e.key, e.part>>] \in Nat
        /\ maxSeq[<<e.key, e.part>>] =< maxSeq'[<<e.key, e.part>>]
    <3>1. CASE <<e.key, e.part>> = c
      BY <1>3, <1>6, <3>1
    <3>2. CASE <<e.key, e.part>> # c
      BY <1>1, <1>2, <2>3, <3>2
    <3>3. QED  BY <3>1, <3>2
  <2>5. QED  BY <2>2, <2>3, <2>4
<1>11. QED  BY <1>8, <1>9, <1>10

-----------------------------------------------------------------------------
(* What SetMessage adds to the cache. *)
LEMMA NextEntry ==
    ASSUME OrderInv, NEW k \in Key, SetMessage(k)
    PROVE  LET n == job[k].done + 1
               e == Numbered(k)[n]
           IN  /\ n \in 1 .. Len(StorageList(k))
               /\ cached' = cached \cup {e} /\ e \in Entries
               /\ e.key = k /\ e.part = job[k].part
               /\ e.seq = job[k].base + n /\ e.msg = StorageList(k)[n]
               /\ Msg(e.msg).key = k
<1> DEFINE n == job[k].done + 1
<1>1. /\ JobOK(k) /\ job[k] \in Jobs /\ job[k].pc = "cache"
      /\ job[k].part \in Part
  BY AtWork DEF OrderInv, SetMessage, At
<1>2. job[k].done \in Nat /\ job[k].done < Len(StorageList(k))
  BY <1>1 DEF JobOK, Jobs
<1>3. Len(StorageList(k)) \in Nat
  BY EntriesOfJob DEF OrderInv, SkipInv
<1>4. n \in 1 .. Len(StorageList(k))
  BY <1>2, <1>3
<1>5. /\ Numbered(k)[n] = Entry(k, job[k].part, job[k].base + n, StorageList(k)[n])
      /\ Numbered(k)[n] \in Entries
  BY <1>4, EntriesOfJob DEF OrderInv, SkipInv
<1>6. Msg(StorageList(k)[n]).key = k
  BY <1>1, <1>4 DEF OrderInv, ListsOrdered, StorageList
<1>7. cached' = cached \cup {Numbered(k)[n]}
  BY DEF SetMessage
<1>8. QED  BY <1>4, <1>5, <1>6, <1>7 DEF Entry

(* The message that is cached next is behind all that came before it. *)
LEMMA OrderOfNext ==
    ASSUME OrderInv, Grows, NEW k \in Key, SetMessage(k)
    PROVE  OrderKept'
<1> DEFINE n == job[k].done + 1
           new == Numbered(k)[n]
<1>1. /\ n \in 1 .. Len(StorageList(k)) /\ cached' = cached \cup {new}
      /\ new.key = k /\ new.part = job[k].part /\ new.seq = job[k].base + n
      /\ new.msg = StorageList(k)[n]
  BY NextEntry
<1>2. /\ JobOK(k) /\ job[k] \in Jobs /\ job[k].pc = "cache"
      /\ job[k].part \in Part /\ job[k].base \in Nat /\ job[k].done \in Nat
  BY AtWork DEF OrderInv, SetMessage, At, Jobs
<1>3. \A i \in 1 .. Len(StorageList(k)) :
        /\ StorageList(k)[i] \in Ref
        /\ Numbered(k)[i] = Entry(k, job[k].part, job[k].base + i, StorageList(k)[i])
  BY EntriesOfJob DEF OrderInv, SkipInv
<1> HIDE DEF new
<1>4. ASSUME NEW o \in 1 .. new.msg[2] - 1, NEW r, r = <<new.msg[1], o>>,
             Msg(r).key = k, Stored(Msg(r), job[k].part)
      PROVE  \/ Failed("insert", r)
             \/ \E f \in CachedAs(r, job[k].part) : f.seq < new.seq
  <2>1. /\ new.msg \in Ref /\ new.msg[1] \in Partition
        /\ new.msg[2] \in 1 .. Len(Topic[new.msg[1]])
        /\ new.msg[2] \in Nat /\ Len(Topic[new.msg[1]]) \in Nat
    BY <1>1, <1>3, Refs, TransferAssumption, SMTT(30)
  <2>2. new.msg[2] =< pos[new.msg[1]] /\ pos[new.msg[1]] \in Nat
    BY <1>1, <1>2, <2>1, SMTT(30)
      DEF OrderInv, ListsOrdered, StorageList, SkipInv, TransferTypes
  <2>3. o \in 1 .. pos[new.msg[1]]
    BY <2>1, <2>2
  <2>4. Handled(r) \/ r \in Elems(batch)
    BY <1>4, <2>1, <2>3 DEF OrderInv, SkipInv, Covered
  <2>5. CASE r \in Elems(StorageList(k))
    <3>1. PICK j \in 1 .. Len(StorageList(k)) : StorageList(k)[j] = r
      BY <2>5 DEF Elems
    <3>2. j < n
      <4>1. StorageList(k)[j][2] < StorageList(k)[n][2]
        BY <1>1, <1>4, <2>1, <3>1
      <4>2. ~ (StorageList(k)[n][2] < StorageList(k)[j][2]) /\ j # n
        BY <1>1, <1>4, <2>1, <3>1
      <4>3. n < j => StorageList(k)[n][2] < StorageList(k)[j][2]
        BY <1>1, <1>2 DEF OrderInv, ListsOrdered, StorageList
      <4>4. QED  BY <1>2, <4>2, <4>3
    <3>3. Numbered(k)[j] \in cached
      BY <1>2, <3>2 DEF JobOK, WasCached
    <3>4. Numbered(k)[j] = Entry(k, job[k].part, job[k].base + j, r)
      BY <1>3, <3>1
    <3>5. /\ Numbered(k)[j] \in CachedAs(r, job[k].part)
          /\ Numbered(k)[j].seq = job[k].base + j
      BY <3>3, <3>4 DEF CachedAs, Entry
    <3>6. job[k].base + j < new.seq
      BY <1>1, <1>2, <3>2
    <3>7. QED  BY <3>5, <3>6
  <2>6. CASE r \notin Elems(StorageList(k))
    <3>1. r \notin Elems(batch)
      BY <1>2, <1>4, <2>6 DEF OrderInv, SkipInv, InLists, StorageList
    <3>2. StoredIn(r, job[k].part)
      BY <1>2, <1>4, <2>4, <3>1 DEF Handled, HandledIn
    <3>3. CASE Failed("insert", r)
      BY <3>3
    <3>4. CASE \E f \in CachedAs(r, job[k].part) : TRUE
      <4>1. PICK f \in cached : f.msg = r /\ f.part = job[k].part
        BY <3>4 DEF CachedAs
      <4>2. f.key = k /\ f.seq \in Nat
        BY <1>4, <4>1 DEF OrderInv, CachedTyped, Entries
      <4>3. ~ \E i \in 1 .. Len(StorageList(k)) : f = Numbered(k)[i]
        <5>1. SUFFICES ASSUME NEW i \in 1 .. Len(StorageList(k)),
                              f = Numbered(k)[i]
                       PROVE  FALSE
          OBVIOUS
        <5>2. f = Entry(k, job[k].part, job[k].base + i, StorageList(k)[i])
          BY <1>3, <5>1
        <5>3. StorageList(k)[i] = r
          BY <4>1, <5>2 DEF Entry
        <5>4. QED  BY <2>6, <5>3 DEF Elems
      <4>4. f.seq =< job[k].base
        BY <1>2, <4>1, <4>2, <4>3 DEF OrderInv, Before
      <4>5. f.seq < new.seq
        BY <1>1, <1>2, <4>2, <4>4
      <4>6. QED  BY <4>1, <4>5 DEF CachedAs
    <3>5. QED  BY <3>2, <3>3, <3>4 DEF StoredIn
  <2>7. QED  BY <2>5, <2>6
<1>5. SUFFICES ASSUME NEW e \in cached', NEW o \in 1 .. e.msg[2] - 1,
                      NEW r, r = <<e.msg[1], o>>,
                      Msg(r).key = e.key, Stored(Msg(r), e.part)
               PROVE  \/ Failed("insert", r)'
                      \/ \E f \in CachedAs(r, e.part)' : f.seq < e.seq
  BY DEF OrderKept
<1>6. \/ Failed("insert", r)
      \/ \E f \in CachedAs(r, e.part) : f.seq < e.seq
  <2>1. CASE e \in cached
    BY <1>5, <2>1 DEF OrderInv, OrderKept
  <2>2. CASE e = new
    BY <1>1, <1>4, <1>5, <2>2
  <2>3. QED  BY <1>1, <2>1, <2>2
<1>7. QED  BY <1>6 DEF Failed, CachedAs, Grows

(* SetMessage gives the conversation its next number. *)
LEMMA SetMessageOrder ==
    ASSUME OrderInv, Grows, NEW k \in Key, SetMessage(k)
    PROVE  CachedTyped' /\ Before(k)'
<1> DEFINE n == job[k].done + 1
           new == Numbered(k)[n]
<1>1. /\ n \in 1 .. Len(StorageList(k)) /\ cached' = cached \cup {new}
      /\ new \in Entries /\ new.key = k /\ new.part = job[k].part
      /\ new.seq = job[k].base + n /\ Msg(new.msg).key = k
  BY NextEntry
<1>2. /\ job[k] \in Jobs /\ job[k].pc = "cache" /\ job \in [Key -> Jobs]
      /\ job[k].part \in Part /\ job[k].base \in Nat /\ job[k].done \in Nat
  BY AtWork DEF OrderInv, SetMessage, At, Jobs
<1>3. Len(StorageList(k)) \in Nat
  BY EntriesOfJob DEF OrderInv, SkipInv
<1>4. Before(k) /\ job[k].base + Len(StorageList(k)) = maxSeq[<<k, job[k].part>>]
  BY <1>2 DEF OrderInv, Before
<1>5. UNCHANGED <<maxSeq, lists>>
  BY DEF SetMessage, kafkaVars
<1>6. CachedTyped'
  <2>1. new.seq =< maxSeq[<<new.key, new.part>>]
    BY <1>1, <1>2, <1>3, <1>4
  <2>2. QED  BY <1>1, <1>5, <2>1 DEF OrderInv, CachedTyped
<1>7. job'[k].part = job[k].part /\ job'[k].base = job[k].base
  BY <1>2 DEF SetMessage, Jobs
<1>8. Before(k)'
  BY <1>1, <1>2, <1>4, <1>5, <1>7, BeforeStays
<1>9. QED  BY <1>6, <1>8

(* The steps of a job keep what is known of its numbers. *)
LEMMA WorkOrder ==
    ASSUME OrderInv, Grows, NEW k \in Key, Work(k)
    PROVE  OrderKept' /\ CachedTyped' /\ Before(k)'
<1>1. /\ job \in [Key -> Jobs] /\ job[k] \in Jobs /\ Before(k)
      /\ UNCHANGED lists
  BY DEF OrderInv, SkipInv, TransferTypes, kafkaVars, Work, StartJob,
    PushNotStored, Malloc, InsertFails, MallocFails, SetMessage, SetHasReadSeqs,
    CreateConversation, MsgToMongoMQ, PushStored
<1>2. ASSUME NEW pc, Goto(k, pc)
      PROVE  /\ job'[k].pc = pc /\ job'[k].part = job[k].part
             /\ job'[k].base = job[k].base
  BY <1>1, <1>2 DEF Goto, Jobs
<1>3. CASE SetMessage(k)
  BY <1>3, OrderOfNext, SetMessageOrder
<1>4. CASE Malloc(k)
  <2>1. OrderKept'
    <3>1. UNCHANGED <<cached, failed>>
      BY <1>4 DEF Malloc, histVars
    <3>2. QED  BY <3>1 DEF OrderInv, OrderKept, Failed, CachedAs
  <2>2. QED  BY <1>4, <2>1, BeforeMalloc
<1>5. CASE InsertFails(k) \/ PushStored(k)
  <2>1. EndPart(k) /\ UNCHANGED <<cached, maxSeq>>
    BY <1>5 DEF InsertFails, PushStored
  <2>2. QED  BY <1>1, <2>1, BeforeEnds, CacheKept
<1>6. CASE StartJob(k) \/ PushNotStored(k)
  <2>1. /\ UNCHANGED <<cached, maxSeq>>
        /\ EndPart(k) \/ Goto(k, "start") \/ Goto(k, "malloc")
    BY <1>6 DEF StartJob, PushNotStored
  <2>2. Before(k)'
    BY <1>1, <1>2, <2>1, BeforeEnds, BeforeNumbers
  <2>3. QED  BY <2>1, <2>2, CacheKept
<1>7. CASE SetHasReadSeqs(k) \/ CreateConversation(k) \/ MsgToMongoMQ(k)
  <2>1. /\ UNCHANGED <<cached, maxSeq>>
        /\ job[k].pc \in {"read", "create", "mongo"}
        /\ Goto(k, "create") \/ Goto(k, "mongo") \/ Goto(k, "push")
    BY <1>7 DEF SetHasReadSeqs, CreateConversation, MsgToMongoMQ, At
  <2>2. job'[k].part = job[k].part /\ job'[k].base = job[k].base
    BY <1>2, <2>1
  <2>3. Before(k)'
    BY <1>1, <2>1, <2>2, BeforeStays
  <2>4. QED  BY <2>1, <2>3, CacheKept
<1>8. CASE MallocFails(k)
  <2>1. /\ EndPart(k) /\ UNCHANGED cached
        /\ \A c \in Key \X Part : maxSeq'[c] \in Nat /\ maxSeq[c] =< maxSeq'[c]
    BY <1>8, NumbersUsedUp DEF MallocFails, OrderInv, SkipInv
  <2>2. QED  BY <1>1, <2>1, BeforeEnds, NumbersRise
<1>9. QED  BY <1>3, <1>4, <1>5, <1>6, <1>7, <1>8 DEF Work

(* The others' numbers are theirs. *)
LEMMA OthersOrder ==
    ASSUME OrderInv, NEW k \in Key, Work(k), NEW l \in Key, l # k
    PROVE  Before(l)'
<1>1. /\ job \in [Key -> Jobs] /\ job[l].part \in Part /\ Before(l)
  BY DEF OrderInv, SkipInv, TransferTypes, Jobs
<1>2. job'[l] = job[l] /\ UNCHANGED lists
  BY <1>1 DEF Work, Goto, EndPart, StartJob, PushNotStored, Malloc,
    InsertFails, MallocFails, SetMessage, SetHasReadSeqs, CreateConversation,
    MsgToMongoMQ, PushStored, kafkaVars
<1>3. maxSeq'[<<l, job[l].part>>] = maxSeq[<<l, job[l].part>>]
  <2>1. CASE Malloc(k)
    BY <1>1, <2>1, BeforeMalloc
  <2>2. CASE MallocFails(k)
    BY <1>1, <2>2, OthersNumbers DEF OrderInv, SkipInv
  <2>3. CASE ~Malloc(k) /\ ~MallocFails(k)
    BY <2>3 DEF Work, StartJob, PushNotStored, InsertFails, SetMessage,
      SetHasReadSeqs, CreateConversation, MsgToMongoMQ, PushStored
  <2>4. QED  BY <2>1, <2>2, <2>3
<1>4. \A e \in cached' : e \in cached \/ e.key # l
  <2>1. CASE SetMessage(k)
    BY <2>1, NextEntry
  <2>2. CASE ~SetMessage(k)
    BY <2>2 DEF Work, StartJob, PushNotStored, Malloc, InsertFails, MallocFails,
      SetHasReadSeqs, CreateConversation, MsgToMongoMQ, PushStored
  <2>3. QED  BY <2>1, <2>2
<1>5. QED  BY <1>1, <1>2, <1>3, <1>4, BeforeStays

-----------------------------------------------------------------------------
(* All steps. *)
LEMMA ListsOrderedNext ==
    ASSUME OrderInv, [Next]_vars
    PROVE  ListsOrdered'
<1>1. CASE UNCHANGED <<pos, lists>>
  BY <1>1 DEF OrderInv, ListsOrdered
<1>2. ASSUME NEW p \in Partition, Put(p)  PROVE ListsOrdered'
  BY <1>2, ListsOrderedByPut DEF OrderInv, SkipInv
<1>3. CASE OnComplete \/ Crash
  <2>1. lists' = NoLists
    BY <1>3 DEF OnComplete, Crash
  <2>2. \A c \in Key \X Part : lists'[c] = << >>
    BY <2>1 DEF NoLists
  <2>3. QED  BY <2>2 DEF ListsOrdered
<1>4. ASSUME NEW k \in Key, Work(k)  PROVE UNCHANGED <<pos, lists>>
  BY <1>4 DEF Work, StartJob, PushNotStored, Malloc, InsertFails, MallocFails, SetMessage,
    SetHasReadSeqs, CreateConversation, MsgToMongoMQ, PushStored, kafkaVars
<1>5. CASE UNCHANGED vars \/ Distribute \/ HandleChatWs2Mongo \/ MongoRestart
  BY <1>1, <1>5 DEF vars, kafkaVars, Distribute, HandleChatWs2Mongo,
    MongoRestart
<1>6. QED  BY <1>1, <1>2, <1>3, <1>4, <1>5 DEF Next

(* ... and by every step ... *)
LEMMA NextOrderInv == OrderInv /\ [Next]_vars => OrderInv'
<1> SUFFICES ASSUME OrderInv, [Next]_vars PROVE OrderInv'
  OBVIOUS
<1>1. SkipInv' /\ Grows /\ ListsOrdered'
  BY NextSkipInv, GrowsByNext, ListsOrderedNext DEF OrderInv, SkipInv
<1>2. ASSUME UNCHANGED <<cached, maxSeq>>,
             \A k \in Key : job'[k].pc \in {"none", "queued"}
      PROVE  OrderInv'
  BY <1>1, <1>2, CacheKept, BeforeNumbers DEF OrderInv
<1>3. ASSUME NEW p \in Partition, Put(p)  PROVE OrderInv'
  <2>1. \A k \in Key : job'[k].pc = "none"
    BY <1>3 DEF Put, OrderInv, SkipInv, Workers
  <2>2. QED  BY <1>2, <1>3, <2>1 DEF Put
<1>4. CASE Distribute
  <2>1. \A k \in Key : job'[k].pc \in {"none", "queued"}
    BY <1>4 DEF Distribute, NoJob
  <2>2. QED  BY <1>2, <1>4, <2>1 DEF Distribute
<1>5. CASE OnComplete
  BY <1>2, <1>5 DEF OnComplete
<1>6. CASE Crash
  <2>1. \A k \in Key : job'[k].pc = "none"
    BY <1>6 DEF Crash, NoJob
  <2>2. QED  BY <1>2, <1>6, <2>1 DEF Crash
<1>7. ASSUME NEW k \in Key, Work(k)  PROVE OrderInv'
  BY <1>1, <1>7, WorkOrder, OthersOrder DEF OrderInv
<1>8. CASE UNCHANGED vars \/ HandleChatWs2Mongo \/ MongoRestart
  <2>1. UNCHANGED <<job, lists, cached, maxSeq>>
    BY <1>8 DEF vars, kafkaVars, HandleChatWs2Mongo, MongoRestart
  <2>2. ASSUME NEW k \in Key  PROVE Before(k)'
    BY <2>1, BeforeStays DEF OrderInv
  <2>3. QED  BY <1>1, <2>1, <2>2, CacheKept DEF OrderInv
<1>9. QED  BY <1>3, <1>4, <1>5, <1>6, <1>7, <1>8 DEF Next

(* ... and holds in the beginning. *)
LEMMA InitOrderInv == Init => OrderInv
<1> SUFFICES ASSUME Init PROVE OrderInv
  OBVIOUS
<1>1. SkipInv
  BY InitSkipInv
<1>2. OrderKept /\ CachedTyped
  BY DEF Init, OrderKept, CachedTyped
<1>3. ListsOrdered
  <2>1. \A c \in Key \X Part : lists[c] = << >>
    BY DEF Init, NoLists
  <2>2. QED  BY <2>1 DEF ListsOrdered
<1>4. ASSUME NEW k \in Key  PROVE Before(k)
  BY DEF Init, NoJob, Before
<1>5. QED  BY <1>1, <1>2, <1>3, <1>4 DEF OrderInv

(* When a message can be read, every earlier message of its conversation    *)
(* can be read under a lower number or was dropped, whatever crashes, is    *)
(* read again, fails or runs beside it.                                     *)
THEOREM NumbersFollowTheTopic == Spec => []OrderKept
<1>1. OrderInv => OrderKept
  BY DEF OrderInv
<1>2. QED  BY InitOrderInv, NextOrderInv, <1>1, PTL DEF Spec

-----------------------------------------------------------------------------
(***************************************************************************)
(* Types, and what holds when a message is pushed: it can be read, its     *)
(* sender has read it, and its conversation exists.                        *)
(*                                                                         *)
(* The numbers of a conversation are given from 0 on to the job that is to *)
(* create it, and a job raises the positions of its senders before it      *)
(* sends anything on.                                                      *)
(***************************************************************************)

RestTypes ==
    /\ mongo \subseteq Entries /\ pushed \subseteq Entries
    /\ readSeq \in [Key \X User -> Nat]
    /\ created \subseteq Key /\ hurt \subseteq Key
    /\ mongoPos \in 0 .. Len(toMongo)
    /\ crashes \in 0 .. MaxCrashes /\ restarts \in 0 .. MaxRestarts

(* The senders of a job behind SetHasReadSeqs have read their messages. *)
Raised(k) ==
    job[k].part = "chat" /\ job[k].pc \in {"create", "mongo", "push"} =>
        \A i \in 1 .. Len(StorageList(k)) :
            \/ readSeq[<<k, Msg(StorageList(k)[i]).sender>>] >= job[k].base + i
            \/ Failed("read", StorageList(k)[i])

(* Once numbers have been given, the conversation exists, or its first job  *)
(* is about to create it, or has broken down, or never got its numbers.     *)
Founded(k) == maxSeq[<<k, "chat">>] # 0 => k \in created \cup hurt \/ Owes(k)

PushInv ==
    /\ OrderInv /\ RestTypes /\ PushedIsReadable /\ ConversationBeforePush
    /\ \A k \in Key : Raised(k) /\ Founded(k)

-----------------------------------------------------------------------------
(* A finite set of numbers has a greatest one: of the sets of those above a *)
(* number of it, a smallest belongs to a number with none above it.         *)
LEMMA Greatest ==
    ASSUME NEW S, S \subseteq Nat, S # {}, NEW n \in Nat, S \subseteq 0 .. n
    PROVE  \E s \in S : \A t \in S : t =< s
<1> DEFINE Above(s) == {t \in S : t > s}
           T == {Above(s) : s \in S}
<1>1. IsFiniteSet(S)
  <2>1. IsFiniteSet(0 .. n)
    BY FS_Interval
  <2>2. QED  BY <2>1, FS_Subset
<1>2. IsWellFoundedOn(StrictSubsetOrdering(S), SUBSET S)
  BY <1>1, FS_FiniteSubsetsOfFinite, FS_StrictSubsetOrderingWellFounded
<1>3. T \subseteq SUBSET S /\ T # {}
  OBVIOUS
<1>4. PICK X \in T : \A Y \in T : ~ (<<Y, X>> \in StrictSubsetOrdering(S))
  <2> HIDE DEF T
  <2>1. QED  BY <1>2, <1>3, WFMin
<1>5. PICK s \in S : X = Above(s)
  OBVIOUS
<1>6. ASSUME NEW t \in S, ~ (t =< s)  PROVE FALSE
  <2>1. t > s /\ s \in Nat /\ t \in Nat
    BY <1>6
  <2>2. Above(t) \subseteq Above(s)
    <3>1. \A x \in S : x > t => x > s
      BY <2>1
    <3>2. QED  BY <3>1
  <2>3. t \in Above(s) /\ t \notin Above(t)
    <3>1. ~ (t > t)
      BY <2>1
    <3>2. QED  BY <2>1, <3>1
  <2>4. <<Above(t), Above(s)>> \in StrictSubsetOrdering(S)
    <3>1. Above(t) \in SUBSET S /\ Above(s) \in SUBSET S /\ Above(t) # Above(s)
      BY <2>3
    <3> HIDE DEF Above
    <3>2. QED  BY <2>2, <3>1 DEF StrictSubsetOrdering
  <2>5. Above(t) \in T
    OBVIOUS
  <2>6. QED  BY <1>4, <1>5, <2>4, <2>5
<1>7. QED  BY <1>6

(* userSeqMap holds for each sender the highest number of his messages,     *)
(* which is that of one of them.                                            *)
LEMMA SeqOfUser ==
    ASSUME TransferTypes, NEW k \in Key, NEW u \in User
    PROVE  /\ UserSeqMap(k)[u] \in Nat
           /\ \A i \in 1 .. Len(StorageList(k)) :
                Msg(StorageList(k)[i]).sender = u =>
                  job[k].base + i =< UserSeqMap(k)[u]
           /\ UserSeqMap(k)[u] # 0 =>
                \E e \in Elems(Numbered(k)) :
                  Msg(e.msg).sender = u /\ e.seq = UserSeqMap(k)[u]
<1> DEFINE own == {e.seq : e \in {f \in Elems(Numbered(k)) : Msg(f.msg).sender = u}}
           n == job[k].base + Len(StorageList(k))
<1>1. UserSeqMap(k)[u] =
        IF own = {} THEN 0 ELSE CHOOSE s \in own : \A t \in own : t =< s
  BY DEF UserSeqMap
<1>2. job[k].base \in Nat /\ Len(StorageList(k)) \in Nat /\ n \in Nat
  BY EntriesOfJob DEF TransferTypes, Jobs
<1>3. \A i \in 1 .. Len(StorageList(k)) :
        /\ Numbered(k)[i] \in Elems(Numbered(k))
        /\ Numbered(k)[i].seq = job[k].base + i
        /\ Numbered(k)[i].msg = StorageList(k)[i]
  <2>1. SUFFICES ASSUME NEW i \in 1 .. Len(StorageList(k))
                 PROVE  /\ Numbered(k)[i] \in Elems(Numbered(k))
                        /\ Numbered(k)[i].seq = job[k].base + i
                        /\ Numbered(k)[i].msg = StorageList(k)[i]
    OBVIOUS
  <2>2. /\ Numbered(k)[i] \in Elems(Numbered(k))
        /\ Numbered(k)[i] =
             Entry(k, job[k].part, job[k].base + i, StorageList(k)[i])
    BY EntriesOfJob
  <2>3. QED  BY <2>2 DEF Entry
<1>4. ASSUME NEW e \in Elems(Numbered(k))
      PROVE  e.seq \in 0 .. n
  <2>1. PICK i \in 1 .. Len(StorageList(k)) : e = Numbered(k)[i]
    BY EntriesOfJob
  <2>2. e.seq = job[k].base + i
    BY <1>3, <2>1
  <2>3. QED  BY <1>2, <2>2
<1>5. own \subseteq 0 .. n /\ own \subseteq Nat
  BY <1>2, <1>4
<1>6. \A i \in 1 .. Len(StorageList(k)) :
        Msg(StorageList(k)[i]).sender = u => job[k].base + i \in own
  BY <1>3
<1>7. \A s \in own : \E e \in Elems(Numbered(k)) :
         Msg(e.msg).sender = u /\ e.seq = s
  OBVIOUS
<1> HIDE DEF own, n
<1>8. CASE own = {}
  BY <1>1, <1>6, <1>8
<1>9. CASE own # {}
  <2>1. \E s \in own : \A t \in own : t =< s
    BY <1>2, <1>5, <1>9, Greatest
  <2>2. /\ UserSeqMap(k)[u] \in own
        /\ \A t \in own : t =< UserSeqMap(k)[u]
    BY <1>1, <1>9, <2>1
  <2>3. QED  BY <1>5, <1>6, <1>7, <2>2
<1>10. QED  BY <1>8, <1>9

-----------------------------------------------------------------------------
(* What every step adds to, and what it leaves.                            *)
RestGrows ==
    /\ created \subseteq created' /\ hurt \subseteq hurt'
    /\ \A x \in Key \X User : readSeq[x] =< readSeq'[x]

(* SetHasReadSeqs only raises positions. *)
LEMMA ReadSeqsRise ==
    ASSUME TransferTypes, RestTypes, NEW k \in Key, SetHasReadSeqs(k)
    PROVE  /\ readSeq' \in [Key \X User -> Nat]
           /\ \A x \in Key \X User : readSeq[x] =< readSeq'[x]
<1>1. \A u \in User : UserSeqMap(k)[u] \in Nat
  BY SeqOfUser
<1>2. readSeq \in [Key \X User -> Nat]
  BY DEF RestTypes
<1>3. PICK done \in SUBSET User :
        readSeq' = [x \in Key \X User |->
              IF x[1] = k /\ x[2] \in done /\ readSeq[x] < UserSeqMap(k)[x[2]]
              THEN UserSeqMap(k)[x[2]] ELSE readSeq[x]]
  BY DEF SetHasReadSeqs
<1>4. ASSUME NEW x \in Key \X User
      PROVE  readSeq'[x] \in Nat /\ readSeq[x] =< readSeq'[x]
  <2>1. x[2] \in User /\ readSeq[x] \in Nat /\ UserSeqMap(k)[x[2]] \in Nat
    BY <1>1, <1>2
  <2>2. readSeq'[x] =
          IF x[1] = k /\ x[2] \in done /\ readSeq[x] < UserSeqMap(k)[x[2]]
          THEN UserSeqMap(k)[x[2]] ELSE readSeq[x]
    BY <1>3
  <2>3. QED  BY <2>1, <2>2
<1>5. QED  BY <1>3, <1>4

(* Of the steps of a job only SetHasReadSeqs touches them. *)
LEMMA RestGrowsByWork ==
    ASSUME TransferTypes, RestTypes, NEW k \in Key, Work(k)
    PROVE  RestGrows /\ readSeq' \in [Key \X User -> Nat]
<1>1. created \subseteq created' /\ hurt \subseteq hurt'
  BY DEF Work, StartJob, PushNotStored, Malloc, InsertFails, MallocFails, SetMessage,
    SetHasReadSeqs, CreateConversation, MsgToMongoMQ, PushStored, histVars
<1>2. CASE SetHasReadSeqs(k)
  BY <1>1, <1>2, ReadSeqsRise DEF RestGrows
<1>3. CASE ~SetHasReadSeqs(k)
  <2>1. UNCHANGED readSeq
    BY <1>3 DEF Work, StartJob, PushNotStored, Malloc, InsertFails, MallocFails, SetMessage,
      CreateConversation, MsgToMongoMQ, PushStored
  <2>2. \A x \in Key \X User : readSeq[x] \in Nat
    BY DEF RestTypes
  <2>3. QED  BY <1>1, <2>1, <2>2 DEF RestGrows, RestTypes
<1>4. QED  BY <1>2, <1>3

(* Nor does any other step. *)
LEMMA RestGrowsByNext ==
    ASSUME TransferTypes, RestTypes, [Next]_vars
    PROVE  RestGrows
<1>1. ASSUME UNCHANGED readSeq, created \subseteq created', hurt \subseteq hurt'
      PROVE  RestGrows
  <2>1. \A x \in Key \X User : readSeq[x] \in Nat
    BY DEF RestTypes
  <2>2. QED  BY <1>1, <2>1 DEF RestGrows
<1>2. CASE UNCHANGED vars \/ Distribute \/ OnComplete \/ HandleChatWs2Mongo
             \/ Crash \/ MongoRestart \/ \E p \in Partition : Put(p)
  BY <1>1, <1>2 DEF vars, histVars, Distribute, OnComplete,
    HandleChatWs2Mongo, Crash, MongoRestart, Put
<1>3. QED  BY <1>2, RestGrowsByWork DEF Next

-----------------------------------------------------------------------------
(* Types.                                                                  *)

(* What ToPushTopic leaves pushed. *)
LEMMA PushesTyped ==
    ASSUME NEW STATE entries, entries \subseteq Entries, pushed \subseteq Entries,
           ToPushTopic(entries)
    PROVE  pushed' \subseteq Entries
BY DEF ToPushTopic

(* A step of a job keeps the types. *)
LEMMA RestTypesOfWork ==
    ASSUME TransferTypes, RestTypes, NEW k \in Key, Work(k)
    PROVE  RestTypes'
<1>1. readSeq' \in [Key \X User -> Nat]
  BY RestGrowsByWork
<1>2. UNCHANGED <<mongoPos, mongo, crashes, restarts>>
  BY DEF Work, StartJob, PushNotStored, Malloc, InsertFails, MallocFails, SetMessage,
    SetHasReadSeqs, CreateConversation, MsgToMongoMQ, PushStored, mongoVars,
    histVars
<1>3. created' \subseteq Key /\ hurt' \subseteq Key
  BY DEF RestTypes, Work, StartJob, PushNotStored, Malloc, InsertFails, MallocFails,
    SetMessage, SetHasReadSeqs, CreateConversation, MsgToMongoMQ, PushStored,
    histVars
<1>4. pushed' \subseteq Entries
  <2>1. CASE PushNotStored(k)
    <3>1. {Entry(k, job[k].part, 0, r) : r \in NotStorageList(k)} \subseteq Entries
      <4>1. job[k].part \in Part /\ NotStorageList(k) \subseteq Ref
        BY DEF TransferTypes, Jobs, NotStorageList
      <4>2. QED  BY <4>1 DEF Entry, Entries
    <3>2. QED  BY <2>1, <3>1, PushesTyped DEF PushNotStored, RestTypes
  <2>2. CASE PushStored(k)
    BY <2>2, EntriesOfJob, PushesTyped DEF PushStored, RestTypes
  <2>3. CASE ~PushNotStored(k) /\ ~PushStored(k)
    BY <2>3 DEF RestTypes, Work, StartJob, Malloc, InsertFails, MallocFails, SetMessage,
      SetHasReadSeqs, CreateConversation, MsgToMongoMQ
  <2>4. QED  BY <2>1, <2>2, <2>3
<1>5. mongoPos' \in 0 .. Len(toMongo')
  <2>1. toMongo' = toMongo \/ toMongo' = Append(toMongo, Elems(Numbered(k)))
    BY DEF Work, StartJob, PushNotStored, Malloc, InsertFails, MallocFails, SetMessage,
      SetHasReadSeqs, CreateConversation, MsgToMongoMQ, PushStored, mongoVars
  <2>2. /\ toMongo \in Seq(SUBSET Entries) /\ mongoPos \in 0 .. Len(toMongo)
        /\ Elems(Numbered(k)) \in SUBSET Entries
    BY EntriesOfJob DEF TransferTypes, RestTypes
  <2>3. Len(toMongo) \in Nat /\ Len(toMongo') \in Nat
        /\ Len(toMongo) =< Len(toMongo')
    BY ONLY <2>1, <2>2
  <2>4. QED  BY <1>2, <2>2, <2>3
<1>6. QED  BY <1>1, <1>2, <1>3, <1>4, <1>5 DEF RestTypes

(* Every step does. *)
LEMMA RestTypesNext ==
    ASSUME TransferTypes, RestTypes, [Next]_vars
    PROVE  RestTypes'
<1> USE DEF RestTypes, mongoVars, histVars
<1>1. CASE UNCHANGED vars \/ Distribute \/ OnComplete
             \/ \E p \in Partition : Put(p)
  BY <1>1 DEF vars, Distribute, OnComplete, Put
<1>2. CASE HandleChatWs2Mongo
  <2>1. /\ toMongo \in Seq(SUBSET Entries) /\ mongoPos \in 0 .. Len(toMongo)
        /\ mongoPos < Len(toMongo) /\ mongoPos' = mongoPos + 1
        /\ UNCHANGED <<toMongo, created, hurt, readSeq, pushed, crashes, restarts>>
    BY <1>2 DEF HandleChatWs2Mongo, TransferTypes
  <2>2. /\ mongoPos' \in 0 .. Len(toMongo)
        /\ toMongo[mongoPos + 1] \subseteq Entries
    BY ONLY <2>1
  <2>3. mongo' \subseteq Entries
    BY <1>2, <2>2 DEF HandleChatWs2Mongo
  <2>4. QED  BY <2>1, <2>2, <2>3
<1>3. CASE Crash
  <2>1. crashes' \in 0 .. MaxCrashes
    BY <1>3, TransferAssumption DEF Crash
  <2>2. QED  BY <1>3, <2>1 DEF Crash
<1>4. CASE MongoRestart
  <2>1. restarts' \in 0 .. MaxRestarts
    BY <1>4, TransferAssumption DEF MongoRestart
  <2>2. mongoPos' \in 0 .. Len(toMongo)
    <3>1. Len(toMongo) \in Nat
      BY DEF TransferTypes
    <3>2. QED  BY <1>4, <3>1 DEF MongoRestart
  <2>3. QED  BY <1>4, <2>1, <2>2 DEF MongoRestart
<1>5. QED  BY <1>1, <1>2, <1>3, <1>4, RestTypesOfWork DEF Next

-----------------------------------------------------------------------------
(* The senders' positions.                                                 *)

(* A job that stays behind SetHasReadSeqs, or that a step leaves alone. *)
LEMMA RaisedStays ==
    ASSUME TransferTypes, RestTypes, Grows, RestGrows, NEW k \in Key, Raised(k),
           RestTypes', UNCHANGED lists,
           job'[k].part = job[k].part, job'[k].base = job[k].base,
           job'[k].pc \in {"create", "mongo", "push"} =>
             job[k].pc \in {"create", "mongo", "push"}
    PROVE  Raised(k)'
<1>1. StorageList(k)' = StorageList(k)
  BY DEF StorageList
<1>2. SUFFICES ASSUME job[k].part = "chat",
                      job[k].pc \in {"create", "mongo", "push"},
                      NEW i \in 1 .. Len(StorageList(k)),
                      NEW r, r = StorageList(k)[i]
               PROVE  \/ readSeq'[<<k, Msg(r).sender>>] >= job[k].base + i
                      \/ Failed("read", r)'
  BY <1>1 DEF Raised, Failed
<1>3. \/ readSeq[<<k, Msg(r).sender>>] >= job[k].base + i
      \/ Failed("read", r)
  BY <1>2 DEF Raised
<1>4. /\ r \in Ref /\ job[k].base \in Nat /\ Len(StorageList(k)) \in Nat
  BY <1>2, EntriesOfJob DEF TransferTypes, Jobs
<1>5. <<k, Msg(r).sender>> \in Key \X User
  BY <1>4 DEF User
<1>6. /\ readSeq[<<k, Msg(r).sender>>] \in Nat
      /\ readSeq'[<<k, Msg(r).sender>>] \in Nat
      /\ readSeq[<<k, Msg(r).sender>>] =< readSeq'[<<k, Msg(r).sender>>]
  BY <1>5 DEF RestTypes, RestGrows
<1>7. QED  BY <1>3, <1>4, <1>6 DEF Failed, Grows

(* SetHasReadSeqs raises those of the users it reaches; for the others the *)
(* call has failed.                                                        *)
LEMMA RaisedBySet ==
    ASSUME TransferTypes, RestTypes, NEW k \in Key, SetHasReadSeqs(k)
    PROVE  Raised(k)'
<1>1. /\ job \in [Key -> Jobs] /\ job[k].base \in Nat
      /\ Len(StorageList(k)) \in Nat
  BY EntriesOfJob DEF TransferTypes, Jobs
<1>2. /\ job'[k].part = job[k].part /\ job'[k].base = job[k].base
      /\ UNCHANGED lists
  BY <1>1 DEF SetHasReadSeqs, Goto, Jobs, kafkaVars
<1>3. StorageList(k)' = StorageList(k)
  BY <1>2 DEF StorageList
<1>4. PICK done \in SUBSET User :
        /\ readSeq' = [x \in Key \X User |->
              IF x[1] = k /\ x[2] \in done /\ readSeq[x] < UserSeqMap(k)[x[2]]
              THEN UserSeqMap(k)[x[2]] ELSE readSeq[x]]
        /\ Blame("read", {r \in Elems(StorageList(k)) : Msg(r).sender \notin done})
  BY DEF SetHasReadSeqs
<1>5. SUFFICES ASSUME NEW i \in 1 .. Len(StorageList(k)),
                      NEW r, r = StorageList(k)[i]
               PROVE  \/ readSeq'[<<k, Msg(r).sender>>] >= job[k].base + i
                      \/ Failed("read", r)'
  BY <1>2, <1>3 DEF Raised, Failed
<1> DEFINE u == Msg(r).sender
           x == <<k, u>>
<1>6. r \in Ref /\ r \in Elems(StorageList(k))
  BY <1>5, EntriesOfJob DEF Elems
<1>7. u \in User /\ x \in Key \X User
  BY <1>6 DEF User
<1>8. /\ UserSeqMap(k)[u] \in Nat /\ job[k].base + i =< UserSeqMap(k)[u]
      /\ readSeq[x] \in Nat
  <2>1. Msg(StorageList(k)[i]).sender = u
    BY <1>5
  <2>2. QED  BY <1>7, <2>1, SeqOfUser DEF RestTypes
<1>9. CASE u \in done
  <2>1. readSeq'[x] = IF readSeq[x] < UserSeqMap(k)[u]
                      THEN UserSeqMap(k)[u] ELSE readSeq[x]
    BY <1>4, <1>7, <1>9
  <2>2. QED  BY <1>1, <1>8, <2>1
<1>10. CASE u \notin done
  BY <1>4, <1>6, <1>10 DEF Blame, Failed
<1>11. QED  BY <1>9, <1>10

(* Every step of a job. *)
LEMMA RaisedWork ==
    ASSUME TransferTypes, RestTypes, RestTypes', Grows, RestGrows,
           NEW k \in Key, Work(k), NEW l \in Key, Raised(l)
    PROVE  Raised(l)'
<1>1. job \in [Key -> Jobs] /\ UNCHANGED lists
  BY DEF TransferTypes, kafkaVars, Work, StartJob, PushNotStored, Malloc,
    InsertFails, MallocFails, SetMessage, SetHasReadSeqs, CreateConversation, MsgToMongoMQ,
    PushStored
<1>2. CASE l # k
  <2>1. job'[l] = job[l]
    BY <1>1, <1>2 DEF Work, Goto, EndPart, StartJob, PushNotStored, Malloc,
      InsertFails, MallocFails, SetMessage, SetHasReadSeqs, CreateConversation,
      MsgToMongoMQ, PushStored
  <2>2. QED  BY <1>1, <2>1, RaisedStays
<1>3. CASE l = k /\ SetHasReadSeqs(k)
  BY <1>3, RaisedBySet
<1>4. CASE l = k /\ (CreateConversation(k) \/ MsgToMongoMQ(k))
  <2>1. /\ job[k].pc \in {"create", "mongo"}
        /\ Goto(k, "mongo") \/ Goto(k, "push")
    BY <1>4 DEF CreateConversation, MsgToMongoMQ, At
  <2>2. job'[k].part = job[k].part /\ job'[k].base = job[k].base
    BY <1>1, <2>1 DEF Goto, Jobs
  <2>3. QED  BY <1>1, <1>4, <2>1, <2>2, RaisedStays
<1>5. CASE /\ l = k
           /\ \/ StartJob(k) \/ PushNotStored(k) \/ Malloc(k) \/ MallocFails(k)
              \/ InsertFails(k) \/ PushStored(k)
  <2>1. job'[k].pc \in {"none", "start", "malloc", "cache"}
    <3>1. CASE StartJob(k)
      BY <1>1, <3>1 DEF StartJob, Goto, Jobs
    <3>2. CASE Malloc(k)
      BY <1>1, <3>2 DEF Malloc, Jobs
    <3>3. ASSUME EndPart(k)  PROVE job'[k].pc \in {"none", "start"}
      BY <1>1, <3>3 DEF EndPart, NoJob
    <3>4. CASE PushNotStored(k)
      <4>1. EndPart(k) \/ Goto(k, "malloc")
        BY <3>4 DEF PushNotStored
      <4>2. QED  BY <1>1, <3>3, <4>1 DEF Goto, Jobs
    <3>5. CASE InsertFails(k) \/ MallocFails(k) \/ PushStored(k)
      BY <3>3, <3>5 DEF InsertFails, MallocFails, PushStored
    <3>6. QED  BY <1>5, <3>1, <3>2, <3>4, <3>5
  <2>2. QED  BY <1>5, <2>1 DEF Raised
<1>6. CASE l = k /\ SetMessage(k)
  <2>1. PICK pc \in {"cache", "read", "mongo"} :
          /\ job' = [job EXCEPT ![k].done = job[k].done + 1, ![k].pc = pc]
          /\ pc = "mongo" => job[k].part # "chat"
    BY <1>6 DEF SetMessage
  <2>2. job'[k].pc = pc /\ job'[k].part = job[k].part
    BY <1>1, <2>1 DEF Jobs
  <2>3. QED  BY <1>6, <2>1, <2>2 DEF Raised
<1>7. QED  BY <1>2, <1>3, <1>4, <1>5, <1>6 DEF Work

-----------------------------------------------------------------------------
(* Who creates the conversation.                                           *)

(* A step that gives no numbers of the conversation. *)
LEMMA FoundedStays ==
    ASSUME NEW k \in Key, Founded(k), RestGrows,
           maxSeq'[<<k, "chat">>] = maxSeq[<<k, "chat">>],
           Owes(k) => Owes(k)' \/ k \in (created \cup hurt)'
    PROVE  Founded(k)'
BY DEF Founded, RestGrows

(* Malloc: the job that is given the first numbers owes the conversation. *)
LEMMA FoundedByMalloc ==
    ASSUME TransferTypes, RestGrows, NEW k \in Key, Malloc(k), Founded(k)
    PROVE  Founded(k)'
<1>1. /\ job \in [Key -> Jobs] /\ maxSeq \in [Key \X Part -> Nat]
      /\ job[k].part \in Part
  BY DEF TransferTypes, Jobs
<1>2. /\ job'[k].part = job[k].part /\ job'[k].pc = "cache"
      /\ job'[k].base = maxSeq[<<k, job[k].part>>]
  BY <1>1 DEF Malloc, Jobs
<1>3. ~Owes(k)
  BY DEF Malloc, At, Owes
<1>4. CASE job[k].part = "chat"
  <2>1. CASE maxSeq[<<k, "chat">>] = 0
    BY <1>2, <1>4, <2>1 DEF Founded, Owes
  <2>2. CASE maxSeq[<<k, "chat">>] # 0
    BY <1>3, <2>2 DEF Founded, RestGrows
  <2>3. QED  BY <2>1, <2>2
<1>5. CASE job[k].part # "chat"
  <2>1. maxSeq'[<<k, "chat">>] = maxSeq[<<k, "chat">>]
    BY <1>1, <1>5 DEF Malloc
  <2>2. QED  BY <1>3, <2>1, FoundedStays
<1>6. QED  BY <1>4, <1>5

(* An allocation that fails: the first numbers may be used up, and then     *)
(* nobody creates the conversation.                                         *)
LEMMA FoundedByMallocFails ==
    ASSUME TransferTypes, RestGrows, NEW k \in Key, MallocFails(k), Founded(k)
    PROVE  Founded(k)'
<1>1. /\ maxSeq \in [Key \X Part -> Nat] /\ job[k].part \in Part
      /\ Len(StorageList(k)) \in Nat
  BY EntriesOfJob DEF TransferTypes, Jobs
<1>2. ~Owes(k)
  BY DEF MallocFails, At, Owes
<1>3. CASE maxSeq[<<k, "chat">>] # 0
  BY <1>2, <1>3 DEF Founded, RestGrows
<1>4. CASE maxSeq[<<k, "chat">>] = 0 /\ job[k].part = "chat"
  <2>1. PICK n \in {0, Len(StorageList(k))} :
          /\ maxSeq' = [maxSeq EXCEPT ![<<k, job[k].part>>] = @ + n]
          /\ hurt' = IF n > 0 THEN hurt \cup {k} ELSE hurt
    BY <1>4 DEF MallocFails
  <2>2. maxSeq'[<<k, "chat">>] = n
    BY <1>1, <1>4, <2>1
  <2>3. n \in Nat
    BY <1>1
  <2>4. QED  BY <2>1, <2>2, <2>3 DEF Founded
<1>5. CASE job[k].part # "chat"
  <2>1. maxSeq'[<<k, "chat">>] = maxSeq[<<k, "chat">>]
    BY <1>1, <1>5 DEF MallocFails
  <2>2. QED  BY <1>2, <2>1, FoundedStays
<1>6. QED  BY <1>3, <1>4, <1>5

(* A step of the job of the key. *)
LEMMA FoundedOwn ==
    ASSUME TransferTypes, RestGrows, NEW k \in Key, Work(k), Founded(k)
    PROVE  Founded(k)'
<1>1. job \in [Key -> Jobs]
  BY DEF TransferTypes
<1>2. ASSUME ~Malloc(k), ~MallocFails(k)  PROVE UNCHANGED maxSeq
  BY <1>2 DEF Work, StartJob, PushNotStored, InsertFails, SetMessage,
    SetHasReadSeqs, CreateConversation, MsgToMongoMQ, PushStored
<1>3. ASSUME ~Malloc(k), ~MallocFails(k), Owes(k)
      PROVE  Owes(k)' \/ k \in (created \cup hurt)'
  <2>1. job[k].part = "chat" /\ job[k].base = 0
        /\ job[k].pc \in {"cache", "read", "create"}
    BY <1>3 DEF Owes
  <2>2. CASE InsertFails(k)
    BY <1>3, <2>2 DEF InsertFails
  <2>3. CASE SetMessage(k)
    <3>1. PICK pc \in {"cache", "read"} :
            job' = [job EXCEPT ![k].done = job[k].done + 1, ![k].pc = pc]
      BY <2>1, <2>3 DEF SetMessage
    <3>2. /\ job'[k].pc = pc /\ job'[k].part = job[k].part
          /\ job'[k].base = job[k].base
      BY <1>1, <3>1 DEF Jobs
    <3>3. QED  BY <2>1, <3>2 DEF Owes
  <2>4. CASE SetHasReadSeqs(k)
    <3>1. Goto(k, "create")
      BY <2>1, <2>4 DEF SetHasReadSeqs, IsNew
    <3>2. /\ job'[k].pc = "create" /\ job'[k].part = job[k].part
          /\ job'[k].base = job[k].base
      BY <1>1, <3>1 DEF Goto, Jobs
    <3>3. QED  BY <2>1, <3>2 DEF Owes
  <2>5. CASE CreateConversation(k)
    BY <2>5 DEF CreateConversation
  <2>6. QED
    BY <1>3, <2>1, <2>2, <2>3, <2>4, <2>5 DEF Work, At, StartJob,
      PushNotStored, MsgToMongoMQ, PushStored
<1>4. CASE Malloc(k)
  BY <1>4, FoundedByMalloc
<1>5. CASE MallocFails(k)
  BY <1>5, FoundedByMallocFails
<1>6. CASE ~Malloc(k) /\ ~MallocFails(k)
  BY <1>2, <1>3, <1>6, FoundedStays
<1>7. QED  BY <1>4, <1>5, <1>6

(* Every step. *)
LEMMA FoundedNext ==
    ASSUME SkipInv, RestGrows, [Next]_vars, NEW k \in Key, Founded(k)
    PROVE  Founded(k)'
<1>1. job \in [Key -> Jobs]
  BY DEF SkipInv, TransferTypes
<1>2. CASE UNCHANGED <<job, maxSeq>>
  BY <1>2, FoundedStays DEF Owes
<1>3. CASE Distribute
  <2>1. job[k].pc = "none" /\ UNCHANGED maxSeq
    BY <1>3 DEF Distribute, SkipInv, Workers
  <2>2. QED  BY <2>1, FoundedStays DEF Owes
<1>4. CASE Crash
  <2>1. UNCHANGED maxSeq /\ (Owes(k) => k \in hurt')
    BY <1>4 DEF Crash
  <2>2. QED  BY <2>1, FoundedStays
<1>5. ASSUME NEW l \in Key, Work(l)  PROVE Founded(k)'
  <2>1. CASE l = k
    BY <1>5, <2>1, FoundedOwn DEF SkipInv
  <2>2. CASE l # k
    <3>1. job'[k] = job[k]
      BY <1>1, <1>5, <2>2 DEF Work, Goto, EndPart, StartJob, PushNotStored,
        Malloc, InsertFails, MallocFails, SetMessage, SetHasReadSeqs, CreateConversation,
        MsgToMongoMQ, PushStored
    <3>2. maxSeq'[<<k, "chat">>] = maxSeq[<<k, "chat">>]
      <4>1. CASE Malloc(l)
        <5>1. maxSeq \in [Key \X Part -> Nat] /\ "chat" \in Part
          BY DEF SkipInv, TransferTypes, Part
        <5>2. QED  BY <2>2, <4>1, <5>1 DEF Malloc
      <4>2. CASE MallocFails(l)
        BY <2>2, <4>2, OthersNumbers DEF SkipInv, Part
      <4>3. CASE ~Malloc(l) /\ ~MallocFails(l)
        BY <1>5, <4>3 DEF Work, StartJob, PushNotStored, InsertFails,
          SetMessage, SetHasReadSeqs, CreateConversation, MsgToMongoMQ,
          PushStored
      <4>4. QED  BY <4>1, <4>2, <4>3
    <3>3. QED  BY <3>1, <3>2, FoundedStays DEF Owes
  <2>3. QED  BY <2>1, <2>2
<1>6. CASE UNCHANGED vars \/ OnComplete \/ HandleChatWs2Mongo \/ MongoRestart
             \/ \E p \in Partition : Put(p)
  <2>1. UNCHANGED <<job, maxSeq>>
    BY <1>6 DEF vars, OnComplete, HandleChatWs2Mongo, MongoRestart, Put
  <2>2. QED  BY <1>2, <2>1
<1>7. QED  BY <1>3, <1>4, <1>5, <1>6 DEF Next

-----------------------------------------------------------------------------
(* What is pushed.                                                         *)

(* Only two steps push: what is new has no number, or is of a job at its    *)
(* last place.                                                              *)
LEMMA NewlyPushed ==
    ASSUME OrderInv, [Next]_vars, NEW e \in pushed', e \notin pushed
    PROVE  \/ e.seq = 0
           \/ \E k \in Key : job[k].pc = "push" /\ e \in Elems(Numbered(k))
<1>1. ASSUME NEW k \in Key, PushNotStored(k)  PROVE e.seq = 0
  <2>1. e \in {Entry(k, job[k].part, 0, r) : r \in NotStorageList(k)}
    BY <1>1 DEF PushNotStored, ToPushTopic
  <2>2. QED  BY <2>1 DEF Entry
<1>2. ASSUME NEW k \in Key, PushStored(k)
      PROVE  job[k].pc = "push" /\ e \in Elems(Numbered(k))
  BY <1>2 DEF PushStored, ToPushTopic, At
<1>3. ASSUME UNCHANGED pushed  PROVE FALSE
  BY <1>3
<1>4. ASSUME NEW k \in Key, Work(k), ~PushNotStored(k), ~PushStored(k)
      PROVE  UNCHANGED pushed
  BY <1>4 DEF Work, StartJob, Malloc, InsertFails, MallocFails, SetMessage, SetHasReadSeqs,
    CreateConversation, MsgToMongoMQ
<1>5. CASE UNCHANGED vars \/ Distribute \/ OnComplete \/ HandleChatWs2Mongo
             \/ Crash \/ MongoRestart \/ \E p \in Partition : Put(p)
  BY <1>3, <1>5 DEF vars, Distribute, OnComplete, HandleChatWs2Mongo, Crash,
    MongoRestart, Put
<1>6. QED  BY <1>1, <1>2, <1>3, <1>4, <1>5 DEF Next

(* An entry of a job at its last place is cached, its sender has read it,   *)
(* and its conversation exists.                                             *)
LEMMA LastPlace ==
    ASSUME PushInv, NEW k \in Key, job[k].pc = "push",
           NEW e \in Elems(Numbered(k))
    PROVE  /\ e \in cached /\ e \in Entries
           /\ e.part = "chat" =>
                /\ \/ readSeq[<<e.key, Msg(e.msg).sender>>] >= e.seq
                   \/ Failed("read", e.msg)
                /\ e.key \in created \cup hurt
<1>1. TransferTypes /\ JobOK(k) /\ Before(k) /\ Raised(k) /\ Founded(k)
  BY AtWork DEF PushInv, OrderInv, SkipInv
<1>2. PICK i \in 1 .. Len(StorageList(k)) : e = Numbered(k)[i]
  BY <1>1, EntriesOfJob
<1>3. /\ e \in Entries
      /\ e = Entry(k, job[k].part, job[k].base + i, StorageList(k)[i])
  BY <1>1, <1>2, EntriesOfJob
<1>4. /\ e.key = k /\ e.part = job[k].part /\ e.seq = job[k].base + i
      /\ e.msg = StorageList(k)[i]
  BY <1>3 DEF Entry
<1>5. e \in cached
  BY <1>1, <1>2 DEF JobOK, WasCached
<1>6. ASSUME e.part = "chat"
      PROVE  /\ \/ readSeq[<<e.key, Msg(e.msg).sender>>] >= e.seq
                \/ Failed("read", e.msg)
             /\ e.key \in created \cup hurt
  <2>1. \/ readSeq[<<e.key, Msg(e.msg).sender>>] >= e.seq
        \/ Failed("read", e.msg)
    BY <1>1, <1>4, <1>6 DEF Raised
  <2>2. /\ job[k].base + Len(StorageList(k)) = maxSeq[<<k, "chat">>]
        /\ job[k].base \in Nat /\ Len(StorageList(k)) \in Nat
    BY <1>1, <1>4, <1>6, EntriesOfJob DEF Before, TransferTypes, Jobs
  <2>3. maxSeq[<<k, "chat">>] # 0
    BY <1>2, <2>2
  <2>4. ~Owes(k)
    BY DEF Owes
  <2>5. QED  BY <1>1, <1>4, <2>1, <2>3, <2>4 DEF Founded
<1>7. QED  BY <1>3, <1>5, <1>6

(* So for all that is pushed, which only gets truer. *)
LEMMA PushedNext ==
    ASSUME PushInv, RestTypes', Grows, RestGrows, [Next]_vars
    PROVE  PushedIsReadable' /\ ConversationBeforePush'
<1>1. ASSUME NEW e \in pushed', e.seq # 0
      PROVE  /\ e \in Entries /\ e \in cached
             /\ e.part = "chat" =>
                  /\ \/ readSeq[<<e.key, Msg(e.msg).sender>>] >= e.seq
                     \/ Failed("read", e.msg)
                  /\ e.key \in created \cup hurt
  <2>1. CASE e \in pushed
    BY <1>1, <2>1 DEF PushInv, RestTypes, PushedIsReadable,
      ConversationBeforePush
  <2>2. CASE e \notin pushed
    BY <1>1, <2>2, NewlyPushed, LastPlace DEF PushInv
  <2>3. QED  BY <2>1, <2>2
<1>2. ASSUME NEW e \in pushed', e.seq # 0
      PROVE  /\ e \in cached'
             /\ e.part = "chat" =>
                  /\ \/ readSeq'[<<e.key, Msg(e.msg).sender>>] >= e.seq
                     \/ Failed("read", e.msg)'
                  /\ e.key \in (created \cup hurt)'
  <2>1. /\ e.key \in Key /\ e.msg \in Ref /\ e.seq \in Nat
    BY <1>1, <1>2 DEF Entries
  <2>2. <<e.key, Msg(e.msg).sender>> \in Key \X User
    BY <2>1 DEF User
  <2>3. /\ readSeq[<<e.key, Msg(e.msg).sender>>] \in Nat
        /\ readSeq'[<<e.key, Msg(e.msg).sender>>] \in Nat
        /\ readSeq[<<e.key, Msg(e.msg).sender>>]
             =< readSeq'[<<e.key, Msg(e.msg).sender>>]
    BY <2>2 DEF PushInv, RestTypes, RestGrows
  <2>4. QED  BY <1>1, <1>2, <2>1, <2>3 DEF Grows, RestGrows, Failed
<1>3. PushedIsReadable'
  BY <1>2 DEF PushedIsReadable, Failed
<1>4. ConversationBeforePush'
  BY <1>2 DEF ConversationBeforePush
<1>5. QED  BY <1>3, <1>4

-----------------------------------------------------------------------------
(* The invariant holds in the beginning ... *)
LEMMA InitPushInv == Init => PushInv
<1> SUFFICES ASSUME Init PROVE PushInv
  OBVIOUS
<1>1. OrderInv
  BY InitOrderInv
<1>2. RestTypes
  BY TransferAssumption DEF Init, RestTypes
<1>3. PushedIsReadable /\ ConversationBeforePush
  BY DEF Init, PushedIsReadable, ConversationBeforePush
<1>4. ASSUME NEW k \in Key  PROVE Raised(k) /\ Founded(k)
  BY DEF Init, NoJob, Raised, Founded, Part
<1>5. QED  BY <1>1, <1>2, <1>3, <1>4 DEF PushInv

(* ... and every step keeps it. *)
LEMMA NextPushInv == PushInv /\ [Next]_vars => PushInv'
<1> SUFFICES ASSUME PushInv, [Next]_vars PROVE PushInv'
  OBVIOUS
<1>1. SkipInv /\ TransferTypes /\ RestTypes
  BY DEF PushInv, OrderInv, SkipInv
<1>2. OrderInv' /\ RestTypes' /\ Grows /\ RestGrows
  BY <1>1, NextOrderInv, RestTypesNext, GrowsByNext, RestGrowsByNext DEF PushInv
<1>3. ASSUME NEW k \in Key  PROVE Founded(k)'
  BY <1>1, <1>2, FoundedNext DEF PushInv
<1>4. ASSUME NEW k \in Key  PROVE Raised(k)'
  <2>1. Raised(k) /\ job \in [Key -> Jobs]
    BY <1>1 DEF PushInv, TransferTypes
  <2>2. CASE Distribute \/ Crash
    <3>1. job'[k].pc \in {"none", "queued"}
      BY <2>2 DEF Distribute, Crash, NoJob
    <3>2. QED  BY <3>1 DEF Raised
  <2>3. CASE OnComplete \/ \E p \in Partition : Put(p)
    <3>1. job[k].pc = "none" /\ UNCHANGED job
      BY <1>1, <2>3 DEF OnComplete, Put, SkipInv, Workers
    <3>2. QED  BY <3>1 DEF Raised
  <2>4. CASE UNCHANGED vars \/ HandleChatWs2Mongo \/ MongoRestart
    <3>1. UNCHANGED <<job, lists>>
      BY <2>4 DEF vars, kafkaVars, HandleChatWs2Mongo, MongoRestart
    <3>2. QED  BY <1>1, <1>2, <2>1, <3>1, RaisedStays
  <2>5. QED  BY <1>1, <1>2, <2>1, <2>2, <2>3, <2>4, RaisedWork DEF Next
<1>5. QED  BY <1>2, <1>3, <1>4, PushedNext DEF PushInv

(* Every variable keeps its type. *)
THEOREM TransferTypeCorrect == Spec => []TypeOK
<1>1. PushInv => TypeOK
  <2>1. OrderInv => cached \subseteq Entries
    BY DEF OrderInv, CachedTyped
  <2>2. QED
    BY <2>1 DEF PushInv, OrderInv, SkipInv, TransferTypes, RestTypes, TypeOK,
      Jobs, Pcs
<1>2. QED  BY InitPushInv, NextPushInv, <1>1, PTL DEF Spec

(* What is pushed with a number can be read under it, and its sender has    *)
(* read it unless the write was refused, whatever fails or crashes.         *)
THEOREM PushedCanBeRead == Spec => []PushedIsReadable
<1>1. PushInv => PushedIsReadable
  BY DEF PushInv
<1>2. QED  BY InitPushInv, NextPushInv, <1>1, PTL DEF Spec

(* Nobody is pushed a message of a conversation that was not created,       *)
(* unless the job that used up its first numbers broke down: it crashed, or *)
(* one of its calls failed, the allocation included, which may use up the   *)
(* numbers and give them to nobody.                                         *)
THEOREM CreatedBeforePush == Spec => []ConversationBeforePush
<1>1. PushInv => ConversationBeforePush
  BY DEF PushInv
<1>2. QED  BY InitPushInv, NextPushInv, <1>1, PTL DEF Spec

-----------------------------------------------------------------------------
(***************************************************************************)
(* To those who read it, a conversation is a log (MsgLog).  What is said   *)
(* above of the numbers of a job is not enough for this: it does not tell  *)
(* whether a job that puts its messages into the cache one by one meets    *)
(* there a message that is ahead of it.  It does not: what is cached of    *)
(* its conversation ends where the job is (AtEnd).  And MongoDB only gets  *)
(* what is cached, since a job sends on what it has cached (Shipped).      *)
(***************************************************************************)

(* Of the conversation of a job nothing is cached behind the message that   *)
(* the job has cached last.                                                 *)
AtEnd(k) ==
    job[k].pc = "cache" =>
        \A e \in cached :
            e.key = k /\ e.part = job[k].part => e.seq =< job[k].base + job[k].done

(* What is in MongoDB, and what is on the way, is cached. *)
Shipped ==
    /\ mongo \subseteq cached
    /\ \A i \in 1 .. Len(toMongo) : toMongo[i] \subseteq cached

LogInv == PushInv /\ Shipped /\ \A k \in Key : AtEnd(k)

(* A job that is done with the cache has put all its messages there. *)
LEMMA AllCached ==
    ASSUME PushInv, NEW k \in Key, job[k].pc \in {"mongo", "push"}
    PROVE  Elems(Numbered(k)) \subseteq cached
<1>1. TransferTypes /\ JobOK(k)
  BY AtWork DEF PushInv, OrderInv, SkipInv
<1>2. SUFFICES ASSUME NEW e \in Elems(Numbered(k))  PROVE e \in cached
  OBVIOUS
<1>3. PICK i \in 1 .. Len(StorageList(k)) : e = Numbered(k)[i]
  BY <1>1, EntriesOfJob
<1>4. QED  BY <1>1, <1>3 DEF JobOK, WasCached

(* MsgToMongoMQ sends what is cached, and the consumer of toMongo inserts   *)
(* what was sent.                                                           *)
LEMMA ShippedNext ==
    ASSUME LogInv, Grows, [Next]_vars
    PROVE  Shipped'
<1>1. /\ Shipped /\ toMongo \in Seq(SUBSET Entries)
      /\ mongoPos \in 0 .. Len(toMongo)
  BY DEF LogInv, PushInv, OrderInv, SkipInv, TransferTypes, RestTypes
<1>2. ASSUME UNCHANGED <<toMongo, mongo>>  PROVE Shipped'
  BY <1>1, <1>2 DEF Shipped, Grows
<1>3. CASE HandleChatWs2Mongo
  <2>1. /\ mongoPos < Len(toMongo) /\ UNCHANGED <<toMongo, cached>>
        /\ mongo' \subseteq mongo \cup toMongo[mongoPos + 1]
    BY <1>3 DEF HandleChatWs2Mongo
  <2>2. mongoPos + 1 \in 1 .. Len(toMongo)
    BY <1>1, <2>1
  <2>3. QED  BY <1>1, <2>1, <2>2 DEF Shipped
<1>4. ASSUME NEW k \in Key, MsgToMongoMQ(k)  PROVE Shipped'
  <2>1. /\ UNCHANGED <<mongo, cached>>
        /\ toMongo' = toMongo \/ toMongo' = Append(toMongo, Elems(Numbered(k)))
    BY <1>4 DEF MsgToMongoMQ
  <2>2. Elems(Numbered(k)) \subseteq cached /\ Elems(Numbered(k)) \subseteq Entries
    BY <1>4, AllCached, EntriesOfJob
      DEF LogInv, PushInv, OrderInv, SkipInv, MsgToMongoMQ, At
  <2>3. CASE toMongo' = toMongo
    BY <1>2, <2>1, <2>3
  <2>4. CASE toMongo' = Append(toMongo, Elems(Numbered(k)))
    <3>1. ASSUME NEW i \in 1 .. Len(toMongo')
          PROVE  \/ toMongo'[i] = Elems(Numbered(k))
                 \/ i \in 1 .. Len(toMongo) /\ toMongo'[i] = toMongo[i]
      <4> DEFINE S == Elems(Numbered(k))
      <4>1. S \in SUBSET Entries /\ toMongo' = Append(toMongo, S)
        BY <2>2, <2>4
      <4> HIDE DEF S
      <4>2. i = Len(toMongo) + 1 \/ i \in 1 .. Len(toMongo)
        BY <1>1, <4>1
      <4>3. ASSUME i = Len(toMongo) + 1  PROVE toMongo'[i] = S
        BY <1>1, <4>1, <4>3
      <4>4. ASSUME i \in 1 .. Len(toMongo)  PROVE toMongo'[i] = toMongo[i]
        BY <1>1, <4>1, <4>4, ElemsOfSeq
      <4>5. QED  BY <4>2, <4>3, <4>4 DEF S
    <3>2. QED  BY <1>1, <2>1, <2>2, <3>1 DEF Shipped
  <2>5. QED  BY <2>1, <2>3, <2>4
<1>5. ASSUME NEW k \in Key, Work(k), ~MsgToMongoMQ(k)
      PROVE  UNCHANGED <<toMongo, mongo>>
  BY <1>5 DEF Work, StartJob, PushNotStored, Malloc, InsertFails, MallocFails, SetMessage,
    SetHasReadSeqs, CreateConversation, PushStored, mongoVars
<1>6. CASE UNCHANGED vars \/ Distribute \/ OnComplete \/ Crash \/ MongoRestart
             \/ \E p \in Partition : Put(p)
  BY <1>2, <1>6 DEF vars, mongoVars, Distribute, OnComplete, Crash,
    MongoRestart, Put
<1>7. QED  BY <1>2, <1>3, <1>4, <1>5, <1>6 DEF Next

-----------------------------------------------------------------------------
(* The end of the conversation.                                            *)

(* A job that a step leaves alone, as it leaves its conversation. *)
LEMMA AtEndStays ==
    ASSUME NEW k \in Key, AtEnd(k), job'[k] = job[k],
           \A e \in cached' : e \in cached \/ e.key # k
    PROVE  AtEnd(k)'
BY DEF AtEnd

(* Malloc: the numbers of the job begin behind all that were given, and so  *)
(* behind all that is cached.                                               *)
LEMMA AtEndByMalloc ==
    ASSUME LogInv, NEW k \in Key, Malloc(k)
    PROVE  AtEnd(k)'
<1>1. /\ job \in [Key -> Jobs] /\ CachedTyped /\ JobOK(k)
      /\ maxSeq \in [Key \X Part -> Nat] /\ job[k].part \in Part
  BY AtWork DEF LogInv, PushInv, OrderInv, SkipInv, TransferTypes, Jobs, Malloc, At
<1>2. /\ job'[k].part = job[k].part /\ job'[k].done = job[k].done
      /\ job'[k].base = maxSeq[<<k, job[k].part>>] /\ UNCHANGED cached
  BY <1>1 DEF Malloc, Jobs
<1>3. job[k].done = 0 /\ maxSeq[<<k, job[k].part>>] \in Nat
  BY <1>1 DEF JobOK, Malloc, At
<1>4. SUFFICES ASSUME NEW e \in cached, e.key = k, e.part = job[k].part
               PROVE  e.seq =< maxSeq[<<k, job[k].part>>] + 0
  BY <1>2, <1>3 DEF AtEnd
<1>5. e.seq =< maxSeq[<<k, job[k].part>>]
  BY <1>1, <1>4 DEF CachedTyped
<1>6. QED  BY <1>3, <1>5

(* SetMessage: the job is at the message it puts there. *)
LEMMA AtEndBySet ==
    ASSUME LogInv, NEW k \in Key, SetMessage(k)
    PROVE  AtEnd(k)'
<1> DEFINE n == job[k].done + 1
           new == Numbered(k)[n]
<1>1. /\ cached' = cached \cup {new} /\ new.seq = job[k].base + n
  BY NextEntry DEF LogInv, PushInv
<1>2. /\ job \in [Key -> Jobs] /\ CachedTyped /\ AtEnd(k) /\ job[k].pc = "cache"
      /\ job[k].base \in Nat /\ job[k].done \in Nat
  BY DEF LogInv, PushInv, OrderInv, SkipInv, TransferTypes, Jobs, SetMessage, At
<1>3. /\ job'[k].part = job[k].part /\ job'[k].base = job[k].base
      /\ job'[k].done = n
  BY <1>2 DEF SetMessage, Jobs
<1> HIDE DEF new
<1>4. SUFFICES ASSUME NEW e \in cached', e.key = k, e.part = job[k].part
               PROVE  e.seq =< job[k].base + n
  BY <1>3 DEF AtEnd
<1>5. CASE e \in cached
  <2>1. e.seq =< job[k].base + job[k].done /\ e.seq \in Nat
    BY <1>2, <1>4, <1>5 DEF AtEnd, CachedTyped, Entries
  <2>2. QED  BY <1>2, <2>1
<1>6. CASE e = new
  BY <1>1, <1>2, <1>6
<1>7. QED  BY <1>1, <1>5, <1>6

(* Every step leaves a job that caches at the end of its conversation. *)
LEMMA AtEndNext ==
    ASSUME LogInv, [Next]_vars, NEW k \in Key
    PROVE  AtEnd(k)'
<1>1. /\ OrderInv /\ AtEnd(k) /\ job \in [Key -> Jobs]
  BY DEF LogInv, PushInv, OrderInv, SkipInv, TransferTypes
<1>2. ASSUME job'[k].pc # "cache"  PROVE AtEnd(k)'
  BY <1>2 DEF AtEnd
<1>3. CASE Distribute \/ Crash
  <2>1. job'[k].pc # "cache"
    BY <1>3 DEF Distribute, Crash, NoJob
  <2>2. QED  BY <1>2, <2>1
<1>4. CASE UNCHANGED vars \/ OnComplete \/ HandleChatWs2Mongo \/ MongoRestart
             \/ \E p \in Partition : Put(p)
  <2>1. UNCHANGED <<job, cached>>
    BY <1>4 DEF vars, OnComplete, HandleChatWs2Mongo, MongoRestart, Put
  <2>2. QED  BY <1>1, <2>1, AtEndStays
<1>5. ASSUME NEW l \in Key, Work(l), l # k  PROVE AtEnd(k)'
  <2>1. job'[k] = job[k]
    BY <1>1, <1>5 DEF Work, Goto, EndPart, StartJob, PushNotStored, Malloc,
      InsertFails, MallocFails, SetMessage, SetHasReadSeqs, CreateConversation,
      MsgToMongoMQ, PushStored
  <2>2. \A e \in cached' : e \in cached \/ e.key # k
    <3>1. CASE SetMessage(l)
      BY <1>1, <1>5, <3>1, NextEntry
    <3>2. CASE ~SetMessage(l)
      BY <1>5, <3>2 DEF Work, StartJob, PushNotStored, Malloc, InsertFails, MallocFails,
        SetHasReadSeqs, CreateConversation, MsgToMongoMQ, PushStored
    <3>3. QED  BY <3>1, <3>2
  <2>3. QED  BY <1>1, <2>1, <2>2, AtEndStays
<1>6. ASSUME Work(k)  PROVE AtEnd(k)'
  <2>1. CASE Malloc(k)
    BY <2>1, AtEndByMalloc
  <2>2. CASE SetMessage(k)
    BY <2>2, AtEndBySet
  <2>3. CASE ~Malloc(k) /\ ~SetMessage(k)
    <3>1. \/ EndPart(k)
          \/ \E pc \in {"start", "malloc", "create", "mongo", "push"} : Goto(k, pc)
      BY <1>6, <2>3 DEF Work, StartJob, PushNotStored, InsertFails, MallocFails,
        SetHasReadSeqs, CreateConversation, MsgToMongoMQ, PushStored
    <3>2. CASE EndPart(k)
      BY <1>1, <1>2, <3>2 DEF EndPart, NoJob
    <3>3. ASSUME NEW pc \in {"start", "malloc", "create", "mongo", "push"}, Goto(k, pc)
          PROVE  AtEnd(k)'
      <4>1. job'[k].pc = pc
        BY <1>1, <3>3 DEF Goto, Jobs
      <4>2. QED  BY <1>2, <4>1
    <3>4. QED  BY <3>1, <3>2, <3>3
  <2>4. QED  BY <2>1, <2>2, <2>3
<1>7. QED  BY <1>3, <1>4, <1>5, <1>6 DEF Next

(* The invariant holds in the beginning ... *)
LEMMA InitLogInv == Init => LogInv
<1> SUFFICES ASSUME Init PROVE LogInv
  OBVIOUS
<1>1. PushInv
  BY InitPushInv
<1>2. Shipped
  BY DEF Init, Shipped
<1>3. ASSUME NEW k \in Key  PROVE AtEnd(k)
  BY DEF Init, NoJob, AtEnd
<1>4. QED  BY <1>1, <1>2, <1>3 DEF LogInv

(* ... and every step keeps it. *)
LEMMA NextLogInv == LogInv /\ [Next]_vars => LogInv'
<1> SUFFICES ASSUME LogInv, [Next]_vars PROVE LogInv'
  OBVIOUS
<1>1. PushInv' /\ Grows
  BY NextPushInv, GrowsByNext DEF LogInv, PushInv, OrderInv, SkipInv
<1>2. QED  BY <1>1, ShippedNext, AtEndNext DEF LogInv

-----------------------------------------------------------------------------
(* The steps of the log.                                                   *)

(* Malloc gives numbers. *)
LEMMA MallocNumbers ==
    ASSUME TransferTypes, NEW k \in Key, Malloc(k)
    PROVE  Log!Number
<1> DEFINE c == <<k, job[k].part>>
<1>1. /\ c \in Key \X Part /\ maxSeq \in [Key \X Part -> Nat]
      /\ Len(StorageList(k)) \in Nat
  BY EntriesOfJob DEF TransferTypes, Jobs
<1>2. /\ maxSeq' = [maxSeq EXCEPT ![c] = @ + Len(StorageList(k))]
      /\ UNCHANGED <<cached, mongo, pushed>>
  BY DEF Malloc, mongoVars
<1>3. maxSeq'[c] = maxSeq[c] + Len(StorageList(k)) /\ maxSeq[c] \in Nat
  BY <1>1, <1>2
<1>4. /\ maxSeq' = [maxSeq EXCEPT ![c] = maxSeq'[c]]
      /\ maxSeq'[c] \in Nat /\ maxSeq[c] =< maxSeq'[c]
  BY <1>1, <1>2, <1>3
<1>5. QED  BY <1>1, <1>2, <1>4 DEF Log!Number

(* An allocation that fails uses up numbers, or none. *)
LEMMA MallocFailsNumbers ==
    ASSUME TransferTypes, NEW k \in Key, MallocFails(k)
    PROVE  Log!Number
<1> DEFINE c == <<k, job[k].part>>
<1>1. c \in Key \X Part
  BY DEF TransferTypes, Jobs
<1>2. /\ maxSeq' = [maxSeq EXCEPT ![c] = maxSeq'[c]]
      /\ maxSeq'[c] \in Nat /\ maxSeq[c] =< maxSeq'[c]
  BY <1>1, NumbersUsedUp
<1>3. UNCHANGED <<cached, mongo, pushed>>
  BY DEF MallocFails, mongoVars
<1> HIDE DEF c
<1>4. QED  BY <1>1, <1>2, <1>3 DEF Log!Number

(* SetMessage shows a message at the end of its conversation. *)
LEMMA SetMessageShows ==
    ASSUME LogInv, NEW k \in Key, SetMessage(k)
    PROVE  Log!Show
<1> DEFINE n == job[k].done + 1
           new == Numbered(k)[n]
<1>1. /\ n \in 1 .. Len(StorageList(k)) /\ cached' = cached \cup {new}
      /\ new.key = k /\ new.part = job[k].part /\ new.seq = job[k].base + n
  BY NextEntry DEF LogInv, PushInv
<1>2. /\ CachedTyped /\ AtEnd(k) /\ Before(k) /\ job[k].pc = "cache"
      /\ job[k].part \in Part /\ job[k].base \in Nat /\ job[k].done \in Nat
      /\ Len(StorageList(k)) \in Nat
  BY EntriesOfJob DEF LogInv, PushInv, OrderInv, SkipInv, TransferTypes, Jobs,
    SetMessage, At
<1> HIDE DEF new
<1>3. /\ Log!Conv(new) = <<k, job[k].part>> /\ Log!Conv(new) \in Key \X Part
  BY <1>1, <1>2 DEF Log!Conv
<1>4. new.seq \in 1 .. maxSeq[Log!Conv(new)]
  <2>1. job[k].base + Len(StorageList(k)) = maxSeq[Log!Conv(new)]
    BY <1>2, <1>3 DEF Before
  <2>2. QED  BY <1>1, <1>2, <2>1, SMTT(30)
<1>5. ASSUME NEW f \in cached, Log!Conv(f) = Log!Conv(new)
      PROVE  f.seq < new.seq
  <2>1. f.key = k /\ f.part = job[k].part /\ f.seq \in Nat
    BY <1>2, <1>3, <1>5 DEF Log!Conv, CachedTyped, Entries
  <2>2. f.seq =< job[k].base + job[k].done
    BY <1>2, <2>1 DEF AtEnd
  <2>3. QED  BY <1>1, <1>2, <2>1, <2>2
<1>6. UNCHANGED <<maxSeq, mongo, pushed>>
  BY DEF SetMessage, mongoVars
<1>7. QED  BY <1>1, <1>3, <1>4, <1>5, <1>6 DEF Log!Show

(* HandleChatWs2Mongo inserts what can be read, or nothing. *)
LEMMA HandleKeeps ==
    ASSUME LogInv, HandleChatWs2Mongo
    PROVE  Log!Keep
<1>1. toMongo \in Seq(SUBSET Entries) /\ mongoPos \in 0 .. Len(toMongo)
  BY DEF LogInv, PushInv, OrderInv, SkipInv, TransferTypes, RestTypes
<1>2. /\ mongoPos < Len(toMongo) /\ UNCHANGED <<maxSeq, cached, pushed>>
      /\ mongo' = mongo \/ mongo' = mongo \cup toMongo[mongoPos + 1]
  BY DEF HandleChatWs2Mongo
<1>3. mongoPos + 1 \in 1 .. Len(toMongo)
  BY <1>1, <1>2
<1>4. toMongo[mongoPos + 1] \subseteq cached
  BY <1>3 DEF LogInv, Shipped
<1>5. QED  BY <1>2, <1>4 DEF Log!Keep

(* Every other step at most pushes what can be read: what it pushes without *)
(* a number is not part of the log.                                         *)
LEMMA OthersTell ==
    ASSUME LogInv, Grows, [Next]_vars, UNCHANGED <<maxSeq, cached, mongo>>
    PROVE  Log!Tell
<1>1. ASSUME NEW e \in pushed', e \notin pushed, e.seq # 0  PROVE e \in cached
  <2>1. PICK k \in Key : job[k].pc = "push" /\ e \in Elems(Numbered(k))
    BY <1>1, NewlyPushed DEF LogInv, PushInv
  <2>2. QED  BY <2>1, AllCached DEF LogInv
<1>2. QED  BY <1>1 DEF Log!Tell, Grows

(* Every step of the pipeline is one of the log, or none. *)
LEMMA StepsOfTheLog == LogInv /\ [Next]_vars => [Log!Next]_Log!logVars
<1> SUFFICES ASSUME LogInv, [Next]_vars PROVE Log!Next
  OBVIOUS
<1>1. TransferTypes /\ Grows
  BY GrowsByNext DEF LogInv, PushInv, OrderInv, SkipInv
<1>2. ASSUME NEW k \in Key, Malloc(k)  PROVE Log!Next
  BY <1>1, <1>2, MallocNumbers DEF Log!Next
<1>3. ASSUME NEW k \in Key, SetMessage(k)  PROVE Log!Next
  BY <1>3, SetMessageShows DEF Log!Next
<1>4. CASE HandleChatWs2Mongo
  BY <1>4, HandleKeeps DEF Log!Next
<1>5. ASSUME UNCHANGED <<maxSeq, cached, mongo>>  PROVE Log!Next
  BY <1>1, <1>5, OthersTell DEF Log!Next
<1>6. ASSUME NEW k \in Key, Work(k), ~Malloc(k), ~SetMessage(k), ~MallocFails(k)
      PROVE  UNCHANGED <<maxSeq, cached, mongo>>
  BY <1>6 DEF Work, StartJob, PushNotStored, InsertFails, SetHasReadSeqs,
    CreateConversation, MsgToMongoMQ, PushStored, mongoVars
<1>7. CASE UNCHANGED vars \/ Distribute \/ OnComplete \/ Crash \/ MongoRestart
             \/ \E p \in Partition : Put(p)
  BY <1>5, <1>7 DEF vars, mongoVars, Distribute, OnComplete, Crash,
    MongoRestart, Put
<1>8. ASSUME NEW k \in Key, MallocFails(k)  PROVE Log!Next
  BY <1>1, <1>8, MallocFailsNumbers DEF Log!Next
<1>9. QED  BY <1>2, <1>3, <1>4, <1>5, <1>6, <1>7, <1>8 DEF Next

(* Batches, workers, failing calls, restarts and messages that are read     *)
(* again do not show: to its readers every conversation is a log.           *)
THEOREM LogIsKept == Spec => KeepsTheLog
<1>1. Init => Log!Init
  BY DEF Init, Log!Init
<1>2. LogInv /\ [Next]_vars => [Log!Next]_Log!logVars
  BY StepsOfTheLog
<1>3. QED
  BY <1>1, <1>2, InitLogInv, NextLogInv, PTL DEF Spec, KeepsTheLog, Log!Spec

-----------------------------------------------------------------------------
(* What every log has is proved of the abstract specification alone: under  *)
(* a number of a conversation there is one message, since a message comes   *)
(* behind all that can be read.                                             *)

LogTypes ==
    /\ mongo \subseteq cached /\ {e \in pushed : e.seq # 0} \subseteq cached
    /\ \A e \in cached : e.seq \in Nat

OneInCache ==
    \A e, f \in cached : Log!Conv(e) = Log!Conv(f) /\ e.seq = f.seq => e = f

(* A message that is shown has a number of its own. *)
LEMMA ShowsOnce ==
    ASSUME LogTypes, OneInCache, Log!Show
    PROVE  LogTypes' /\ OneInCache'
<1>1. PICK e \in cached' :
        /\ cached' = cached \cup {e} /\ e.seq \in 1 .. maxSeq[Log!Conv(e)]
        /\ \A f \in cached : Log!Conv(f) = Log!Conv(e) => f.seq < e.seq
  BY DEF Log!Show
<1>2. e.seq \in Nat /\ \A f \in cached : f.seq \in Nat
  BY <1>1 DEF LogTypes
<1>3. UNCHANGED mongo /\ {d \in pushed' : d.seq # 0} = {d \in pushed : d.seq # 0}
  BY DEF Log!Show
<1>4. LogTypes'
  BY <1>1, <1>2, <1>3 DEF LogTypes
<1>5. ASSUME NEW f \in cached, Log!Conv(f) = Log!Conv(e)  PROVE f.seq # e.seq
  BY <1>1, <1>2, <1>5
<1>6. OneInCache'
  BY <1>1, <1>5 DEF OneInCache, Log!Conv
<1>7. QED  BY <1>4, <1>6

(* Each step of a log keeps one message under each number. *)
LEMMA LogStep ==
    LogTypes /\ OneInCache /\ [Log!Next]_Log!logVars => LogTypes' /\ OneInCache'
<1> SUFFICES ASSUME LogTypes, OneInCache, [Log!Next]_Log!logVars
             PROVE  LogTypes' /\ OneInCache'
  OBVIOUS
<1>1. CASE UNCHANGED Log!logVars \/ Log!Number \/ Log!Keep \/ Log!Tell
  <2>1. /\ UNCHANGED cached
        /\ mongo' \subseteq mongo \cup cached
        /\ {e \in pushed' : e.seq # 0} \subseteq {e \in pushed : e.seq # 0} \cup cached
    BY <1>1 DEF Log!logVars, Log!Number, Log!Keep, Log!Tell
  <2>2. QED  BY <2>1 DEF LogTypes, OneInCache, Log!Conv
<1>2. CASE Log!Show
  BY <1>2, ShowsOnce
<1>3. QED  BY <1>1, <1>2 DEF Log!Next

(* In the cache, in MongoDB and in what was pushed with a number, the same  *)
(* number of a conversation is the same message: whoever asks the cache,    *)
(* MongoDB or the push gets no two messages under one number.               *)
THEOREM NumbersAreNotReused == Spec => []Log!OneMessagePerNumber
<1>1. Log!Init => LogTypes /\ OneInCache
  BY DEF Log!Init, LogTypes, OneInCache
<1>2. LogTypes /\ OneInCache => Log!OneMessagePerNumber
  <2> SUFFICES ASSUME LogTypes, OneInCache PROVE Log!OneMessagePerNumber
    OBVIOUS
  <2>1. cached \cup mongo \cup {e \in pushed : e.seq # 0} = cached
    BY DEF LogTypes
  <2>2. QED  BY <2>1 DEF OneInCache, Log!OneMessagePerNumber
<1>3. KeepsTheLog => []Log!OneMessagePerNumber
  BY <1>1, <1>2, LogStep, PTL DEF KeepsTheLog, Log!Spec
<1>4. QED  BY <1>3, LogIsKept, PTL
-----------------------------------------------------------------------------
(* The positions of senders.  SetHasReadSeqs sets them before the messages  *)
(* are sent on, and after they were put into the cache.                     *)

(* A position that was set is the number of a message of the user's own     *)
(* that can be read.                                                        *)
OwnIsRead ==
    \A x \in Key \X User :
        readSeq[x] # 0 =>
            \E e \in cached : /\ e.key = x[1] /\ e.part = "chat" /\ e.seq = readSeq[x]
                              /\ Msg(e.msg).sender = x[2]

(* Only the job of a chat sets positions. *)
ChatsOnly == \A k \in Key : job[k].pc = "read" => job[k].part = "chat"

ReadInv == PushInv /\ OwnIsRead /\ ChatsOnly

(* SetHasReadSeqs takes the position of a user from userSeqMap, and all     *)
(* messages of the job are cached.                                          *)
LEMMA OwnBySet ==
    ASSUME ReadInv, NEW k \in Key, SetHasReadSeqs(k)
    PROVE  OwnIsRead'
<1>1. /\ TransferTypes /\ JobOK(k) /\ job[k].pc = "read" /\ job[k].part = "chat"
      /\ UNCHANGED cached
  BY AtWork DEF ReadInv, PushInv, OrderInv, SkipInv, ChatsOnly, SetHasReadSeqs, At
<1>2. PICK done \in SUBSET User :
        readSeq' = [x \in Key \X User |->
              IF x[1] = k /\ x[2] \in done /\ readSeq[x] < UserSeqMap(k)[x[2]]
              THEN UserSeqMap(k)[x[2]] ELSE readSeq[x]]
  BY DEF SetHasReadSeqs
<1>3. SUFFICES ASSUME NEW x \in Key \X User, readSeq'[x] # 0
               PROVE  \E e \in cached :
                        /\ e.key = x[1] /\ e.part = "chat" /\ e.seq = readSeq'[x]
                        /\ Msg(e.msg).sender = x[2]
  BY <1>1 DEF OwnIsRead
<1>4. CASE readSeq'[x] = readSeq[x]
  BY <1>3, <1>4 DEF ReadInv, OwnIsRead
<1>5. CASE readSeq'[x] # readSeq[x]
  <2>1. x[1] = k /\ x[2] \in User /\ readSeq'[x] = UserSeqMap(k)[x[2]]
    BY <1>2, <1>5
  <2>2. PICK e \in Elems(Numbered(k)) :
          Msg(e.msg).sender = x[2] /\ e.seq = readSeq'[x]
    BY <1>1, <1>3, <2>1, SeqOfUser
  <2>3. PICK i \in 1 .. Len(StorageList(k)) : e = Numbered(k)[i]
    BY <1>1, EntriesOfJob
  <2>4. e \in cached
    BY <1>1, <2>3 DEF JobOK, WasCached
  <2>5. e.key = k /\ e.part = "chat"
    <3>1. e = Entry(k, job[k].part, job[k].base + i, StorageList(k)[i])
      BY <1>1, <2>3, EntriesOfJob
    <3>2. QED  BY <1>1, <3>1 DEF Entry
  <2>6. QED  BY <2>1, <2>2, <2>4, <2>5
<1>6. QED  BY <1>4, <1>5

(* Nobody else does, and the cache keeps what it has. *)
LEMMA OwnByOthers ==
    ASSUME OwnIsRead, Grows, UNCHANGED readSeq
    PROVE  OwnIsRead'
BY DEF OwnIsRead, Grows

(* A job comes to SetHasReadSeqs from SetMessage, for a chat. *)
LEMMA ChatsOnlyNext ==
    ASSUME ReadInv, [Next]_vars
    PROVE  ChatsOnly'
<1>1. job \in [Key -> Jobs] /\ ChatsOnly
  BY DEF ReadInv, PushInv, OrderInv, SkipInv, TransferTypes
<1>2. CASE Distribute \/ Crash
  <2>1. \A k \in Key : job'[k].pc # "read"
    BY <1>2 DEF Distribute, Crash, NoJob
  <2>2. QED  BY <2>1 DEF ChatsOnly
<1>3. CASE OnComplete \/ UNCHANGED vars \/ HandleChatWs2Mongo \/ MongoRestart
             \/ \E p \in Partition : Put(p)
  <2>1. UNCHANGED job
    BY <1>3 DEF OnComplete, vars, HandleChatWs2Mongo, MongoRestart, Put
  <2>2. QED  BY <1>1, <2>1 DEF ChatsOnly
<1>4. ASSUME NEW k \in Key, Work(k)  PROVE ChatsOnly'
  <2>1. CASE SetMessage(k)
    <3>1. /\ \A l \in Key \ {k} : job'[l] = job[l]
          /\ job'[k].part = job[k].part
          /\ job'[k].pc = "read" => job[k].part = "chat"
      BY <1>1, <2>1 DEF SetMessage, Jobs
    <3>2. QED  BY <1>1, <3>1 DEF ChatsOnly
  <2>2. CASE \E pc \in Pcs \ {"read"} : Goto(k, pc)
    <3>1. (\A l \in Key \ {k} : job'[l] = job[l]) /\ job'[k].pc # "read"
      BY <1>1, <2>2 DEF Goto, Jobs
    <3>2. QED  BY <1>1, <3>1 DEF ChatsOnly
  <2>3. CASE EndPart(k)
    <3>1. (\A l \in Key \ {k} : job'[l] = job[l]) /\ job'[k].pc # "read"
      BY <1>1, <2>3 DEF EndPart, NoJob
    <3>2. QED  BY <1>1, <3>1 DEF ChatsOnly
  <2>4. CASE Malloc(k)
    <3>1. (\A l \in Key \ {k} : job'[l] = job[l]) /\ job'[k].pc # "read"
      BY <1>1, <2>4 DEF Malloc, Jobs
    <3>2. QED  BY <1>1, <3>1 DEF ChatsOnly
  <2>5. SetMessage(k) \/ Malloc(k) \/ EndPart(k)
          \/ Goto(k, "start") \/ Goto(k, "malloc") \/ Goto(k, "create")
          \/ Goto(k, "mongo") \/ Goto(k, "push")
    BY <1>4 DEF Work, StartJob, PushNotStored, InsertFails, MallocFails, SetHasReadSeqs,
      CreateConversation, MsgToMongoMQ, PushStored
  <2>6. QED  BY <2>1, <2>2, <2>3, <2>4, <2>5 DEF Pcs, Calls
<1>5. QED  BY <1>2, <1>3, <1>4 DEF Next

(* The service marks nothing as read for a user but what he wrote himself   *)
(* and can be read (userSeqMap and SetHasReadSeqs, msg_transfer.go),        *)
(* whatever fails, crashes or is read again.                                *)
THEOREM OnlyOwnIsRead == Spec => []OwnIsRead
<1>1. Init => ReadInv
  BY InitPushInv DEF Init, NoJob, ReadInv, OwnIsRead, ChatsOnly
<1>2. ReadInv /\ [Next]_vars => ReadInv'
  <2> SUFFICES ASSUME ReadInv, [Next]_vars PROVE ReadInv'
    OBVIOUS
  <2>1. PushInv' /\ Grows /\ ChatsOnly'
    BY NextPushInv, GrowsByNext, ChatsOnlyNext
    DEF ReadInv, PushInv, OrderInv, SkipInv
  <2>2. OwnIsRead'
    <3>1. CASE \E k \in Key : SetHasReadSeqs(k)
      BY <3>1, OwnBySet
    <3>2. CASE ~ \E k \in Key : SetHasReadSeqs(k)
      <4>1. UNCHANGED readSeq
        BY <3>2 DEF Next, vars, Put, Distribute, OnComplete, Crash,
          HandleChatWs2Mongo, MongoRestart, Work, StartJob, PushNotStored, Malloc,
          InsertFails, MallocFails, SetMessage, CreateConversation, MsgToMongoMQ, PushStored
      <4>2. QED  BY <2>1, <4>1, OwnByOthers DEF ReadInv
    <3>3. QED  BY <3>1, <3>2
  <2>3. QED  BY <2>1, <2>2 DEF ReadInv
<1>3. QED  BY <1>1, <1>2, PTL DEF Spec, ReadInv

-----------------------------------------------------------------------------
(* The committed offsets.  What is in the batch comes after what is         *)
(* committed of its partition.                                              *)
NeverBehind ==
    /\ \A p \in Partition : committed[p] =< pos[p]
    /\ \A r \in Elems(batch) : committed[r[1]] < r[2]

CommitForward == \A p \in Partition : committed[p] =< committed'[p]

(* OnComplete marks a message of the batch, which has been read; a crash    *)
(* brings the reading back to the committed offset, not beyond it.          *)
LEMMA CommitStep ==
    ASSUME TransferTypes, BatchWasRead, sched = "wait" => batch # << >>,
           NeverBehind, [Next]_vars
    PROVE  NeverBehind' /\ CommitForward
<1>1. /\ pos \in [Partition -> Nat] /\ committed \in [Partition -> Nat]
      /\ batch \in Seq(Ref)
  BY DEF TransferTypes
<1>2. ASSUME NEW p \in Partition, Put(p)  PROVE NeverBehind' /\ CommitForward
  <2>1. /\ pos' = [pos EXCEPT ![p] = @ + 1] /\ committed' = committed
        /\ batch' = Append(batch, <<p, pos[p] + 1>>)
    BY <1>2 DEF Put
  <2>2. <<p, pos[p] + 1>> \in Ref
    BY <1>2, PutsARef DEF Put
  <2>3. Elems(batch') = Elems(batch) \cup {<<p, pos[p] + 1>>}
    BY <1>1, <2>1, <2>2, ElemsOfSeq
  <2>4. CommitForward /\ \A q \in Partition : committed'[q] =< pos'[q]
    BY <1>1, <2>1 DEF NeverBehind, CommitForward
  <2>5. committed[p] < pos[p] + 1
    BY <1>1 DEF NeverBehind
  <2>6. \A r \in Elems(batch') : committed'[r[1]] < r[2]
    BY <2>1, <2>3, <2>5 DEF NeverBehind
  <2>7. QED  BY <2>4, <2>6 DEF NeverBehind, Elems
<1>3. CASE OnComplete
  <2> DEFINE last == batch[Len(batch)]
  <2>1. /\ committed' = [committed EXCEPT ![last[1]] = last[2]]
        /\ batch' = << >> /\ pos' = pos /\ last \in Elems(batch)
    BY <1>1, <1>3 DEF OnComplete, Elems
  <2>2. last[1] \in Partition /\ last[2] \in Nat
    BY <1>1, <2>1, Refs, ElemsOfSeq DEF Elems
  <2>3. committed[last[1]] < last[2] /\ last[2] =< pos[last[1]]
    BY <2>1 DEF NeverBehind, BatchWasRead
  <2> HIDE DEF last
  <2>4. \A p \in Partition : committed[p] =< committed'[p] /\ committed'[p] =< pos[p]
    BY <1>1, <2>1, <2>2, <2>3 DEF NeverBehind
  <2>5. Elems(batch') = {}
    BY <2>1 DEF Elems
  <2>6. QED  BY <2>1, <2>4, <2>5 DEF NeverBehind, CommitForward, Elems
<1>4. CASE Crash
  <2>1. pos' = committed /\ committed' = committed /\ Elems(batch') = {}
    BY <1>4 DEF Crash, Elems
  <2>2. \A p \in Partition : committed[p] \in Nat
    BY <1>1
  <2>3. NeverBehind'
    <3>1. \A p \in Partition : committed'[p] =< pos'[p]
      BY <2>1, <2>2
    <3>2. Elems(batch)' = {}
      BY <2>1 DEF Elems
    <3>3. QED  BY <3>1, <3>2 DEF NeverBehind
  <2>4. CommitForward
    BY <2>1, <2>2 DEF CommitForward
  <2>5. QED  BY <2>3, <2>4
<1>5. CASE UNCHANGED <<pos, committed, batch>>
  BY <1>1, <1>5 DEF NeverBehind, CommitForward, Elems
<1>6. QED
  BY <1>2, <1>3, <1>4, <1>5
  DEF Next, vars, kafkaVars, Distribute, HandleChatWs2Mongo, MongoRestart, Work,
    StartJob, PushNotStored, Malloc, InsertFails, MallocFails, SetMessage, SetHasReadSeqs,
    CreateConversation, MsgToMongoMQ, PushStored

(* The offset of a partition is never committed backwards, although a       *)
(* batch that spans partitions commits one of them and a crash brings the   *)
(* reading back: what was committed is not handed out again.                *)
THEOREM CommitsNeverGoBack == Spec => [][CommitForward]_vars
<1>1. Init => SkipInv /\ NeverBehind
  <2>1. Init => SkipInv
    BY InitSkipInv
  <2>2. Init => Elems(batch) = {} /\ \A p \in Partition : committed[p] =< pos[p]
    BY DEF Init, Elems
  <2>3. QED  BY <2>1, <2>2 DEF NeverBehind
<1>2. SkipInv /\ NeverBehind /\ [Next]_vars => SkipInv' /\ NeverBehind' /\ CommitForward
  BY NextSkipInv, CommitStep DEF SkipInv, Workers
<1>3. SkipInv /\ NeverBehind /\ [Next]_vars => [CommitForward]_vars
  BY <1>2
<1>4. QED  BY <1>1, <1>2, <1>3, PTL DEF Spec
=============================================================================
