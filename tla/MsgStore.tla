------------------------------ MODULE MsgStore ------------------------------
(***************************************************************************)
(* The messages of one conversation in MongoDB and their copies in Redis:  *)
(* the consumer of toMongo, which inserts batches of messages                *)
(* (BatchInsertBlock), and the message service, which reads, revokes and   *)
(* deletes messages while they may still be on their way (controller/      *)
(* msg.go, redis/msg.go, mgo/msg.go).                                      *)
(*                                                                         *)
(* A document holds the messages of DocSize consecutive numbers.  Each     *)
(* step is one call of MongoDB or one script of Redis.                     *)
(***************************************************************************)
EXTENDS Naturals, Sequences

CONSTANTS DocSize,       \* GetSingleGocMsgNum
          Clients,       \* goroutines of the message service
          Consumer,      \* the goroutine of toMongo
          Free, Deleted, \* a copy that nobody has locked; one to be read anew
          LastMsg,       \* bounds: messages,
          MaxCalls,      \* calls of the message service,
          MaxFailures    \* calls that fail and restarts of the consumer

ASSUME MsgStoreAssumption ==
  /\ {DocSize, LastMsg} \subseteq Nat \ {0} /\ {MaxCalls, MaxFailures} \subseteq Nat
  /\ Consumer \notin Clients /\ Free # Deleted
  /\ {Free, Deleted} \cap Clients = {}

VARIABLES docs,      \* the documents that exist
          slots,     \* what MongoDB has under a number
          copies,    \* what Redis has under it
          locks,     \* rockscache: who reads it from MongoDB
          copied,    \* the numbers up to this one have been written to Redis
          batches,     \* topic toMongo: the batches of numbers sent so far
          next,      \* the list the consumer reads next
          doing,       \* what each goroutine does
          usedCalls, failures,
          inserted,  \* history: numbers of batches that were inserted
          marked,    \* history: the marks put by calls that have returned
          erased,    \* history: numbers whose place was emptied
          gone       \* history: messages deleted for all, and not inserted since

storage == <<docs, slots>>
copying == <<copies, locks>>
topic == <<copied, batches, next>>
bounds == <<usedCalls, failures>>
records == <<inserted, marked, erased, gone>>
MsgStoreVars == <<storage, copying, topic, doing, bounds, records>>

Numbers == 1..LastMsg
Doc(s) == (s - 1) \div DocSize
Workers == Clients \cup {Consumer}

(* revoke, and a user in del_list. *)
Marks == {"revoke", "delete"}
Empty == [msg |-> FALSE, marks |-> {}]
Slot == [msg : BOOLEAN, marks : SUBSET Marks]

(* A copy: a message with its marks, or the placeholder of FindSeqs.        *)
NoCopy == [kind |-> "none", marks |-> {}]
Copy == [kind : {"none", "placeholder", "msg"}, marks : SUBSET Marks]

(* At the number s, up to last, to write the part key. *)
Working(pc, s, last, key) ==
  [pc |-> pc, s |-> s, last |-> last, key |-> key, got |-> NoCopy]
Resting == Working("idle", 1, 1, "msg")
Doing == [pc : {"idle", "find", "set", "update", "create", "push", "erase", "tag"},
        s : Nat, last : Nat, key : Marks \cup {"msg", "erase", "nothing"},
        got : Copy]

MsgStoreInit ==
  /\ docs = {} /\ slots = [s \in Numbers |-> Empty]
  /\ copies = [s \in Numbers |-> NoCopy] /\ locks = [s \in Numbers |-> Free]
  /\ copied = 0 /\ batches = <<>> /\ next = 1
  /\ doing = [w \in Workers |-> Resting]
  /\ usedCalls = 0 /\ failures = 0
  /\ inserted = {} /\ marked = [s \in Numbers |-> {}]
  /\ erased = {} /\ gone = {}

MsgStoreTypeOK ==
  /\ docs \subseteq {Doc(s) : s \in Numbers} /\ slots \in [Numbers -> Slot]
  /\ copies \in [Numbers -> Copy]
  /\ locks \in [Numbers -> Clients \cup {Free, Deleted}]
  /\ copied \in 0..LastMsg
  /\ batches \in Seq([first : Numbers, last : Numbers])
  /\ next \in 1..(Len(batches) + 1)
  /\ doing \in [Workers -> Doing]
  /\ \A w \in Workers : {doing[w].s, doing[w].last} \subseteq Numbers
  /\ usedCalls \in 0..MaxCalls /\ failures \in 0..MaxFailures
  /\ inserted \subseteq Numbers /\ marked \in [Numbers -> SUBSET Marks]
  /\ erased \subseteq Numbers /\ gone \subseteq Numbers

StepsTo(w, pc) == doing' = [doing EXCEPT ![w].pc = pc]
Ends(w) == doing' = [doing EXCEPT ![w] = Resting]

-----------------------------------------------------------------------------
(* msgtransfer: SetMessageBySeqs writes the copies of a list, whatever is   *)
(* locked, and the list goes to toMongo.  A list may have as many messages  *)
(* as a document.                                                           *)
SetMessageBySeqs(n) ==
  /\ copied + n <= LastMsg /\ copied' = copied + n
  /\ copies' = [s \in Numbers |-> IF s \in (copied + 1)..(copied + n)
                  THEN [kind |-> "msg", marks |-> {}] ELSE copies[s]]
  /\ batches' = Append(batches, [first |-> copied + 1, last |-> copied + n])
  /\ UNCHANGED <<storage, locks, next, doing, bounds, records>>

(* handleChatWs2Mongo *)
TakeList ==
  /\ doing[Consumer].pc = "idle" /\ next <= Len(batches)
  /\ doing' = [doing EXCEPT ![Consumer] =
               Working("update", batches[next].first, batches[next].last, "msg")]
  /\ next' = next + 1
  /\ UNCHANGED <<storage, copying, copied, batches, bounds, records>>

(* The consumer starts again from a committed offset. *)
ConsumerRestarts ==
  /\ failures < MaxFailures /\ failures' = failures + 1
  /\ next' \in 1..next /\ Ends(Consumer)
  /\ UNCHANGED <<storage, copying, copied, batches, usedCalls, records>>

-----------------------------------------------------------------------------
(* BatchInsertBlock, of the consumer with messages (key "msg") and of       *)
(* RevokeMsg with one revocation: it tries to update each place, creates    *)
(* the document when there is none, and goes back to updates when another   *)
(* goroutine was faster (the index on doc_id is unique).                    *)

(* What UpdateMsg leaves in a place.  Mutant: the field "msgs.i" is         *)
(* replaced, not one of its parts.                                          *)
WithPartMutant(slot, key) ==
  IF key = "msg" THEN [msg |-> TRUE, marks |-> {}]
                 ELSE [slot EXCEPT !.marks = @ \cup {key}]

WithPart(slot, key) ==
  IF key = "msg" THEN [slot EXCEPT !.msg = TRUE]
                 ELSE [slot EXCEPT !.marks = @ \cup {key}]

WritesPart(w, written) ==
  /\ slots' = [s \in Numbers |-> IF s \in written
                THEN WithPart(slots[s], doing[w].key) ELSE slots[s]]
  /\ gone' = IF doing[w].key = "msg" THEN gone \ written ELSE gone

(* The loop goes on behind s: the consumer is done with its list after the  *)
(* last one, RevokeMsg has the copy to delete.                              *)
GoesOn(w, s, pc) ==
  IF s < doing[w].last
  THEN doing' = [doing EXCEPT ![w].pc = pc, ![w].s = s + 1] /\ UNCHANGED inserted
  ELSE IF w = Consumer
       THEN /\ Ends(w)
            /\ inserted' = inserted \cup batches[next - 1].first..doing[w].last
       ELSE StepsTo(w, "tag") /\ UNCHANGED inserted

UpdateMsg(w) ==
  /\ doing[w].pc = "update"
  /\ IF Doc(doing[w].s) \in docs
     THEN WritesPart(w, {doing[w].s}) /\ GoesOn(w, doing[w].s, "update")
     ELSE StepsTo(w, "create") /\ UNCHANGED <<slots, inserted, gone>>
  /\ UNCHANGED <<docs, copying, topic, bounds, marked, erased>>

CreateDoc(w) ==
  LET full == (Doc(doing[w].s) + 1) * DocSize
      end == IF full < doing[w].last THEN full ELSE doing[w].last
  IN /\ doing[w].pc = "create"
     /\ IF Doc(doing[w].s) \in docs
        THEN StepsTo(w, "update") /\ UNCHANGED <<storage, inserted, gone>>
        ELSE /\ docs' = docs \cup {Doc(doing[w].s)} /\ WritesPart(w, doing[w].s..end)
             /\ GoesOn(w, end, "create")
     /\ UNCHANGED <<copying, topic, bounds, marked, erased>>

-----------------------------------------------------------------------------
(* GetMessageBySeqs of one number, which somebody may ask for as soon as it *)
(* is announced, before the message is stored.  Of a message the client may *)
(* revoke it.                                                               *)

Begins(g) == /\ doing[g].pc = "idle" /\ usedCalls < MaxCalls
             /\ usedCalls' = usedCalls + 1

(* RevokeMsg of the RPC asks for the message first, and revokes what is one *)
(* (that an administrator may revoke a placeholder as well is left out).    *)
Revoking(s) == Working("update", s, s, "revoke")

MayRevoke(g, s, copy) ==
  \/ Ends(g)
  \/ /\ copy.kind = "msg" /\ "revoke" \notin copy.marks
     /\ doing' = [doing EXCEPT ![g] = Revoking(s)]

ReadCopy(g, s) ==
  /\ Begins(g) /\ locks[s] = Free /\ copies[s].kind # "none"
  /\ MayRevoke(g, s, copies[s])
  /\ UNCHANGED <<storage, copying, topic, failures, records>>

(* FetchBatch2: nothing is there, it is to be read anew, or the lock of     *)
(* another goroutine has expired.                                           *)
LockCopy(g, s) ==
  /\ Begins(g) /\ (locks[s] = Free => copies[s].kind = "none")
  /\ locks' = [locks EXCEPT ![s] = g]
  /\ doing' = [doing EXCEPT ![g] = Working("find", s, s, "nothing")]
  /\ UNCHANGED <<storage, copies, topic, failures, records>>

(* FindSeqs: a placeholder for what is not there. *)
Found(s) ==
  IF Doc(s) \in docs /\ slots[s].msg
  THEN [kind |-> "msg", marks |-> slots[s].marks]
  ELSE [kind |-> "placeholder", marks |-> {}]

FindSeqs(g) ==
  /\ doing[g].pc = "find"
  /\ doing' = [doing EXCEPT ![g].pc = "set", ![g].got = Found(doing[g].s)]
  /\ UNCHANGED <<storage, copying, topic, bounds, records>>

(* The copy is written by who still holds the lock. *)
SetCopy(g) ==
  /\ doing[g].pc = "set"
  /\ IF locks[doing[g].s] = g
     THEN /\ copies' = [copies EXCEPT ![doing[g].s] = doing[g].got]
          /\ locks' = [locks EXCEPT ![doing[g].s] = Free]
     ELSE UNCHANGED copying
  /\ MayRevoke(g, doing[g].s, doing[g].got)
  /\ UNCHANGED <<storage, topic, bounds, records>>

(* A day passes, or Redis drops the key. *)
CopyExpires(s) ==
  /\ copies[s] # NoCopy \/ locks[s] # Free
  /\ copies' = [copies EXCEPT ![s] = NoCopy]
  /\ locks' = [locks EXCEPT ![s] = Free]
  /\ UNCHANGED <<storage, topic, doing, bounds, records>>

-----------------------------------------------------------------------------
(* Deleting a message for oneself and for all: a client names a message it  *)
(* was given, so one that was written to Redis.                             *)

Deletes(g, s, pc, key) ==
  /\ Begins(g) /\ s <= copied
  /\ doing' = [doing EXCEPT ![g] = Working(pc, s, s, key)]
  /\ UNCHANGED <<storage, copying, topic, failures, records>>

DeleteUserMsgsBySeqs(g, s) == Deletes(g, s, "push", "delete")
DeleteMsgsPhysicalBySeqs(g, s) == Deletes(g, s, "erase", "erase")

(* PushUnique and DeleteMsgsInOneDocByIndex change nothing when there is no *)
(* document, and the call succeeds.  (MarkSingleChatMsgsAsRead takes the    *)
(* same steps as a deletion for oneself.)                                   *)
PushUnique(g) ==
  LET s == doing[g].s IN
  /\ doing[g].pc = "push"
  /\ IF Doc(s) \in docs
     THEN slots' = [slots EXCEPT ![s] = WithPart(@, "delete")] /\ StepsTo(g, "tag")
     ELSE /\ doing' = [doing EXCEPT ![g].pc = "tag", ![g].key = "nothing"]
          /\ UNCHANGED slots
  /\ UNCHANGED <<docs, copying, topic, bounds, records>>

EraseMsg(g) ==
  LET s == doing[g].s IN
  /\ doing[g].pc = "erase"
  /\ IF Doc(s) \in docs
     THEN slots' = [slots EXCEPT ![s] = Empty] /\ erased' = erased \cup {s}
     ELSE UNCHANGED <<slots, erased>>
  /\ StepsTo(g, "tag")
  /\ UNCHANGED <<docs, copying, topic, bounds, inserted, marked, gone>>

(* The call returns.  (Nothing is promised of a message that is inserted    *)
(* between the two steps.)                                                  *)
Returns(g) ==
  LET s == doing[g].s IN
  /\ Ends(g)
  /\ marked' = [marked EXCEPT ![s] = @ \cup ({doing[g].key} \cap Marks)]
  /\ gone' = IF doing[g].key = "erase" /\ ~slots[s].msg THEN gone \cup {s} ELSE gone

(* DelMessageBySeqs, the last step of the three: the next reader asks       *)
(* MongoDB, and who reads it now must not write the copy.  Mutant: the copy *)
(* of a message that is not in MongoDB yet is kept.                         *)
DelMessageMutant(g) ==
  /\ doing[g].pc = "tag" /\ Returns(g)
  /\ locks' = IF slots[doing[g].s].msg
              THEN [locks EXCEPT ![doing[g].s] = Deleted] ELSE locks
  /\ UNCHANGED <<storage, copies, topic, bounds, inserted, erased>>

DelMessageBySeqs(g) ==
  /\ doing[g].pc = "tag" /\ Returns(g)
  /\ locks' = [locks EXCEPT ![doing[g].s] = Deleted]
  /\ UNCHANGED <<storage, copies, topic, bounds, inserted, erased>>

(* A call of MongoDB or Redis fails, or the process ends.  The consumer     *)
(* goes on with the next list.                                              *)
WorkFails(w) ==
  /\ doing[w].pc # "idle" /\ failures < MaxFailures /\ failures' = failures + 1
  /\ Ends(w)
  /\ UNCHANGED <<storage, copying, topic, usedCalls, records>>

-----------------------------------------------------------------------------
MsgStoreNext ==
  \/ \E n \in 1..DocSize : SetMessageBySeqs(n)
  \/ TakeList \/ ConsumerRestarts
  \/ \E w \in Workers : UpdateMsg(w) \/ CreateDoc(w) \/ WorkFails(w)
  \/ \E g \in Clients :
       \/ FindSeqs(g) \/ SetCopy(g)
       \/ PushUnique(g) \/ EraseMsg(g) \/ DelMessageBySeqs(g)
       \/ \E s \in Numbers :
            \/ ReadCopy(g, s) \/ LockCopy(g, s)
            \/ DeleteUserMsgsBySeqs(g, s) \/ DeleteMsgsPhysicalBySeqs(g, s)
  \/ \E s \in Numbers : CopyExpires(s)

MsgStoreSpec == MsgStoreInit /\ [][MsgStoreNext]_MsgStoreVars

-----------------------------------------------------------------------------
(* When BatchInsertBlock has returned without an error, every message of    *)
(* the list is in MongoDB, and so is every revocation and deletion whose    *)
(* call has returned: whichever goroutine created the document, and however *)
(* often a list is inserted.  Only emptying a place takes them away.        *)
NothingStoredIsLost ==
  \A s \in Numbers \ erased :
    /\ s \in inserted => slots[s].msg
    /\ marked[s] \subseteq slots[s].marks

(* An answer from the copy tells of every call that has returned, however   *)
(* reads, insertions and deletions overlap: a message that was revoked is   *)
(* not answered as it was before, and one that was deleted for all is not   *)
(* answered.  Excused: a place that was emptied loses its marks, and a      *)
(* message inserted afterwards comes back without them.                     *)
CallsAreTold ==
  \A s \in Numbers :
    locks[s] = Free /\ copies[s].kind = "msg" =>
      /\ s \notin gone
      /\ s \notin erased => marked[s] \subseteq copies[s].marks
=============================================================================
