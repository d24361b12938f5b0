------------------------------ MODULE MCClient ------------------------------
(***************************************************************************)
(* One small instance of three parts of the client SDK that share no       *)
(* state: the synchronisation of messages, that of the list of friends,    *)
(* and the long connection, with requests, with a logout, or with          *)
(* questions for the online status.  In each behaviour one of them moves,  *)
(* so that their state spaces add up and do not multiply.                  *)
(***************************************************************************)
EXTENDS MsgSyncer, FriendSync, LongConn

VARIABLE studied

ClientVars == <<SyncerVars, FriendVars, LongConnVars, studied>>

Parts == {"messages", "friends", "requests", "logout", "presence"}

MCInit ==
  /\ studied \in Parts /\ SyncerInit /\ FriendInit /\ LongConnInit
  /\ studied # "messages" => ~reinstalled

(* Friends are alike, and so are calls: friends are changed for the first   *)
(* time in a fixed order, and calls begin in order.  The list begins with   *)
(* an insertion, whose handler has ended before the second change.          *)
InOrder == CHOOSE s \in SetToSeqs(Friends) : TRUE
Untouched(f) == elem[f].ver = 0 /\ f \notin dirty

FriendsInOrder ==
  changes' # changes =>
    LET op == Last(ops') IN
    /\ \A i, j \in DOMAIN InOrder :
         Untouched(InOrder[i]) /\ op.friend = InOrder[j] => j =< i
    /\ changes = 0 => op.kind = "insert"
    /\ changes = 1 => ops = <<>>

CallsInOrder ==
  \A k, m \in Calls : k < m /\ call'[m].at # "new" => call'[k].at # "new"

Unasked == IF studied = "requests" THEN Logouts ELSE Sends

MCNext ==
  /\ UNCHANGED studied
  /\ \/ /\ studied = "messages" /\ SyncerNext
        /\ UNCHANGED <<FriendVars, LongConnVars>>
     \/ /\ studied = "friends" /\ FriendNext /\ FriendsInOrder
        /\ UNCHANGED <<SyncerVars, LongConnVars>>
     \/ /\ studied \in {"requests", "logout"} /\ (ConnNext \/ RequestNext)
        /\ \A r \in Unasked : request'[r] = "new"
        /\ UNCHANGED <<SyncerVars, FriendVars>>
     \/ /\ studied = "presence" /\ (ConnNext \/ PresenceNext) /\ CallsInOrder
        /\ UNCHANGED <<SyncerVars, FriendVars>>

(* A part that does not move owes nothing, for the actions its fairness is  *)
(* about are not enabled in its first state.                                *)
MCSpec ==
  /\ MCInit /\ [][MCNext]_ClientVars
  /\ SyncerFairness /\ FriendFairness /\ LongConnFairness

-----------------------------------------------------------------------------
(* Everything has its type; in particular the channels of the client take   *)
(* no more than they hold.                                                  *)
ClientTypeOK == SyncerTypeOK /\ FriendTypeOK /\ LongConnTypeOK
=============================================================================
