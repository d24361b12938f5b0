------------------------------ MODULE LongConn ------------------------------
(***************************************************************************)
(* The long connection of the client SDK: its reader, which also connects  *)
(* again (readPump), its writer, which sends one request at a time and     *)
(* waits for the answer (writePump), the callers of SendReqWaitResp, the   *)
(* goroutine of MsgSyncer, which takes events from the reader and sends    *)
(* requests itself, and the questions for the online status of users with  *)
(* their subscription, up to the gateway that answers them.                *)
(*                                                                         *)
(* The lock connWrite is held by the reader from Dial to the announcement; *)
(* every other write is one step, taken while the reader does not hold it. *)
(* Nothing ever enters the set sub of subscription.go, so that             *)
(* writeConnFirstSubMsg sends nothing and the set is left out.  Pings only *)
(* make a lost link known: the reader notices it at its read deadline.     *)
(***************************************************************************)
EXTENDS Naturals, Sequences

CONSTANTS Syncs,     \* requests of MsgSyncer (GetNewestSeq)
          Sends,     \* requests of the application
          Logouts,   \* requests of LoginMgr.logout
          Calls,     \* calls of GetUserOnlinePlatformIDs, numbers from 1
          Users,     \* users whose status is asked for
          SendLen,   \* capacity of the channel send
          MailLen,   \* capacity of recvCh
          Attempts,  \* maxReconnectAttempts of one request
          Breaks,    \* bounds: losses and failures of a connection,
          Pushes,    \* messages pushed,
          Turns      \* changes of the online status of a user

ASSUME LongConnAssumption ==
  /\ {SendLen, MailLen, Attempts} \subseteq Nat \ {0}
  /\ {Breaks, Pushes, Turns} \subseteq Nat
  /\ Calls \subseteq Nat \ {0}

VARIABLES status,    \* connStatus
          link,      \* the newest connection is open and works
          reader,    \* where readPump is
          frame,     \* what it has read
          writer,    \* where writePump is
          mail,      \* number of events in recvCh
          loggedOut, \* ctx was cancelled (LoginMgr.Exit)
          uplink,    \* frames on their way to the gateway
          downlink,  \* frames on their way to the client
          breaks, pushes

ConnVars == <<status, link, reader, frame, writer, mail, loggedOut,
              uplink, downlink, breaks, pushes>>

VARIABLES request,   \* how far each SendReqWaitResp is
          send,      \* channel of requests
          sendOpen,  \* it has not been closed
          cur,       \* the request writePump has taken
          tries,     \* attempts to write it
          table,     \* wsNotification: requests with a channel
          answered   \* those whose channel holds an answer

RequestVars == <<request, send, sendOpen, cur, tries, table, answered>>

VARIABLES call,      \* the calls for an online status
          load,      \* load: user -> the call that made its entry, or 0
          entry,     \* subscriptionStatues, one for each call at most
          unsub,     \* unsub
          watch,     \* gateway: users this connection is subscribed to
          reply,     \* gateway: an answer that has been read and not yet sent
          real,      \* gateway: the online status it knows
          turns,
          noticed,   \* history: the reader saw the end of the connection
          excused    \* history: users that went wrong in a known way

PresenceVars == <<call, load, entry, unsub, watch, reply, real, turns,
                  noticed, excused>>

LongConnVars == <<ConnVars, RequestVars, PresenceVars>>

Requests == Syncs \cup Sends \cup Logouts
None == "none"

ASSUME RequestsAreNames ==
  /\ None \notin Requests
  /\ \A r \in Requests : r \notin [on : SUBSET Users, off : SUBSET Users]

NoFrame == [type |-> "none"]
Presence == UNION {[S -> BOOLEAN] : S \in SUBSET Users}
Frame == [type : {"reply"}, req : Requests] \cup [type : {"push", "kick"}]
           \cup [type : {"tips"}, states : Presence]
Ended == {"answered", "failed", "panic"}

LongConnTypeOK ==
  /\ status \in {"none", "closed", "connecting", "connected"}
  /\ {link, loggedOut, sendOpen, noticed} \subseteq BOOLEAN
  /\ reader \in {"off", "top", "dial", "linked", "announce", "read",
                 "handle", "failed", "ended"}
  /\ frame \in Frame \cup {NoFrame} /\ downlink \in Seq(Frame)
  /\ uplink \in Seq(Requests \cup [on : SUBSET Users, off : SUBSET Users])
  /\ writer \in {"idle", "write", "failing", "wait", "ended"}
  /\ mail \in 0..MailLen /\ breaks \in 0..Breaks /\ pushes \in 0..Pushes
  /\ request \in [Requests -> {"new", "sending", "queued"} \cup Ended]
  /\ send \in Seq(Requests) /\ Len(send) =< SendLen
  /\ cur \in Requests \cup {None} /\ tries \in 0..Attempts
  /\ answered \subseteq table /\ table \subseteq {cur} \ {None}
  /\ call \in [Calls -> [at : {"new", "write", "wait", "done", "failed"},
                         user : Users \cup {None}, off : SUBSET Users,
                         entry : Calls \cup {0}]]
  /\ load \in [Users -> Calls \cup {0}]
  /\ entry \in [Calls -> [state : {"open", "ok", "error"}, online : BOOLEAN]]
  /\ unsub \subseteq Users /\ watch \subseteq Users /\ excused \subseteq Users
  /\ real \in [Users -> BOOLEAN] /\ turns \in 0..Turns
  /\ reply \in Presence

ConnInit ==
  /\ status = "none" /\ link = FALSE
  /\ reader = "off" /\ frame = NoFrame /\ writer = "idle"
  /\ mail = 0 /\ loggedOut = FALSE /\ breaks = 0 /\ pushes = 0
  /\ uplink = <<>> /\ downlink = <<>>

RequestInit ==
  /\ request = [r \in Requests |-> "new"] /\ send = <<>> /\ sendOpen = TRUE
  /\ cur = None /\ tries = 0 /\ table = {} /\ answered = {}

PresenceInit ==
  /\ call = [k \in Calls |->
               [at |-> "new", user |-> None, off |-> {}, entry |-> 0]]
  /\ load = [u \in Users |-> 0]
  /\ entry = [k \in Calls |-> [state |-> "open", online |-> FALSE]]
  /\ unsub = {} /\ watch = {} /\ reply = <<>>
  /\ real = [u \in Users |-> FALSE] /\ turns = 0
  /\ noticed = TRUE /\ excused = {}

LongConnInit == ConnInit /\ RequestInit /\ PresenceInit

Break == breaks < Breaks /\ breaks' = breaks + 1

LockFree == reader \notin {"dial", "linked", "announce"}

-----------------------------------------------------------------------------
(* Closing and connecting. *)

(* close: nothing unless the connection counts as connected.  What is on   *)
(* its way up has no effect on this client any more.                       *)
Shut ==
  IF status = "connected"
  THEN status' = "closed" /\ link' = FALSE /\ uplink' = <<>>
  ELSE UNCHANGED <<status, link, uplink>>

(* Login starts the goroutines; requests need a login.                     *)
Run ==
  /\ reader = "off" /\ reader' = "top"
  /\ UNCHANGED <<status, link, frame, writer, mail, loggedOut, uplink,
                 downlink, breaks, pushes, RequestVars, PresenceVars>>

(* The loop of readPump begins: it ends after a logout, reads when there is *)
(* a connection, and connects otherwise.                                    *)
Loop ==
  /\ reader = "top"
  /\ IF loggedOut
     THEN reader' = "ended" /\ Shut
     ELSE IF status = "connected"
          THEN reader' = "read" /\ UNCHANGED <<status, link, uplink>>
          ELSE /\ reader' = "dial" /\ status' = "connecting"
               /\ UNCHANGED <<link, uplink>>
  /\ UNCHANGED <<frame, writer, mail, loggedOut, downlink,
                 breaks, pushes, RequestVars, PresenceVars>>

(* Dial fails; readPump tries again, unless the token was refused.         *)
DialFails ==
  /\ reader = "dial" /\ Break
  /\ status' = "closed" /\ reader' \in {"top", "ended"}
  /\ UNCHANGED <<link, frame, writer, mail, loggedOut, uplink, downlink,
                 pushes, RequestVars, PresenceVars>>

(* Dial has a connection, about which the gateway knows nothing yet.       *)
Dial ==
  /\ reader = "dial"
  /\ reader' = "linked" /\ link' = TRUE
  /\ uplink' = <<>> /\ downlink' = <<>>
  /\ watch' = {} /\ reply' = <<>>
  /\ UNCHANGED <<status, frame, writer, mail, loggedOut, breaks, pushes,
                 RequestVars, call, load, entry, unsub, real, turns,
                 noticed, excused>>

(* Without onConnClosed the entries of an earlier connection are still     *)
(* there, and nobody subscribes to their users on this one.                *)
Established ==
  /\ reader = "linked"
  /\ reader' = "announce" /\ status' = "connected"
  /\ unsub' = {}
  /\ noticed' = FALSE
  /\ excused' = excused \cup (IF noticed THEN {}
                              ELSE {u \in Users : load[u] # 0})
  /\ UNCHANGED <<link, frame, writer, mail, loggedOut, uplink, downlink,
                 breaks, pushes, RequestVars, call, load, entry, watch, reply,
                 real, turns>>

(* sendCmd to recvCh: the event goes in, or ten seconds pass while the     *)
(* channel is full and it is dropped.                                      *)
Post == IF mail < MailLen THEN mail' = mail + 1 ELSE UNCHANGED mail

Announce ==
  /\ reader = "announce" /\ reader' = "read"
  /\ Post
  /\ UNCHANGED <<status, link, frame, writer, loggedOut, uplink,
                 downlink, breaks, pushes, RequestVars, PresenceVars>>

(* What was received before the end may still be read after it.            *)
ReadFrame ==
  /\ reader = "read" /\ downlink # <<>>
  /\ reader' = "handle"
  /\ frame' = Head(downlink) /\ downlink' = Tail(downlink)
  /\ UNCHANGED <<status, link, writer, mail, loggedOut, uplink, breaks,
                 pushes, RequestVars, PresenceVars>>

(* The connection was closed here, or broke, which the read deadline shows *)
(* at the latest.                                                          *)
ReadFails ==
  /\ reader = "read" /\ ~link
  /\ reader' = "failed" /\ Shut
  /\ UNCHANGED <<frame, writer, mail, loggedOut, downlink,
                 breaks, pushes, RequestVars, PresenceVars>>

(* finish(nil, err) on the entries in E.                                   *)
Finished(E) == [k \in Calls |-> IF k \in E
                                THEN [state |-> "error", online |-> FALSE]
                                ELSE entry[k]]

OnConnClosedMutant ==
  /\ reader = "failed" /\ reader' = "top"
  /\ unsub' = {} /\ noticed' = TRUE
  /\ UNCHANGED <<status, link, frame, writer, mail, loggedOut, uplink,
                 downlink, breaks, pushes, RequestVars, call, load, entry,
                 watch, reply, real, turns, excused>>

OnConnClosed ==
  /\ reader = "failed" /\ reader' = "top"
  /\ unsub' = {} /\ noticed' = TRUE
  /\ entry' = Finished({load[u] : u \in Users})
  /\ load' = [u \in Users |-> 0]
  /\ UNCHANGED <<status, link, frame, writer, mail, loggedOut, uplink,
                 downlink, breaks, pushes, RequestVars, call, watch, reply,
                 real, turns, excused>>

(* NetworkStatusChanged: the application closes the connection, whatever   *)
(* the reader is doing.                                                    *)
NetworkChanged ==
  /\ status = "connected" /\ Break /\ Shut
  /\ UNCHANGED <<reader, frame, writer, mail, loggedOut, downlink, pushes,
                 RequestVars, PresenceVars>>

(* The network loses what is on its way up; a logged-out client does not   *)
(* ping any more, so that the gateway gives its connection up.             *)
LinkBreaks ==
  /\ link /\ link' = FALSE /\ uplink' = <<>>
  /\ Break
  /\ UNCHANGED <<status, reader, frame, writer, mail, loggedOut,
                 downlink, pushes, RequestVars, PresenceVars>>

LinkExpires ==
  /\ loggedOut /\ link /\ link' = FALSE /\ uplink' = <<>>
  /\ UNCHANGED <<status, reader, frame, writer, mail, loggedOut,
                 downlink, breaks, pushes, RequestVars, PresenceVars>>

(* handleMessage on messages and kicks.                                    *)
HandlePush ==
  /\ reader = "handle" /\ frame.type = "push"
  /\ reader' = "top" /\ frame' = NoFrame
  /\ Post
  /\ UNCHANGED <<status, link, writer, loggedOut, uplink, downlink,
                 breaks, pushes, RequestVars, PresenceVars>>

HandleKick ==
  /\ reader = "handle" /\ frame.type = "kick"
  /\ reader' = "ended" /\ frame' = NoFrame /\ Shut
  /\ UNCHANGED <<writer, mail, loggedOut, downlink, breaks,
                 pushes, RequestVars, PresenceVars>>

(* The gateway sends a message, or kicks the client and closes.            *)
GatewayPushes ==
  /\ link /\ pushes < Pushes /\ pushes' = pushes + 1
  /\ downlink' = Append(downlink, [type |-> "push"])
  /\ UNCHANGED <<status, link, reader, frame, writer, mail, loggedOut, uplink,
                 breaks, RequestVars, PresenceVars>>

GatewayKicks ==
  /\ link /\ link' = FALSE /\ uplink' = <<>>
  /\ Break
  /\ downlink' = Append(downlink, [type |-> "kick"])
  /\ UNCHANGED <<status, reader, frame, writer, mail, loggedOut, pushes,
                 RequestVars, PresenceVars>>

ReaderSteps ==
  Loop \/ Dial \/ Established \/ Announce \/ ReadFrame \/ ReadFails
    \/ OnConnClosed \/ HandlePush \/ HandleKick

Incidents == DialFails \/ NetworkChanged \/ LinkBreaks

-----------------------------------------------------------------------------
(* Requests and their answers. *)

(* A call of SendReqWaitResp, by the application or by logout.             *)
Ask(r) ==
  /\ r \in Sends \cup Logouts /\ request[r] = "new" /\ reader # "off"
  /\ request' = [request EXCEPT ![r] = "sending"]
  /\ UNCHANGED <<ConnVars, send, sendOpen, cur, tries, table, answered,
                 PresenceVars>>

(* The goroutine of MsgSyncer takes an event, asks for the newest seqs when *)
(* the event calls for it, and takes no other before the call is over.      *)
SyncerTakes ==
  /\ mail > 0 /\ ~loggedOut /\ mail' = mail - 1
  /\ \A r \in Syncs : request[r] \notin {"sending", "queued"}
  /\ \/ \E r \in Syncs : /\ request[r] = "new"
                         /\ request' = [request EXCEPT ![r] = "sending"]
     \/ UNCHANGED request
  /\ UNCHANGED <<status, link, reader, frame, writer, loggedOut, uplink,
                 downlink, breaks, pushes, send, sendOpen, cur, tries, table,
                 answered, PresenceVars>>

(* c.send <- msg waits for room; on a closed channel it panics.            *)
Enqueue(r) ==
  /\ request[r] = "sending"
  /\ IF sendOpen
     THEN /\ Len(send) < SendLen /\ send' = Append(send, r)
          /\ request' = [request EXCEPT ![r] = "queued"]
     ELSE /\ request' = [request EXCEPT ![r] = "panic"]
          /\ UNCHANGED send
  /\ UNCHANGED <<ConnVars, sendOpen, cur, tries, table, answered,
                 PresenceVars>>

(* The caller's context ends: with the session, and for a logout after     *)
(* twenty seconds.                                                         *)
ContextEnds(r) ==
  /\ request[r] = "queued" /\ (loggedOut \/ r \in Logouts)
  /\ request' = [request EXCEPT ![r] = "failed"]
  /\ UNCHANGED <<ConnVars, send, sendOpen, cur, tries, table, answered,
                 PresenceVars>>

(* The caller that still waits for r is told.                              *)
Told(r, outcome) ==
  request' = [request EXCEPT ![r] = IF @ = "queued" THEN outcome ELSE @]

(* writePump takes a request; one of MsgSyncer fails at once when there is *)
(* no connection.                                                          *)
TakeRequest ==
  /\ writer = "idle" /\ sendOpen /\ send # <<>>
  /\ send' = Tail(send)
  /\ LET r == Head(send) IN
     IF r \in Syncs /\ status # "connected"
     THEN Told(r, "failed") /\ UNCHANGED <<writer, cur, table>>
     ELSE /\ writer' = "write" /\ cur' = r /\ table' = {r}
          /\ UNCHANGED request
  /\ tries' = 0
  /\ UNCHANGED <<status, link, reader, frame, mail, loggedOut, uplink,
                 downlink, breaks, pushes, sendOpen, answered, PresenceVars>>

(* writeBinaryMsg: an error without a connection; on a broken one an error *)
(* or a message that is lost.                                              *)
Write ==
  /\ writer = "write" /\ LockFree
  /\ \/ /\ ~(status = "connected" /\ link)
        /\ writer' = "failing" /\ UNCHANGED uplink
     \/ /\ status = "connected" /\ writer' = "wait"
        /\ uplink' = IF link THEN Append(uplink, cur) ELSE uplink
  /\ UNCHANGED <<status, link, reader, frame, mail, loggedOut, downlink,
                 breaks, pushes, RequestVars, PresenceVars>>

(* DelCh, and the answer of writePump to the caller.                       *)
Finish(outcome) ==
  /\ writer' = "idle" /\ cur' = None /\ tries' = 0
  /\ table' = {} /\ answered' = {}
  /\ Told(cur, outcome)
  /\ UNCHANGED <<send, sendOpen>>

(* After a failed write close is called, on whatever connection there is   *)
(* by now; then the next attempt, or the last one is over.                 *)
WriteFailed ==
  /\ writer = "failing" /\ Shut
  /\ IF tries + 1 < Attempts
     THEN /\ writer' = "write" /\ tries' = tries + 1
          /\ UNCHANGED <<request, send, sendOpen, cur, table, answered>>
     ELSE Finish("failed")
  /\ UNCHANGED <<reader, frame, mail, loggedOut, downlink,
                 breaks, pushes, PresenceVars>>

(* sendAndWaitResp: the answer, or ten seconds without one.                *)
WaitEndsMutant ==
  /\ writer = "wait" /\ cur \in answered /\ Finish("answered")
  /\ UNCHANGED <<status, link, reader, frame, mail, loggedOut, uplink,
                 downlink, breaks, pushes, PresenceVars>>

WaitEnds ==
  /\ writer = "wait"
  /\ \/ cur \in answered /\ Finish("answered")
     \/ Finish("failed")
  /\ UNCHANGED <<status, link, reader, frame, mail, loggedOut, uplink,
                 downlink, breaks, pushes, PresenceVars>>

(* handleMessage on an answer: it goes into the channel of its request if  *)
(* there is one; the answer to a logout ends readPump.                     *)
HandleReply ==
  /\ reader = "handle" /\ frame.type = "reply"
  /\ answered' = answered \cup ({frame.req} \cap table)
  /\ IF frame.req \in Logouts
     THEN reader' = "ended" /\ Shut
     ELSE reader' = "top" /\ UNCHANGED <<status, link, uplink>>
  /\ frame' = NoFrame
  /\ UNCHANGED <<writer, mail, loggedOut, downlink, breaks,
                 pushes, request, send, sendOpen, cur, tries, table,
                 PresenceVars>>

(* The gateway handles one request at a time, and closes after a logout.   *)
GatewayReplies ==
  /\ link /\ uplink # <<>> /\ Head(uplink) \in Requests /\ reply = <<>>
  /\ IF Head(uplink) \in Logouts
     THEN link' = FALSE /\ uplink' = <<>>
     ELSE uplink' = Tail(uplink) /\ UNCHANGED link
  /\ downlink' = Append(downlink, [type |-> "reply", req |-> Head(uplink)])
  /\ UNCHANGED <<status, reader, frame, writer, mail, loggedOut,
                 breaks, pushes, RequestVars, PresenceVars>>

(* LoginMgr: when its request is over, or the user was kicked or refused.  *)
Exit ==
  /\ ~loggedOut /\ loggedOut' = TRUE
  /\ reader = "ended" \/ \E r \in Logouts : request[r] \in Ended
  /\ UNCHANGED <<status, link, reader, frame, writer, mail, uplink,
                 downlink, breaks, pushes, RequestVars, PresenceVars>>

(* ctx is done: writePump closes the connection and the channel.           *)
WriterEnds ==
  /\ writer = "idle" /\ loggedOut
  /\ writer' = "ended" /\ Shut /\ sendOpen' = FALSE
  /\ UNCHANGED <<reader, frame, mail, loggedOut, downlink,
                 breaks, pushes, request, send, cur, tries, table, answered,
                 PresenceVars>>

WriterSteps == TakeRequest \/ Write \/ WriteFailed \/ WaitEnds \/ WriterEnds

RequestNext ==
  \/ SyncerTakes \/ WriterSteps \/ HandleReply \/ GatewayReplies
  \/ GatewayPushes \/ GatewayKicks
  \/ \E r \in Requests : Ask(r) \/ Enqueue(r) \/ ContextEnds(r)

-----------------------------------------------------------------------------
(* The online status of users: the calls and their subscription. *)

(* getUserOnline, under its lock, for one user: an answer that is known, an *)
(* entry to wait for, or a new entry and a message to be written.           *)
AskStatus(k, u) ==
  /\ call[k].at = "new" /\ reader # "off"
  /\ \/ /\ load[u] # 0
        /\ call' = [call EXCEPT ![k] =
             [at |-> IF entry[load[u]].state = "open" THEN "wait" ELSE "done",
              user |-> u, off |-> {}, entry |-> load[u]]]
        /\ unsub' = unsub \ {u}
        /\ UNCHANGED load
     \/ /\ load[u] = 0
        /\ load' = [load EXCEPT ![u] = k]
        /\ call' = [call EXCEPT ![k] =
             [at |-> "write", user |-> u, off |-> unsub \ {u}, entry |-> k]]
        /\ unsub' = {}
  /\ UNCHANGED <<ConnVars, RequestVars, entry, watch, reply, real, turns,
                 noticed, excused>>

(* writeSubInfo under connWrite; an error goes to writeFailed, which takes *)
(* back the entry if it is still this call's.                              *)
WriteSubInfo(k) ==
  /\ call[k].at = "write" /\ LockFree
  /\ \/ /\ status = "connected"
        /\ uplink' = IF link
                     THEN Append(uplink, [on |-> {call[k].user},
                                          off |-> call[k].off])
                     ELSE uplink
        /\ call' = [call EXCEPT ![k].at = "wait"]
        /\ UNCHANGED <<load, entry>>
     \/ /\ ~(status = "connected" /\ link)
        /\ call' = [call EXCEPT ![k].at = "failed"]
        /\ load' = [u \in Users |-> IF load[u] = k THEN 0 ELSE load[u]]
        /\ entry' = Finished({k})
        /\ UNCHANGED uplink
  /\ UNCHANGED <<status, link, reader, frame, writer, mail, loggedOut,
                 downlink, breaks, pushes, RequestVars, unsub, watch, reply,
                 real, turns, noticed, excused>>

(* The call has its answer, or five seconds have passed.                   *)
CallEnds(k) ==
  /\ call[k].at = "wait"
  /\ \/ /\ entry[call[k].entry].state = "ok"
        /\ call' = [call EXCEPT ![k].at = "done"]
     \/ call' = [call EXCEPT ![k].at = "failed"]
  /\ UNCHANGED <<ConnVars, RequestVars, load, entry, unsub, watch, reply, real,
                 turns, noticed, excused>>

Unsubscribe(u) ==
  /\ load[u] # 0
  /\ load' = [load EXCEPT ![u] = 0]
  /\ entry' = Finished({load[u]})
  /\ UNCHANGED <<ConnVars, RequestVars, call, unsub, watch, reply, real, turns,
                 noticed, excused>>

(* setUserState on what the gateway sent. *)
HandleTips ==
  /\ reader = "handle" /\ frame.type = "tips"
  /\ LET told == DOMAIN frame.states IN
     /\ entry' = [k \in Calls |->
          IF \E u \in told : load[u] = k
          THEN [state |-> "ok",
                online |-> frame.states[CHOOSE u \in told : load[u] = k]]
          ELSE entry[k]]
     /\ unsub' = (unsub \ told) \cup {u \in told : load[u] = 0}
  /\ reader' = "top" /\ frame' = NoFrame
  /\ UNCHANGED <<status, link, writer, mail, loggedOut, uplink,
                 downlink, breaks, pushes, RequestVars, call, load, watch,
                 reply, real, turns, noticed, excused>>

(* The gateway: SubUserOnlineStatus subscribes and then reads the status.  *)
(* A client that took an entry for u while an older message that ends its  *)
(* subscription was on its way has lost it.                                *)
GatewaySubscribes ==
  /\ link /\ uplink # <<>> /\ Head(uplink) \notin Requests /\ reply = <<>>
  /\ uplink' = Tail(uplink)
  /\ LET sub == Head(uplink) IN
     /\ watch' = (watch \ sub.off) \cup sub.on
     /\ reply' = [u \in sub.on |-> real[u]]
     /\ excused' = (excused \ sub.on)
                     \cup {u \in sub.off \ sub.on : load[u] # 0}
  /\ UNCHANGED <<status, link, reader, frame, writer, mail, loggedOut,
                 downlink, breaks, pushes, RequestVars, call, load, entry,
                 unsub, real, turns, noticed>>

(* The answer follows later; a change that was pushed in between has       *)
(* overtaken it.                                                           *)
GatewayAnswers ==
  /\ link /\ reply # <<>> /\ reply' = <<>>
  /\ downlink' = Append(downlink, [type |-> "tips", states |-> reply])
  /\ excused' = excused \cup {u \in DOMAIN reply : reply[u] # real[u]}
  /\ UNCHANGED <<status, link, reader, frame, writer, mail, loggedOut,
                 uplink, breaks, pushes, RequestVars, call, load, entry,
                 unsub, watch, real, turns, noticed>>

(* The status cannot be read: the answer has an error and no states.       *)
GatewayFails ==
  /\ link /\ reply # <<>> /\ reply' = <<>>
  /\ Break
  /\ excused' = excused \cup DOMAIN reply
  /\ UNCHANGED <<status, link, reader, frame, writer, mail, loggedOut,
                 uplink, downlink, pushes, RequestVars, call, load, entry,
                 unsub, watch, real, turns, noticed>>

(* pushUserIDOnlineStatus: a change goes to those subscribed.              *)
Turn(u) ==
  /\ turns < Turns /\ turns' = turns + 1
  /\ real' = [real EXCEPT ![u] = ~@]
  /\ IF u \in watch /\ link
     THEN /\ downlink' = Append(downlink, [type |-> "tips",
                                           states |-> [v \in {u} |-> ~real[u]]])
          /\ excused' = excused \ {u}
     ELSE UNCHANGED <<downlink, excused>>
  /\ UNCHANGED <<status, link, reader, frame, writer, mail, loggedOut,
                 uplink, breaks, pushes, RequestVars, call, load, entry,
                 unsub, watch, reply, noticed>>

PresenceNext ==
  \/ \E k \in Calls : \/ WriteSubInfo(k) \/ CallEnds(k)
                      \/ \E u \in Users : AskStatus(k, u)
  \/ \E u \in Users : Unsubscribe(u) \/ Turn(u)
  \/ HandleTips \/ GatewaySubscribes \/ GatewayAnswers \/ GatewayFails

-----------------------------------------------------------------------------
ConnNext == Run \/ ReaderSteps \/ Incidents \/ Exit \/ LinkExpires

LongConnNext == ConnNext \/ RequestNext \/ PresenceNext

LongConnSpec == LongConnInit /\ [][LongConnNext]_LongConnVars

(* Once started, every goroutine keeps running, timers end every wait, and *)
(* a gateway gives up a connection without pings.  It need not answer.     *)
LongConnFairness ==
  /\ WF_LongConnVars(ReaderSteps \/ HandleReply \/ HandleTips)
  /\ WF_LongConnVars(WriterSteps)
  /\ WF_LongConnVars(\E r \in Requests : Enqueue(r) \/ ContextEnds(r))
  /\ WF_LongConnVars(Exit \/ LinkExpires)

LongConnFairSpec == LongConnSpec /\ LongConnFairness

-----------------------------------------------------------------------------
(* When nothing is under way, every entry SubscribeUsersStatus and          *)
(* GetUserStatus would answer from has the status the gateway knows, and no *)
(* entry is left without an answer - but for users whose entry came over    *)
(* from an earlier connection unseen by the reader, whose subscription was  *)
(* ended by an older message, or whose answer failed or was overtaken.      *)
Settled ==
  /\ status = "connected" /\ link /\ reader = "read"
  /\ uplink = <<>> /\ downlink = <<>> /\ reply = <<>>
  /\ \A k \in Calls : call[k].at # "write"

KnownIsTrue ==
  Settled => \A u \in Users \ excused :
               load[u] # 0 => entry[load[u]] = [state |-> "ok",
                                                online |-> real[u]]

(* In the end no call of SendReqWaitResp waits, although the reader may     *)
(* wait for MsgSyncer to make room, MsgSyncer for an answer, the writer for *)
(* the lock or the answer, and callers for the writer; and the client has a *)
(* connection that works, or it was logged out, kicked or refused, and both *)
(* goroutines have ended and left no connection open.                       *)
RestInTheEnd ==
  <>[] /\ \A r \in Requests : request[r] \notin {"sending", "queued"}
       /\ reader # "off" =>
          IF loggedOut
          THEN reader = "ended" /\ writer = "ended" /\ ~link
          ELSE status = "connected" /\ link
=============================================================================
