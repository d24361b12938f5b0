-------------------------------- MODULE MsgLog --------------------------------
(***************************************************************************)
(* What the pipeline from Kafka to the clients promises to those who read  *)
(* a conversation: it is a log.  Every message comes behind all that can   *)
(* be read already, under a number that was given for it, and stays there; *)
(* numbers may be left out, but no gap is ever filled later.  So a client  *)
(* that has read up to a number need not look below it again.  MongoDB and *)
(* the push service only get what can be read.  Nothing is said of         *)
(* batches, partitions, workers, failing calls or restarts.  MsgTransfer   *)
(* implements this specification.                                          *)
(***************************************************************************)
EXTENDS Naturals

CONSTANT
    Conversation  \* the conversations: pairs of a key and a part

VARIABLES
    top,       \* the last number given in each conversation
    readable,  \* the messages that can be read: records with key, part, seq
    durable,   \* those of them that are in MongoDB
    told       \* those of them that were pushed

logVars == <<top, readable, durable, told>>

Conv(e) == <<e.key, e.part>>

Init ==
    /\ top = [c \in Conversation |-> 0]
    /\ readable = {} /\ durable = {} /\ told = {}

(* Numbers are given, whether or not messages will be read under them.     *)
Number ==
    /\ \E c \in Conversation :
         /\ top' = [top EXCEPT ![c] = top'[c]]
         /\ top'[c] \in Nat /\ top[c] <= top'[c]
    /\ UNCHANGED <<readable, durable, told>>

(* A message comes at the end of its conversation.                         *)
Show ==
    /\ \E e \in readable' :
         /\ readable' = readable \cup {e}
         /\ Conv(e) \in Conversation /\ e.seq \in 1 .. top[Conv(e)]
         /\ \A f \in readable : Conv(f) = Conv(e) => f.seq < e.seq
    /\ UNCHANGED <<top, durable, told>>

(* Messages are inserted into MongoDB.                                     *)
Keep ==
    /\ durable \subseteq durable' /\ durable' \subseteq durable \cup readable
    /\ UNCHANGED <<top, readable, told>>

(* Messages are pushed.                                                    *)
Tell ==
    /\ told \subseteq told' /\ told' \subseteq told \cup readable
    /\ UNCHANGED <<top, readable, durable>>

Next == Number \/ Show \/ Keep \/ Tell

Spec == Init /\ [][Next]_logVars

-----------------------------------------------------------------------------
(* Under one number of a conversation there is one message, in the cache,  *)
(* in MongoDB and in what was pushed alike.                                *)
OneMessagePerNumber ==
    \A e, f \in readable \cup durable \cup told :
        Conv(e) = Conv(f) /\ e.seq = f.seq => e = f
=============================================================================
