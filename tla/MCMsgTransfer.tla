--------------------------- MODULE MCMsgTransfer ----------------------------
(***************************************************************************)
(* Small instances of MsgTransfer for TLC: two partitions, two keys.       *)
(***************************************************************************)
EXTENDS MsgTransfer

CONSTANTS k1, k2, anna, ben

Chat(k, u)   == [key |-> k, sender |-> u, note |-> FALSE, send |-> FALSE, hist |-> TRUE]
Typing(k, u) == [Chat(k, u) EXCEPT !.hist = FALSE]
Tip(k, u)    == [Chat(k, u) EXCEPT !.note = TRUE, !.send = TRUE]
Signal(k, u) == [Chat(k, u) EXCEPT !.note = TRUE, !.hist = FALSE]

(* Two conversations in two partitions, handled by two workers.           *)
TwoKeys == [p \in Partition |->
              IF p = 1 THEN <<Chat(k1, anna), Chat(k1, ben)>> ELSE <<Chat(k2, ben)>>]
TwoWorkers == [k \in {k1, k2} |-> IF k = k1 THEN 1 ELSE 2]

(* One conversation with a message, a notification that is also shown as a *)
(* message, and a signal that is only pushed.                              *)
OneKey    == [p \in Partition |-> <<Chat(k1, anna), Tip(k1, ben), Signal(k1, ben)>>]
OneWorker == [k \in {k1} |-> 1]
=============================================================================
