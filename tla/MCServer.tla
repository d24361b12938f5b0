------------------------------ MODULE MCServer ------------------------------
(***************************************************************************)
(* One small instance of five parts of the server that share no state: the *)
(* tokens, one gateway, the online status, the read positions and the      *)
(* stored messages.  In each behaviour one of them moves, so that their    *)
(* state spaces add up and do not multiply.                                *)
(***************************************************************************)
EXTENDS Tokens, Gateway, Online, ReadPositions, MsgStore

CONSTANTS ios, android, windows, Mobile, m1, m2

ClassOf == [p \in Platforms |-> IF p = windows THEN PC ELSE Mobile]

(* The user's two devices: of one class where the policy is about classes.  *)
Owned == IF policy = "AllLoginButSameClassKick" THEN {ios, android}
                                                ELSE {android, windows}

VARIABLES studied, watched

Parts == {"tokens", "gateway", "online", "positions", "store"}

MCInit ==
  /\ studied \in Parts
  /\ OnlineInit /\ ReadPositionsInit /\ MsgStoreInit
  /\ watched \in {2, 3} /\ (studied # "store" => watched = 2)
  /\ TokensInit /\ (studied # "tokens" => policy = "DefalutNotKick")
  /\ GatewayInit /\ (studied # "gateway" => exclusive)

(* Three of the policies treat both alike: the first login is on Android.   *)
OwnDevices ==
  /\ \A g \in Callers : work[g].pc # "idle" => work[g].at \in Owned
  /\ home # <<>> /\ policy # "PCAndOther" => home[1] = android

(* The message service works on one number: the last one of the first       *)
(* document or the first one of the second.  The second of its goroutines,  *)
(* which are alike, begins while the first one works; of other numbers no   *)
(* copy is removed.                                                         *)
OneNumber ==
  /\ \A g \in Clients : doing'[g].pc # "idle" => doing'[g].s = watched
  /\ {doing[m1].pc, doing[m2].pc} = {"idle"} => doing'[m2].pc = "idle"
  /\ \A s \in Numbers \ {watched} :
       copies[s].kind = "msg" => copies'[s].kind = "msg"

MCNext ==
  /\ UNCHANGED <<studied, watched>>
  /\ \/ /\ studied = "tokens" /\ TokensNext /\ OwnDevices'
        /\ UNCHANGED <<GatewayVars, OnlineVars, ReadPositionsVars, MsgStoreVars>>
     \/ /\ studied = "gateway" /\ GatewayNext
        /\ UNCHANGED <<TokenVars, OnlineVars, ReadPositionsVars, MsgStoreVars>>
     \/ /\ studied = "online" /\ OnlineNext
        /\ UNCHANGED <<TokenVars, GatewayVars, ReadPositionsVars, MsgStoreVars>>
     \/ /\ studied = "positions" /\ ReadPositionsNext
        /\ UNCHANGED <<TokenVars, GatewayVars, OnlineVars, MsgStoreVars>>
     \/ /\ studied = "store" /\ MsgStoreNext /\ OneNumber
        /\ UNCHANGED <<TokenVars, GatewayVars, OnlineVars, ReadPositionsVars>>

ServerVars ==
  <<TokenVars, GatewayVars, OnlineVars, ReadPositionsVars, MsgStoreVars,
    studied, watched>>

(* A part that does not move owes nothing, for the actions its fairness is  *)
(* about are not enabled in its first state.                                *)
MCSpec ==
  /\ MCInit /\ [][MCNext]_ServerVars
  /\ GatewayFairness /\ OnlineFairness

-----------------------------------------------------------------------------
(* Everything has its type; in particular no channel of the gateway takes   *)
(* more than it holds.                                                      *)
ServerTypeOK ==
  /\ TokensTypeOK /\ GatewayTypeOK /\ OnlineTypeOK /\ ReadPositionsTypeOK
  /\ MsgStoreTypeOK
=============================================================================
