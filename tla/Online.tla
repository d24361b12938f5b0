------------------------------- MODULE Online -------------------------------
(***************************************************************************)
(* The online status of one user: the maps of the gateways (user_map.go,   *)
(* online.go), the set of platforms in Redis (redis/online.go) and the     *)
(* copy of the push service, which holds all users (rpccache/online.go).   *)
(*                                                                         *)
(* A report goes through the channel of the map, a batch and a request;    *)
(* each may drop it.  Everything of one user passes these in order.        *)
(***************************************************************************)
EXTENDS Naturals, Sequences, FiniteSets

CONSTANTS Gateways, Terminals,
          None,          \* nothing to publish
          MaxMoves,    \* bounds: connections made and closed,
          MaxDrops,      \* reports and publications that are dropped,
          MaxCrashes     \* gateways that crash

ASSUME OnlineAssumption ==
  /\ {MaxMoves, MaxDrops, MaxCrashes} \subseteq Nat
  /\ IsFiniteSet(Terminals) /\ \A S \in SUBSET Terminals : None # S

VARIABLES local,     \* the platforms in the map of each gateway
          reports,   \* reports of each gateway on their way to Redis
          online,    \* Redis: platform -> "off", "on", or "ended", a member
                     \* whose score has passed
          publish,   \* what the script has returned for a gateway's report
          heard,     \* publications on their way to each gateway
          push,      \* the copy of the push service
          moves, drops, crashes,
          spoiled    \* history: the push service could not know of a change

OnlineVars == <<local, reports, online, publish, heard, push, moves, drops,
                crashes, spoiled>>

OnlineInit ==
  /\ local = [g \in Gateways |-> {}] /\ reports = [g \in Gateways |-> <<>>]
  /\ online = [p \in Terminals |-> "off"]
  /\ publish = [g \in Gateways |-> None] /\ heard = [g \in Gateways |-> <<>>]
  /\ push = {} /\ moves = 0 /\ drops = 0 /\ crashes = 0 /\ spoiled = FALSE

OnlineTypeOK ==
  /\ local \in [Gateways -> SUBSET Terminals]
  /\ \A g \in Gateways :
       /\ reports[g] \in Seq([on : SUBSET Terminals, off : SUBSET Terminals])
       /\ publish[g] = None \/ publish[g] \subseteq Terminals
       /\ heard[g] \in Seq(SUBSET Terminals)
  /\ online \in [Terminals -> {"off", "on", "ended"}]
  /\ push \subseteq Terminals
  /\ moves \in 0..MaxMoves /\ drops \in 0..MaxDrops
  /\ crashes \in 0..MaxCrashes /\ spoiled \in BOOLEAN

Members == {p \in Terminals : online[p] # "off"}
GetOnline == {p \in Terminals : online[p] = "on"}
Connected == UNION {local[g] : g \in Gateways}

(* push of the map, with what the batches and requests drop. *)
Report(g, on, off) ==
  \/ /\ reports' = [reports EXCEPT ![g] = Append(@, [on |-> on, off |-> off])]
     /\ UNCHANGED drops
  \/ drops < MaxDrops /\ drops' = drops + 1 /\ UNCHANGED reports

-----------------------------------------------------------------------------
(* Set and DeleteClients of the map. *)

Connect(g, p) ==
  /\ moves < MaxMoves /\ moves' = moves + 1
  /\ p \notin local[g] /\ local' = [local EXCEPT ![g] = @ \cup {p}]
  /\ Report(g, local[g] \cup {p}, {})
  /\ UNCHANGED <<online, publish, heard, push, crashes, spoiled>>

Disconnect(g, p) ==
  /\ moves < MaxMoves /\ moves' = moves + 1
  /\ p \in local[g] /\ local' = [local EXCEPT ![g] = @ \ {p}]
  /\ Report(g, local[g] \ {p}, {p})
  /\ UNCHANGED <<online, publish, heard, push, crashes, spoiled>>

(* GetAllUserStatus, three times in the life of a lease.  (Bound: not while *)
(* other reports of the gateway are on their way.)                          *)
Renew(g) ==
  /\ local[g] # {} /\ reports[g] = <<>>
  /\ reports' = [reports EXCEPT ![g] = <<[on |-> local[g], off |-> {}]>>]
  /\ UNCHANGED <<local, online, publish, heard, push, moves, drops, crashes,
                 spoiled>>

(* RecvSubChange: the gateway reports again what the publication lacks. *)
RecvSubChange(g) ==
  /\ heard[g] # <<>> /\ heard' = [heard EXCEPT ![g] = Tail(@)]
  /\ IF local[g] \subseteq Head(heard[g])
     THEN UNCHANGED <<reports, drops>>
     ELSE Report(g, local[g], {})
  /\ UNCHANGED <<local, online, publish, push, moves, crashes, spoiled>>

-----------------------------------------------------------------------------
(* SetUserOnline: the script, then the publication. *)

Kept(r) == GetOnline \ r.off

(* Mutant: the number of members before and after all. *)
NumberChangedMutant(r) == Cardinality(Members) # Cardinality(Kept(r) \cup r.on)

NumberChanged(r) == \/ Cardinality(Members) # Cardinality(Kept(r))
              \/ Cardinality(Kept(r)) # Cardinality(Kept(r) \cup r.on)

SetUserOnline(g) ==
  LET r == Head(reports[g]) IN
  /\ reports[g] # <<>> /\ publish[g] = None
  /\ reports' = [reports EXCEPT ![g] = Tail(@)]
  /\ online' = [p \in Terminals |->
                  IF p \in Kept(r) \cup r.on THEN "on" ELSE "off"]
  /\ IF NumberChanged(r)
     THEN /\ publish' = [publish EXCEPT ![g] = Kept(r) \cup r.on]
          /\ spoiled' = (spoiled \/ \E h \in Gateways : publish[h] # None)
     ELSE UNCHANGED <<publish, spoiled>>
  /\ UNCHANGED <<local, heard, push, moves, drops, crashes>>

SetUserOnlineFails(g) ==
  /\ reports[g] # <<>> /\ publish[g] = None /\ drops < MaxDrops
  /\ reports' = [reports EXCEPT ![g] = Tail(@)] /\ drops' = drops + 1
  /\ UNCHANGED <<local, online, publish, heard, push, moves, crashes, spoiled>>

(* doMessage of the push service, and the message to the gateways. *)
Publish(g) ==
  /\ publish[g] # None /\ publish' = [publish EXCEPT ![g] = None]
  /\ push' = publish[g]
  /\ heard' = [h \in Gateways |-> Append(heard[h], publish[g])]
  /\ UNCHANGED <<local, reports, online, moves, drops, crashes, spoiled>>

PublishFails(g) ==
  /\ publish[g] # None /\ publish' = [publish EXCEPT ![g] = None]
  /\ drops < MaxDrops /\ drops' = drops + 1 /\ spoiled' = TRUE
  /\ UNCHANGED <<local, reports, online, heard, push, moves, crashes>>

(* A lease ends: nobody has renewed the platform for half an hour (no       *)
(* renewal is dropped as long as that).  The key goes with the last member. *)
Renewed(p) ==
  \E g \in Gateways :
    p \in local[g] \/ \E i \in 1..Len(reports[g]) : p \in reports[g][i].on

(* Mutant: one lease for all platforms. *)
LeaseEndsMutant(p) ==
  /\ online[p] = "on" /\ \A q \in Terminals : ~Renewed(q)
  /\ online' = [q \in Terminals |-> "off"] /\ spoiled' = TRUE
  /\ UNCHANGED <<local, reports, publish, heard, push, moves, drops, crashes>>

LeaseEnds(p) ==
  /\ online[p] = "on" /\ ~Renewed(p)
  /\ online' = IF GetOnline = {p} THEN [q \in Terminals |-> "off"]
                                  ELSE [online EXCEPT ![p] = "ended"]
  /\ spoiled' = TRUE
  /\ UNCHANGED <<local, reports, publish, heard, push, moves, drops, crashes>>

Crash(g) ==
  /\ crashes < MaxCrashes /\ crashes' = crashes + 1
  /\ local' = [local EXCEPT ![g] = {}]
  /\ reports' = [reports EXCEPT ![g] = <<>>]
  /\ heard' = [heard EXCEPT ![g] = <<>>]
  /\ UNCHANGED <<online, publish, push, moves, drops, spoiled>>

OnlineNext ==
  \/ \E g \in Gateways, p \in Terminals : Connect(g, p) \/ Disconnect(g, p)
  \/ \E g \in Gateways :
       \/ Renew(g) \/ RecvSubChange(g)
       \/ SetUserOnline(g) \/ SetUserOnlineFails(g)
       \/ Publish(g) \/ PublishFails(g) \/ Crash(g)
  \/ \E p \in Terminals : LeaseEnds(p)

OnlineSpec == OnlineInit /\ [][OnlineNext]_OnlineVars

(* Tickers tick, requests and messages are handled, and time passes. *)
OnlineFairness ==
  /\ \A g \in Gateways :
       /\ WF_OnlineVars(Renew(g)) /\ WF_OnlineVars(RecvSubChange(g))
       /\ WF_OnlineVars(SetUserOnline(g)) /\ WF_OnlineVars(Publish(g))
  /\ \A p \in Terminals : WF_OnlineVars(LeaseEnds(p))

OnlineFairSpec == OnlineSpec /\ OnlineFairness

-----------------------------------------------------------------------------
(* Once a user's connections stay as they are, Redis comes to say what they *)
(* are and goes on saying it, although two gateways report one platform,    *)
(* reports are dropped or delayed, and gateways crash.                      *)
OnlineInTheEnd == <>[](GetOnline = Connected)

(* So does the push service, unless a lease ended (which nobody publishes), *)
(* a publication failed, or two were under way at once, in either order.    *)
PushInTheEnd == <>[](spoiled \/ push = Connected)
=============================================================================
