---------------------------- MODULE ServerProofs ----------------------------
(***************************************************************************)
(* Five parts of the server, for any constants.                            *)
(*                                                                         *)
(* The tokens, for every policy, limit, number of logins and of            *)
(* goroutines: as long as no two operations run at the same time, a token  *)
(* that is no longer valid stays so, no platform has more valid tokens     *)
(* than the policy lets it have, and where a login displaces those before  *)
(* it the newest token of a platform is valid.  None of the three is       *)
(* inductive: an operation is several calls of Redis, and any of them may  *)
(* be the last.  The invariant has to say what an operation that runs has  *)
(* read and what it has still to do: that the map it is about to write     *)
(* holds no flag that was changed since (Fresh), that a login, when it has *)
(* kicked what it chose, leaves room for one more (RoomForNew), and that   *)
(* what an event loop preserves is the newest token (NewestKept).          *)
(*                                                                         *)
(* The map of users of a gateway.  Under AllLoginButSameTermKick it never  *)
(* holds two clients of one terminal.  The event loop takes the old        *)
(* clients out of the map when it begins with a new one and puts it in     *)
(* when it has closed them: the induction (OneInv) has to say that nobody  *)
(* fills the map in between.  When nothing is on its way it holds the open *)
(* connections, and onlineUserConnNum counts them.  Here the induction     *)
(* (GatewayInv) has to follow every Client object from the pool through    *)
(* registerChan, the map, the goroutine that closes it and unregisterChan  *)
(* back to the pool.                                                       *)
(*                                                                         *)
(* The read positions: what is stored was read, and the answered position  *)
(* does not move back, each with the exceptions its property names.        *)
(*                                                                         *)
(* The stored messages: what BatchInsertBlock reports as written is in     *)
(* MongoDB, and a copy in Redis tells of every call that has returned.  A  *)
(* revocation between its write and DelMessageBySeqs is in MongoDB and not *)
(* in the copy yet, and a reader holds in hand what it has read while      *)
(* others write: the invariant says of each goroutine what it has done so  *)
(* far (Inserting, Serving), and of a reader in particular that what it    *)
(* holds is as good as a copy as long as the lock is its own.              *)
(*                                                                         *)
(* The online status: its types, and those of the instance of all five.    *)
(***************************************************************************)
EXTENDS MCServer, TLAPS, FiniteSetTheorems

-----------------------------------------------------------------------------
(* The tokens. *)

PartialFlags == UNION {[D -> Flags] : D \in SUBSET Token}

Logins == [pc : {"delete", "kick"}, at : Platforms, kick : SUBSET Token,
           old : SUBSET Token]
Forces == [pc : {"force"}, at : Platforms, map : PartialFlags,
           kick : SUBSET Token]
LoopWork ==
  [pc : {"kickTokens"}, kick : SUBSET Token]
    \cup [pc : {"invalidate"}, at : Platforms, keep : Token]
    \cup [pc : {"write"}, at : Platforms, map : PartialFlags]

(* Types.  What an operation is about to overwrite is in the map it read.   *)
TokenTypes ==
  /\ policy \in Policies
  /\ home \in Seq(Platforms) /\ Len(home) =< MaxLogins
  /\ flags \in [Platforms -> [Token -> Flags]]
  /\ work \in [Goroutines -> {NoWork} \cup Logins \cup Forces \cup LoopWork]
  /\ \A g \in Goroutines : work[g].pc = "force" => work[g].kick \subseteq DOMAIN work[g].map
  /\ accepted \subseteq Made /\ conns \subseteq Made
  /\ forced \in 0..MaxForced /\ overlapped \in BOOLEAN /\ excused \in BOOLEAN

Busy(g) == work[g].pc # "idle"

Alone == \A g, h \in Goroutines : Busy(g) /\ Busy(h) => g = h

(* A map that is to be written makes no token valid that is not. *)
Fresh ==
  \A g \in Goroutines : work[g].pc \in {"force", "write"} =>
    \A t \in DOMAIN work[g].map :
      work[g].map[t] = "normal" => flags[work[g].at][t] = "normal"

WithinLimit == \A p \in Platforms : Cardinality(ValidAt(p)) =< Limit(p)

(* Where the number is not limited by what a login kicks. *)
Unlimited(p) == policy = "PCAndOther" /\ Class[p] = PC

RoomForNew ==
  \A g \in Goroutines : work[g].pc \in {"delete", "kick"} =>
    \/ Unlimited(work[g].at)
    \/ Cardinality(ValidAt(work[g].at) \ work[g].kick) + 1 =< Limit(work[g].at)

Newest(t) == \A u \in Made : home[u] = home[t] => u =< t

(* The newest tokens are valid, but for one that a login is about to        *)
(* replace.                                                                  *)
NewestHolds ==
  \A t \in Made : Newest(t) =>
    Valid(t) \/ \E g \in Goroutines : work[g].pc = "kick" /\ work[g].at = home[t]

(* What the event loop does away with is older than what it preserves. *)
NewestKept ==
  \A g \in Goroutines :
    /\ work[g].pc \notin {"force", "kickTokens"}
    /\ work[g].pc = "invalidate" =>
         \A t \in Made : home[t] = work[g].at /\ Newest(t) => t = work[g].keep
    /\ work[g].pc = "write" =>
         \A t \in Made : home[t] = work[g].at /\ Newest(t) =>
           t \in DOMAIN work[g].map /\ work[g].map[t] = "normal"

NewestInv ==
  policy = "AllLoginButSameTermKick" /\ forced = 0 /\ ~excused =>
    NewestHolds /\ NewestKept

TokensInv ==
  /\ TokenTypes
  /\ ~overlapped => /\ Alone /\ Fresh
                    /\ WithinLimit /\ RoomForNew
                    /\ NewestInv

-----------------------------------------------------------------------------
(* Constants, and what follows from types alone. *)
LEMMA MoreTypes ==
    ASSUME TokenTypes
    PROVE  /\ Made = 1 .. Len(home) /\ Made \subseteq Token /\ Len(home) \in Nat
           /\ \A t \in Made : home[t] \in Platforms
           /\ Callers \subseteq Goroutines /\ EventLoop \in Goroutines
           /\ MaxLogins \in Nat /\ MaxNumOneEnd \in Nat /\ MaxForced \in Nat
<1>1. MaxLogins \in Nat /\ MaxNumOneEnd \in Nat /\ MaxForced \in Nat
  BY TokensAssumption
<1>2. Made = 1 .. Len(home) /\ Len(home) \in Nat /\ \A t \in Made : home[t] \in Platforms
  BY DEF TokenTypes, Made
<1>3. Made \subseteq Token
  BY <1>1, <1>2 DEF TokenTypes, Token
<1>4. QED  BY <1>1, <1>2, <1>3 DEF Goroutines

(* What each kind of work is. *)
LEMMA WorkTypes ==
    ASSUME TokenTypes, NEW g \in Goroutines
    PROVE  /\ work[g].pc \in {"idle", "delete", "kick", "force", "kickTokens",
                              "invalidate", "write"}
           /\ work[g].pc \in {"delete", "kick"} => work[g] \in Logins
           /\ work[g].pc = "force" => work[g] \in Forces
           /\ work[g].pc = "kickTokens" =>
                work[g] \in [pc : {"kickTokens"}, kick : SUBSET Token]
           /\ work[g].pc = "invalidate" =>
                work[g] \in [pc : {"invalidate"}, at : Platforms, keep : Token]
           /\ work[g].pc = "write" =>
                work[g] \in [pc : {"write"}, at : Platforms, map : PartialFlags]
<1>1. work[g] \in {NoWork} \cup Logins \cup Forces \cup LoopWork
  BY DEF TokenTypes
<1>2. CASE work[g] = NoWork
  BY <1>2 DEF NoWork
<1>3. CASE work[g] \in Logins
  BY <1>3 DEF Logins
<1>4. CASE work[g] \in Forces
  BY <1>4 DEF Forces
<1>5. CASE work[g] \in LoopWork
  BY <1>5 DEF LoopWork
<1>6. QED  BY <1>1, <1>2, <1>3, <1>4, <1>5

(* Maps from some tokens to flags. *)
LEMMA PartialFlagsType ==
    /\ \A m \in PartialFlags : DOMAIN m \subseteq Token /\ \A t \in DOMAIN m : m[t] \in Flags
    /\ \A D : D \subseteq Token =>
         \A m \in [D -> Flags] : m \in PartialFlags
BY DEF PartialFlags

(* What is read of a hash. *)
LEMMA SnapshotType ==
    ASSUME TokenTypes, NEW p \in Platforms
    PROVE  /\ InHash(p) \subseteq Token /\ Snapshot(p) \in PartialFlags
           /\ DOMAIN Snapshot(p) = InHash(p)
           /\ \A t \in InHash(p) : Snapshot(p)[t] = flags[p][t]
           /\ \A t \in Token : flags[p][t] = "normal" => t \in InHash(p)
<1>1. InHash(p) \subseteq Token
  BY DEF InHash
<1>2. Snapshot(p) \in [InHash(p) -> Flags]
  BY <1>1 DEF Snapshot, TokenTypes
<1>3. QED  BY <1>1, <1>2, PartialFlagsType DEF Snapshot, InHash

(* What is written into a hash. *)
LEMMA WriteMapType ==
    ASSUME TokenTypes, NEW p \in Platforms, NEW m \in PartialFlags, WriteMap(p, m)
    PROVE  /\ flags' \in [Platforms -> [Token -> Flags]]
           /\ \A q \in Platforms \ {p} : flags'[q] = flags[q]
           /\ \A t \in DOMAIN m : flags'[p][t] = m[t]
           /\ \A t \in Token \ DOMAIN m : flags'[p][t] = flags[p][t]
<1>1. DOMAIN m \subseteq Token /\ \A t \in DOMAIN m : m[t] \in Flags
  BY PartialFlagsType
<1> DEFINE h == [t \in Token |-> IF t \in DOMAIN m THEN m[t] ELSE flags[p][t]]
<1>2. flags' = [flags EXCEPT ![p] = h]
  BY DEF WriteMap
<1>3. h \in [Token -> Flags]
  BY <1>1 DEF TokenTypes
<1>4. QED  BY <1>1, <1>2, <1>3 DEF TokenTypes

-----------------------------------------------------------------------------
(* Types are kept when one goroutine goes on to something that has the type  *)
(* of work, and the flags keep theirs.                                       *)
LEMMA WorkTyped ==
    ASSUME TokenTypes, NEW g \in Goroutines, NEW a \in {NoWork} \cup Logins \cup Forces \cup LoopWork,
           a.pc = "force" => a.kick \subseteq DOMAIN a.map,
           work' = [work EXCEPT ![g] = a]
    PROVE  /\ work' \in [Goroutines -> {NoWork} \cup Logins \cup Forces \cup LoopWork]
           /\ \A h \in Goroutines : work'[h].pc = "force" =>
                work'[h].kick \subseteq DOMAIN work'[h].map
BY DEF TokenTypes

(* The types of what an operation leaves alone. *)
LEMMA KeptTypes ==
    ASSUME TokenTypes, UNCHANGED <<policy, home>>,
           flags' \in [Platforms -> [Token -> Flags]],
           /\ work' \in [Goroutines -> {NoWork} \cup Logins \cup Forces \cup LoopWork]
           /\ \A h \in Goroutines : work'[h].pc = "force" =>
                work'[h].kick \subseteq DOMAIN work'[h].map,
           accepted' \subseteq Made, conns' \subseteq Made,
           forced' \in 0..MaxForced, overlapped' \in BOOLEAN, excused' \in BOOLEAN
    PROVE  TokenTypes'
BY DEF TokenTypes, Made

(* Beginning and going on change the work of one goroutine. *)
LEMMA TakesGoes ==
    ASSUME NEW g, NEW a, Takes(g, a) \/ Goes(g, a)
    PROVE  work' = [work EXCEPT ![g] = a]
BY DEF Takes, Goes

(* overlapped stays a truth value. *)
LEMMA OverlapTyped ==
    ASSUME overlapped \in BOOLEAN, NEW g, NEW a, Takes(g, a) \/ Goes(g, a)
    PROVE  overlapped' \in BOOLEAN
BY DEF Takes, Goes

(* The types of what most operations leave alone. *)
LEMMA OtherTypes ==
    ASSUME TokenTypes
    PROVE  /\ flags \in [Platforms -> [Token -> Flags]]
           /\ accepted \subseteq Made /\ conns \subseteq Made
           /\ forced \in 0..MaxForced /\ overlapped \in BOOLEAN /\ excused \in BOOLEAN
           /\ NoWork \in {NoWork} \cup Logins \cup Forces \cup LoopWork
           /\ NoWork.pc = "idle"
BY DEF TokenTypes, NoWork

(* The steps of a login. *)
LEMMA LoginTypes ==
    ASSUME TokenTypes, NEW g \in Callers,
           \/ \E p \in Platforms : Login(g, p)
           \/ DeleteOld(g) \/ KickOld(g) \/ SetToken(g)
    PROVE  TokenTypes'
<1> DEFINE a == work[g]
<1>0. g \in Goroutines
  BY MoreTypes
<1>1. ASSUME NEW p \in Platforms, Login(g, p)  PROVE TokenTypes'
  <2> DEFINE old == {t \in Made : \E q \in Platforms : flags[q][t] = "kicked"}
  <2>1. PICK K \in SUBSET AllValid :
           Takes(g, [pc |-> "delete", at |-> p, kick |-> K, old |-> old])
    BY <1>1 DEF Login
  <2>2. K \subseteq Token /\ old \subseteq Token
    BY MoreTypes DEF AllValid
  <2>3. [pc |-> "delete", at |-> p, kick |-> K, old |-> old] \in Logins
    BY <2>2 DEF Logins
  <2>4. UNCHANGED <<policy, home, flags, accepted, conns, forced, excused>>
    BY <1>1 DEF Login
  <2>5. overlapped' \in BOOLEAN
    BY <2>1, OverlapTyped, OtherTypes
  <2>6. QED  BY <1>0, <2>1, <2>3, <2>4, <2>5, TakesGoes, WorkTyped, KeptTypes, OtherTypes
<1>2. CASE DeleteOld(g)
  <2>1. /\ a.pc = "delete" /\ Goes(g, [a EXCEPT !.pc = "kick"])
        /\ flags' = [flags EXCEPT ![a.at] =
             [t \in Token |-> IF t \in a.old THEN "none" ELSE @[t]]]
        /\ UNCHANGED <<policy, home, accepted, conns, forced, excused>>
    BY <1>2 DEF DeleteOld
  <2>2. a \in Logins
    BY <1>0, <2>1, WorkTypes
  <2>3. [a EXCEPT !.pc = "kick"] \in Logins /\ [a EXCEPT !.pc = "kick"].pc = "kick"
    BY <2>2 DEF Logins
  <2>4. flags' \in [Platforms -> [Token -> Flags]]
    BY <2>1, <2>2, OtherTypes DEF Logins, Flags
  <2>5. overlapped' \in BOOLEAN
    BY <2>1, OverlapTyped, OtherTypes
  <2>6. QED  BY <1>0, <2>1, <2>3, <2>4, <2>5, TakesGoes, WorkTyped, KeptTypes, OtherTypes
<1>3. CASE KickOld(g)
  <2>1. /\ a.pc = "kick"
        /\ UNCHANGED <<policy, home, accepted, conns, forced, excused>>
    BY <1>3 DEF KickOld
  <2>2. PICK t \in a.kick : /\ flags' = [flags EXCEPT ![a.at][t] = "kicked"]
                            /\ Goes(g, [a EXCEPT !.kick = @ \ {t}])
    BY <1>3 DEF KickOld
  <2>3. a \in Logins
    BY <1>0, <2>1, WorkTypes
  <2>4. [a EXCEPT !.kick = @ \ {t}] \in Logins /\ [a EXCEPT !.kick = @ \ {t}].pc = "kick"
    BY <2>1, <2>3 DEF Logins
  <2>5. flags' \in [Platforms -> [Token -> Flags]]
    BY <2>2, <2>3, OtherTypes DEF Logins, Flags
  <2>6. overlapped' \in BOOLEAN
    BY <2>2, OverlapTyped, OtherTypes
  <2>7. QED
    BY <1>0, <2>1, <2>2, <2>4, <2>5, <2>6, TakesGoes, WorkTyped, KeptTypes, OtherTypes
<1>4. CASE SetToken(g)
  <2>1. /\ a.pc = "kick" /\ Len(home) < MaxLogins
        /\ home' = Append(home, a.at)
        /\ flags' = [flags EXCEPT ![a.at][Len(home) + 1] = "normal"]
        /\ Goes(g, NoWork)
        /\ UNCHANGED <<policy, accepted, conns, forced, excused>>
    BY <1>4 DEF SetToken
  <2>2. a \in Logins /\ a.at \in Platforms
    BY <1>0, <2>1, WorkTypes DEF Logins
  <2>3. /\ home' \in Seq(Platforms) /\ Len(home') = Len(home) + 1 /\ Made \subseteq Made'
    BY <2>1, <2>2 DEF TokenTypes, Made
  <2>4. Len(home') =< MaxLogins
    BY <2>1, <2>3, MoreTypes
  <2>5. flags' \in [Platforms -> [Token -> Flags]]
    BY <2>1, <2>2, OtherTypes, MoreTypes DEF Flags, Token
  <2>6. overlapped' \in BOOLEAN
    BY <2>1, OverlapTyped, OtherTypes
  <2>7. /\ work' \in [Goroutines -> {NoWork} \cup Logins \cup Forces \cup LoopWork]
        /\ \A h \in Goroutines : work'[h].pc = "force" =>
             work'[h].kick \subseteq DOMAIN work'[h].map
    BY <1>0, <2>1, TakesGoes, WorkTyped, OtherTypes
  <2>8. QED  BY <2>1, <2>3, <2>4, <2>5, <2>6, <2>7 DEF TokenTypes
<1>5. QED  BY <1>1, <1>2, <1>3, <1>4

(* The steps of a forced logout. *)
LEMMA ForceTypes ==
    ASSUME TokenTypes, NEW g \in Callers,
           (\E p \in Platforms : ForceLogout(g, p)) \/ ForceWrite(g)
    PROVE  TokenTypes'
<1> DEFINE a == work[g]
<1>0. g \in Goroutines
  BY MoreTypes
<1>1. ASSUME NEW p \in Platforms, ForceLogout(g, p)  PROVE TokenTypes'
  <2> DEFINE after == [pc |-> "force", at |-> p, map |-> Snapshot(p), kick |-> InHash(p)]
  <2>1. /\ forced < MaxForced /\ forced' = forced + 1
        /\ conns' = {t \in conns : home[t] # p} /\ Takes(g, after)
        /\ UNCHANGED <<policy, home, flags, accepted, excused>>
    BY <1>1 DEF ForceLogout
  <2>2. after \in Forces /\ after.kick \subseteq DOMAIN after.map
    BY SnapshotType DEF Forces
  <2>3. forced' \in 0..MaxForced /\ conns' \subseteq Made
    BY <2>1, OtherTypes, MoreTypes, SMTT(30)
  <2>4. overlapped' \in BOOLEAN
    BY <2>1, OverlapTyped, OtherTypes
  <2> HIDE DEF after
  <2>5. QED  BY <1>0, <2>1, <2>2, <2>3, <2>4, TakesGoes, WorkTyped, KeptTypes, OtherTypes
<1>2. CASE ForceWrite(g)
  <2>1. /\ a.pc = "force"
        /\ UNCHANGED <<policy, home, accepted, conns, forced, excused>>
    BY <1>2 DEF ForceWrite
  <2>2. a \in Forces /\ a.at \in Platforms /\ a.map \in PartialFlags /\ a.kick \subseteq DOMAIN a.map
    BY <1>0, <2>1, WorkTypes DEF TokenTypes, Forces
  <2>3. CASE Goes(g, NoWork) /\ UNCHANGED flags
    <3>1. overlapped' \in BOOLEAN
      BY <2>3, OverlapTyped, OtherTypes
    <3>2. QED  BY <1>0, <2>1, <2>3, <3>1, TakesGoes, WorkTyped, KeptTypes, OtherTypes
  <2>4. ASSUME NEW t \in a.kick, NEW m, m = [a.map EXCEPT ![t] = "kicked"], WriteMap(a.at, m),
               Goes(g, [a EXCEPT !.map = m, !.kick = @ \ {t}])
        PROVE  TokenTypes'
    <3>1. m \in PartialFlags /\ DOMAIN m = DOMAIN a.map
      <4>1. /\ DOMAIN a.map \subseteq Token /\ m \in [DOMAIN a.map -> Flags]
        BY <2>2, <2>4, PartialFlagsType DEF Flags, PartialFlags
      <4>2. QED  BY <4>1, PartialFlagsType
    <3>2. flags' \in [Platforms -> [Token -> Flags]]
      BY <2>2, <2>4, <3>1, WriteMapType
    <3> DEFINE after == [a EXCEPT !.map = m, !.kick = @ \ {t}]
    <3>3. after \in Forces /\ after.kick \subseteq DOMAIN after.map
      BY <2>2, <3>1 DEF Forces
    <3>4. overlapped' \in BOOLEAN
      BY <2>4, OverlapTyped, OtherTypes
    <3>5. Goes(g, after)
      BY <2>4
    <3> HIDE DEF after
    <3>6. QED  BY <1>0, <2>1, <3>2, <3>3, <3>4, <3>5, TakesGoes, WorkTyped, KeptTypes, OtherTypes
  <2>5. QED  BY <1>2, <2>3, <2>4, ZenonT(60) DEF ForceWrite
<1>3. QED  BY <1>1, <1>2

(* Any of them may fail. *)
LEMMA FailTypes ==
    ASSUME TokenTypes, NEW g \in Goroutines, OperationFails(g)
    PROVE  TokenTypes'
<1>1. /\ Goes(g, NoWork) /\ excused' = (excused \/ work[g].pc = "kick")
      /\ UNCHANGED <<policy, home, flags, accepted, conns, forced>>
  BY DEF OperationFails
<1>2. overlapped' \in BOOLEAN /\ excused' \in BOOLEAN
  BY <1>1, OverlapTyped, OtherTypes
<1>3. QED  BY <1>1, <1>2, TakesGoes, WorkTyped, KeptTypes, OtherTypes

(* Connections, and what the event loop does when it registers one. *)
LEMMA LoopTypes ==
    ASSUME TokenTypes,
           \/ \E t \in Token : AcceptConn(t) \/ CloseConn(t) \/ RegisterConn(t)
           \/ KickTokens \/ Invalidate \/ InvalidateWrite
    PROVE  TokenTypes'
<1> DEFINE a == work[EventLoop]
<1>0. EventLoop \in Goroutines
  BY MoreTypes
<1>1. ASSUME NEW t \in Token, AcceptConn(t) \/ CloseConn(t)  PROVE TokenTypes'
  <2>1. /\ UNCHANGED <<policy, home, flags, work, forced, overlapped, excused>>
        /\ accepted' \subseteq Made /\ conns' \subseteq Made
    BY <1>1, OtherTypes DEF AcceptConn, CloseConn
  <2>2. QED  BY <2>1 DEF TokenTypes, Made
<1>2. ASSUME NEW t \in Token, RegisterConn(t)  PROVE TokenTypes'
  <2>1. /\ t \in accepted /\ accepted' = accepted \ {t}
        /\ conns' = (conns \ DisplacedTokens(t)) \cup {t}
        /\ excused' = (excused \/ \E u \in Made : u > t /\ home[u] = home[t])
        /\ UNCHANGED <<policy, home, flags, forced>>
    BY <1>2 DEF RegisterConn
  <2>2. t \in Made /\ accepted' \subseteq Made /\ conns' \subseteq Made /\ excused' \in BOOLEAN
    BY <2>1, OtherTypes
  <2>3. CASE UNCHANGED <<work, overlapped>>
    BY <2>1, <2>2, <2>3 DEF TokenTypes, Made
  <2>4. DisplacedTokens(t) \subseteq Token /\ home[t] \in Platforms /\ t \in Token
    BY <2>2, MoreTypes, OtherTypes DEF DisplacedTokens, SameTerminal, SameClass
  <2>5. ASSUME NEW after \in LoopWork, Takes(EventLoop, after), after.pc # "force"  PROVE TokenTypes'
    <3>1. overlapped' \in BOOLEAN
      BY <2>5, OverlapTyped, OtherTypes
    <3>2. QED
      BY <1>0, <2>1, <2>2, <2>5, <3>1, TakesGoes, WorkTyped, KeptTypes, OtherTypes
  <2>6. /\ [pc |-> "kickTokens", kick |-> DisplacedTokens(t)] \in LoopWork
        /\ [pc |-> "invalidate", at |-> home[t], keep |-> t] \in LoopWork
    BY <2>4 DEF LoopWork
  <2>7. \/ UNCHANGED <<work, overlapped>>
        \/ Takes(EventLoop, [pc |-> "kickTokens", kick |-> DisplacedTokens(t)])
        \/ Takes(EventLoop, [pc |-> "invalidate", at |-> home[t], keep |-> t])
    BY <1>2 DEF RegisterConn
  <2>8. QED  BY <2>3, <2>5, <2>6, <2>7
<1>3. CASE KickTokens
  <2>1. /\ a.pc = "kickTokens" /\ Goes(EventLoop, NoWork)
        /\ flags' = [p \in Platforms |-> [t \in Token |->
             IF t \in a.kick /\ home[t] = p THEN "kicked" ELSE flags[p][t]]]
        /\ UNCHANGED <<policy, home, accepted, conns, forced, excused>>
    BY <1>3 DEF KickTokens
  <2>2. flags' \in [Platforms -> [Token -> Flags]]
    BY <2>1, OtherTypes DEF Flags
  <2>3. overlapped' \in BOOLEAN
    BY <2>1, OverlapTyped, OtherTypes
  <2>4. QED  BY <1>0, <2>1, <2>2, <2>3, TakesGoes, WorkTyped, KeptTypes, OtherTypes
<1>4. CASE Invalidate
  <2> DEFINE m == [t \in InHash(a.at) |-> IF t = a.keep THEN flags[a.at][t] ELSE "kicked"]
  <2> DEFINE after == [pc |-> "write", at |-> a.at, map |-> m]
  <2>1. /\ a.pc = "invalidate" /\ Goes(EventLoop, after)
        /\ UNCHANGED <<policy, home, flags, accepted, conns, forced, excused>>
    BY <1>4 DEF Invalidate
  <2>2. a.at \in Platforms
    BY <1>0, <2>1, WorkTypes
  <2>3. m \in PartialFlags
    <3>1. InHash(a.at) \subseteq Token /\ m \in [InHash(a.at) -> Flags]
      BY <2>2, SnapshotType, OtherTypes DEF Flags
    <3>2. QED  BY <3>1, PartialFlagsType
  <2>4. after \in LoopWork /\ after.pc # "force"
    <3> HIDE DEF m
    <3>1. QED  BY <2>2, <2>3 DEF LoopWork
  <2>5. overlapped' \in BOOLEAN
    BY <2>1, OverlapTyped, OtherTypes
  <2> HIDE DEF after
  <2>6. QED  BY <1>0, <2>1, <2>4, <2>5, TakesGoes, WorkTyped, KeptTypes, OtherTypes
<1>5. CASE InvalidateWrite
  <2>1. /\ a.pc = "write" /\ WriteMap(a.at, a.map) /\ Goes(EventLoop, NoWork)
        /\ UNCHANGED <<policy, home, accepted, conns, forced, excused>>
    BY <1>5 DEF InvalidateWrite
  <2>2. a.at \in Platforms /\ a.map \in PartialFlags
    BY <1>0, <2>1, WorkTypes
  <2>3. flags' \in [Platforms -> [Token -> Flags]]
    BY <2>1, <2>2, WriteMapType
  <2>4. overlapped' \in BOOLEAN
    BY <2>1, OverlapTyped, OtherTypes
  <2>5. QED  BY <1>0, <2>1, <2>3, <2>4, TakesGoes, WorkTyped, KeptTypes, OtherTypes
<1>6. QED  BY <1>1, <1>2, <1>3, <1>4, <1>5

(* Every variable keeps its type. *)
LEMMA TokenTypesByNext ==
    ASSUME TokenTypes, [TokensNext]_TokenVars
    PROVE  TokenTypes'
<1>1. CASE UNCHANGED TokenVars
  BY <1>1 DEF TokenVars, TokenTypes, Made
<1>2. CASE TokensNext
  BY <1>2, LoginTypes, ForceTypes, FailTypes, LoopTypes DEF TokensNext
<1>3. QED  BY <1>1, <1>2

-----------------------------------------------------------------------------
(* As long as nobody has overlapped, who begins or goes on is the only one   *)
(* that works.                                                               *)
LEMMA OneActs ==
    ASSUME TokenTypes, ~overlapped => Alone, ~overlapped', NEW g \in Goroutines, NEW a,
           Takes(g, a) \/ (Busy(g) /\ Goes(g, a))
    PROVE  /\ ~overlapped /\ work' = [work EXCEPT ![g] = a] /\ work'[g] = a
           /\ \A h \in Goroutines : h # g => work[h].pc = "idle" /\ work'[h].pc = "idle"
           /\ Alone'
<1>1. /\ work' = [work EXCEPT ![g] = a] /\ ~overlapped
      /\ \A h \in Goroutines : h # g => work[h].pc = "idle"
  <2>1. CASE Takes(g, a)
    BY <2>1, Zenon DEF Takes
  <2>2. CASE Busy(g) /\ Goes(g, a)
    <3>1. ~overlapped /\ Alone
      BY <2>2 DEF Goes
    <3>2. QED  BY <2>2, <3>1 DEF Goes, Alone, Busy
  <2>3. QED  BY <2>1, <2>2
<1>2. /\ work'[g] = a /\ \A h \in Goroutines : h # g => work'[h].pc = "idle"
  BY <1>1 DEF TokenTypes
<1>3. Alone'
  BY <1>2 DEF Alone, Busy
<1>4. QED  BY <1>1, <1>2, <1>3

(* No flag becomes normal, but for that of a new token. *)
NoMoreNormal ==
  \A p \in Platforms, t \in Made : flags'[p][t] = "normal" => flags[p][t] = "normal"

(* What a step may do as long as nobody has overlapped. *)
CalmStep ==
  /\ ~overlapped /\ Alone' /\ Fresh'
  /\ NoMoreNormal

(* Steps that touch neither the flags nor the work. *)
LEMMA CalmIdle ==
    ASSUME ~overlapped => Alone /\ Fresh, ~overlapped', UNCHANGED <<flags, work, overlapped>>
    PROVE  CalmStep
BY DEF CalmStep, Alone, Busy, Fresh, NoMoreNormal

(* One acts, and is not about to write a map afterwards. *)
LEMMA CalmActs ==
    ASSUME TokenTypes, ~overlapped => Alone, ~overlapped', NEW g \in Goroutines, NEW a,
           Takes(g, a) \/ (Busy(g) /\ Goes(g, a)),
           a.pc \notin {"force", "write"}, NoMoreNormal
    PROVE  CalmStep
<1>1. /\ ~overlapped /\ work'[g] = a /\ Alone'
      /\ \A h \in Goroutines : h # g => work'[h].pc = "idle"
  BY OneActs
<1>2. Fresh'
  BY <1>1 DEF Fresh
<1>3. QED  BY <1>1, <1>2 DEF CalmStep

(* One acts, and is about to write a map that holds no flag that is normal   *)
(* but for those that are.                                                   *)
LEMMA CalmWrites ==
    ASSUME TokenTypes, ~overlapped => Alone, ~overlapped', NEW g \in Goroutines, NEW a,
           Takes(g, a) \/ (Busy(g) /\ Goes(g, a)), NoMoreNormal,
           \A t \in DOMAIN a.map : a.map[t] = "normal" => flags'[a.at][t] = "normal"
    PROVE  CalmStep
<1>1. /\ ~overlapped /\ work'[g] = a /\ Alone'
      /\ \A h \in Goroutines : h # g => work'[h].pc = "idle"
  BY OneActs
<1>2. Fresh'
  BY <1>1 DEF Fresh
<1>3. QED  BY <1>1, <1>2 DEF CalmStep

(* The steps of a login. *)
LEMMA LoginCalm ==
    ASSUME TokenTypes, ~overlapped => Alone /\ Fresh, ~overlapped', NEW g \in Callers,
           \/ \E p \in Platforms : Login(g, p)
           \/ DeleteOld(g) \/ KickOld(g) \/ SetToken(g)
    PROVE  CalmStep
<1> DEFINE a == work[g]
<1>0. g \in Goroutines
  BY MoreTypes
<1>1. ASSUME NEW p \in Platforms, Login(g, p)  PROVE CalmStep
  <2>1. PICK K \in SUBSET AllValid, old \in SUBSET Made :
           Takes(g, [pc |-> "delete", at |-> p, kick |-> K, old |-> old])
    BY <1>1 DEF Login
  <2>2. NoMoreNormal
    BY <1>1 DEF Login, NoMoreNormal
  <2>3. QED  BY <1>0, <2>1, <2>2, CalmActs
<1>2. CASE DeleteOld(g)
  <2>1. /\ a.pc = "delete" /\ Goes(g, [a EXCEPT !.pc = "kick"])
        /\ flags' = [flags EXCEPT ![a.at] =
             [t \in Token |-> IF t \in a.old THEN "none" ELSE @[t]]]
    BY <1>2 DEF DeleteOld
  <2>2. a \in Logins
    BY <1>0, <2>1, WorkTypes
  <2>3. [a EXCEPT !.pc = "kick"].pc = "kick"
    BY <2>2 DEF Logins
  <2>4. NoMoreNormal
    BY <2>1, <2>2, MoreTypes, OtherTypes DEF Logins, NoMoreNormal
  <2>5. QED  BY <1>0, <2>1, <2>3, <2>4, CalmActs DEF Busy
<1>3. CASE KickOld(g)
  <2>1. a.pc = "kick"
    BY <1>3 DEF KickOld
  <2>2. PICK t \in a.kick : /\ flags' = [flags EXCEPT ![a.at][t] = "kicked"]
                            /\ Goes(g, [a EXCEPT !.kick = @ \ {t}])
    BY <1>3 DEF KickOld
  <2>3. a \in Logins
    BY <1>0, <2>1, WorkTypes
  <2>4. [a EXCEPT !.kick = @ \ {t}].pc = "kick"
    BY <2>1, <2>3 DEF Logins
  <2>5. NoMoreNormal
    BY <2>2, <2>3, MoreTypes, OtherTypes DEF Logins, NoMoreNormal
  <2>6. QED  BY <1>0, <2>1, <2>2, <2>4, <2>5, CalmActs DEF Busy
<1>4. CASE SetToken(g)
  <2>1. /\ a.pc = "kick" /\ Len(home) < MaxLogins
        /\ flags' = [flags EXCEPT ![a.at][Len(home) + 1] = "normal"]
        /\ Goes(g, NoWork)
    BY <1>4 DEF SetToken
  <2>2. a \in Logins /\ a.at \in Platforms
    BY <1>0, <2>1, WorkTypes DEF Logins
  <2>3. Len(home) + 1 \in Token /\ Len(home) + 1 \notin Made
    BY <2>1, MoreTypes DEF Token
  <2>4. NoMoreNormal
    BY <2>1, <2>2, <2>3, MoreTypes, OtherTypes DEF NoMoreNormal
  <2>5. QED  BY <1>0, <2>1, <2>4, CalmActs, OtherTypes DEF Busy
<1>5. QED  BY <1>1, <1>2, <1>3, <1>4

(* The steps of a forced logout, and calls that fail. *)
LEMMA ForceCalm ==
    ASSUME TokenTypes, ~overlapped => Alone /\ Fresh, ~overlapped',
           \/ \E g \in Callers : ForceWrite(g) \/ \E p \in Platforms : ForceLogout(g, p)
           \/ \E g \in Goroutines : OperationFails(g)
    PROVE  CalmStep
<1>1. ASSUME NEW g \in Callers, NEW p \in Platforms, ForceLogout(g, p)  PROVE CalmStep
  <2> DEFINE after == [pc |-> "force", at |-> p, map |-> Snapshot(p), kick |-> InHash(p)]
  <2>1. Takes(g, after) /\ UNCHANGED flags /\ g \in Goroutines
    BY <1>1, MoreTypes DEF ForceLogout
  <2>2. \A t \in DOMAIN after.map : after.map[t] = "normal" => flags'[after.at][t] = "normal"
    BY <2>1, SnapshotType
  <2>3. NoMoreNormal
    BY <2>1, SMTT(30) DEF NoMoreNormal
  <2> HIDE DEF after
  <2>4. QED  BY <2>1, <2>2, <2>3, CalmWrites
<1>2. ASSUME NEW g \in Callers, ForceWrite(g)  PROVE CalmStep
  <2> DEFINE a == work[g]
  <2>1. a.pc = "force" /\ g \in Goroutines
    BY <1>2, MoreTypes DEF ForceWrite
  <2>2. a \in Forces /\ a.at \in Platforms /\ a.map \in PartialFlags /\ a.kick \subseteq DOMAIN a.map
    BY <2>1, WorkTypes DEF TokenTypes, Forces
  <2>3. CASE Goes(g, NoWork) /\ UNCHANGED flags
    <3>1. NoMoreNormal
      BY <2>3 DEF NoMoreNormal
    <3>2. QED  BY <2>1, <2>3, <3>1, CalmActs, OtherTypes DEF Busy
  <2>4. ASSUME NEW t \in a.kick, NEW m, m = [a.map EXCEPT ![t] = "kicked"], WriteMap(a.at, m),
               Goes(g, [a EXCEPT !.map = m, !.kick = @ \ {t}])
        PROVE  CalmStep
    <3> DEFINE after == [a EXCEPT !.map = m, !.kick = @ \ {t}]
    <3>1. m \in PartialFlags /\ DOMAIN m = DOMAIN a.map
      <4>1. /\ DOMAIN a.map \subseteq Token /\ m \in [DOMAIN a.map -> Flags]
        BY <2>2, <2>4, PartialFlagsType DEF Flags, PartialFlags
      <4>2. QED  BY <4>1, PartialFlagsType
    <3>2. after.map = m /\ after.at = a.at
      BY <2>2 DEF Forces
    <3>3. Goes(g, after)
      BY <2>4
    <3>4. \A s \in DOMAIN m : flags'[a.at][s] = m[s]
      BY <2>2, <2>4, <3>1, WriteMapType
    <3>5. \A s \in DOMAIN m : m[s] = "normal" => flags[a.at][s] = "normal"
      <4>1. Fresh
        BY <3>3 DEF Goes
      <4>2. \A s \in DOMAIN a.map : a.map[s] = "normal" => flags[a.at][s] = "normal"
        BY <2>1, <4>1 DEF Fresh
      <4>3. \A s \in DOMAIN m : m[s] = "normal" => a.map[s] = "normal"
        BY <2>2, <2>4 DEF PartialFlags
      <4>4. QED  BY <3>1, <4>2, <4>3
    <3>6. NoMoreNormal
      <4>1. \A s \in Token : flags'[a.at][s] = "normal" => flags[a.at][s] = "normal"
        BY <2>2, <2>4, <3>1, <3>4, <3>5, WriteMapType
      <4>2. \A q \in Platforms \ {a.at} : flags'[q] = flags[q]
        BY <2>2, <2>4, <3>1, WriteMapType
      <4>3. QED  BY <4>1, <4>2, MoreTypes DEF NoMoreNormal
    <3> HIDE DEF after
    <3>7. QED  BY <2>1, <3>2, <3>3, <3>4, <3>6, CalmWrites DEF Busy
  <2>5. QED  BY <1>2, <2>3, <2>4, ZenonT(60) DEF ForceWrite
<1>3. ASSUME NEW g \in Goroutines, OperationFails(g)  PROVE CalmStep
  <2>1. Busy(g) /\ Goes(g, NoWork) /\ UNCHANGED flags
    BY <1>3 DEF OperationFails, Busy
  <2>2. NoMoreNormal
    BY <2>1 DEF NoMoreNormal
  <2>3. QED  BY <2>1, <2>2, CalmActs, OtherTypes
<1>4. QED  BY <1>1, <1>2, <1>3

(* What the event loop does. *)
LEMMA LoopCalm ==
    ASSUME TokenTypes, ~overlapped => Alone /\ Fresh, ~overlapped',
           \/ \E t \in Token : AcceptConn(t) \/ CloseConn(t) \/ RegisterConn(t)
           \/ KickTokens \/ Invalidate \/ InvalidateWrite
    PROVE  CalmStep
<1> DEFINE a == work[EventLoop]
<1>0. EventLoop \in Goroutines
  BY MoreTypes
<1>1. ASSUME NEW t \in Token, AcceptConn(t) \/ CloseConn(t) \/ RegisterConn(t)  PROVE CalmStep
  <2>1. UNCHANGED flags
    BY <1>1 DEF AcceptConn, CloseConn, RegisterConn
  <2>2. \/ UNCHANGED <<work, overlapped>>
        \/ Takes(EventLoop, [pc |-> "kickTokens", kick |-> DisplacedTokens(t)])
        \/ Takes(EventLoop, [pc |-> "invalidate", at |-> home[t], keep |-> t])
    BY <1>1 DEF AcceptConn, CloseConn, RegisterConn
  <2>3. NoMoreNormal
    BY <2>1 DEF NoMoreNormal
  <2>4. QED  BY <1>0, <2>1, <2>2, <2>3, CalmIdle, CalmActs
<1>2. CASE KickTokens
  <2>1. /\ a.pc = "kickTokens" /\ Goes(EventLoop, NoWork)
        /\ flags' = [p \in Platforms |-> [t \in Token |->
             IF t \in a.kick /\ home[t] = p THEN "kicked" ELSE flags[p][t]]]
    BY <1>2 DEF KickTokens
  <2>2. NoMoreNormal
    BY <2>1, MoreTypes DEF NoMoreNormal
  <2>3. QED  BY <1>0, <2>1, <2>2, CalmActs, OtherTypes DEF Busy
<1>3. CASE Invalidate
  <2> DEFINE m == [t \in InHash(a.at) |-> IF t = a.keep THEN flags[a.at][t] ELSE "kicked"]
  <2> DEFINE after == [pc |-> "write", at |-> a.at, map |-> m]
  <2>1. a.pc = "invalidate" /\ Goes(EventLoop, after) /\ UNCHANGED flags
    BY <1>3 DEF Invalidate
  <2>2. \A t \in DOMAIN after.map : after.map[t] = "normal" => flags'[after.at][t] = "normal"
    BY <2>1
  <2>3. NoMoreNormal
    BY <2>1 DEF NoMoreNormal
  <2> HIDE DEF after
  <2>4. QED  BY <1>0, <2>1, <2>2, <2>3, CalmWrites DEF Busy
<1>4. CASE InvalidateWrite
  <2>1. a.pc = "write" /\ WriteMap(a.at, a.map) /\ Goes(EventLoop, NoWork)
    BY <1>4 DEF InvalidateWrite
  <2>2. a.at \in Platforms /\ a.map \in PartialFlags
    BY <1>0, <2>1, WorkTypes
  <2>3. \A s \in DOMAIN a.map : a.map[s] = "normal" => flags[a.at][s] = "normal"
    BY <1>0, <2>1 DEF Goes, Fresh
  <2>4. NoMoreNormal
    <3>1. \A s \in Token : flags'[a.at][s] = "normal" => flags[a.at][s] = "normal"
      BY <2>1, <2>2, <2>3, WriteMapType
    <3>2. \A q \in Platforms \ {a.at} : flags'[q] = flags[q]
      BY <2>1, <2>2, WriteMapType
    <3>3. QED  BY <3>1, <3>2, MoreTypes DEF NoMoreNormal
  <2>5. QED  BY <1>0, <2>1, <2>4, CalmActs, OtherTypes DEF Busy
<1>5. QED  BY <1>1, <1>2, <1>3, <1>4

(* Every step, as long as nobody has overlapped. *)
LEMMA CalmByNext ==
    ASSUME TokenTypes, ~overlapped => Alone /\ Fresh, ~overlapped', [TokensNext]_TokenVars
    PROVE  CalmStep
<1>1. CASE UNCHANGED TokenVars
  BY <1>1, CalmIdle DEF TokenVars
<1>2. CASE TokensNext
  BY <1>2, LoginCalm, ForceCalm, LoopCalm, SMTT(30) DEF TokensNext
<1>3. QED  BY <1>1, <1>2

(* The tokens that were made keep their platforms. *)
LEMMA HomesKept ==
    ASSUME TokenTypes, [TokensNext]_TokenVars
    PROVE  \/ UNCHANGED home
           \/ \E g \in Callers : SetToken(g)
BY DEF TokensNext, TokenVars, Login, ForceLogout, DeleteOld, KickOld, ForceWrite,
     OperationFails, AcceptConn, CloseConn, RegisterConn, KickTokens, Invalidate,
     InvalidateWrite

-----------------------------------------------------------------------------
(* A token that is valid after a step, and was made before, was valid. *)
LEMMA StaysKicked ==
    ASSUME TokenTypes, ~overlapped => Alone /\ Fresh, ~overlapped', [TokensNext]_TokenVars,
           NEW t \in Made
    PROVE  t \in Made' /\ home'[t] = home[t] /\ (Valid(t)' => Valid(t))
<1>1. NoMoreNormal
  BY CalmByNext DEF CalmStep
<1>2. t \in Made' /\ home'[t] = home[t]
  <2>1. CASE UNCHANGED home
    BY <2>1 DEF Made
  <2>2. ASSUME NEW g \in Callers, SetToken(g)  PROVE t \in Made' /\ home'[t] = home[t]
    <3>1. home' = Append(home, work[g].at) /\ work[g].pc = "kick"
      BY <2>2 DEF SetToken
    <3>2. work[g].at \in Platforms
      BY <3>1, MoreTypes, WorkTypes DEF Logins
    <3>3. QED  BY <3>1, <3>2 DEF TokenTypes, Made
  <2>3. QED  BY <2>1, <2>2, HomesKept
<1>3. home[t] \in Platforms
  BY MoreTypes
<1>4. QED  BY <1>1, <1>2, <1>3 DEF NoMoreNormal, Valid

(* The valid tokens are among those of before, unless one is made. *)
LEMMA FewerValid ==
    ASSUME TokenTypes, UNCHANGED home, NoMoreNormal, NEW p \in Platforms
    PROVE  ValidAt(p)' \subseteq ValidAt(p)
BY MoreTypes DEF ValidAt, Valid, Made, NoMoreNormal

(* They are finite, and a limit does not change. *)
LEMMA FiniteValid ==
    ASSUME TokenTypes, NEW S, S \subseteq Made
    PROVE  /\ IsFiniteSet(S) /\ Cardinality(S) \in Nat /\ Cardinality(S) =< MaxLogins
<1>1. /\ IsFiniteSet(1 .. Len(home))
      /\ Cardinality(1 .. Len(home)) = IF 1 > Len(home) THEN 0 ELSE Len(home) - 1 + 1
  <2>1. 1 \in Int /\ Len(home) \in Int
    BY MoreTypes
  <2>2. QED  BY ONLY <2>1, FS_Interval
<1>2. Cardinality(1 .. Len(home)) = Len(home)
  BY <1>1, MoreTypes
<1>3. IsFiniteSet(S) /\ Cardinality(S) =< Len(home)
  BY <1>1, <1>2, MoreTypes, FS_Subset
<1>4. Cardinality(S) \in Nat
  BY <1>3, FS_CardinalityType
<1>5. QED  BY <1>3, <1>4, MoreTypes DEF TokenTypes

(* Limits are numbers, that of a platform without one the number of logins.  *)
LEMMA LimitType ==
    ASSUME TokenTypes, NEW p \in Platforms
    PROVE  /\ Limit(p) \in Nat
           /\ Unlimited(p) => Limit(p) = MaxLogins
           /\ policy = "DefalutNotKick" => Limit(p) = MaxNumOneEnd
           /\ policy # "DefalutNotKick" /\ ~Unlimited(p) => Limit(p) = 1
BY MoreTypes DEF Limit, Unlimited

(* Less is within the limit as well. *)
LEMMA FewerWithin ==
    ASSUME TokenTypes, NEW S, NEW T, S \subseteq T, T \subseteq Made
    PROVE  Cardinality(S) =< Cardinality(T) /\ Cardinality(S) \in Nat /\ Cardinality(T) \in Nat
BY FiniteValid, FS_Subset

(* What checkToken chooses to kick leaves room for one more. *)
LEMMA CheckTokenLeavesRoom ==
    ASSUME TokenTypes, WithinLimit, NEW p \in Platforms, NEW K \in SUBSET AllValid, CheckToken(p, K),
           ~Unlimited(p)
    PROVE  Cardinality(ValidAt(p) \ K) + 1 =< Limit(p)
<1>1. policy \in {"DefalutNotKick", "AllLoginButSameTermKick", "PCAndOther",
                  "AllLoginButSameClassKick"}
  BY TokensAssumption DEF TokenTypes
<1>2. ValidAt(p) \subseteq Made /\ ValidAt(p) \subseteq AllValid
  BY DEF ValidAt, AllValid
<1>3. CASE policy = "DefalutNotKick"
  <2> DEFINE n == Cardinality(ValidAt(p))
  <2> DEFINE k == Cardinality(ValidAt(p) \cap K)
  <2> DEFINE r == Cardinality(ValidAt(p) \ K)
  <2>1. k = IF n + 1 > MaxNumOneEnd THEN n + 1 - MaxNumOneEnd ELSE 0
    <3>1. KicksByNumber(p, K)
      BY <1>3 DEF CheckToken
    <3>2. k = Excess(p, p)
      BY <3>1 DEF KicksByNumber
    <3>3. Excess(p, p) = IF n + 1 > MaxNumOneEnd THEN n + 1 - MaxNumOneEnd ELSE 0
      <4>1. n \in Nat /\ MaxNumOneEnd \in Nat /\ (IF p = p THEN 1 ELSE 0) = 1
        BY <1>2, FiniteValid, MoreTypes
      <4>2. QED  BY <4>1 DEF Excess
    <3>4. QED  BY <3>2, <3>3
  <2>2. r = n - k /\ n \in Nat
    BY <1>2, FiniteValid, FS_Difference
  <2>3. Limit(p) = MaxNumOneEnd /\ MaxNumOneEnd \in Nat
    BY <1>3, LimitType, MoreTypes
  <2> HIDE DEF n, k, r
  <2>4. r + 1 =< Limit(p)
    BY <2>1, <2>2, <2>3
  <2>5. QED  BY <2>4 DEF r
<1>4. CASE policy # "DefalutNotKick"
  <2>1. ValidAt(p) \subseteq K
    <3>1. CASE policy = "AllLoginButSameTermKick"
      BY <3>1 DEF CheckToken, KicksByTerminal
    <3>2. CASE policy = "AllLoginButSameClassKick"
      <4>1. KicksByClass(p, K)
        BY <3>2 DEF CheckToken
      <4>2. ValidIn(Class[p]) \subseteq K
        BY <4>1 DEF KicksByClass
      <4>3. ValidAt(p) \subseteq ValidIn(Class[p])
        BY <1>2 DEF ValidIn, ValidAt
      <4>4. QED  BY <4>2, <4>3
    <3>3. CASE policy = "PCAndOther"
      <4>1. KicksOthers(p, K) /\ Class[p] # PC
        BY <3>3 DEF CheckToken, Unlimited
      <4>2. K = {t \in AllValid : Class[home[t]] # PC}
        BY <4>1 DEF KicksOthers
      <4>3. QED  BY <1>2, <4>1, <4>2 DEF ValidAt
    <3>4. QED  BY <1>1, <1>4, <3>1, <3>2, <3>3
  <2>2. ValidAt(p) \ K = {}
    BY <2>1
  <2>3. Limit(p) = 1 /\ Cardinality({}) = 0
    BY <1>4, LimitType, FS_EmptySet
  <2>4. QED  BY <2>2, <2>3
<1>5. QED  BY <1>3, <1>4

(* Steps that make no token and after which nobody is at a login. *)
LEMMA FewerLimits ==
    ASSUME TokenTypes, WithinLimit, UNCHANGED <<home, policy>>, NoMoreNormal
    PROVE  /\ WithinLimit'
           /\ \A p \in Platforms : Limit(p)' = Limit(p) /\ (Unlimited(p)' <=> Unlimited(p))
<1>1. \A p \in Platforms : Limit(p)' = Limit(p) /\ (Unlimited(p)' <=> Unlimited(p))
  BY DEF Limit, Unlimited
<1>2. ASSUME NEW p \in Platforms  PROVE Cardinality(ValidAt(p)') =< Limit(p)
  <2>1. ValidAt(p)' \subseteq ValidAt(p) /\ ValidAt(p) \subseteq Made
    BY FewerValid DEF ValidAt
  <2>2. Cardinality(ValidAt(p)') =< Cardinality(ValidAt(p))
        /\ Cardinality(ValidAt(p)') \in Nat /\ Cardinality(ValidAt(p)) \in Nat
    BY <2>1, FewerWithin
  <2>3. QED  BY <2>2, LimitType DEF WithinLimit
<1>3. QED  BY <1>1, <1>2 DEF WithinLimit

(* A login that goes on to kick, and kicks, leaves the room it leaves.       *)
LEMMA RoomKept ==
    ASSUME TokenTypes, UNCHANGED <<home, policy>>, NoMoreNormal, WithinLimit, RoomForNew,
           NEW g \in Goroutines, work[g].pc \in {"delete", "kick"}, NEW K,
           NEW p \in Platforms, work[g].at = p, work'[g].at = p, work'[g].kick = K,
           ValidAt(p)' \ K \subseteq ValidAt(p) \ work[g].kick,
           \A h \in Goroutines : h # g => work'[h].pc = "idle"
    PROVE  RoomForNew'
<1>1. CASE Unlimited(p)
  <2>1. Unlimited(p)'
    BY <1>1 DEF Unlimited
  <2>2. QED  BY <2>1 DEF RoomForNew, Unlimited
<1>2. CASE ~Unlimited(p)
  <2>1. Cardinality(ValidAt(p) \ work[g].kick) + 1 =< Limit(p)
    BY <1>2 DEF RoomForNew
  <2>2. ValidAt(p) \ work[g].kick \subseteq Made
    BY DEF ValidAt
  <2>3. /\ Cardinality(ValidAt(p)' \ K) =< Cardinality(ValidAt(p) \ work[g].kick)
        /\ Cardinality(ValidAt(p)' \ K) \in Nat
        /\ Cardinality(ValidAt(p) \ work[g].kick) \in Nat
    BY <2>2, FewerWithin
  <2>4. Cardinality(ValidAt(p)' \ K) + 1 =< Limit(p)
    BY <2>1, <2>3, LimitType
  <2>5. Limit(p)' = Limit(p)
    BY FewerLimits
  <2>6. (Cardinality(ValidAt(p) \ work[g].kick) + 1 =< Limit(p))'
    BY <2>4, <2>5
  <2>7. ASSUME NEW h \in Goroutines, h # g  PROVE work'[h].pc \notin {"delete", "kick"}
    <3>1. work'[h].pc = "idle"
      BY <2>7
    <3>2. QED  BY <3>1, Zenon
  <2>8. QED  BY <2>6, <2>7 DEF RoomForNew
<1>3. QED  BY <1>1, <1>2

(* The policy is configuration. *)
LEMMA PolicyKept ==
    ASSUME [TokensNext]_TokenVars
    PROVE  UNCHANGED policy
BY Zenon DEF TokensNext, TokenVars, Login, ForceLogout, DeleteOld, KickOld, SetToken, ForceWrite,
     OperationFails, AcceptConn, CloseConn, RegisterConn, KickTokens, Invalidate,
     InvalidateWrite

Limits == WithinLimit /\ RoomForNew

(* A login begins: what it chose leaves room. *)
LEMMA LoginLimits ==
    ASSUME TokenTypes, ~overlapped => Alone /\ Fresh /\ Limits, ~overlapped',
           NEW g \in Callers, NEW p \in Platforms, Login(g, p)
    PROVE  Limits'
<1>0. g \in Goroutines
  BY MoreTypes
<1>1. PICK K \in SUBSET AllValid, old \in SUBSET Made : /\ CheckToken(p, K)
         /\ Takes(g, [pc |-> "delete", at |-> p, kick |-> K, old |-> old])
  BY DEF Login
<1>2. UNCHANGED <<policy, home, flags>>
  BY DEF Login
<1>3. /\ work'[g] = [pc |-> "delete", at |-> p, kick |-> K, old |-> old]
      /\ ~overlapped /\ \A h \in Goroutines : h # g => work'[h].pc = "idle"
  BY <1>0, <1>1, OneActs
<1>4. WithinLimit
  BY <1>3 DEF Limits
<1>5. WithinLimit'
  BY <1>2, <1>4 DEF WithinLimit, ValidAt, Valid, Made, Limit
<1>6. Unlimited(p) \/ Cardinality(ValidAt(p) \ K) + 1 =< Limit(p)
  BY <1>1, <1>4, CheckTokenLeavesRoom
<1>7. (Unlimited(p) \/ Cardinality(ValidAt(p) \ K) + 1 =< Limit(p))'
  BY <1>2, <1>6 DEF Unlimited, ValidAt, Valid, Made, Limit
<1>8. \A h \in Goroutines : work'[h].pc \in {"delete", "kick"} =>
         work'[h].at = p /\ work'[h].kick = K
  BY <1>3
<1>9. RoomForNew'
  BY <1>7, <1>8 DEF RoomForNew
<1>10. QED  BY <1>5, <1>9 DEF Limits

(* A login goes on: it deletes marks, and kicks what it chose. *)
LEMMA KickLimits ==
    ASSUME TokenTypes, ~overlapped => Alone /\ Fresh /\ Limits, ~overlapped',
           NEW g \in Callers, DeleteOld(g) \/ KickOld(g)
    PROVE  Limits'
<1> DEFINE a == work[g]
<1>0. /\ g \in Goroutines /\ UNCHANGED <<policy, home>>
      /\ a.pc \in {"delete", "kick"} /\ a \in Logins /\ a.at \in Platforms
  <2>1. g \in Goroutines /\ UNCHANGED <<policy, home>> /\ a.pc \in {"delete", "kick"}
    BY MoreTypes DEF DeleteOld, KickOld
  <2>2. QED  BY <2>1, WorkTypes DEF Logins
<1>1. NoMoreNormal /\ ~overlapped
  BY LoginCalm DEF CalmStep
<1>2. WithinLimit' /\ Limits
  BY <1>0, <1>1, FewerLimits DEF Limits
<1>3. PICK p \in Platforms : p = a.at
  BY <1>0
<1>4. ValidAt(p)' \subseteq ValidAt(p)
  BY <1>0, <1>1, FewerValid
<1>5. CASE DeleteOld(g)
  <2>1. Goes(g, [a EXCEPT !.pc = "kick"])
    BY <1>5 DEF DeleteOld
  <2>2. [a EXCEPT !.pc = "kick"].at = p /\ [a EXCEPT !.pc = "kick"].kick = a.kick
    BY <1>0, <1>3 DEF Logins
  <2>3. /\ work'[g].at = p /\ work'[g].kick = a.kick
        /\ \A h \in Goroutines : h # g => work'[h].pc = "idle"
    BY <1>0, <2>1, <2>2, OneActs DEF Busy
  <2>4. ValidAt(p)' \ a.kick \subseteq ValidAt(p) \ a.kick
    BY <1>4
  <2>5. RoomForNew'
    BY <1>0, <1>1, <1>2, <1>3, <2>3, <2>4, RoomKept DEF Limits
  <2>6. QED  BY <1>2, <2>5 DEF Limits
<1>6. CASE KickOld(g)
  <2>1. PICK t \in a.kick : /\ flags' = [flags EXCEPT ![a.at][t] = "kicked"]
                            /\ Goes(g, [a EXCEPT !.kick = @ \ {t}])
    BY <1>6 DEF KickOld
  <2>2. /\ [a EXCEPT !.kick = @ \ {t}].at = p
        /\ [a EXCEPT !.kick = @ \ {t}].kick = a.kick \ {t}
    BY <1>0, <1>3 DEF Logins
  <2>3. /\ work'[g].at = p /\ work'[g].kick = a.kick \ {t}
        /\ \A h \in Goroutines : h # g => work'[h].pc = "idle"
    BY <1>0, <2>1, <2>2, OneActs DEF Busy
  <2>4. flags'[p][t] = "kicked"
    BY <1>0, <1>3, <2>1 DEF TokenTypes, Logins
  <2>5. t \notin ValidAt(p)'
    BY <2>4 DEF ValidAt, Valid
  <2>6. ValidAt(p)' \ (a.kick \ {t}) \subseteq ValidAt(p) \ a.kick
    BY <1>4, <2>5
  <2>7. RoomForNew'
    BY <1>0, <1>1, <1>2, <1>3, <2>3, <2>6, RoomKept DEF Limits
  <2>8. QED  BY <1>2, <2>7 DEF Limits
<1>7. QED  BY <1>5, <1>6

(* There are no more tokens than logins, in any state. *)
LEMMA FewTokens == TokenTypes => \A S \in SUBSET Made : Cardinality(S) =< MaxLogins
BY FiniteValid

(* The new token takes the room. *)
LEMMA SetLimits ==
    ASSUME TokenTypes, TokenTypes', ~overlapped => Alone /\ Fresh /\ Limits, ~overlapped',
           NEW g \in Callers, SetToken(g)
    PROVE  Limits'
<1> DEFINE a == work[g]
<1> DEFINE new == Len(home) + 1
<1>1. /\ a.pc = "kick" /\ a.kick = {} /\ Len(home) < MaxLogins
      /\ home' = Append(home, a.at)
      /\ flags' = [flags EXCEPT ![a.at][new] = "normal"]
      /\ Goes(g, NoWork) /\ UNCHANGED policy /\ g \in Goroutines
  BY MoreTypes DEF SetToken
<1>2. PICK p \in Platforms : p = a.at
  BY <1>1, WorkTypes DEF Logins
<1>3. Limits /\ \A h \in Goroutines : work'[h].pc = "idle"
  <2>1. /\ ~overlapped /\ work'[g] = NoWork
        /\ \A h \in Goroutines : h # g => work'[h].pc = "idle"
    BY <1>1, OneActs DEF Busy
  <2>2. QED  BY <2>1, OtherTypes
<1>4. RoomForNew'
  BY <1>3 DEF RoomForNew
<1>5. /\ Made' = Made \cup {new} /\ new \notin Made /\ home'[new] = p
      /\ \A t \in Made : home'[t] = home[t]
      /\ flags'[p][new] = "normal"
      /\ \A q \in Platforms, t \in Made : flags'[q][t] = flags[q][t]
  <2>1. new \in Token /\ Made = 1 .. Len(home) /\ Len(home) \in Nat
    BY <1>1, MoreTypes DEF Token
  <2>2. /\ home' \in Seq(Platforms) /\ Len(home') = new
        /\ home'[new] = p /\ \A t \in 1 .. Len(home) : home'[t] = home[t]
    BY <1>1, <1>2 DEF TokenTypes
  <2>3. Made' = 1 .. new
    BY <2>2 DEF Made
  <2>4. new \notin Made /\ Made' = Made \cup {new}
    BY <2>1, <2>3
  <2>5. flags'[p][new] = "normal"
    BY <1>1, <1>2, <2>1 DEF TokenTypes
  <2>6. \A q \in Platforms, t \in Made : flags'[q][t] = flags[q][t]
    BY <1>1, <1>2, <2>1, <2>4 DEF TokenTypes
  <2>7. QED  BY <2>1, <2>2, <2>4, <2>5, <2>6
<1>6. ValidAt(p)' = ValidAt(p) \cup {new}
  BY <1>5 DEF ValidAt, Valid
<1>7. \A q \in Platforms : q # p => ValidAt(q)' = ValidAt(q)
  BY <1>5, MoreTypes DEF ValidAt, Valid
<1>8. \A q \in Platforms : Limit(q)' = Limit(q)
  BY <1>1 DEF Limit
<1>9. Cardinality(ValidAt(p)') =< Limit(p)
  <2>1. CASE Unlimited(p)
    <3>1. (\A S \in SUBSET Made : Cardinality(S) =< MaxLogins)'
      <4>1. (TokenTypes => \A S \in SUBSET Made : Cardinality(S) =< MaxLogins)'
        BY FewTokens, PTL
      <4>2. QED  BY <4>1
    <3>2. ValidAt(p)' \subseteq Made'
      BY DEF ValidAt
    <3>3. QED  BY <2>1, <3>1, <3>2, LimitType
  <2>2. CASE ~Unlimited(p)
    <3>1. Cardinality(ValidAt(p) \ {}) + 1 =< Limit(p)
      BY <1>1, <1>2, <1>3, <2>2 DEF Limits, RoomForNew
    <3>2. ValidAt(p) \ {} = ValidAt(p) /\ new \notin ValidAt(p) /\ ValidAt(p) \subseteq Made
      BY <1>5 DEF ValidAt
    <3>3. Cardinality(ValidAt(p)') = Cardinality(ValidAt(p)) + 1
      BY <1>6, <3>2, FiniteValid, FS_AddElement
    <3>4. QED  BY <3>1, <3>2, <3>3
  <2>3. QED  BY <2>1, <2>2
<1>10. ASSUME NEW q \in Platforms  PROVE Cardinality(ValidAt(q)') =< Limit(q)
  BY <1>3, <1>7, <1>9 DEF Limits, WithinLimit
<1>11. WithinLimit'
  BY <1>8, <1>10 DEF WithinLimit
<1>12. QED  BY <1>4, <1>11 DEF Limits

(* What makes no token and is not part of a login keeps the limits. *)
LEMMA OtherLimits ==
    ASSUME TokenTypes, ~overlapped => Alone /\ Fresh /\ Limits, ~overlapped', [TokensNext]_TokenVars,
           UNCHANGED home,
           \/ UNCHANGED <<work, flags>>
           \/ \A h \in Goroutines : work'[h].pc \notin {"delete", "kick"}
    PROVE  Limits'
<1>1. Limits /\ NoMoreNormal
  BY CalmByNext DEF CalmStep
<1>2. WithinLimit' /\ UNCHANGED policy
  BY <1>1, FewerLimits, PolicyKept DEF Limits
<1>3. RoomForNew'
  <2>1. CASE UNCHANGED <<work, flags>>
    BY <1>1, <1>2, <2>1 DEF Limits, RoomForNew, Unlimited, Limit, ValidAt, Valid, Made
  <2>2. CASE \A h \in Goroutines : work'[h].pc \notin {"delete", "kick"}
    BY <2>2 DEF RoomForNew
  <2>3. QED  BY <2>1, <2>2
<1>4. QED  BY <1>2, <1>3 DEF Limits

(* One acts and is at no login then. *)
LEMMA ActsElsewhere ==
    ASSUME TokenTypes, ~overlapped => Alone, ~overlapped', NEW g \in Goroutines, NEW a,
           Takes(g, a) \/ (Busy(g) /\ Goes(g, a)),
           a.pc \notin {"delete", "kick"}
    PROVE  \A h \in Goroutines : work'[h].pc \notin {"delete", "kick"}
<1>1. work'[g] = a /\ \A h \in Goroutines : h # g => work'[h].pc = "idle"
  BY OneActs
<1>2. QED  BY <1>1

(* Every step, as long as nobody has overlapped. *)
LEMMA LimitsByNext ==
    ASSUME TokenTypes, TokenTypes', ~overlapped => Alone /\ Fresh /\ Limits, ~overlapped',
           [TokensNext]_TokenVars
    PROVE  Limits'
<1>1. CASE \E g \in Callers : \/ DeleteOld(g) \/ KickOld(g) \/ SetToken(g)
                              \/ \E p \in Platforms : Login(g, p)
  BY <1>1, LoginLimits, KickLimits, SetLimits
<1>2. CASE UNCHANGED TokenVars
  BY <1>2, OtherLimits DEF TokenVars
<1>3. ASSUME NEW g \in Goroutines, OperationFails(g)  PROVE Limits'
  <2>1. Busy(g) /\ Goes(g, NoWork) /\ UNCHANGED home
    BY <1>3 DEF OperationFails, Busy
  <2>2. QED  BY <2>1, ActsElsewhere, OtherLimits, OtherTypes
<1>4. ASSUME NEW g \in Callers, NEW p \in Platforms, ForceLogout(g, p)  PROVE Limits'
  <2> DEFINE after == [pc |-> "force", at |-> p, map |-> Snapshot(p), kick |-> InHash(p)]
  <2>1. Takes(g, after) /\ UNCHANGED home /\ g \in Goroutines /\ after.pc = "force"
    BY <1>4, MoreTypes DEF ForceLogout
  <2> HIDE DEF after
  <2>2. QED  BY <2>1, ActsElsewhere, OtherLimits
<1>5. ASSUME NEW g \in Callers, ForceWrite(g)  PROVE Limits'
  <2> DEFINE a == work[g]
  <2>1. Busy(g) /\ UNCHANGED home /\ g \in Goroutines /\ a \in Forces /\ a.pc = "force"
    BY <1>5, MoreTypes, WorkTypes DEF ForceWrite, Busy
  <2>2. PICK after : Goes(g, after) /\ after.pc \in {"idle", "force"}
    <3>1. CASE Goes(g, NoWork)
      BY <3>1, OtherTypes
    <3>2. ASSUME NEW m, NEW K, Goes(g, [a EXCEPT !.map = m, !.kick = K])
          PROVE  \E after : Goes(g, after) /\ after.pc \in {"idle", "force"}
      <4>1. [a EXCEPT !.map = m, !.kick = K].pc = "force"
        BY <2>1 DEF Forces
      <4>2. QED  BY <3>2, <4>1
    <3>3. \/ Goes(g, NoWork)
          \/ \E t \in a.kick :
               Goes(g, [a EXCEPT !.map = [a.map EXCEPT ![t] = "kicked"], !.kick = @ \ {t}])
      BY <1>5 DEF ForceWrite
    <3>4. QED  BY <3>1, <3>2, <3>3
  <2>3. QED  BY <2>1, <2>2, ActsElsewhere, OtherLimits
<1>6. ASSUME NEW t \in Token, AcceptConn(t) \/ CloseConn(t) \/ RegisterConn(t)  PROVE Limits'
  <2>1. UNCHANGED <<home, flags>>
    BY <1>6 DEF AcceptConn, CloseConn, RegisterConn
  <2>2. \/ UNCHANGED work
        \/ Takes(EventLoop, [pc |-> "kickTokens", kick |-> DisplacedTokens(t)])
        \/ Takes(EventLoop, [pc |-> "invalidate", at |-> home[t], keep |-> t])
    BY <1>6 DEF AcceptConn, CloseConn, RegisterConn
  <2>3. QED  BY <2>1, <2>2, MoreTypes, ActsElsewhere, OtherLimits
<1>7. CASE KickTokens \/ Invalidate \/ InvalidateWrite
  <2>1. Busy(EventLoop) /\ UNCHANGED home /\ EventLoop \in Goroutines
    BY <1>7, MoreTypes DEF KickTokens, Invalidate, InvalidateWrite, Busy
  <2>2. \E after : Goes(EventLoop, after) /\ after.pc \in {"idle", "write"}
    <3>1. \/ Goes(EventLoop, NoWork)
          \/ \E p, m : Goes(EventLoop, [pc |-> "write", at |-> p, map |-> m])
      BY <1>7 DEF KickTokens, Invalidate, InvalidateWrite
    <3>2. CASE Goes(EventLoop, NoWork)
      BY <3>2, OtherTypes
    <3>3. ASSUME NEW p, NEW m, Goes(EventLoop, [pc |-> "write", at |-> p, map |-> m])
          PROVE  \E after : Goes(EventLoop, after) /\ after.pc \in {"idle", "write"}
      <4>1. [pc |-> "write", at |-> p, map |-> m].pc = "write"
        OBVIOUS
      <4>2. QED  BY <3>3, <4>1
    <3>4. QED  BY <3>1, <3>2, <3>3
  <2>3. QED  BY <2>1, <2>2, ActsElsewhere, OtherLimits
<1>8. QED
  BY <1>1, <1>2, <1>3, <1>4, <1>5, <1>6, <1>7 DEF TokensNext

-----------------------------------------------------------------------------
(* Logins that displace those before them, none of which failed half way.   *)
Displacing == policy = "AllLoginButSameTermKick" /\ forced = 0 /\ ~excused

(* It was so before if it is so now, and the newest tokens are valid but for *)
(* those of a platform where a login kicks.                                  *)
LEMMA DisplacingBefore ==
    ASSUME TokenTypes, ~overlapped => Alone /\ Fresh /\ NewestInv, ~overlapped',
           [TokensNext]_TokenVars, Displacing'
    PROVE  /\ Displacing /\ ~overlapped /\ Alone /\ NewestHolds /\ NewestKept
           /\ UNCHANGED forced
<1>1. ~overlapped
  BY CalmByNext DEF CalmStep
<1>2. policy = "AllLoginButSameTermKick"
  BY PolicyKept DEF Displacing
<1>3. forced \in Nat /\ (forced' = forced \/ forced' = forced + 1)
  <2>1. forced \in Nat
    <3>1. forced \in 0..MaxForced /\ MaxForced \in Nat
      BY OtherTypes, MoreTypes, Zenon
    <3>2. QED  BY <3>1, SMTT(30)
  <2>2. forced' = forced \/ forced' = forced + 1
    BY Zenon DEF TokensNext, TokenVars, Login, ForceLogout, DeleteOld, KickOld, SetToken, ForceWrite,
         OperationFails, AcceptConn, CloseConn, RegisterConn, KickTokens, Invalidate,
         InvalidateWrite
  <2>3. QED  BY <2>1, <2>2
<1>4. forced' = 0
  BY DEF Displacing
<1>5. forced = 0 /\ UNCHANGED forced
  <2>1. \A n \in Nat : n + 1 # 0
    OBVIOUS
  <2>2. QED  BY <1>3, <1>4, <2>1, Zenon
<1>6. excused => excused'
  BY Zenon DEF TokensNext, TokenVars, Login, ForceLogout, DeleteOld, KickOld, SetToken, ForceWrite,
       OperationFails, AcceptConn, CloseConn, RegisterConn, KickTokens, Invalidate,
       InvalidateWrite
<1>7. Displacing
  BY <1>2, <1>5, <1>6 DEF Displacing
<1>8. QED  BY <1>1, <1>5, <1>7 DEF Displacing, NewestInv

(* Nobody is about to write or to invalidate. *)
LEMMA NothingToKeep ==
    ASSUME \A h \in Goroutines : work'[h].pc \in {"idle", "delete", "kick"}
    PROVE  NewestKept'
BY DEF NewestKept

(* Where nobody kicks the newest tokens are valid, and stay so if no flag is *)
(* changed.                                                                  *)
LEMMA NewestAreValid ==
    ASSUME NewestHolds, \A h \in Goroutines : work[h].pc # "kick"
    PROVE  /\ \A t \in Made : Newest(t) => Valid(t)
           /\ UNCHANGED <<home, flags>> => NewestHolds'
BY DEF NewestHolds, Newest, Valid, Made

(* The only one who works kicks at p: elsewhere the newest tokens are valid. *)
LEMMA NewestElsewhere ==
    ASSUME NewestHolds, NEW g, NEW p, work[g].at = p,
           \A h \in Goroutines : h # g => work[h].pc = "idle"
    PROVE  \A t \in Made : Newest(t) /\ home[t] # p => Valid(t)
BY DEF NewestHolds

(* A login begins, deletes marks and kicks. *)
LEMMA LoginNewest ==
    ASSUME TokenTypes, ~overlapped => Alone, ~overlapped', NewestHolds, NewestKept, NEW g \in Callers,
           (\E p \in Platforms : Login(g, p)) \/ DeleteOld(g) \/ KickOld(g)
    PROVE  NewestHolds' /\ NewestKept'
<1> DEFINE a == work[g]
<1>0. g \in Goroutines
  BY MoreTypes
<1>1. ASSUME NEW p \in Platforms, Login(g, p)  PROVE NewestHolds' /\ NewestKept'
  <2>1. PICK K, old : Takes(g, [pc |-> "delete", at |-> p, kick |-> K, old |-> old])
    BY <1>1 DEF Login
  <2>2. /\ work'[g] = [pc |-> "delete", at |-> p, kick |-> K, old |-> old]
        /\ \A h \in Goroutines : h # g => work[h].pc = "idle" /\ work'[h].pc = "idle"
    BY <1>0, <2>1, OneActs
  <2>3. work[g].pc = "idle"
    BY <2>1 DEF Takes
  <2>4. NewestKept'
    BY <2>2, NothingToKeep
  <2>5. UNCHANGED <<home, flags>>
    BY <1>1 DEF Login
  <2>6. \A h \in Goroutines : work[h].pc # "kick"
    BY <2>2, <2>3
  <2>7. QED  BY <2>4, <2>5, <2>6, NewestAreValid
<1>2. CASE DeleteOld(g) \/ KickOld(g)
  <2>1. UNCHANGED home /\ a.pc \in {"delete", "kick"}
    BY <1>2 DEF DeleteOld, KickOld
  <2>2. a \in Logins
    BY <1>0, <2>1, WorkTypes
  <2>3. PICK p \in Platforms : p = a.at
    BY <2>2 DEF Logins
  <2>4. \A q \in Platforms \ {p} : flags'[q] = flags[q]
    BY <1>2, <2>3 DEF DeleteOld, KickOld, TokenTypes
  <2>5. PICK after : Goes(g, after) /\ after.pc = "kick" /\ after.at = p
    <3>1. [a EXCEPT !.pc = "kick"].pc = "kick" /\ [a EXCEPT !.pc = "kick"].at = p
      BY <2>2, <2>3 DEF Logins
    <3>2. ASSUME NEW K, a.pc = "kick"
          PROVE  [a EXCEPT !.kick = K].pc = "kick" /\ [a EXCEPT !.kick = K].at = p
      BY <2>2, <2>3, <3>2 DEF Logins
    <3>3. CASE DeleteOld(g)
      BY <3>1, <3>3 DEF DeleteOld
    <3>4. CASE KickOld(g)
      <4>1. PICK t \in a.kick : Goes(g, [a EXCEPT !.kick = @ \ {t}])
        BY <3>4 DEF KickOld
      <4>2. a.pc = "kick"
        BY <3>4 DEF KickOld
      <4>3. QED  BY <3>2, <4>1, <4>2
    <3>5. QED  BY <1>2, <3>3, <3>4
  <2>6. /\ work'[g] = after
        /\ \A h \in Goroutines : h # g => work[h].pc = "idle" /\ work'[h].pc = "idle"
    BY <1>0, <2>1, <2>5, OneActs DEF Busy
  <2>7. NewestKept'
    BY <2>5, <2>6, NothingToKeep
  <2>8. \A t \in Made : Newest(t) /\ home[t] # p => Valid(t)
    BY <2>3, <2>6, NewestElsewhere
  <2>9. ASSUME NEW t \in Made, Newest(t), home[t] # p  PROVE flags'[home[t]][t] = "normal"
    BY <2>4, <2>8, <2>9, MoreTypes DEF Valid
  <2>10. work'[g].pc = "kick" /\ work'[g].at = p
    BY <2>5, <2>6
  <2>11. NewestHolds'
    BY <1>0, <2>1, <2>9, <2>10 DEF NewestHolds, Newest, Valid, Made
  <2>12. QED  BY <2>7, <2>11
<1>3. QED  BY <1>1, <1>2

(* The new token is the newest one of its platform. *)
LEMMA SetNewest ==
    ASSUME TokenTypes, ~overlapped => Alone, ~overlapped', NewestHolds, NEW g \in Callers, SetToken(g)
    PROVE  NewestHolds' /\ NewestKept'
<1> DEFINE a == work[g]
<1> DEFINE new == Len(home) + 1
<1>1. /\ a.pc = "kick" /\ Len(home) < MaxLogins
      /\ home' = Append(home, a.at)
      /\ flags' = [flags EXCEPT ![a.at][new] = "normal"]
      /\ Goes(g, NoWork) /\ g \in Goroutines
  BY MoreTypes DEF SetToken
<1>2. PICK p \in Platforms : p = a.at
  BY <1>1, WorkTypes DEF Logins
<1>3. \A h \in Goroutines : (h # g => work[h].pc = "idle") /\ work'[h].pc = "idle"
  <2>1. /\ work'[g] = NoWork
        /\ \A h \in Goroutines : h # g => work[h].pc = "idle" /\ work'[h].pc = "idle"
    BY <1>1, OneActs DEF Busy
  <2>2. QED  BY <2>1, OtherTypes
<1>4. NewestKept'
  BY <1>3, NothingToKeep
<1>5. /\ Made' = Made \cup {new} /\ Made = 1 .. Len(home) /\ home'[new] = p
      /\ \A t \in Made : home'[t] = home[t] /\ t < new
      /\ flags'[p][new] = "normal"
      /\ \A q \in Platforms, t \in Made : flags'[q][t] = flags[q][t]
  <2>1. new \in Token /\ Made = 1 .. Len(home) /\ Len(home) \in Nat
    BY <1>1, MoreTypes DEF Token
  <2>2. /\ home' \in Seq(Platforms) /\ Len(home') = new
        /\ home'[new] = p /\ \A t \in 1 .. Len(home) : home'[t] = home[t]
    BY <1>1, <1>2 DEF TokenTypes
  <2>3. Made' = 1 .. new
    BY <2>2 DEF Made
  <2>4. new \notin Made /\ Made' = Made \cup {new} /\ \A t \in Made : t < new
    BY <2>1, <2>3
  <2>5. flags'[p][new] = "normal"
    BY <1>1, <1>2, <2>1 DEF TokenTypes
  <2>6. \A q \in Platforms, t \in Made : flags'[q][t] = flags[q][t]
    BY <1>1, <1>2, <2>1, <2>4 DEF TokenTypes
  <2>7. QED  BY <2>1, <2>2, <2>4, <2>5, <2>6
<1>6. \A t \in Made : Newest(t) /\ home[t] # p => Valid(t)
  BY <1>2, <1>3, NewestElsewhere
<1>7. ASSUME NEW t \in Made', Newest(t)'  PROVE Valid(t)'
  <2>1. CASE t = new
    BY <1>5, <2>1 DEF Valid
  <2>2. CASE t \in Made
    <3>1. home[t] # p
      <4>1. SUFFICES ASSUME home[t] = p  PROVE FALSE
        OBVIOUS
      <4>2. new \in Made' /\ home'[new] = home'[t]
        BY <1>5, <2>2, <4>1
      <4>3. new =< t
        BY <1>7, <4>2 DEF Newest
      <4>4. t \in Nat /\ t < new /\ new \in Nat
        BY <1>5, <2>2, MoreTypes
      <4>5. QED  BY <4>3, <4>4
    <3>2. Newest(t)
      BY <1>5, <1>7, <2>2 DEF Newest
    <3>3. Valid(t) /\ home[t] \in Platforms
      BY <1>6, <2>2, <3>1, <3>2, MoreTypes
    <3>4. QED  BY <1>5, <2>2, <3>3 DEF Valid
  <2>3. QED  BY <1>5, <1>7, <2>1, <2>2
<1>8. NewestHolds'
  BY <1>7 DEF NewestHolds
<1>9. QED  BY <1>4, <1>8

(* The event loop, and calls that fail. *)
LEMMA LoopNewest ==
    ASSUME TokenTypes, ~overlapped => Alone /\ Fresh, ~overlapped', NewestHolds, NewestKept,
           Displacing, Displacing',
           \/ \E t \in Token : RegisterConn(t)
           \/ Invalidate \/ InvalidateWrite \/ \E g \in Goroutines : OperationFails(g)
    PROVE  NewestHolds' /\ NewestKept'
<1> DEFINE a == work[EventLoop]
<1>0. EventLoop \in Goroutines
  BY MoreTypes
<1>1. ASSUME NEW t \in Token, RegisterConn(t)  PROVE NewestHolds' /\ NewestKept'
  <2>1. /\ t \in accepted /\ UNCHANGED <<home, flags>>
        /\ excused' = (excused \/ \E u \in Made : u > t /\ home[u] = home[t])
    BY <1>1 DEF RegisterConn
  <2>2. t \in Made /\ ~\E u \in Made : u > t /\ home[u] = home[t]
    BY <2>1, OtherTypes DEF Displacing
  <2>3. CASE UNCHANGED work
    BY <2>1, <2>3 DEF NewestHolds, NewestKept, Newest, Valid, Made
  <2>4. CASE Takes(EventLoop, [pc |-> "invalidate", at |-> home[t], keep |-> t])
    <3>1. /\ work'[EventLoop] = [pc |-> "invalidate", at |-> home[t], keep |-> t]
          /\ \A h \in Goroutines : h # EventLoop => work[h].pc = "idle" /\ work'[h].pc = "idle"
          /\ work[EventLoop].pc = "idle"
      <4>1. work[EventLoop].pc = "idle"
        BY <2>4 DEF Takes
      <4>2. QED  BY <1>0, <2>4, <4>1, OneActs
    <3>2. \A h \in Goroutines : work[h].pc # "kick"
      BY <3>1
    <3>3. NewestHolds'
      BY <2>1, <3>2, NewestAreValid
    <3>4. ASSUME NEW s \in Made, home[s] = home[t], Newest(s)  PROVE s = t
      <4>1. t =< s /\ ~(s > t) /\ s \in Nat /\ t \in Nat
        BY <2>2, <3>4, MoreTypes DEF Newest
      <4>2. QED  BY <4>1
    <3>5. ASSUME NEW h \in Goroutines, work'[h].pc # "idle"
          PROVE  work'[h] = [pc |-> "invalidate", at |-> home[t], keep |-> t]
      BY <3>1, <3>5
    <3>6. NewestKept'
      BY <2>1, <3>4, <3>5 DEF NewestKept, Newest, Made
    <3>7. QED  BY <3>3, <3>6
  <2>5. UNCHANGED work \/ Takes(EventLoop, [pc |-> "invalidate", at |-> home[t], keep |-> t])
    BY <1>1 DEF RegisterConn, Displacing
  <2>6. QED  BY <2>3, <2>4, <2>5
<1>2. CASE Invalidate
  <2> DEFINE m == [t \in InHash(a.at) |-> IF t = a.keep THEN flags[a.at][t] ELSE "kicked"]
  <2>1. /\ a.pc = "invalidate" /\ Goes(EventLoop, [pc |-> "write", at |-> a.at, map |-> m])
        /\ UNCHANGED <<home, flags>>
    BY <1>2 DEF Invalidate
  <2>2. PICK p \in Platforms : p = a.at
    BY <1>0, <2>1, WorkTypes
  <2>3. /\ work'[EventLoop] = [pc |-> "write", at |-> p, map |-> m]
        /\ \A h \in Goroutines : h # EventLoop => work[h].pc = "idle" /\ work'[h].pc = "idle"
    BY <1>0, <2>1, <2>2, OneActs DEF Busy
  <2>4. \A h \in Goroutines : work[h].pc # "kick"
    BY <2>1, <2>3
  <2>5. NewestHolds' /\ \A t \in Made : Newest(t) => Valid(t)
    BY <2>1, <2>4, NewestAreValid
  <2>6. ASSUME NEW t \in Made, home[t] = p, Newest(t)  PROVE t \in DOMAIN m /\ m[t] = "normal"
    <3>1. t = a.keep
      BY <1>0, <2>1, <2>2, <2>6 DEF NewestKept
    <3>2. flags[p][t] = "normal"
      BY <2>5, <2>6 DEF Valid
    <3>3. t \in InHash(p)
      BY <3>2, MoreTypes, SnapshotType
    <3>4. QED  BY <2>2, <3>1, <3>2, <3>3
  <2> HIDE DEF m
  <2>7. ASSUME NEW h \in Goroutines, work'[h].pc # "idle"
        PROVE  work'[h] = [pc |-> "write", at |-> p, map |-> m]
    BY <2>3, <2>7
  <2>8. NewestKept'
    BY <2>1, <2>6, <2>7 DEF NewestKept, Newest, Made
  <2>9. QED  BY <2>5, <2>8
<1>3. CASE InvalidateWrite
  <2>1. /\ a.pc = "write" /\ WriteMap(a.at, a.map) /\ Goes(EventLoop, NoWork)
        /\ UNCHANGED home
    BY <1>3 DEF InvalidateWrite
  <2>2. a.at \in Platforms /\ a.map \in PartialFlags
    BY <1>0, <2>1, WorkTypes
  <2>3. /\ work'[EventLoop] = NoWork
        /\ \A h \in Goroutines : h # EventLoop => work[h].pc = "idle" /\ work'[h].pc = "idle"
    BY <1>0, <2>1, OneActs DEF Busy
  <2>4. NewestKept'
    BY <2>3, OtherTypes, NothingToKeep
  <2>5. \A h \in Goroutines : work[h].pc # "kick"
    BY <2>1, <2>3
  <2>6. ASSUME NEW t \in Made, Newest(t)  PROVE flags'[home[t]][t] = "normal"
    <3>1. flags[home[t]][t] = "normal" /\ home[t] \in Platforms
      BY <2>5, <2>6, NewestAreValid, MoreTypes DEF Valid
    <3>2. CASE home[t] = a.at
      <4>1. t \in DOMAIN a.map /\ a.map[t] = "normal"
        BY <1>0, <2>1, <2>6, <3>2 DEF NewestKept
      <4>2. QED  BY <2>1, <2>2, <3>2, <4>1, WriteMapType
    <3>3. CASE home[t] # a.at
      <4>1. flags'[home[t]] = flags[home[t]]
        BY <2>1, <2>2, <3>1, <3>3, WriteMapType
      <4>2. QED  BY <3>1, <4>1
    <3>4. QED  BY <3>2, <3>3
  <2>7. NewestHolds'
    BY <2>1, <2>6 DEF NewestHolds, Newest, Valid, Made
  <2>8. QED  BY <2>4, <2>7
<1>4. ASSUME NEW g \in Goroutines, OperationFails(g)  PROVE NewestHolds' /\ NewestKept'
  <2>1. /\ Busy(g) /\ Goes(g, NoWork) /\ UNCHANGED <<home, flags>>
        /\ excused' = (excused \/ work[g].pc = "kick")
    BY <1>4 DEF OperationFails, Busy
  <2>2. work[g].pc # "kick"
    BY <2>1 DEF Displacing
  <2>3. /\ work'[g] = NoWork
        /\ \A h \in Goroutines : h # g => work[h].pc = "idle" /\ work'[h].pc = "idle"
    BY <2>1, OneActs
  <2>4. NewestKept'
    BY <2>3, OtherTypes, NothingToKeep
  <2>5. \A h \in Goroutines : work[h].pc # "kick"
    BY <2>2, <2>3
  <2>6. QED  BY <2>1, <2>4, <2>5, NewestAreValid
<1>5. QED  BY <1>1, <1>2, <1>3, <1>4

(* Every step, as long as nobody has overlapped. *)
LEMMA NewestByNext ==
    ASSUME TokenTypes, ~overlapped => Alone /\ Fresh /\ NewestInv, ~overlapped',
           [TokensNext]_TokenVars
    PROVE  NewestInv'
<1>1. SUFFICES ASSUME Displacing'  PROVE NewestHolds' /\ NewestKept'
  BY DEF NewestInv, Displacing
<1>2. /\ Displacing /\ ~overlapped /\ Alone /\ Fresh /\ NewestHolds /\ NewestKept
      /\ UNCHANGED forced
  BY <1>1, DisplacingBefore
<1>3. CASE \E g \in Callers : \/ DeleteOld(g) \/ KickOld(g) \/ SetToken(g)
                              \/ \E p \in Platforms : Login(g, p)
  BY <1>2, <1>3, LoginNewest, SetNewest
<1>4. CASE \/ \E t \in Token : RegisterConn(t)
           \/ Invalidate \/ InvalidateWrite \/ \E g \in Goroutines : OperationFails(g)
  BY <1>1, <1>2, <1>4, LoopNewest
<1>5. CASE UNCHANGED TokenVars \/ \E t \in Token : AcceptConn(t) \/ CloseConn(t)
  <2>1. UNCHANGED <<home, flags, work>>
    BY <1>5 DEF TokenVars, AcceptConn, CloseConn
  <2>2. QED  BY <1>2, <2>1 DEF NewestHolds, NewestKept, Newest, Valid, Made
<1>6. CASE \E g \in Callers, p \in Platforms : ForceLogout(g, p)
  <2>1. forced' = forced + 1 /\ forced = 0
    BY <1>2, <1>6 DEF ForceLogout, Displacing
  <2>2. QED  BY <1>2, <2>1
<1>7. CASE KickTokens \/ \E g \in Callers : ForceWrite(g)
  <2>1. \E g \in Goroutines : work[g].pc \in {"force", "kickTokens"}
    BY <1>7, MoreTypes DEF KickTokens, ForceWrite
  <2>2. QED  BY <1>2, <2>1 DEF NewestKept
<1>8. QED
  BY <1>3, <1>4, <1>5, <1>6, <1>7 DEF TokensNext

-----------------------------------------------------------------------------
(* At first there are no tokens and nobody works. *)
LEMMA TokensInvAtFirst == TokensInit => TokensInv
<1> SUFFICES ASSUME TokensInit  PROVE TokensInv
  OBVIOUS
<1> USE DEF TokensInit
<1>1. MaxLogins \in Nat /\ MaxForced \in Nat /\ MaxNumOneEnd \in Nat
  BY TokensAssumption
<1>2. Made = {} /\ Len(home) = 0 /\ home \in Seq(Platforms)
  BY DEF Made
<1>3. \A g \in Goroutines : work[g] = NoWork /\ work[g].pc = "idle"
  BY DEF NoWork
<1>4. TokenTypes
  <2>1. flags \in [Platforms -> [Token -> Flags]]
    BY DEF Flags
  <2>2. work \in [Goroutines -> {NoWork} \cup Logins \cup Forces \cup LoopWork]
    OBVIOUS
  <2>3. Len(home) =< MaxLogins /\ forced \in 0..MaxForced
    BY <1>1, <1>2
  <2>4. \A g \in Goroutines : work[g].pc = "force" => work[g].kick \subseteq DOMAIN work[g].map
    BY <1>3
  <2>5. /\ policy \in Policies /\ accepted \subseteq Made /\ conns \subseteq Made
        /\ overlapped \in BOOLEAN /\ excused \in BOOLEAN
    OBVIOUS
  <2>6. QED  BY <1>2, <2>1, <2>2, <2>3, <2>4, <2>5 DEF TokenTypes
<1>5. Alone /\ Fresh /\ RoomForNew
  BY <1>3 DEF Alone, Busy, Fresh, RoomForNew
<1>6. WithinLimit
  <2>1. \A p \in Platforms : ValidAt(p) = {}
    BY <1>2 DEF ValidAt
  <2>2. \A p \in Platforms : Cardinality(ValidAt(p)) = 0
    BY <2>1, FS_EmptySet
  <2>3. \A p \in Platforms : Limit(p) \in Nat
    BY <1>4, LimitType
  <2>4. \A p \in Platforms : 0 =< Limit(p)
    BY <2>3
  <2>5. QED  BY <2>2, <2>4 DEF WithinLimit
<1>7. NewestInv
  BY <1>2, <1>3 DEF NewestInv, NewestHolds, NewestKept
<1>8. QED  BY <1>4, <1>5, <1>6, <1>7 DEF TokensInv

(* Every step keeps the invariant. *)
LEMMA TokensInvByNext == TokensInv /\ [TokensNext]_TokenVars => TokensInv'
<1> SUFFICES ASSUME TokensInv, [TokensNext]_TokenVars  PROVE TokensInv'
  OBVIOUS
<1>1. TokenTypes /\ (~overlapped => Alone /\ Fresh /\ Limits /\ NewestInv)
  BY DEF TokensInv, Limits
<1>2. TokenTypes'
  BY <1>1, TokenTypesByNext
<1>3. ASSUME ~overlapped'  PROVE Alone' /\ Fresh' /\ Limits' /\ NewestInv'
  BY <1>1, <1>2, <1>3, CalmByNext, LimitsByNext, NewestByNext DEF CalmStep
<1>4. QED  BY <1>2, <1>3 DEF TokensInv, Limits

(* What the invariant says of a state in which nobody works. *)
LEMMA InvImplies == TokensInv => TokensTypeOK /\ LimitKept /\ NewestStaysValid
<1> SUFFICES ASSUME TokensInv  PROVE TokensTypeOK /\ LimitKept /\ NewestStaysValid
  OBVIOUS
<1>1. TokensTypeOK
  <2>1. TokenTypes
    BY DEF TokensInv
  <2>2. \A g \in Goroutines : work[g].pc \in {"idle", "delete", "kick", "force", "kickTokens",
                                              "invalidate", "write"}
    BY <2>1, WorkTypes
  <2>3. QED  BY <2>1, <2>2 DEF TokenTypes, TokensTypeOK
<1>2. LimitKept
  BY DEF TokensInv, WithinLimit, LimitKept
<1>3. ASSUME ~overlapped, ~excused, policy = "AllLoginButSameTermKick", Settled, forced = 0,
             NEW t \in Made, Newest(t)
      PROVE  Valid(t)
  <2>1. NewestHolds
    BY <1>3 DEF TokensInv, NewestInv
  <2>2. \A g \in Goroutines : work[g].pc # "kick"
    BY <1>3 DEF Settled
  <2>3. QED  BY <1>3, <2>1, <2>2, NewestAreValid
<1>4. NewestStaysValid
  BY <1>3 DEF NewestStaysValid, NewestIsValid, Newest
<1>5. QED  BY <1>1, <1>2, <1>4

(* The types of everything that is kept about tokens, for every policy and   *)
(* any number of goroutines that overlap as they like.                       *)
THEOREM TokensTypeCorrect == TokensSpec => []TokensTypeOK
BY TokensInvAtFirst, TokensInvByNext, InvImplies, PTL DEF TokensSpec

(* No platform has more valid tokens than the policy lets it have            *)
(* (checkToken and CreateToken, controller/auth.go), whatever calls of Redis *)
(* failed, as long as no two operations ran at the same time.                *)
THEOREM ValidTokensAreLimited == TokensSpec => []LimitKept
BY TokensInvAtFirst, TokensInvByNext, InvImplies, PTL DEF TokensSpec

(* Under AllLoginButSameTermKick the newest token of a platform is valid,    *)
(* whatever the event loop invalidates (InvalidateToken): unless operations  *)
(* overlapped, a login failed after it had begun to kick, or a connection    *)
(* was registered after a later login.                                       *)
THEOREM NewestTokenIsValid == TokensSpec => []NewestStaysValid
BY TokensInvAtFirst, TokensInvByNext, InvImplies, PTL DEF TokensSpec

(* A token that is no longer valid does not become valid again, by no        *)
(* operation of the auth service and of the event loop, although a hash is   *)
(* read whole and written whole (SetTokenMapByUidPid): as long as no two     *)
(* operations ran at the same time.                                          *)
THEOREM KickedTokenStaysKicked == TokensSpec => KickedStaysKicked
<1>1. TokensInv /\ [TokensNext]_TokenVars =>
        [~overlapped' => \A t \in Made : Valid(t)' => Valid(t)]_TokenVars
  <2> SUFFICES ASSUME TokensInv, [TokensNext]_TokenVars, ~overlapped', NEW t \in Made, Valid(t)'
               PROVE  Valid(t)
    OBVIOUS
  <2>1. TokenTypes /\ (~overlapped => Alone /\ Fresh)
    BY DEF TokensInv
  <2>2. QED  BY <2>1, StaysKicked
<1>2. QED
  BY <1>1, TokensInvAtFirst, TokensInvByNext, PTL DEF TokensSpec, KickedStaysKicked

-----------------------------------------------------------------------------
(* The message gateway. *)

Kicking == [pc : {"kick", "close"}, clients : SUBSET Objects,
            next : Objects \cup {Nobody}]

(* The types of what the argument needs. *)
LoopTypeOK ==
  /\ users \subseteq Objects
  /\ registerChan \in Seq(Objects) /\ kickChan \in Seq(SUBSET Objects)
  /\ kicking \in [{Loop, Rpc} -> {Rest} \cup Kicking]
  /\ kicking[Loop].pc # "close"

(* One client at most, and none while the loop is about to add one.         *)
OneOrNone ==
  exclusive =>
    /\ \A o, p \in users : o = p
    /\ kicking[Loop].pc = "kick" /\ kicking[Loop].next # Nobody => users = {}

OneInv == LoopTypeOK /\ OneOrNone

(* The first client and the rest of a channel. *)
LEMMA HeadAndTail ==
    ASSUME NEW S, NEW s \in Seq(S), s # <<>>
    PROVE  Head(s) \in S /\ Tail(s) \in Seq(S)
OBVIOUS

(* What takes clients out of the map puts none in. *)
LEMMA WithoutIsLess ==
    ASSUME NEW U, NEW C
    PROVE  Without(U, C) \subseteq U /\ Without(U, U) = {}
BY DEF Without

(* Fewer clients, and the loop as it is or idle, keep what is said. *)
LEMMA FewerClients ==
    ASSUME OneOrNone, UNCHANGED exclusive, users' \subseteq users,
           \/ kicking'[Loop].pc # "kick"
           \/ kicking'[Loop].next = Nobody
           \/ /\ kicking'[Loop].pc = kicking[Loop].pc
              /\ kicking'[Loop].next = kicking[Loop].next
    PROVE  OneOrNone'
BY DEF OneOrNone

(* The loop begins with a new client: under the exclusive policy the map is *)
(* empty.                                                                    *)
LEMMA RegisterKeeps ==
    ASSUME OneInv, Register
    PROVE  OneInv'
<1>1. /\ registerChan # <<>> /\ registerChan' = Tail(registerChan)
      /\ users' = Without(users, Displaced) /\ UNCHANGED <<exclusive, kickChan>>
      /\ kicking' = [kicking EXCEPT ![Loop] =
           [pc |-> "kick", clients |-> Displaced, next |-> Head(registerChan)]]
  BY DEF Register, Kicks, channels
<1>2. users' \subseteq users /\ Displaced \subseteq Objects
  BY <1>1, WithoutIsLess DEF Displaced, OneInv, LoopTypeOK
<1>3. Head(registerChan) \in Objects /\ registerChan' \in Seq(Objects)
  BY <1>1, HeadAndTail DEF OneInv, LoopTypeOK
<1>4. [pc |-> "kick", clients |-> Displaced, next |-> Head(registerChan)]
        \in Kicking
  BY <1>2, <1>3 DEF Kicking
<1>5. LoopTypeOK'
  BY <1>1, <1>2, <1>3, <1>4 DEF OneInv, LoopTypeOK
<1>6. exclusive => users' = {}
  BY <1>1, WithoutIsLess DEF Displaced
<1>7. OneOrNone'
  BY <1>1, <1>6 DEF OneOrNone
<1>8. QED  BY <1>5, <1>7 DEF OneInv

(* The loop adds the client: it is alone under the exclusive policy. *)
LEMMA RegisteredKeeps ==
    ASSUME OneInv, Registered
    PROVE  OneInv'
<1> DEFINE a == kicking[Loop]
<1>1. /\ a.pc = "kick" /\ kicking' = [kicking EXCEPT ![Loop] = Rest]
      /\ users' = IF a.next = Nobody THEN users ELSE users \cup {a.next}
      /\ UNCHANGED <<exclusive, registerChan, kickChan>>
  BY DEF Registered, channels
<1>2. a \in Kicking /\ kicking'[Loop] = Rest
  BY <1>1 DEF OneInv, LoopTypeOK, Rest
<1>3. LoopTypeOK'
  BY <1>1, <1>2 DEF OneInv, LoopTypeOK, Kicking, Rest
<1>4. exclusive /\ a.next # Nobody => users' = {a.next}
  BY <1>1 DEF OneInv, OneOrNone
<1>5. OneOrNone'
  BY <1>1, <1>2, <1>4 DEF OneInv, OneOrNone, Rest
<1>6. QED  BY <1>3, <1>5 DEF OneInv

(* The other steps of the loop only take clients out. *)
LEMMA LoopKeeps ==
    ASSUME OneInv, Unregister \/ KickElsewhere \/ \E o \in Objects : Kick(o)
    PROVE  OneInv'
<1>1. CASE Unregister
  <2>1. /\ users' \subseteq users
        /\ UNCHANGED <<exclusive, registerChan, kickChan, kicking>>
    BY <1>1, WithoutIsLess DEF Unregister
  <2>2. QED  BY <2>1, FewerClients DEF OneInv, LoopTypeOK
<1>2. CASE KickElsewhere
  <2>1. /\ kickChan # <<>> /\ kickChan' = Tail(kickChan)
        /\ UNCHANGED <<exclusive, registerChan>>
        /\ \/ UNCHANGED <<users, kicking>>
           \/ /\ users' = Without(users, Head(kickChan))
              /\ kicking' = [kicking EXCEPT ![Loop] =
                   [pc |-> "kick", clients |-> Head(kickChan),
                    next |-> Nobody]]
    BY <1>2 DEF KickElsewhere, Kicks
  <2>2. users' \subseteq users
    BY <2>1, WithoutIsLess
  <2>3. Head(kickChan) \in SUBSET Objects /\ kickChan' \in Seq(SUBSET Objects)
    BY <2>1, HeadAndTail DEF OneInv, LoopTypeOK
  <2>4. [pc |-> "kick", clients |-> Head(kickChan), next |-> Nobody]
          \in Kicking
    BY <2>3 DEF Kicking
  <2>5. LoopTypeOK'
    BY <2>1, <2>2, <2>3, <2>4 DEF OneInv, LoopTypeOK
  <2>6. \/ kicking'[Loop] = kicking[Loop]
        \/ kicking'[Loop].next = Nobody
    BY <2>1 DEF OneInv, LoopTypeOK
  <2>7. QED  BY <2>1, <2>2, <2>5, <2>6, FewerClients DEF OneInv
<1>3. ASSUME NEW o \in Objects, Kick(o)  PROVE OneInv'
  <2>1. /\ kicking[Loop].pc = "kick"
        /\ kicking' = [kicking EXCEPT ![Loop].clients = @ \ {o}]
        /\ UNCHANGED <<exclusive, users, registerChan, kickChan>>
    BY <1>3 DEF Kick, channels, map
  <2>2. kicking[Loop] \in Kicking
    BY <2>1 DEF OneInv, LoopTypeOK, Rest
  <2>3. /\ kicking'[Loop] \in Kicking /\ kicking'[Loop].pc = "kick"
        /\ kicking'[Loop].next = kicking[Loop].next
    BY <2>1, <2>2 DEF OneInv, LoopTypeOK, Kicking
  <2>4. LoopTypeOK'
    BY <2>1, <2>3 DEF OneInv, LoopTypeOK
  <2>5. QED  BY <2>1, <2>3, <2>4, FewerClients DEF OneInv
<1>4. QED  BY <1>1, <1>2, <1>3

(* KickUserOffline takes clients out of the map while the loop goes on. *)
LEMMA RpcKeeps ==
    ASSUME OneInv,
           KickUserOffline \/ KickUserConn \/ \E o \in Objects : DeleteConn(o)
    PROVE  OneInv'
<1>1. Loop # Rpc
  BY GatewayAssumption
<1> DEFINE Fewer ==
      /\ users' \subseteq users /\ kicking'[Loop] = kicking[Loop]
      /\ UNCHANGED <<exclusive, registerChan, kickChan>>
      /\ kicking' \in [{Loop, Rpc} -> {Rest} \cup Kicking]
<1>2. Fewer
  <2>1. CASE KickUserOffline
    <3>1. [pc |-> "kick", clients |-> users, next |-> Nobody] \in Kicking
      BY DEF OneInv, LoopTypeOK, Kicking
    <3>2. QED
      BY <1>1, <2>1, <3>1
      DEF KickUserOffline, Kicks, OneInv, LoopTypeOK, channels, map
  <2>2. CASE KickUserConn
    <3>1. kicking[Rpc] \in Kicking
      BY <2>2 DEF KickUserConn, OneInv, LoopTypeOK, Rest
    <3>2. [pc |-> "kick", clients |-> kicking[Rpc].clients, next |-> Nobody]
            \in Kicking
      BY <3>1 DEF Kicking
    <3>3. QED
      BY <1>1, <2>2, <3>2 DEF KickUserConn, OneInv, LoopTypeOK, channels, map
  <2>3. ASSUME NEW o \in Objects, DeleteConn(o)  PROVE Fewer
    <3>1. kicking[Rpc] \in Kicking
      BY <2>3 DEF DeleteConn, OneInv, LoopTypeOK, Rest
    <3>2. [pc |-> "close", clients |-> kicking[Rpc].clients \ {o},
           next |-> o] \in Kicking
      BY <3>1 DEF Kicking
    <3>3. QED
      BY <1>1, <2>3, <3>2, WithoutIsLess
      DEF DeleteConn, OneInv, LoopTypeOK, channels
  <2>4. QED  BY <2>1, <2>2, <2>3
<1>3. QED  BY <1>2, FewerClients DEF OneInv, LoopTypeOK

(* Every step keeps the invariant. *)
LEMMA OneByNext ==
    ASSUME OneInv, [GatewayNext]_GatewayVars
    PROVE  OneInv'
<1>1. CASE UNCHANGED GatewayVars
  BY <1>1 DEF GatewayVars, channels, map, OneInv, LoopTypeOK, OneOrNone
<1>2. CASE LoopNext
  BY <1>2, RegisterKeeps, RegisteredKeeps, LoopKeeps DEF LoopNext
<1>3. ASSUME NEW o \in Objects, Accept(o)  PROVE OneInv'
  <2>1. /\ registerChan' = Append(registerChan, o)
        /\ UNCHANGED <<exclusive, users, kickChan, kicking>>
    BY <1>3 DEF Accept, map
  <2>2. registerChan' \in Seq(Objects)
    BY <2>1 DEF OneInv, LoopTypeOK
  <2>3. QED  BY <2>1, <2>2 DEF OneInv, LoopTypeOK, OneOrNone
<1>4. CASE \E o \in Objects : DeleteConn(o)
  BY <1>4, RpcKeeps
<1>5. CASE \/ \E c \in Conns : ReadEnds(c) \/ ReaderCloses(c)
           \/ \E x \in Closers : UnRegister(x)
  <2>1. UNCHANGED <<exclusive, users, registerChan, kickChan, kicking>>
    BY <1>5 DEF ReadEnds, ReaderCloses, UnRegister, channels, map
  <2>2. QED  BY <2>1 DEF OneInv, LoopTypeOK, OneOrNone
<1>6. CASE LoginElsewhere
  <2>1. /\ kickChan' = Append(kickChan, users)
        /\ UNCHANGED <<exclusive, users, registerChan, kicking>>
    BY <1>6 DEF LoginElsewhere, map
  <2>2. kickChan' \in Seq(SUBSET Objects)
    BY <2>1 DEF OneInv, LoopTypeOK
  <2>3. QED  BY <2>1, <2>2 DEF OneInv, LoopTypeOK, OneOrNone
<1>7. CASE KickUserOffline \/ KickUserConn
  BY <1>7, RpcKeeps
<1>8. QED  BY <1>1, <1>2, <1>3, <1>4, <1>5, <1>6, <1>7 DEF GatewayNext

(* The map holds one client of a terminal at most, under the policy that     *)
(* keeps one connection of a terminal (registerClient and                    *)
(* multiTerminalLoginChecker): whatever closes, is kicked by other           *)
(* goroutines or comes back from the pool in the meantime.                   *)
THEOREM OneClientOfATerminal == GatewaySpec => []OneTerminal
<1>1. GatewayInit => OneInv
  BY DEF GatewayInit, OneInv, LoopTypeOK, OneOrNone, Rest
<1>2. OneInv /\ [GatewayNext]_GatewayVars => OneInv'
  BY OneByNext
<1>3. OneInv => OneTerminal
  <2>1. SUFFICES ASSUME OneInv, exclusive  PROVE Cardinality(users) =< 1
    BY DEF OneTerminal
  <2>2. CASE users = {}
    BY <2>2, FS_EmptySet
  <2>3. CASE users # {}
    <3>1. PICK o \in users : TRUE
      BY <2>3
    <3>2. users = {o}
      BY <2>1, <3>1 DEF OneInv, OneOrNone
    <3>3. Cardinality(users) = 1
      BY <3>2, FS_Singleton
    <3>4. QED  BY <3>3
  <2>4. QED  BY <2>2, <2>3
<1>4. QED  BY <1>1, <1>2, <1>3, PTL DEF GatewaySpec

-----------------------------------------------------------------------------
(* Every open connection is in the map, on its way there or about to be     *)
(* closed, and the counters agree.  A Client object that is closed goes     *)
(* through one stage after another, the goroutine that closes it,           *)
(* unregisterChan, the pool, and is in one of them only; so an address      *)
(* belongs to one object, however often the object was used before.         *)

In(s) == {s[i] : i \in DOMAIN s}
Used(o) == conn[o] # 0

(* The addresses of objects: connections that are open belong to the object *)
(* that reads from them and is not closed.                                  *)
Addresses ==
  /\ \A o \in Objects : Used(o) => conn[o] \in DOMAIN holder /\ holder[conn[o]] = o
  /\ \A o \in Objects : Used(o) /\ o \notin closed => conn[o] \in open
  /\ \A c \in open : /\ c \in DOMAIN holder
                     /\ conn[holder[c]] = c /\ holder[c] \notin closed

(* Who is mentioned anywhere has had a connection. *)
OnlyUsed ==
  /\ \A o \in users \cup In(registerChan) \cup In(holder) \cup closed : Used(o)
  /\ \A C \in In(kickChan) : \A o \in C : Used(o)
  /\ \A x \in {Loop, Rpc} : kicking[x] # Rest =>
       /\ \A o \in kicking[x].clients : Used(o)
       /\ kicking[x].next # Nobody => Used(kicking[x].next)
  /\ kicking[Rpc].pc = "close" => kicking[Rpc].next # Nobody

(* After it was closed an object is in one place. *)
Closing(o) == \E x \in Closers : closing[x] = o

OneStage ==
  /\ \A o \in pool : (Used(o) => o \in closed) /\ ~Closing(o) /\ o \notin In(unregisterChan)
  /\ \A o \in Objects \ pool :
       /\ Used(o)
       /\ o \in closed => Closing(o) \/ o \in In(unregisterChan)
  /\ \A x \in Closers : closing[x] # Nobody =>
       /\ closing[x] \in closed /\ closing[x] \notin In(unregisterChan)
       /\ \A y \in Closers : closing[y] = closing[x] => y = x
  /\ In(unregisterChan) \subseteq closed
  /\ \A i, j \in DOMAIN unregisterChan :
       unregisterChan[i] = unregisterChan[j] => i = j

(* The loop is about to put a client into the map. *)
Coming(o) == kicking[Loop].pc = "kick" /\ kicking[Loop].next = o

OpenIsKnown ==
  \A o \in Objects : Used(o) /\ o \notin closed =>
    \/ o \in users \cup In(registerChan) \/ Coming(o)
    \/ kicking[Loop].pc = "kick" /\ o \in kicking[Loop].clients
    \/ kicking[Rpc].pc = "close" /\ kicking[Rpc].next = o

KnownIsUsed ==
  ~early => \A o \in pool : o \notin users \cup In(registerChan) /\ ~Coming(o)

ComingNum == IF \E o \in Objects : Coming(o) THEN 1 ELSE 0
ClosingNum == Cardinality({x \in Closers : closing[x] # Nobody})

(* What has been registered, and what has been unregistered, in two ways.   *)
Counted ==
  /\ connNum + Len(registerChan) + ComingNum
       = Cardinality(open) + Len(unregisterChan) + ClosingNum
  /\ Len(registerChan) + ComingNum =< Len(holder)
  /\ Cardinality(open) + Len(unregisterChan) + ClosingNum =< Len(holder)

(* Types; that of connNum follows from the counts. *)
PlainTypes ==
  /\ exclusive \in BOOLEAN /\ conn \in [Objects -> 0..MaxConns]
  /\ closed \subseteq Objects /\ pool \subseteq Objects /\ open \subseteq Conns
  /\ holder \in Seq(Objects) /\ Len(holder) =< MaxConns
  /\ reader \in [1..Len(holder) -> {"reads", "ended", "done"}]
  /\ unregisterChan \in Seq(Objects) /\ connNum \in Int
  /\ Len(registerChan) =< ChanSize /\ Len(unregisterChan) =< ChanSize
  /\ Len(kickChan) =< ChanSize
  /\ closing \in [Closers -> Objects \cup {Nobody}]
  /\ kicks \in 0..MaxKicks /\ early \in BOOLEAN

GatewayTypes == PlainTypes /\ OneInv
Stages == Addresses /\ OneStage
ClientsKnown == OnlyUsed /\ OpenIsKnown /\ KnownIsUsed

GatewayInv == GatewayTypes /\ Stages /\ ClientsKnown /\ Counted

-----------------------------------------------------------------------------
(* What is in a channel after something was put in, and without its head.   *)
LEMMA ChannelAppend ==
    ASSUME NEW S, NEW s \in Seq(S), NEW x \in S
    PROVE  /\ In(Append(s, x)) = In(s) \cup {x} /\ Append(s, x) \in Seq(S)
           /\ Len(Append(s, x)) = Len(s) + 1 /\ Len(s) \in Nat
           /\ DOMAIN Append(s, x) = 1 .. Len(s) + 1 /\ DOMAIN s = 1 .. Len(s)
           /\ \A i \in 1 .. Len(s) : Append(s, x)[i] = s[i]
           /\ Append(s, x)[Len(s) + 1] = x
<1>1. /\ Append(s, x) \in Seq(S) /\ Len(Append(s, x)) = Len(s) + 1 /\ Len(s) \in Nat
      /\ DOMAIN Append(s, x) = 1 .. Len(s) + 1 /\ DOMAIN s = 1 .. Len(s)
      /\ \A i \in 1 .. Len(s) : Append(s, x)[i] = s[i]
      /\ Append(s, x)[Len(s) + 1] = x
  OBVIOUS
<1>2. 1 .. Len(s) + 1 = (1 .. Len(s)) \cup {Len(s) + 1}
  BY <1>1
<1> DEFINE t == Append(s, x)
<1> HIDE DEF t
<1>3. ASSUME DOMAIN t = (1 .. Len(s)) \cup {Len(s) + 1}, DOMAIN s = 1 .. Len(s),
             \A i \in 1 .. Len(s) : t[i] = s[i], t[Len(s) + 1] = x
      PROVE  In(t) = In(s) \cup {x}
  BY <1>3 DEF In
<1>4. QED  BY <1>1, <1>2, <1>3 DEF t

(* A channel without its head keeps the others, one place further on. *)
LEMMA ChannelTail ==
    ASSUME NEW S, NEW s \in Seq(S), s # <<>>
    PROVE  /\ Head(s) \in S /\ Head(s) \in In(s)
           /\ Tail(s) \in Seq(S) /\ Len(Tail(s)) = Len(s) - 1 /\ Len(s) \in Nat
           /\ In(Tail(s)) \subseteq In(s) /\ In(s) \subseteq In(Tail(s)) \cup {Head(s)}
           /\ DOMAIN Tail(s) = 1 .. Len(s) - 1 /\ 1 \in DOMAIN s /\ Head(s) = s[1]
           /\ \A i \in DOMAIN Tail(s) : i + 1 \in DOMAIN s /\ i + 1 # 1 /\ Tail(s)[i] = s[i + 1]
<1>1. /\ Head(s) \in S /\ Head(s) = s[1] /\ 1 \in DOMAIN s /\ DOMAIN s = 1 .. Len(s)
      /\ Tail(s) \in Seq(S) /\ Len(Tail(s)) = Len(s) - 1 /\ Len(s) \in Nat
      /\ DOMAIN Tail(s) = 1 .. Len(s) - 1
      /\ \A i \in DOMAIN Tail(s) : Tail(s)[i] = s[i + 1]
  OBVIOUS
<1>2. \A i \in DOMAIN Tail(s) : i + 1 \in DOMAIN s /\ i + 1 # 1
  BY <1>1
<1>3. \A i \in DOMAIN s : i = 1 \/ \E j \in DOMAIN Tail(s) : i = j + 1
  <2>1. \A i \in DOMAIN s : i = 1 \/ (i - 1 \in 1 .. Len(s) - 1 /\ i = (i - 1) + 1)
    BY <1>1
  <2>2. QED  BY <1>1, <2>1
<1>4. In(Tail(s)) \subseteq In(s)
  BY <1>1, <1>2 DEF In
<1>5. In(s) \subseteq In(Tail(s)) \cup {Head(s)}
  <2>1. ASSUME NEW i \in DOMAIN s  PROVE s[i] \in In(Tail(s)) \cup {Head(s)}
    <3>1. CASE i = 1
      BY <1>1, <3>1
    <3>2. ASSUME NEW j \in DOMAIN Tail(s), i = j + 1
          PROVE  s[i] \in In(Tail(s))
      <4>1. Tail(s)[j] = s[i]
        BY <1>1, <3>2
      <4>2. QED  BY <3>2, <4>1 DEF In
    <3>3. QED  BY <1>3, <3>1, <3>2
  <2>2. QED  BY <2>1 DEF In
<1>6. QED  BY <1>1, <1>2, <1>4, <1>5 DEF In

(* An address belongs to one object; what takes clients with their addresses *)
(* out of the map takes these clients out.                                   *)
LEMMA WithoutUsed ==
    ASSUME Addresses, NEW U, U \subseteq Objects, NEW C, C \subseteq Objects,
           \A o \in C : Used(o)
    PROVE  Without(U, C) = U \ C
BY DEF Addresses, Used, Without

-----------------------------------------------------------------------------
(* Close sends the object to unregisterChan if it was not closed. *)
LEMMA CloseTypes ==
    ASSUME PlainTypes, NEW x \in Closers, NEW o \in Objects, Close(x, o)
    PROVE  /\ closed' \subseteq Objects /\ open' \subseteq Conns
           /\ closing' \in [Closers -> Objects \cup {Nobody}]
BY DEF Close, PlainTypes

(* What most steps leave alone. *)
LEMMA PlainKept ==
    ASSUME PlainTypes, UNCHANGED <<exclusive, conn, closed, open, holder, reader, closing>>
    PROVE  /\ exclusive' \in BOOLEAN /\ conn' \in [Objects -> 0..MaxConns]
           /\ closed' \subseteq Objects /\ open' \subseteq Conns
           /\ holder' \in Seq(Objects) /\ Len(holder') =< MaxConns
           /\ reader' \in [1..Len(holder') -> {"reads", "ended", "done"}]
           /\ closing' \in [Closers -> Objects \cup {Nobody}]
BY DEF PlainTypes

(* Every variable keeps its type. *)
LEMMA GatewayTypesByNext ==
    ASSUME GatewayTypes, OnlyUsed, [GatewayNext]_GatewayVars
    PROVE  GatewayTypes'
<1> USE DEF GatewayTypes, objects, sockets, channels, map
<1>1. OneInv'
  BY OneByNext
<1>2. /\ registerChan \in Seq(Objects) /\ kickChan \in Seq(SUBSET Objects)
      /\ users \subseteq Objects /\ kicking \in [{Loop, Rpc} -> {Rest} \cup Kicking]
      /\ ChanSize \in Nat /\ MaxConns \in Nat /\ MaxKicks \in Nat
      /\ Loop \in Closers /\ Rpc \in Closers
  BY GatewayAssumption DEF OneInv, LoopTypeOK, Closers
<1>3. ASSUME NEW o \in Objects, Accept(o)  PROVE PlainTypes'
  <2> DEFINE c == Len(holder) + 1
  <2>1. /\ holder' = Append(holder, o) /\ reader' = Append(reader, "reads")
        /\ conn' = [conn EXCEPT ![o] = c] /\ open' = open \cup {c} /\ c =< MaxConns
        /\ pool' = pool \ {o} /\ closed' = closed \ {o}
        /\ registerChan' = Append(registerChan, o) /\ Len(registerChan) < ChanSize
        /\ UNCHANGED <<exclusive, unregisterChan, kickChan, connNum, closing, kicks, early>>
    BY <1>3 DEF Accept
  <2>2. /\ holder' \in Seq(Objects) /\ Len(holder') = c /\ Len(holder) \in Nat
        /\ Len(registerChan') = Len(registerChan) + 1 /\ Len(registerChan) \in Nat
    BY <1>2, <2>1, ChannelAppend DEF PlainTypes
  <2>3. reader' \in [1 .. Len(holder') -> {"reads", "ended", "done"}]
    <3>1. reader \in Seq({"reads", "ended", "done"}) /\ Len(reader) = Len(holder)
      <4>1. reader \in [1 .. Len(holder) -> {"reads", "ended", "done"}]
        BY DEF PlainTypes
      <4>2. Len(holder) \in Nat
        BY <2>2
      <4>3. QED  BY <4>1, <4>2
    <3>2. reader' \in Seq({"reads", "ended", "done"}) /\ Len(reader') = c
      BY <2>1, <2>2, <3>1
    <3>3. QED  BY <2>2, <3>2
  <2>4. c \in Conns /\ conn' \in [Objects -> 0..MaxConns]
    BY <1>2, <2>1, <2>2 DEF PlainTypes, Conns
  <2>5. QED  BY <1>2, <2>1, <2>2, <2>3, <2>4 DEF PlainTypes
<1>4. ASSUME NEW c \in Conns, ReadEnds(c)  PROVE PlainTypes'
  BY <1>4 DEF ReadEnds, PlainTypes
<1>5. ASSUME NEW c \in Conns, ReaderCloses(c)  PROVE PlainTypes'
  <2>1. holder[c] \in Objects /\ c \in Closers /\ c \in DOMAIN reader
    BY <1>5 DEF ReaderCloses, PlainTypes, Closers
  <2>2. reader' \in [1 .. Len(holder) -> {"reads", "ended", "done"}]
    BY <1>5, <2>1 DEF ReaderCloses, PlainTypes
  <2>3. QED  BY <1>5, <2>1, <2>2, CloseTypes DEF ReaderCloses, PlainTypes
<1>6. ASSUME NEW x \in Closers, UnRegister(x)  PROVE PlainTypes'
  <2>1. closing[x] \in Objects /\ Len(unregisterChan) < ChanSize
        /\ unregisterChan' = Append(unregisterChan, closing[x])
    BY <1>6 DEF UnRegister, PlainTypes
  <2>2. unregisterChan' \in Seq(Objects) /\ Len(unregisterChan') =< ChanSize
    BY <1>2, <2>1, ChannelAppend DEF PlainTypes
  <2>3. QED  BY <1>6, <2>2 DEF UnRegister, PlainTypes
<1>7. CASE Register
  <2>1. Len(registerChan') = Len(registerChan) - 1 /\ Len(registerChan) \in Nat
    BY <1>2, <1>7, ChannelTail DEF Register
  <2>2. /\ UNCHANGED <<exclusive, conn, closed, open, holder, reader, closing>>
        /\ UNCHANGED <<pool, unregisterChan, kickChan, connNum, kicks, early>>
    BY <1>7 DEF Register
  <2>3. Len(registerChan') =< ChanSize
    BY <1>2, <2>1 DEF PlainTypes
  <2>4. QED  BY <2>2, <2>3, PlainKept, <1>1 DEF PlainTypes
<1>8. CASE Registered
  <2>1. /\ UNCHANGED <<exclusive, conn, closed, open, holder, reader, closing>>
        /\ UNCHANGED <<pool, registerChan, unregisterChan, kickChan, kicks, early>>
        /\ connNum' = connNum \/ connNum' = connNum + 1
    BY <1>8 DEF Registered
  <2>2. connNum' \in Int
    BY <2>1 DEF PlainTypes
  <2>3. QED  BY <2>1, <2>2, PlainKept, <1>1 DEF PlainTypes
<1>9. CASE Unregister
  <2>1. /\ Head(unregisterChan) \in Objects /\ unregisterChan' \in Seq(Objects)
        /\ Len(unregisterChan') = Len(unregisterChan) - 1 /\ Len(unregisterChan) \in Nat
    BY <1>9, ChannelTail DEF Unregister, PlainTypes
  <2>2. /\ UNCHANGED <<exclusive, conn, closed, open, holder, reader, closing>>
        /\ UNCHANGED <<registerChan, kickChan, kicks>>
        /\ pool' = pool \cup {Head(unregisterChan)} /\ connNum' = connNum - 1
    BY <1>9 DEF Unregister
  <2>3. early' \in BOOLEAN
    BY <1>9 DEF Unregister
  <2>4. Len(unregisterChan') =< ChanSize /\ connNum' \in Int
    BY <1>2, <2>1, <2>2 DEF PlainTypes
  <2>5. QED  BY <2>1, <2>2, <2>3, <2>4, PlainKept, <1>1 DEF PlainTypes
<1>10. CASE KickElsewhere
  <2>1. Len(kickChan') = Len(kickChan) - 1 /\ Len(kickChan) \in Nat
    BY <1>2, <1>10, ChannelTail DEF KickElsewhere
  <2>2. /\ UNCHANGED <<exclusive, conn, closed, open, holder, reader, closing>>
        /\ UNCHANGED <<pool, registerChan, unregisterChan, connNum, kicks, early>>
    BY <1>10 DEF KickElsewhere
  <2>3. Len(kickChan') =< ChanSize
    BY <1>2, <2>1 DEF PlainTypes
  <2>4. QED  BY <2>2, <2>3, PlainKept, <1>1 DEF PlainTypes
<1>11. ASSUME NEW o \in Objects, Kick(o)  PROVE PlainTypes'
  BY <1>2, <1>11, CloseTypes DEF Kick, PlainTypes
<1>12. CASE LoginElsewhere
  <2>1. Len(kickChan') = Len(kickChan) + 1 /\ Len(kickChan) < ChanSize /\ Len(kickChan) \in Nat
    BY <1>2, <1>12, ChannelAppend DEF LoginElsewhere
  <2>2. /\ UNCHANGED <<exclusive, conn, closed, open, holder, reader, closing>>
        /\ UNCHANGED <<pool, registerChan, unregisterChan, connNum, early>>
        /\ kicks' = kicks + 1 /\ kicks < MaxKicks
    BY <1>12 DEF LoginElsewhere
  <2>3. Len(kickChan') =< ChanSize /\ kicks' \in 0..MaxKicks
    BY <1>2, <2>1, <2>2 DEF PlainTypes
  <2>4. QED  BY <2>2, <2>3, PlainKept, <1>1 DEF PlainTypes
<1>13. CASE KickUserOffline
  <2>1. /\ UNCHANGED <<exclusive, conn, closed, open, holder, reader, closing>>
        /\ UNCHANGED <<pool, registerChan, unregisterChan, kickChan, connNum, early>>
        /\ kicks' = kicks + 1 /\ kicks < MaxKicks
    BY <1>13 DEF KickUserOffline
  <2>2. kicks' \in 0..MaxKicks
    BY <1>2, <2>1 DEF PlainTypes
  <2>3. QED  BY <2>1, <2>2, PlainKept, <1>1 DEF PlainTypes
<1>14. ASSUME NEW o \in Objects, DeleteConn(o)  PROVE PlainTypes'
  BY <1>14 DEF DeleteConn, PlainTypes
<1>15. CASE KickUserConn
  <2>1. kicking[Rpc].pc = "close" /\ Close(Rpc, kicking[Rpc].next)
    BY <1>15 DEF KickUserConn
  <2>2. kicking[Rpc].next \in Objects \cup {Nobody}
    BY <1>2, <2>1 DEF Kicking, Rest
  <2>3. kicking[Rpc].next \in Objects
    BY <2>1, <2>2 DEF OnlyUsed
  <2>4. /\ UNCHANGED <<exclusive, conn, holder, reader, pool, registerChan,
                       unregisterChan, kickChan, connNum, kicks, early>>
    BY <1>15 DEF KickUserConn
  <2>5. /\ closed' \subseteq Objects /\ open' \subseteq Conns
        /\ closing' \in [Closers -> Objects \cup {Nobody}]
    BY <1>2, <2>1, <2>3, CloseTypes
  <2>6. QED  BY <1>1, <2>4, <2>5 DEF PlainTypes
<1>16. CASE UNCHANGED GatewayVars
  <2>1. /\ UNCHANGED <<exclusive, conn, closed, open, holder, reader, closing>>
        /\ UNCHANGED <<pool, registerChan, unregisterChan, kickChan, connNum, kicks, early>>
    BY <1>16 DEF GatewayVars
  <2>2. QED  BY <2>1, PlainKept, <1>1 DEF PlainTypes
<1>17. QED
  BY <1>1, <1>3, <1>4, <1>5, <1>6, <1>7, <1>8, <1>9, <1>10, <1>11, <1>12, <1>13,
     <1>14, <1>15, <1>16 DEF GatewayNext, LoopNext

-----------------------------------------------------------------------------
(* The stages. *)
LEMMA StagesKept ==
    ASSUME Stages, UNCHANGED <<conn, closed, pool, open, holder, unregisterChan, closing>>
    PROVE  Stages'
BY DEF Stages, Addresses, OneStage, Used, Closing, In

(* What Close does to an object that is not closed. *)
LEMMA CloseOpens ==
    ASSUME GatewayTypes, Stages, NEW x \in Closers, NEW o \in Objects, Used(o), Close(x, o)
    PROVE  \/ o \in closed /\ UNCHANGED <<closed, open, closing>>
           \/ /\ o \notin closed /\ closing[x] = Nobody
              /\ closed' = closed \cup {o} /\ open' = open \ {conn[o]}
              /\ closing' = [closing EXCEPT ![x] = o]
              /\ conn[o] \in open /\ o \notin pool /\ ~Closing(o)
              /\ o \notin In(unregisterChan)
<1>1. Nobody \notin Objects
  BY GatewayAssumption
<1>2. CASE o \in closed
  BY <1>2 DEF Close
<1>3. CASE o \notin closed
  <2>1. /\ closing[x] = Nobody /\ closed' = closed \cup {o} /\ open' = open \ {conn[o]}
        /\ closing' = [closing EXCEPT ![x] = o]
    BY <1>3 DEF Close
  <2>2. conn[o] \in open
    BY <1>3 DEF Stages, Addresses
  <2>3. o \notin pool /\ o \notin In(unregisterChan)
    BY <1>3 DEF Stages, OneStage
  <2>4. ~Closing(o)
    BY <1>1, <1>3 DEF Stages, OneStage, Closing
  <2>5. QED  BY <1>3, <2>1, <2>2, <2>3, <2>4
<1>4. QED  BY <1>2, <1>3

(* The object is closed by one goroutine, which alone has it then. *)
LEMMA CloseKeepsStages ==
    ASSUME GatewayTypes, Stages, NEW x \in Closers, NEW o \in Objects, Used(o), Close(x, o),
           UNCHANGED <<conn, pool, holder, unregisterChan>>
    PROVE  Stages'
<1>1. CASE o \in closed /\ UNCHANGED <<closed, open, closing>>
  BY <1>1, StagesKept
<1>2. CASE /\ o \notin closed /\ closing[x] = Nobody
           /\ closed' = closed \cup {o} /\ open' = open \ {conn[o]}
           /\ closing' = [closing EXCEPT ![x] = o]
           /\ conn[o] \in open /\ o \notin pool /\ ~Closing(o)
           /\ o \notin In(unregisterChan)
  <2>1. closing \in [Closers -> Objects \cup {Nobody}] /\ Nobody \notin Objects
    BY GatewayAssumption DEF GatewayTypes, PlainTypes
  <2>2. closing'[x] = o /\ \A y \in Closers : y # x => closing'[y] = closing[y]
    BY <1>2, <2>1
  <2>3. \A p \in Objects : Used(p)' <=> Used(p)
    BY DEF Used
  <2>4. Addresses'
    <3>1. \A p \in Objects : Used(p)' => conn'[p] \in DOMAIN holder' /\ holder'[conn'[p]] = p
      BY <2>3 DEF Stages, Addresses
    <3>2. \A p \in Objects : Used(p)' /\ p \notin closed' => conn'[p] \in open'
      BY <1>2 DEF Stages, Addresses, Used
    <3>3. ASSUME NEW c \in open'
          PROVE  /\ c \in DOMAIN holder'
                 /\ conn'[holder'[c]] = c /\ holder'[c] \notin closed'
      BY <1>2, <3>3 DEF Stages, Addresses
    <3>4. QED  BY <3>1, <3>2, <3>3 DEF Addresses
  <2>5. \A p \in Objects : Closing(p)' <=> Closing(p) \/ p = o
    BY <1>2, <2>1, <2>2 DEF Closing
  <2>6. In(unregisterChan)' = In(unregisterChan)
    BY DEF In
  <2>7. \A p \in pool : (Used(p)' => p \in closed') /\ ~Closing(p)' /\ p \notin In(unregisterChan)
    BY <1>2, <2>5 DEF Stages, OneStage, Used, GatewayTypes, PlainTypes
  <2>8. \A p \in Objects \ pool :
          /\ Used(p)'
          /\ p \in closed' => Closing(p)' \/ p \in In(unregisterChan)
    BY <1>2, <2>3, <2>5 DEF Stages, OneStage
  <2>9. ASSUME NEW y \in Closers, closing'[y] # Nobody
        PROVE  /\ closing'[y] \in closed' /\ closing'[y] \notin In(unregisterChan)
               /\ \A z \in Closers : closing'[z] = closing'[y] => z = y
    <3>1. \A z \in Closers : z # x => closing[z] # o
      BY <1>2 DEF Closing
    <3>2. CASE y = x
      BY <1>2, <2>2, <3>1, <3>2
    <3>3. CASE y # x
      BY <1>2, <2>2, <2>9, <3>1, <3>3 DEF Stages, OneStage
    <3>4. QED  BY <3>2, <3>3
  <2>10. In(unregisterChan) \subseteq closed'
    BY <1>2 DEF Stages, OneStage
  <2>11. \A i, j \in DOMAIN unregisterChan' : unregisterChan'[i] = unregisterChan'[j] => i = j
    BY DEF Stages, OneStage
  <2>12. OneStage'
    BY <2>6, <2>7, <2>8, <2>9, <2>10, <2>11 DEF OneStage
  <2>13. QED  BY <2>4, <2>12 DEF Stages
<1>3. QED  BY <1>1, <1>2, CloseOpens

(* An object leaves the pool with a new address. *)
LEMMA AcceptKeepsStages ==
    ASSUME GatewayTypes, Stages, NEW o \in Objects, Accept(o)
    PROVE  Stages'
<1> DEFINE c == Len(holder) + 1
<1>1. /\ o \in pool /\ pool' = pool \ {o} /\ closed' = closed \ {o}
      /\ conn' = [conn EXCEPT ![o] = c] /\ open' = open \cup {c}
      /\ holder' = Append(holder, o) /\ UNCHANGED <<unregisterChan, closing>>
  BY DEF Accept
<1>2. /\ conn \in [Objects -> 0..MaxConns] /\ holder \in Seq(Objects) /\ Len(holder) \in Nat
      /\ DOMAIN holder' = 1 .. c /\ DOMAIN holder = 1 .. Len(holder)
      /\ holder'[c] = o /\ \A i \in DOMAIN holder : holder'[i] = holder[i]
      /\ closing \in [Closers -> Objects \cup {Nobody}]
  BY <1>1, ChannelAppend DEF GatewayTypes, PlainTypes
<1>3. /\ c \in Nat /\ c # 0 /\ c \notin DOMAIN holder /\ c \in 1 .. c
      /\ DOMAIN holder' = DOMAIN holder \cup {c}
  BY <1>2
<1> HIDE DEF c
<1>4. conn'[o] = c /\ \A p \in Objects : p # o => conn'[p] = conn[p]
  BY <1>1, <1>2
<1>5. \A p \in Objects : Used(p)' <=> Used(p) \/ p = o
  BY <1>3, <1>4 DEF Used
<1>6. Addresses'
  <2>1. ASSUME NEW p \in Objects, Used(p)'
        PROVE  conn'[p] \in DOMAIN holder' /\ holder'[conn'[p]] = p
    <3>1. CASE p = o
      BY <1>2, <1>3, <1>4, <3>1
    <3>2. CASE p # o
      BY <1>2, <1>3, <1>4, <1>5, <2>1, <3>2 DEF Stages, Addresses
    <3>3. QED  BY <3>1, <3>2
  <2>2. ASSUME NEW p \in Objects, Used(p)', p \notin closed'  PROVE conn'[p] \in open'
    BY <1>1, <1>4, <1>5, <2>2 DEF Stages, Addresses
  <2>3. ASSUME NEW d \in open'
        PROVE  /\ d \in DOMAIN holder'
               /\ conn'[holder'[d]] = d /\ holder'[d] \notin closed'
    <3>1. CASE d = c
      BY <1>1, <1>2, <1>3, <1>4, <3>1
    <3>2. CASE d # c
      <4>1. /\ d \in open /\ d \in DOMAIN holder /\ conn[holder[d]] = d
            /\ holder[d] \notin closed /\ holder'[d] = holder[d] /\ holder[d] \in Objects
        BY <1>1, <1>2, <2>3, <3>2 DEF Stages, Addresses
      <4>2. holder[d] # o
        <5>1. d \in 1 .. Len(holder)
          BY <1>2, <4>1
        <5>2. Used(holder[d])
          BY <1>2, <4>1, <5>1 DEF Used
        <5>3. QED  BY <1>1, <4>1, <5>2 DEF Stages, OneStage
      <4>3. QED  BY <1>1, <1>3, <1>4, <4>1, <4>2
    <3>3. QED  BY <3>1, <3>2
  <2>4. QED  BY <2>1, <2>2, <2>3 DEF Addresses
<1>7. OneStage'
  <2>1. In(unregisterChan)' = In(unregisterChan) /\ \A p : Closing(p)' <=> Closing(p)
    BY <1>1 DEF In, Closing
  <2>2. o \notin In(unregisterChan) /\ ~Closing(o)
    BY <1>1 DEF Stages, OneStage
  <2>3. \A p \in pool' : (Used(p)' => p \in closed') /\ ~Closing(p) /\ p \notin In(unregisterChan)
    <3>1. \A p \in pool' : p \in Objects /\ p # o /\ p \in pool
      BY <1>1 DEF GatewayTypes, PlainTypes
    <3>2. QED  BY <1>1, <1>5, <3>1 DEF Stages, OneStage
  <2>4. \A p \in Objects \ pool' :
          /\ Used(p)'
          /\ p \in closed' => Closing(p) \/ p \in In(unregisterChan)
    BY <1>1, <1>5 DEF Stages, OneStage
  <2>5. \A x \in Closers : closing[x] # Nobody =>
          /\ closing[x] \in closed' /\ closing[x] \notin In(unregisterChan)
          /\ \A y \in Closers : closing[y] = closing[x] => y = x
    BY <1>1, <2>2 DEF Stages, OneStage, Closing
  <2>6. In(unregisterChan) \subseteq closed'
    BY <1>1, <2>2 DEF Stages, OneStage
  <2>7. \A i, j \in DOMAIN unregisterChan : unregisterChan[i] = unregisterChan[j] => i = j
    BY DEF Stages, OneStage
  <2>8. QED  BY <1>1, <2>1, <2>3, <2>4, <2>5, <2>6, <2>7 DEF OneStage
<1>8. QED  BY <1>6, <1>7 DEF Stages

(* From the goroutine that closes it to unregisterChan. *)
LEMMA UnRegisterKeepsStages ==
    ASSUME GatewayTypes, Stages, NEW x \in Closers, UnRegister(x)
    PROVE  Stages'
<1> DEFINE o == closing[x]
<1>1. /\ o # Nobody /\ unregisterChan' = Append(unregisterChan, o)
      /\ closing' = [closing EXCEPT ![x] = Nobody]
      /\ UNCHANGED <<conn, closed, pool, open, holder>>
  BY DEF UnRegister, objects, sockets
<1>2. /\ o \in Objects /\ closing \in [Closers -> Objects \cup {Nobody}] /\ Nobody \notin Objects
      /\ unregisterChan \in Seq(Objects)
  BY <1>1, GatewayAssumption DEF GatewayTypes, PlainTypes
<1>3. /\ o \in closed /\ o \notin In(unregisterChan)
      /\ \A y \in Closers : closing[y] = o => y = x
  BY <1>1 DEF Stages, OneStage
<1>4. closing'[x] = Nobody /\ \A y \in Closers : y # x => closing'[y] = closing[y]
  BY <1>1, <1>2
<1> HIDE DEF o
<1>5. /\ In(unregisterChan') = In(unregisterChan) \cup {o}
      /\ Len(unregisterChan) \in Nat
      /\ DOMAIN unregisterChan' = 1 .. Len(unregisterChan) + 1
      /\ DOMAIN unregisterChan = 1 .. Len(unregisterChan)
      /\ \A i \in 1 .. Len(unregisterChan) : unregisterChan'[i] = unregisterChan[i]
      /\ unregisterChan'[Len(unregisterChan) + 1] = o
  BY <1>1, <1>2, ChannelAppend
<1>6. \A p \in Objects : Closing(p)' <=> Closing(p) /\ p # o
  BY <1>2, <1>3, <1>4 DEF Closing, o
<1>7. Addresses'
  BY <1>1 DEF Stages, Addresses, Used
<1>8. \A p \in pool : (Used(p)' => p \in closed) /\ ~Closing(p)' /\ p \notin In(unregisterChan')
  <2>1. \A p \in pool : p \in Objects /\ p # o
    BY <1>2, <1>6, <1>1 DEF GatewayTypes, PlainTypes, Stages, OneStage, Closing, o
  <2>2. QED  BY <1>1, <1>5, <1>6, <2>1 DEF Stages, OneStage, Used
<1>9. \A p \in Objects \ pool :
        /\ Used(p)'
        /\ p \in closed => Closing(p)' \/ p \in In(unregisterChan')
  BY <1>1, <1>5, <1>6 DEF Stages, OneStage, Used
<1>10. ASSUME NEW y \in Closers, closing'[y] # Nobody
       PROVE  /\ closing'[y] \in closed /\ closing'[y] \notin In(unregisterChan')
              /\ \A z \in Closers : closing'[z] = closing'[y] => z = y
  BY <1>3, <1>4, <1>5, <1>10 DEF Stages, OneStage
<1>11. In(unregisterChan') \subseteq closed
  BY <1>3, <1>5 DEF Stages, OneStage
<1>12. ASSUME NEW i \in DOMAIN unregisterChan', NEW j \in DOMAIN unregisterChan',
              unregisterChan'[i] = unregisterChan'[j]
       PROVE  i = j
  <2>1. \A k \in DOMAIN unregisterChan' : k \in DOMAIN unregisterChan \/ k = Len(unregisterChan) + 1
    BY <1>5
  <2>2. \A k \in DOMAIN unregisterChan : unregisterChan'[k] # o
    BY <1>3, <1>5 DEF In
  <2>3. QED  BY <1>5, <1>12, <2>1, <2>2 DEF Stages, OneStage
<1>13. OneStage'
  BY <1>1, <1>8, <1>9, <1>10, <1>11, <1>12 DEF OneStage
<1>14. QED  BY <1>7, <1>13 DEF Stages

(* From unregisterChan to the pool. *)
LEMMA UnregisterKeepsStages ==
    ASSUME GatewayTypes, Stages, Unregister
    PROVE  Stages'
<1> DEFINE o == Head(unregisterChan)
<1>1. /\ unregisterChan # <<>> /\ unregisterChan' = Tail(unregisterChan)
      /\ pool' = pool \cup {o} /\ UNCHANGED <<conn, closed, open, holder, closing>>
  BY DEF Unregister, sockets
<1>2. /\ o \in Objects /\ o \in In(unregisterChan) /\ In(unregisterChan') \subseteq In(unregisterChan)
      /\ In(unregisterChan) \subseteq In(unregisterChan') \cup {o}
      /\ 1 \in DOMAIN unregisterChan /\ unregisterChan[1] = o
      /\ \A i \in DOMAIN unregisterChan' :
           i \in Nat /\ i + 1 \in DOMAIN unregisterChan /\ i + 1 # 1 /\ unregisterChan'[i] = unregisterChan[i + 1]
  <2>1. unregisterChan \in Seq(Objects)
    BY DEF GatewayTypes, PlainTypes
  <2>2. DOMAIN unregisterChan' = 1 .. Len(unregisterChan) - 1 /\ Len(unregisterChan) \in Nat
    BY <1>1, <2>1, ChannelTail
  <2>3. QED  BY <1>1, <2>1, <2>2, ChannelTail
<1> HIDE DEF o
<1>3. o \notin In(unregisterChan')
  <2>1. ASSUME NEW i \in DOMAIN unregisterChan', unregisterChan'[i] = o  PROVE FALSE
    BY <1>2, <2>1 DEF Stages, OneStage
  <2>2. QED  BY <2>1 DEF In
<1>4. Addresses'
  BY <1>1 DEF Stages, Addresses, Used
<1>5. o \in closed /\ ~Closing(o)
  BY <1>2, GatewayAssumption DEF Stages, OneStage, Closing
<1>6. \A p \in pool' : (Used(p)' => p \in closed) /\ ~Closing(p)' /\ p \notin In(unregisterChan')
  BY <1>1, <1>2, <1>3, <1>5 DEF Stages, OneStage, Used, Closing
<1>7. \A p \in Objects \ pool' :
        /\ Used(p)'
        /\ p \in closed => Closing(p)' \/ p \in In(unregisterChan')
  BY <1>1, <1>2 DEF Stages, OneStage, Used, Closing
<1>8. ASSUME NEW i \in DOMAIN unregisterChan', NEW j \in DOMAIN unregisterChan',
             unregisterChan'[i] = unregisterChan'[j]
      PROVE  i = j
  <2>1. i + 1 = j + 1
    BY <1>2, <1>8 DEF Stages, OneStage
  <2>2. QED  BY <1>2, <2>1
<1>9. OneStage'
  BY <1>1, <1>2, <1>6, <1>7, <1>8 DEF Stages, OneStage
<1>10. QED  BY <1>4, <1>9 DEF Stages

-----------------------------------------------------------------------------
(* Who is known.  More clients that are closed. *)
LEMMA KnownKept ==
    ASSUME ClientsKnown, UNCHANGED <<users, registerChan, holder, kickChan, kicking, conn, pool, early>>,
           closed \subseteq closed', \A o \in closed' : Used(o)
    PROVE  ClientsKnown'
<1>1. OnlyUsed'
  BY DEF ClientsKnown, OnlyUsed, Used, In
<1>2. OpenIsKnown'
  BY DEF ClientsKnown, OpenIsKnown, Used, In, Coming
<1>3. KnownIsUsed'
  BY DEF ClientsKnown, KnownIsUsed, In, Coming
<1>4. QED  BY <1>1, <1>2, <1>3 DEF ClientsKnown

(* What the two kickers are at. *)
LEMMA Kickers ==
    ASSUME GatewayTypes
    PROVE  /\ kicking \in [{Loop, Rpc} -> {Rest} \cup Kicking] /\ Loop # Rpc
           /\ Loop \in Closers /\ Rpc \in Closers /\ Nobody \notin Objects
           /\ \A x \in {Loop, Rpc} : kicking[x] = Rest \/ kicking[x] \in Kicking
           /\ \A x \in {Loop, Rpc} :
                /\ kicking[x].pc = "idle" <=> kicking[x] = Rest
                /\ kicking[x].pc # "idle" => kicking[x] \in Kicking
           /\ registerChan \in Seq(Objects) /\ kickChan \in Seq(SUBSET Objects)
           /\ users \subseteq Objects
BY GatewayAssumption DEF GatewayTypes, OneInv, LoopTypeOK, Closers, Rest, Kicking

(* A client from the pool was known to nobody; now registerChan has it. *)
LEMMA AcceptKeepsKnown ==
    ASSUME GatewayTypes, Stages, ClientsKnown, NEW o \in Objects, Accept(o)
    PROVE  ClientsKnown'
<1>1. /\ o \in pool /\ pool' = pool \ {o} /\ closed' = closed \ {o}
      /\ conn' = [conn EXCEPT ![o] = Len(holder) + 1]
      /\ registerChan' = Append(registerChan, o) /\ holder' = Append(holder, o)
      /\ UNCHANGED <<users, kickChan, kicking, early>>
  BY DEF Accept, map
<1>2. /\ In(registerChan') = In(registerChan) \cup {o} /\ In(holder') = In(holder) \cup {o}
      /\ Len(holder) + 1 # 0
  BY <1>1, Kickers, ChannelAppend DEF GatewayTypes, PlainTypes
<1>3. /\ \A p \in Objects : Used(p)' <=> Used(p) \/ p = o
      /\ \A p \in Objects : Used(p) => Used(p)'
      /\ Used(o)'
  BY <1>1, <1>2 DEF Used, GatewayTypes, PlainTypes
<1>4. OnlyUsed'
  <2>1. \A p \in users \cup In(registerChan') \cup In(holder') \cup closed' : Used(p)'
    <3>1. users \cup In(registerChan) \cup In(holder) \cup closed \subseteq Objects
      BY Kickers DEF In, GatewayTypes, PlainTypes
    <3>2. QED  BY <1>1, <1>2, <1>3, <3>1 DEF ClientsKnown, OnlyUsed
  <2>2. \A C \in In(kickChan) : \A p \in C : Used(p)'
    <3>1. \A C \in In(kickChan) : C \subseteq Objects
      BY Kickers DEF In
    <3>2. QED  BY <1>3, <3>1 DEF ClientsKnown, OnlyUsed
  <2>3. ASSUME NEW x \in {Loop, Rpc}, kicking[x] # Rest
        PROVE  /\ \A p \in kicking[x].clients : conn'[p] # 0
               /\ kicking[x].next # Nobody => conn'[kicking[x].next] # 0
    <3>1. kicking[x].clients \subseteq Objects /\ kicking[x].next \in Objects \cup {Nobody}
      BY <2>3, Kickers DEF Kicking
    <3>2. \A p \in Objects : Used(p) => conn'[p] # 0
      BY <1>3 DEF Used
    <3>3. QED  BY <2>3, <3>1, <3>2 DEF ClientsKnown, OnlyUsed
  <2>4. In(kickChan)' = In(kickChan)
    BY <1>1 DEF In
  <2>5. \A x \in {Loop, Rpc} : kicking'[x] # Rest =>
          /\ \A p \in kicking'[x].clients : conn'[p] # 0
          /\ kicking'[x].next # Nobody => conn'[kicking'[x].next] # 0
    BY <1>1, <2>3
  <2>6. kicking'[Rpc].pc = "close" => kicking'[Rpc].next # Nobody
    BY <1>1 DEF ClientsKnown, OnlyUsed
  <2>7. QED  BY <1>1, <1>2, <2>1, <2>2, <2>4, <2>5, <2>6 DEF OnlyUsed, Used, In
<1>5. OpenIsKnown'
  <2>1. ASSUME NEW p \in Objects, Used(p)', p \notin closed', p # o
        PROVE  \/ p \in users \cup In(registerChan) \/ Coming(p)
               \/ kicking[Loop].pc = "kick" /\ p \in kicking[Loop].clients
               \/ kicking[Rpc].pc = "close" /\ kicking[Rpc].next = p
    BY <1>1, <1>3, <2>1 DEF ClientsKnown, OpenIsKnown
  <2>2. In(registerChan)' = In(registerChan')
    BY DEF In
  <2>3. QED  BY <1>1, <1>2, <2>1, <2>2 DEF OpenIsKnown, Coming
<1>6. KnownIsUsed'
  <2>1. In(registerChan)' = In(registerChan')
    BY DEF In
  <2>2. QED  BY <1>1, <1>2, <2>1 DEF ClientsKnown, KnownIsUsed, Coming
<1>7. QED  BY <1>4, <1>5, <1>6 DEF ClientsKnown

(* The clients that a new one displaces are about to be closed. *)
LEMMA RegisterKeepsKnown ==
    ASSUME GatewayTypes, Stages, ClientsKnown, Register
    PROVE  ClientsKnown'
<1> DEFINE o == Head(registerChan)
<1>1. /\ kicking[Loop].pc = "idle" /\ registerChan # <<>> /\ registerChan' = Tail(registerChan)
      /\ users' = Without(users, Displaced)
      /\ kicking' = [kicking EXCEPT ![Loop] = [pc |-> "kick", clients |-> Displaced, next |-> o]]
      /\ UNCHANGED <<conn, closed, pool, holder, kickChan, early>>
  BY DEF Register, LoopIsFree, Kicks, objects, sockets
<1>2. /\ o \in Objects /\ o \in In(registerChan) /\ In(registerChan') \subseteq In(registerChan)
      /\ In(registerChan) \subseteq In(registerChan') \cup {o}
  BY <1>1, Kickers, ChannelTail
<1>3. /\ kicking'[Loop] = [pc |-> "kick", clients |-> Displaced, next |-> o]
      /\ kicking'[Rpc] = kicking[Rpc] /\ kicking[Loop] = Rest
  BY <1>1, Kickers
<1>4. Displaced \subseteq users /\ users' = users \ Displaced
  <2>1. Displaced \subseteq users
    BY DEF Displaced
  <2>2. QED  BY <1>1, <2>1, Kickers, WithoutUsed DEF Stages, ClientsKnown, OnlyUsed
<1> HIDE DEF o
<1>5. /\ \A p \in users' \cup In(registerChan') \cup In(holder) \cup closed : Used(p)
      /\ \A C \in In(kickChan) : \A p \in C : Used(p)
      /\ \A p \in Displaced : Used(p)
      /\ Used(o)
  BY <1>2, <1>4 DEF ClientsKnown, OnlyUsed
<1>6. OnlyUsed'
  <2>1. ASSUME NEW x \in {Loop, Rpc}, kicking'[x] # Rest
        PROVE  /\ \A p \in kicking'[x].clients : conn[p] # 0
               /\ kicking'[x].next # Nobody => conn[kicking'[x].next] # 0
    BY <1>3, <1>5, <2>1 DEF ClientsKnown, OnlyUsed, Used
  <2>2. kicking'[Rpc].pc = "close" => kicking'[Rpc].next # Nobody
    BY <1>3 DEF ClientsKnown, OnlyUsed
  <2>3. QED  BY <1>1, <1>5, <2>1, <2>2 DEF OnlyUsed, Used, In
<1>7. OpenIsKnown'
  <2>1. ASSUME NEW p \in Objects, Used(p), p \notin closed
        PROVE  \/ p \in users' \cup In(registerChan') \/ p = o \/ p \in Displaced
               \/ kicking[Rpc].pc = "close" /\ kicking[Rpc].next = p
    BY <1>2, <1>3, <1>4, <2>1 DEF ClientsKnown, OpenIsKnown, Coming, Rest
  <2>2. QED  BY <1>1, <1>3, <2>1 DEF OpenIsKnown, Coming, Used, In
<1>8. KnownIsUsed'
  <2>1. ASSUME ~early, NEW p \in pool  PROVE p \notin users' \cup In(registerChan') /\ p # o
    BY <1>2, <1>4, <2>1 DEF ClientsKnown, KnownIsUsed
  <2>2. QED  BY <1>1, <1>3, <2>1 DEF KnownIsUsed, Coming, In
<1>9. QED  BY <1>6, <1>7, <1>8 DEF ClientsKnown

(* The new client is in the map. *)
LEMMA RegisteredKeepsKnown ==
    ASSUME GatewayTypes, Stages, ClientsKnown, Registered
    PROVE  ClientsKnown'
<1> DEFINE o == kicking[Loop].next
<1>1. /\ kicking[Loop].pc = "kick" /\ kicking[Loop].clients = {}
      /\ users' = IF o = Nobody THEN users ELSE users \cup {o}
      /\ kicking' = [kicking EXCEPT ![Loop] = Rest]
      /\ UNCHANGED <<conn, closed, pool, holder, registerChan, kickChan, early>>
  BY DEF Registered, objects, sockets, channels
<1>2. /\ kicking'[Loop] = Rest /\ kicking'[Rpc] = kicking[Rpc]
      /\ kicking[Loop] \in Kicking /\ kicking[Loop] # Rest /\ o \in Objects \cup {Nobody}
      /\ Nobody \notin Objects
  BY <1>1, Kickers DEF Kicking, Rest
<1>3. OnlyUsed'
  <2>1. \A p \in users' : Used(p)
    BY <1>1, <1>2 DEF ClientsKnown, OnlyUsed
  <2>2. ASSUME NEW x \in {Loop, Rpc}, kicking'[x] # Rest
        PROVE  /\ \A p \in kicking'[x].clients : conn[p] # 0
               /\ kicking'[x].next # Nobody => conn[kicking'[x].next] # 0
    BY <1>2, <2>2 DEF ClientsKnown, OnlyUsed, Used
  <2>3. kicking'[Rpc].pc = "close" => kicking'[Rpc].next # Nobody
    BY <1>2 DEF ClientsKnown, OnlyUsed
  <2>4. QED  BY <1>1, <2>1, <2>2, <2>3 DEF ClientsKnown, OnlyUsed, Used, In
<1>4. OpenIsKnown'
  <2>1. ASSUME NEW p \in Objects, Used(p), p \notin closed
        PROVE  \/ p \in users' \cup In(registerChan)
               \/ kicking[Rpc].pc = "close" /\ kicking[Rpc].next = p
    BY <1>1, <1>2, <2>1 DEF ClientsKnown, OpenIsKnown, Coming
  <2>2. QED  BY <1>1, <1>2, <2>1 DEF OpenIsKnown, Used, In
<1>5. KnownIsUsed'
  <2>1. ASSUME ~early, NEW p \in pool  PROVE p \notin users' \cup In(registerChan)
    BY <1>1, <2>1 DEF ClientsKnown, KnownIsUsed, Coming
  <2>2. QED  BY <1>1, <1>2, <2>1 DEF KnownIsUsed, Coming, Rest, In
<1>6. QED  BY <1>3, <1>4, <1>5 DEF ClientsKnown

(* The loop kicks one of the clients: it is closed now. *)
LEMMA KickKeepsKnown ==
    ASSUME GatewayTypes, Stages, ClientsKnown, NEW o \in Objects, Kick(o)
    PROVE  ClientsKnown'
<1>1. /\ kicking[Loop].pc = "kick" /\ o \in kicking[Loop].clients
      /\ closed' = closed \cup {o}
      /\ kicking' = [kicking EXCEPT ![Loop].clients = @ \ {o}]
      /\ UNCHANGED <<users, registerChan, holder, kickChan, conn, pool, early>>
  BY DEF Kick, Close, channels, map
<1>2. /\ kicking'[Loop].pc = "kick" /\ kicking'[Loop].next = kicking[Loop].next
      /\ kicking'[Loop].clients = kicking[Loop].clients \ {o}
      /\ kicking'[Rpc] = kicking[Rpc] /\ kicking[Loop] # Rest
  BY <1>1, Kickers DEF Kicking, Rest
<1>3. Used(o)
  BY <1>1, <1>2 DEF ClientsKnown, OnlyUsed
<1>4. OnlyUsed'
  <2>1. ASSUME NEW x \in {Loop, Rpc}, kicking'[x] # Rest
        PROVE  /\ \A p \in kicking'[x].clients : conn[p] # 0
               /\ kicking'[x].next # Nobody => conn[kicking'[x].next] # 0
    BY <1>2, <2>1 DEF ClientsKnown, OnlyUsed, Used
  <2>2. kicking'[Rpc].pc = "close" => kicking'[Rpc].next # Nobody
    BY <1>2 DEF ClientsKnown, OnlyUsed
  <2>3. QED  BY <1>1, <1>3, <2>1, <2>2 DEF ClientsKnown, OnlyUsed, Used, In
<1>5. OpenIsKnown'
  <2>1. ASSUME NEW p \in Objects, Used(p), p \notin closed, p # o
        PROVE  \/ p \in users \cup In(registerChan) \/ kicking[Loop].next = p
               \/ p \in kicking[Loop].clients \ {o}
               \/ kicking[Rpc].pc = "close" /\ kicking[Rpc].next = p
    BY <2>1 DEF ClientsKnown, OpenIsKnown, Coming
  <2>2. QED  BY <1>1, <1>2, <2>1 DEF OpenIsKnown, Coming, Used, In
<1>6. KnownIsUsed'
  BY <1>1, <1>2 DEF ClientsKnown, KnownIsUsed, Coming, In
<1>7. QED  BY <1>4, <1>5, <1>6 DEF ClientsKnown

(* A client leaves the map when its object goes back to the pool. *)
LEMMA UnregisterKeepsKnown ==
    ASSUME GatewayTypes, Stages, ClientsKnown, Unregister
    PROVE  ClientsKnown'
<1> DEFINE o == Head(unregisterChan)
<1>1. /\ kicking[Loop].pc = "idle" /\ unregisterChan # <<>>
      /\ users' = Without(users, {o}) /\ pool' = pool \cup {o}
      /\ early' = (early \/ \E i \in 1..Len(registerChan) : registerChan[i] = o)
      /\ UNCHANGED <<conn, closed, holder, registerChan, kickChan, kicking>>
  BY DEF Unregister, LoopIsFree, sockets
<1>2. o \in Objects /\ o \in In(unregisterChan)
  BY <1>1, ChannelTail DEF GatewayTypes, PlainTypes
<1>3. o \in closed /\ Used(o)
  BY <1>2 DEF Stages, OneStage, ClientsKnown, OnlyUsed
<1>4. users' = users \ {o}
  BY <1>1, <1>2, <1>3, Kickers, WithoutUsed DEF Stages
<1>5. early' \/ o \notin In(registerChan)
  <2>1. DOMAIN registerChan = 1 .. Len(registerChan)
    BY Kickers
  <2>2. QED  BY <1>1, <2>1 DEF In
<1> HIDE DEF o
<1>6. OnlyUsed'
  <2>1. /\ \A q \in Objects : Used(q)' <=> Used(q)
        /\ users' \subseteq users /\ In(registerChan)' = In(registerChan)
        /\ In(holder)' = In(holder) /\ In(kickChan)' = In(kickChan)
        /\ kicking' = kicking /\ closed' = closed
    BY <1>1, <1>4, Zenon DEF In, Used
  <2>2. \A q \in users' \cup In(registerChan)' \cup In(holder)' \cup closed' : Used(q)'
    <3>1. conn' = conn
      BY <1>1
    <3>2. QED  BY <2>1, <3>1 DEF ClientsKnown, OnlyUsed, Used
  <2>3. \A C \in In(kickChan)' : \A q \in C : Used(q)'
    BY <1>1, <2>1 DEF ClientsKnown, OnlyUsed, Used
  <2>4. /\ \A x \in {Loop, Rpc} : kicking[x] # Rest =>
             /\ \A q \in kicking[x].clients : Used(q)'
             /\ kicking[x].next # Nobody => Used(kicking[x].next)'
        /\ kicking'[Rpc].pc = "close" => kicking'[Rpc].next # Nobody
    BY <1>1 DEF ClientsKnown, OnlyUsed, Used
  <2>5. QED  BY <2>1, <2>2, <2>3, <2>4 DEF OnlyUsed
<1>7. OpenIsKnown'
  BY <1>1, <1>3, <1>4 DEF ClientsKnown, OpenIsKnown, Coming, Used, In
<1>8. KnownIsUsed'
  <2>1. ASSUME ~early', NEW p \in pool'  PROVE p \notin users' \cup In(registerChan)
    BY <1>1, <1>4, <1>5, <2>1 DEF ClientsKnown, KnownIsUsed
  <2>2. QED  BY <1>1, <2>1 DEF KnownIsUsed, Coming, In
<1>9. QED  BY <1>6, <1>7, <1>8 DEF ClientsKnown

(* The clients found some time ago are kicked, whatever became of them. *)
LEMMA ElsewhereKeepsKnown ==
    ASSUME GatewayTypes, Stages, ClientsKnown, LoginElsewhere \/ KickElsewhere
    PROVE  ClientsKnown'
<1>1. CASE LoginElsewhere
  <2>1. /\ kickChan' = Append(kickChan, users)
        /\ UNCHANGED <<users, registerChan, holder, kicking, conn, closed, pool, early>>
    BY <1>1 DEF LoginElsewhere, objects, sockets, map
  <2>2. In(kickChan') = In(kickChan) \cup {users}
    BY <2>1, Kickers, ChannelAppend
  <2>3. OnlyUsed'
    <3>1. \A C \in In(kickChan') : \A p \in C : Used(p)
      BY <2>2 DEF ClientsKnown, OnlyUsed
    <3>2. QED  BY <2>1, <3>1 DEF ClientsKnown, OnlyUsed, Used, In
  <2>4. OpenIsKnown' /\ KnownIsUsed'
    BY <2>1 DEF ClientsKnown, OpenIsKnown, KnownIsUsed, Coming, Used, In
  <2>5. QED  BY <2>3, <2>4 DEF ClientsKnown
<1>2. CASE KickElsewhere
  <2> DEFINE C == Head(kickChan)
  <2>1. /\ kicking[Loop].pc = "idle" /\ kickChan # <<>> /\ kickChan' = Tail(kickChan)
        /\ UNCHANGED <<registerChan, holder, conn, closed, pool, early>>
        /\ \/ UNCHANGED <<users, kicking>>
           \/ /\ users' = Without(users, C)
              /\ kicking' = [kicking EXCEPT ![Loop] =
                   [pc |-> "kick", clients |-> C, next |-> Nobody]]
    BY <1>2 DEF KickElsewhere, Kicks, LoopIsFree, objects, sockets
  <2>2. C \in SUBSET Objects /\ C \in In(kickChan) /\ In(kickChan') \subseteq In(kickChan)
    BY <2>1, Kickers, ChannelTail
  <2> HIDE DEF C
  <2>3. \A p \in C : Used(p)
    BY <2>2 DEF ClientsKnown, OnlyUsed
  <2>4. \A D \in In(kickChan') : \A p \in D : Used(p)
    BY <2>2 DEF ClientsKnown, OnlyUsed
  <2>5. CASE UNCHANGED <<users, kicking>>
    <3>1. OnlyUsed'
      BY <2>1, <2>4, <2>5 DEF ClientsKnown, OnlyUsed, Used, In
    <3>2. OpenIsKnown' /\ KnownIsUsed'
      BY <2>1, <2>5 DEF ClientsKnown, OpenIsKnown, KnownIsUsed, Coming, Used, In
    <3>3. QED  BY <3>1, <3>2 DEF ClientsKnown
  <2>6. CASE /\ users' = Without(users, C)
             /\ kicking' = [kicking EXCEPT ![Loop] =
                  [pc |-> "kick", clients |-> C, next |-> Nobody]]
    <3>1. users' = users \ C
      BY <2>2, <2>3, <2>6, Kickers, WithoutUsed DEF Stages
    <3>2. /\ kicking'[Loop] = [pc |-> "kick", clients |-> C, next |-> Nobody]
          /\ kicking'[Rpc] = kicking[Rpc] /\ Nobody \notin Objects
      BY <2>6, Kickers
    <3>3. OnlyUsed'
      <4>1. ASSUME NEW x \in {Loop, Rpc}, kicking'[x] # Rest
            PROVE  /\ \A p \in kicking'[x].clients : conn[p] # 0
                   /\ kicking'[x].next # Nobody => conn[kicking'[x].next] # 0
        BY <2>3, <3>2, <4>1 DEF ClientsKnown, OnlyUsed, Used
      <4>2. kicking'[Rpc].pc = "close" => kicking'[Rpc].next # Nobody
        BY <3>2 DEF ClientsKnown, OnlyUsed
      <4>3. QED  BY <2>1, <2>4, <3>1, <4>1, <4>2 DEF ClientsKnown, OnlyUsed, Used, In
    <3>4. OpenIsKnown'
      <4>1. ASSUME NEW p \in Objects, Used(p), p \notin closed
            PROVE  \/ p \in users' \cup In(registerChan) \/ p \in C
                   \/ kicking[Rpc].pc = "close" /\ kicking[Rpc].next = p
        BY <2>1, <3>1, <4>1 DEF ClientsKnown, OpenIsKnown, Coming
      <4>2. QED  BY <2>1, <3>2, <4>1 DEF OpenIsKnown, Coming, Used, In
    <3>5. KnownIsUsed'
      <4>1. pool \subseteq Objects
        BY DEF GatewayTypes, PlainTypes
      <4>2. QED  BY <2>1, <3>1, <3>2, <4>1 DEF ClientsKnown, KnownIsUsed, Coming, In
    <3>6. QED  BY <3>3, <3>4, <3>5 DEF ClientsKnown
  <2>7. QED  BY <2>1, <2>5, <2>6
<1>3. QED  BY <1>1, <1>2

(* KickUserOffline takes a client out of the map before it closes it. *)
LEMMA RpcKeepsKnown ==
    ASSUME GatewayTypes, Stages, ClientsKnown,
           KickUserOffline \/ KickUserConn \/ \E o \in Objects : DeleteConn(o)
    PROVE  ClientsKnown'
<1>1. CASE KickUserOffline
  <2>1. /\ kicking[Rpc].pc = "idle"
        /\ kicking' = [kicking EXCEPT ![Rpc] = [pc |-> "kick", clients |-> users, next |-> Nobody]]
        /\ UNCHANGED <<users, registerChan, holder, kickChan, conn, closed, pool, early>>
    BY <1>1 DEF KickUserOffline, Kicks, objects, sockets, channels, map
  <2>2. /\ kicking'[Rpc] = [pc |-> "kick", clients |-> users, next |-> Nobody]
        /\ kicking'[Loop] = kicking[Loop]
    BY <2>1, Kickers
  <2>3. OnlyUsed'
    <3>1. ASSUME NEW x \in {Loop, Rpc}, kicking'[x] # Rest
          PROVE  /\ \A p \in kicking'[x].clients : conn[p] # 0
                 /\ kicking'[x].next # Nobody => conn[kicking'[x].next] # 0
      BY <2>2, <3>1 DEF ClientsKnown, OnlyUsed, Used
    <3>2. kicking'[Rpc].pc # "close"
      BY <2>2
    <3>3. QED  BY <2>1, <3>1, <3>2 DEF ClientsKnown, OnlyUsed, Used, In
  <2>4. OpenIsKnown' /\ KnownIsUsed'
    BY <2>1, <2>2 DEF ClientsKnown, OpenIsKnown, KnownIsUsed, Coming, Used, In
  <2>5. QED  BY <2>3, <2>4 DEF ClientsKnown
<1>2. ASSUME NEW o \in Objects, DeleteConn(o)  PROVE ClientsKnown'
  <2>1. /\ kicking[Rpc].pc = "kick" /\ o \in kicking[Rpc].clients
        /\ users' = Without(users, {o})
        /\ kicking' = [kicking EXCEPT ![Rpc] =
             [pc |-> "close", clients |-> @.clients \ {o}, next |-> o]]
        /\ UNCHANGED <<registerChan, holder, kickChan, conn, closed, pool, early>>
    BY <1>2 DEF DeleteConn, objects, sockets, channels
  <2>2. /\ kicking'[Rpc] = [pc |-> "close", clients |-> kicking[Rpc].clients \ {o}, next |-> o]
        /\ kicking'[Loop] = kicking[Loop] /\ kicking[Rpc] # Rest /\ o # Nobody
    BY <2>1, Kickers DEF Rest
  <2>3. \A p \in kicking[Rpc].clients : Used(p)
    BY <2>2 DEF ClientsKnown, OnlyUsed
  <2>4. users' = users \ {o}
    BY <2>1, <2>3, Kickers, WithoutUsed DEF Stages
  <2>5. OnlyUsed'
    <3>1. ASSUME NEW x \in {Loop, Rpc}, kicking'[x] # Rest
          PROVE  /\ \A p \in kicking'[x].clients : conn[p] # 0
                 /\ kicking'[x].next # Nobody => conn[kicking'[x].next] # 0
      BY <2>1, <2>2, <2>3, <3>1 DEF ClientsKnown, OnlyUsed, Used
    <3>2. kicking'[Rpc].pc = "close" => kicking'[Rpc].next # Nobody
      BY <2>2
    <3>3. QED  BY <2>1, <2>4, <3>1, <3>2 DEF ClientsKnown, OnlyUsed, Used, In
  <2>6. OpenIsKnown'
    <3>1. ASSUME NEW p \in Objects, Used(p), p \notin closed
          PROVE  \/ p \in users' \cup In(registerChan) \/ Coming(p) \/ p = o
                 \/ kicking[Loop].pc = "kick" /\ p \in kicking[Loop].clients
      BY <2>1, <2>4, <3>1 DEF ClientsKnown, OpenIsKnown
    <3>2. QED  BY <2>1, <2>2, <3>1 DEF OpenIsKnown, Coming, Used, In
  <2>7. KnownIsUsed'
    BY <2>1, <2>2, <2>4 DEF ClientsKnown, KnownIsUsed, Coming, In
  <2>8. QED  BY <2>5, <2>6, <2>7 DEF ClientsKnown
<1>3. CASE KickUserConn
  <2> DEFINE o == kicking[Rpc].next
             a == IF kicking[Rpc].clients = {} THEN Rest
                  ELSE [pc |-> "kick", clients |-> kicking[Rpc].clients, next |-> Nobody]
  <2>1. /\ kicking[Rpc].pc = "close" /\ closed' = closed \cup {o}
        /\ kicking' = [kicking EXCEPT ![Rpc] = a]
        /\ UNCHANGED <<users, registerChan, holder, kickChan, conn, pool, early>>
    BY <1>3 DEF KickUserConn, Close, channels, map
  <2>2. /\ kicking'[Rpc] = a /\ kicking'[Loop] = kicking[Loop] /\ kicking[Rpc] # Rest
    BY <2>1, Kickers DEF Rest
  <2>3. Used(o) /\ \A p \in kicking[Rpc].clients : Used(p)
    BY <2>1, <2>2 DEF ClientsKnown, OnlyUsed
  <2>4. a.pc # "close" /\ (a # Rest => a.clients = kicking[Rpc].clients /\ a.next = Nobody)
    BY DEF Rest
  <2> HIDE DEF a, o
  <2>5. OnlyUsed'
    <3>1. ASSUME NEW x \in {Loop, Rpc}, kicking'[x] # Rest
          PROVE  /\ \A p \in kicking'[x].clients : conn[p] # 0
                 /\ kicking'[x].next # Nobody => conn[kicking'[x].next] # 0
      BY <2>2, <2>3, <2>4, <3>1 DEF ClientsKnown, OnlyUsed, Used
    <3>2. QED  BY <2>1, <2>2, <2>3, <2>4, <3>1 DEF ClientsKnown, OnlyUsed, Used, In
  <2>6. OpenIsKnown'
    <3>1. ASSUME NEW p \in Objects, Used(p), p \notin closed, p # o
          PROVE  \/ p \in users \cup In(registerChan) \/ Coming(p)
                 \/ kicking[Loop].pc = "kick" /\ p \in kicking[Loop].clients
      BY <3>1 DEF ClientsKnown, OpenIsKnown, o
    <3>2. QED  BY <2>1, <2>2, <3>1 DEF OpenIsKnown, Coming, Used, In
  <2>7. KnownIsUsed'
    BY <2>1, <2>2 DEF ClientsKnown, KnownIsUsed, Coming, In
  <2>8. QED  BY <2>5, <2>6, <2>7 DEF ClientsKnown
<1>4. QED  BY <1>1, <1>2, <1>3

-----------------------------------------------------------------------------
(* The counts. *)
Closings == {x \in Closers : closing[x] # Nobody}

(* Everything that is counted is finite. *)
LEMMA FiniteCounts ==
    ASSUME GatewayTypes
    PROVE  /\ IsFiniteSet(open) /\ Cardinality(open) \in Nat
           /\ IsFiniteSet(Closings) /\ ClosingNum = Cardinality(Closings)
           /\ ClosingNum \in Nat /\ ComingNum \in {0, 1} /\ connNum \in Int
           /\ Len(registerChan) \in Nat /\ Len(unregisterChan) \in Nat /\ Len(holder) \in Nat
<1>1. IsFiniteSet(Conns)
  BY GatewayAssumption, FS_Interval DEF Conns
<1>2. IsFiniteSet(open)
  BY <1>1, FS_Subset DEF GatewayTypes, PlainTypes
<1>3. IsFiniteSet(Closers)
  <2>1. IsFiniteSet(Conns \cup {Loop})
    BY <1>1, FS_AddElement
  <2>2. IsFiniteSet((Conns \cup {Loop}) \cup {Rpc})
    BY <2>1, FS_AddElement
  <2>3. Closers = (Conns \cup {Loop}) \cup {Rpc}
    BY DEF Closers
  <2>4. QED  BY <2>2, <2>3
<1>4. IsFiniteSet(Closings)
  BY <1>3, FS_Subset DEF Closings
<1>5. Cardinality(open) \in Nat /\ Cardinality(Closings) \in Nat
  BY <1>2, <1>4, FS_CardinalityType
<1>6. Len(registerChan) \in Nat /\ Len(unregisterChan) \in Nat /\ Len(holder) \in Nat
  BY Kickers DEF GatewayTypes, PlainTypes
<1>7. QED  BY <1>2, <1>4, <1>5, <1>6 DEF ClosingNum, Closings, ComingNum, GatewayTypes, PlainTypes

(* The same, of any state. *)
LEMMA NatCounts == GatewayTypes => Cardinality(open) \in Nat /\ ClosingNum \in Nat
BY FiniteCounts

(* Close takes from the open connections what it adds to those that close. *)
LEMMA CloseCounts ==
    ASSUME GatewayTypes, Stages, GatewayTypes', NEW x \in Closers, NEW o \in Objects, Used(o), Close(x, o)
    PROVE  Cardinality(open') + ClosingNum' = Cardinality(open) + ClosingNum
<1>1. CASE UNCHANGED <<closed, open, closing>>
  BY <1>1 DEF ClosingNum
<1>2. CASE /\ o \notin closed /\ closing[x] = Nobody
           /\ open' = open \ {conn[o]} /\ closing' = [closing EXCEPT ![x] = o]
           /\ conn[o] \in open
  <2>1. Cardinality(open') = Cardinality(open) - 1
    BY <1>2, FiniteCounts, FS_RemoveElement
  <2>2. Closings' = Closings \cup {x} /\ x \notin Closings
    BY <1>2, GatewayAssumption, SMTT(30) DEF Closings, GatewayTypes, PlainTypes
  <2>3. Cardinality(Closings') = Cardinality(Closings) + 1
    BY <2>2, FiniteCounts, FS_AddElement
  <2>4. ClosingNum = Cardinality(Closings) /\ ClosingNum' = Cardinality(Closings')
    BY DEF ClosingNum, Closings
  <2>5. QED  BY <2>1, <2>3, <2>4, FiniteCounts
<1>3. QED  BY <1>1, <1>2, CloseOpens

(* Only what the loop is about to put into the map counts as coming. *)
LEMMA ComingKept ==
    ASSUME kicking'[Loop].pc = kicking[Loop].pc, kicking'[Loop].next = kicking[Loop].next
    PROVE  ComingNum' = ComingNum
BY DEF ComingNum, Coming

(* Steps that touch nothing that is counted. *)
LEMMA CountedKept ==
    ASSUME Counted, ComingNum' = ComingNum,
           UNCHANGED <<connNum, registerChan, holder, open, unregisterChan, closing>>
    PROVE  Counted'
BY DEF Counted, ClosingNum

(* A connection that is accepted is open and is to be registered. *)
LEMMA AcceptCounts ==
    ASSUME GatewayTypes, GatewayTypes', Stages, Counted, NEW o \in Objects, Accept(o)
    PROVE  Counted'
<1> DEFINE c == Len(holder) + 1
<1>1. /\ open' = open \cup {c} /\ registerChan' = Append(registerChan, o)
      /\ holder' = Append(holder, o) /\ UNCHANGED <<connNum, kicking, unregisterChan, closing>>
  BY DEF Accept, map
<1>2. /\ Len(registerChan') = Len(registerChan) + 1 /\ Len(holder') = Len(holder) + 1
      /\ DOMAIN holder = 1 .. Len(holder)
  BY <1>1, Kickers, ChannelAppend DEF GatewayTypes, PlainTypes
<1>3. c \notin open
  BY <1>2, FiniteCounts DEF Stages, Addresses
<1>4. Cardinality(open') = Cardinality(open) + 1
  BY <1>1, <1>3, FiniteCounts, FS_AddElement
<1>5. ComingNum' = ComingNum /\ ClosingNum' = ClosingNum
  BY <1>1 DEF ComingNum, Coming, ClosingNum
<1>6. QED  BY <1>1, <1>2, <1>4, <1>5, FiniteCounts, SMTT(30) DEF Counted

(* From those that close into unregisterChan, and out of it. *)
LEMMA UnregisterCounts ==
    ASSUME GatewayTypes, GatewayTypes', Counted, Unregister \/ \E x \in Closers : UnRegister(x)
    PROVE  Counted'
<1>1. ASSUME NEW x \in Closers, UnRegister(x)  PROVE Counted'
  <2>1. /\ closing[x] # Nobody /\ unregisterChan' = Append(unregisterChan, closing[x])
        /\ closing' = [closing EXCEPT ![x] = Nobody]
        /\ UNCHANGED <<connNum, registerChan, holder, open, kicking>>
    BY <1>1 DEF UnRegister, objects, sockets, map
  <2>2. Len(unregisterChan') = Len(unregisterChan) + 1
    BY <2>1, ChannelAppend DEF GatewayTypes, PlainTypes
  <2>3. Closings' = Closings \ {x} /\ x \in Closings
    BY <2>1 DEF Closings, GatewayTypes, PlainTypes
  <2>4. Cardinality(Closings') = Cardinality(Closings) - 1
    BY <2>3, FiniteCounts, FS_RemoveElement
  <2>5. ClosingNum = Cardinality(Closings) /\ ClosingNum' = Cardinality(Closings')
    BY DEF ClosingNum, Closings
  <2>6. ComingNum' = ComingNum
    BY <2>1 DEF ComingNum, Coming
  <2>7. QED  BY <2>1, <2>2, <2>4, <2>5, <2>6, FiniteCounts, SMTT(30) DEF Counted
<1>2. CASE Unregister
  <2>1. /\ unregisterChan # <<>> /\ unregisterChan' = Tail(unregisterChan)
        /\ connNum' = connNum - 1
        /\ UNCHANGED <<registerChan, holder, open, closing, kicking>>
    BY <1>2 DEF Unregister, sockets
  <2>2. Len(unregisterChan') = Len(unregisterChan) - 1
    BY <2>1, ChannelTail DEF GatewayTypes, PlainTypes
  <2>3. ComingNum' = ComingNum /\ ClosingNum' = ClosingNum
    BY <2>1 DEF ComingNum, Coming, ClosingNum
  <2>4. /\ connNum + Len(registerChan) + ComingNum
             = Cardinality(open) + Len(unregisterChan) + ClosingNum
        /\ Len(registerChan) + ComingNum =< Len(holder)
        /\ Cardinality(open) + Len(unregisterChan) + ClosingNum =< Len(holder)
    BY DEF Counted
  <2>5. /\ connNum' + Len(registerChan) + ComingNum
             = Cardinality(open) + Len(unregisterChan') + ClosingNum
        /\ Cardinality(open) + Len(unregisterChan') + ClosingNum =< Len(holder)
    <3>1. /\ connNum \in Int /\ Cardinality(open) \in Nat /\ ClosingNum \in Nat
          /\ Len(registerChan) \in Nat /\ Len(unregisterChan) \in Nat /\ Len(holder) \in Nat
          /\ ComingNum \in Int
      BY FiniteCounts
    <3>2. connNum' = connNum - 1 /\ Len(unregisterChan') = Len(unregisterChan) - 1
      BY <2>1, <2>2
    <3> HIDE DEF ComingNum, ClosingNum
    <3>3. QED  BY <2>4, <3>1, <3>2, SMTT(30)
  <2>6. QED  BY <2>1, <2>3, <2>4, <2>5 DEF Counted
<1>3. QED  BY <1>1, <1>2

(* From registerChan to what the loop is about to add, and into the map. *)
LEMMA RegisterCounts ==
    ASSUME GatewayTypes, GatewayTypes', Counted, Register \/ Registered
    PROVE  Counted'
<1>1. CASE Register
  <2>1. /\ kicking[Loop].pc = "idle" /\ registerChan # <<>> /\ registerChan' = Tail(registerChan)
        /\ kicking' = [kicking EXCEPT ![Loop] =
             [pc |-> "kick", clients |-> Displaced, next |-> Head(registerChan)]]
        /\ UNCHANGED <<connNum, holder, open, unregisterChan, closing>>
    BY <1>1 DEF Register, LoopIsFree, Kicks, sockets
  <2>2. Len(registerChan') = Len(registerChan) - 1 /\ Head(registerChan) \in Objects
    BY <2>1, Kickers, ChannelTail
  <2>3. ComingNum = 0 /\ ClosingNum' = ClosingNum
    BY <2>1 DEF ComingNum, Coming, ClosingNum
  <2>4. kicking'[Loop].pc = "kick" /\ kicking'[Loop].next \in Objects
    BY <2>1, <2>2, Kickers
  <2>5. ComingNum' = 1
    BY <2>4 DEF ComingNum, Coming
  <2>6. QED  BY <2>1, <2>2, <2>3, <2>5, FiniteCounts DEF Counted
<1>2. CASE Registered
  <2> DEFINE o == kicking[Loop].next
  <2>1. /\ kicking[Loop].pc = "kick" /\ kicking' = [kicking EXCEPT ![Loop] = Rest]
        /\ connNum' = IF o = Nobody THEN connNum ELSE connNum + 1
        /\ UNCHANGED <<registerChan, holder, open, unregisterChan, closing>>
    BY <1>2 DEF Registered, sockets, channels
  <2>2. o \in Objects \cup {Nobody} /\ Nobody \notin Objects
    BY <2>1, Kickers DEF Kicking
  <2>3. ComingNum = IF o = Nobody THEN 0 ELSE 1
    BY <2>1, <2>2 DEF ComingNum, Coming
  <2>4. kicking'[Loop].pc # "kick"
    BY <2>1, Kickers DEF Rest
  <2>5. ComingNum' = 0 /\ ClosingNum' = ClosingNum
    BY <2>1, <2>4 DEF ComingNum, Coming, ClosingNum
  <2>6. QED  BY <2>1, <2>3, <2>5, FiniteCounts DEF Counted
<1>3. QED  BY <1>1, <1>2

(* Every step keeps the counts. *)
LEMMA CountedByNext ==
    ASSUME GatewayTypes, GatewayTypes', Stages, ClientsKnown, Counted, [GatewayNext]_GatewayVars
    PROVE  Counted'
<1>1. ASSUME NEW o \in Objects, Accept(o)  PROVE Counted'
  BY <1>1, AcceptCounts
<1>2. CASE Unregister \/ Register \/ Registered \/ \E x \in Closers : UnRegister(x)
  BY <1>2, UnregisterCounts, RegisterCounts
<1>3. ASSUME NEW x \in Closers, NEW o \in Objects, Used(o), Close(x, o), ComingNum' = ComingNum,
             UNCHANGED <<connNum, registerChan, holder, unregisterChan>>
      PROVE  Counted'
  <2>1. Cardinality(open') + ClosingNum' = Cardinality(open) + ClosingNum
    BY <1>3, CloseCounts
  <2>2. /\ Cardinality(open') \in Nat /\ ClosingNum' \in Nat
    <3>1. (GatewayTypes => Cardinality(open) \in Nat /\ ClosingNum \in Nat)'
      BY NatCounts, PTL
    <3>2. QED  BY <3>1
  <2>3. /\ connNum + Len(registerChan) + ComingNum
             = Cardinality(open) + Len(unregisterChan) + ClosingNum
        /\ Len(registerChan) + ComingNum =< Len(holder)
        /\ Cardinality(open) + Len(unregisterChan) + ClosingNum =< Len(holder)
    BY DEF Counted
  <2>4. /\ connNum + Len(registerChan) + ComingNum
             = Cardinality(open') + Len(unregisterChan) + ClosingNum'
        /\ Cardinality(open') + Len(unregisterChan) + ClosingNum' =< Len(holder)
    BY <2>1, <2>2, <2>3, FiniteCounts, SMTT(30)
  <2>5. QED  BY <1>3, <2>3, <2>4 DEF Counted
<1>4. ASSUME NEW c \in Conns, ReaderCloses(c)  PROVE Counted'
  <2>1. /\ c \in DOMAIN reader /\ Close(c, holder[c])
        /\ UNCHANGED <<connNum, registerChan, holder, unregisterChan, kicking>>
    BY <1>4 DEF ReaderCloses, channels, map
  <2>2. holder[c] \in Objects /\ holder[c] \in In(holder) /\ c \in Closers
    BY <2>1 DEF GatewayTypes, PlainTypes, In, Closers
  <2>3. Used(holder[c])
    BY <2>2 DEF ClientsKnown, OnlyUsed
  <2>4. ComingNum' = ComingNum
    BY <2>1, ComingKept
  <2>5. QED  BY <1>3, <2>1, <2>2, <2>3, <2>4
<1>5. ASSUME NEW o \in Objects, Kick(o)  PROVE Counted'
  <2>1. /\ kicking[Loop].pc = "kick" /\ o \in kicking[Loop].clients /\ Close(Loop, o)
        /\ kicking' = [kicking EXCEPT ![Loop].clients = @ \ {o}]
        /\ UNCHANGED <<connNum, registerChan, holder, unregisterChan>>
    BY <1>5 DEF Kick, channels, map
  <2>2. kicking'[Loop].pc = kicking[Loop].pc /\ kicking'[Loop].next = kicking[Loop].next
    BY <2>1, Kickers DEF Kicking
  <2>3. Used(o)
    BY <2>1, Kickers DEF ClientsKnown, OnlyUsed, Rest
  <2>4. ComingNum' = ComingNum
    BY <2>2, ComingKept
  <2>5. QED  BY <1>3, <2>1, <2>3, <2>4, Kickers
<1>6. CASE KickUserConn
  <2>1. /\ kicking[Rpc].pc = "close" /\ Close(Rpc, kicking[Rpc].next)
        /\ UNCHANGED <<connNum, registerChan, holder, unregisterChan>>
    BY <1>6 DEF KickUserConn, channels, map
  <2>2. kicking'[Loop] = kicking[Loop]
    BY <1>6, Kickers DEF KickUserConn
  <2>3. kicking[Rpc].next \in Objects /\ Used(kicking[Rpc].next)
    BY <2>1, Kickers DEF ClientsKnown, OnlyUsed, Kicking, Rest
  <2>4. ComingNum' = ComingNum
    BY <2>2, ComingKept
  <2>5. QED  BY <1>3, <2>1, <2>3, <2>4, Kickers
<1>7. CASE \/ \E c \in Conns : ReadEnds(c)
           \/ LoginElsewhere \/ KickUserOffline \/ \E o \in Objects : DeleteConn(o)
           \/ UNCHANGED GatewayVars
  <2>1. UNCHANGED <<connNum, registerChan, holder, open, unregisterChan, closing>>
    BY <1>7 DEF ReadEnds, LoginElsewhere, KickUserOffline, DeleteConn, GatewayVars,
          sockets, channels, map
  <2>2. kicking'[Loop] = kicking[Loop]
    BY <1>7, Kickers DEF ReadEnds, LoginElsewhere, KickUserOffline, DeleteConn, GatewayVars,
          Kicks
  <2>3. QED  BY <2>1, <2>2, ComingKept, CountedKept
<1>8. CASE KickElsewhere
  <2>1. /\ kicking[Loop].pc = "idle"
        /\ UNCHANGED <<connNum, registerChan, holder, open, unregisterChan, closing>>
        /\ \/ UNCHANGED kicking
           \/ kicking' = [kicking EXCEPT ![Loop] =
                [pc |-> "kick", clients |-> Head(kickChan), next |-> Nobody]]
    BY <1>8 DEF KickElsewhere, LoopIsFree, Kicks, sockets
  <2>2. CASE UNCHANGED kicking
    BY <2>1, <2>2, ComingKept, CountedKept
  <2>3. CASE kicking' = [kicking EXCEPT ![Loop] =
                [pc |-> "kick", clients |-> Head(kickChan), next |-> Nobody]]
    <3>1. kicking'[Loop].next = Nobody /\ Nobody \notin Objects
      BY <2>3, Kickers
    <3>2. ComingNum = 0 /\ ComingNum' = 0
      BY <2>1, <3>1 DEF ComingNum, Coming
    <3>3. QED  BY <2>1, <3>2, CountedKept
  <2>4. QED  BY <2>1, <2>2, <2>3
<1>9. QED
  BY <1>1, <1>2, <1>4, <1>5, <1>6, <1>7, <1>8 DEF GatewayNext, LoopNext

(* Every step keeps the stages. *)
LEMMA StagesByNext ==
    ASSUME GatewayTypes, Stages, ClientsKnown, [GatewayNext]_GatewayVars
    PROVE  Stages'
<1>1. CASE \/ Unregister \/ (\E o \in Objects : Accept(o))
           \/ \E x \in Closers : UnRegister(x)
  BY <1>1, AcceptKeepsStages, UnRegisterKeepsStages, UnregisterKeepsStages
<1>2. ASSUME NEW c \in Conns, ReaderCloses(c)  PROVE Stages'
  <2>1. /\ c \in DOMAIN reader /\ Close(c, holder[c])
        /\ UNCHANGED <<conn, pool, holder, unregisterChan>>
    BY <1>2 DEF ReaderCloses, channels
  <2>2. holder[c] \in Objects /\ holder[c] \in In(holder) /\ c \in Closers
    BY <2>1 DEF GatewayTypes, PlainTypes, In, Closers
  <2>3. Used(holder[c])
    BY <2>2 DEF ClientsKnown, OnlyUsed
  <2>4. QED  BY <2>1, <2>2, <2>3, CloseKeepsStages
<1>3. ASSUME NEW o \in Objects, Kick(o)  PROVE Stages'
  <2>1. /\ kicking[Loop].pc = "kick" /\ o \in kicking[Loop].clients /\ Close(Loop, o)
        /\ UNCHANGED <<conn, pool, holder, unregisterChan>>
    BY <1>3 DEF Kick, channels
  <2>2. Used(o)
    BY <2>1, Kickers DEF ClientsKnown, OnlyUsed, Rest
  <2>3. QED  BY <2>1, <2>2, Kickers, CloseKeepsStages
<1>4. CASE KickUserConn
  <2>1. /\ kicking[Rpc].pc = "close" /\ Close(Rpc, kicking[Rpc].next)
        /\ UNCHANGED <<conn, pool, holder, unregisterChan>>
    BY <1>4 DEF KickUserConn, channels
  <2>2. kicking[Rpc].next \in Objects /\ Used(kicking[Rpc].next)
    BY <2>1, Kickers DEF ClientsKnown, OnlyUsed, Kicking, Rest
  <2>3. QED  BY <2>1, <2>2, Kickers, CloseKeepsStages
<1>5. CASE \/ \E c \in Conns : ReadEnds(c)
           \/ Register \/ Registered \/ KickElsewhere
           \/ LoginElsewhere \/ KickUserOffline \/ \E o \in Objects : DeleteConn(o)
           \/ UNCHANGED GatewayVars
  <2>1. UNCHANGED <<conn, closed, pool, open, holder, unregisterChan, closing>>
    BY <1>5 DEF ReadEnds, Register, Registered, KickElsewhere, LoginElsewhere,
          KickUserOffline, DeleteConn, GatewayVars, objects, sockets, channels
  <2>2. QED  BY <2>1, StagesKept
<1>6. QED
  BY <1>1, <1>2, <1>3, <1>4, <1>5 DEF GatewayNext, LoopNext

(* Every step keeps who is known. *)
LEMMA KnownByNext ==
    ASSUME GatewayTypes, Stages, ClientsKnown, [GatewayNext]_GatewayVars
    PROVE  ClientsKnown'
<1>1. CASE \/ Register \/ Registered \/ Unregister \/ KickElsewhere \/ LoginElsewhere
           \/ KickUserOffline \/ KickUserConn
           \/ \E o \in Objects : Accept(o) \/ Kick(o) \/ DeleteConn(o)
  BY <1>1, RegisterKeepsKnown, RegisteredKeepsKnown, UnregisterKeepsKnown,
     ElsewhereKeepsKnown, RpcKeepsKnown, AcceptKeepsKnown, KickKeepsKnown
<1>2. ASSUME NEW c \in Conns, ReaderCloses(c)  PROVE ClientsKnown'
  <2>1. /\ c \in DOMAIN reader /\ closed' = closed \cup {holder[c]}
        /\ UNCHANGED <<users, registerChan, holder, kickChan, kicking, conn, pool, early>>
    BY <1>2 DEF ReaderCloses, Close, channels, map
  <2>2. holder[c] \in In(holder)
    BY <2>1 DEF GatewayTypes, PlainTypes, In
  <2>3. \A o \in closed' : Used(o)
    BY <2>1, <2>2 DEF ClientsKnown, OnlyUsed
  <2>4. QED  BY <2>1, <2>3, KnownKept
<1>3. CASE \/ (\E c \in Conns : ReadEnds(c)) \/ UNCHANGED GatewayVars
           \/ \E x \in Closers : UnRegister(x)
  <2>1. UNCHANGED <<users, registerChan, holder, kickChan, kicking, conn, closed, pool, early>>
    BY <1>3 DEF ReadEnds, UnRegister, GatewayVars, objects, sockets, channels, map
  <2>2. \A o \in closed' : Used(o)
    BY <2>1 DEF ClientsKnown, OnlyUsed
  <2>3. QED  BY <2>1, <2>2, KnownKept
<1>4. QED  BY <1>1, <1>2, <1>3 DEF GatewayNext, LoopNext

-----------------------------------------------------------------------------
(* At first nothing is in use. *)
LEMMA GatewayInvAtFirst == GatewayInit => GatewayInv
<1> SUFFICES ASSUME GatewayInit  PROVE GatewayInv
  OBVIOUS
<1> USE DEF GatewayInit
<1>1. In(<<>>) = {} /\ DOMAIN <<>> = {} /\ Len(<<>>) = 0
  BY DEF In
<1>2. PlainTypes
  <2>1. /\ MaxConns \in Nat /\ MaxKicks \in Nat /\ ChanSize \in Nat
        /\ 0 \in 0 .. MaxConns /\ 0 \in 0 .. MaxKicks
    BY GatewayAssumption
  <2>2. <<>> \in Seq(Objects) /\ 1 .. Len(<<>>) = {}
    BY <1>1
  <2>3. reader \in [1 .. Len(holder) -> {"reads", "ended", "done"}]
    BY <1>1, <2>2
  <2>4. /\ conn \in [Objects -> 0 .. MaxConns] /\ closed \subseteq Objects
        /\ pool \subseteq Objects /\ open \subseteq Conns
        /\ closing \in [Closers -> Objects \cup {Nobody}]
    BY <2>1
  <2>5. /\ holder \in Seq(Objects) /\ unregisterChan \in Seq(Objects)
        /\ Len(holder) = 0 /\ Len(registerChan) = 0 /\ Len(unregisterChan) = 0
        /\ Len(kickChan) = 0
    BY <1>1, <2>2
  <2>6. /\ exclusive \in BOOLEAN /\ connNum \in Int /\ kicks \in 0 .. MaxKicks
        /\ early \in BOOLEAN
    <3>1. exclusive \in BOOLEAN /\ early \in BOOLEAN
      BY Zenon
    <3>2. connNum = 0 /\ kicks = 0
      BY Zenon
    <3>3. QED  BY <2>1, <3>1, <3>2
  <2>7. 0 =< MaxConns /\ 0 =< ChanSize
    BY <2>1
  <2>8. QED  BY <2>3, <2>4, <2>5, <2>6, <2>7 DEF PlainTypes
<1>3. OneInv
  BY DEF OneInv, LoopTypeOK, OneOrNone, Rest
<1>4. ~\E o \in Objects : Used(o)
  BY DEF Used
<1>5. \A x \in {Loop, Rpc} : kicking[x] = Rest /\ kicking[x].pc = "idle"
  BY DEF Rest
<1>6. \A x \in Closers : closing[x] = Nobody
  OBVIOUS
<1>7. Addresses
  BY <1>4 DEF Addresses
<1>8. OneStage
  BY <1>1, <1>4, <1>6, GatewayAssumption DEF OneStage, Closing
<1>9. OnlyUsed /\ OpenIsKnown
  BY <1>1, <1>4, <1>5 DEF OnlyUsed, OpenIsKnown
<1>10. KnownIsUsed
  BY <1>1, <1>5 DEF KnownIsUsed, Coming
<1>11. ComingNum = 0 /\ ClosingNum = 0
  <2>1. {x \in Closers : closing[x] # Nobody} = {}
    BY <1>6
  <2>2. QED  BY <1>5, <2>1, FS_EmptySet DEF ComingNum, Coming, ClosingNum
<1>12. Counted
  BY <1>1, <1>11, FS_EmptySet DEF Counted
<1>13. QED
  BY <1>2, <1>3, <1>7, <1>8, <1>9, <1>10, <1>12 DEF GatewayInv, GatewayTypes, Stages, ClientsKnown

(* Every step keeps the invariant. *)
LEMMA GatewayInvByNext == GatewayInv /\ [GatewayNext]_GatewayVars => GatewayInv'
<1> SUFFICES ASSUME GatewayInv, [GatewayNext]_GatewayVars  PROVE GatewayInv'
  OBVIOUS
<1>1. GatewayTypes /\ Stages /\ ClientsKnown /\ Counted /\ OnlyUsed
  BY DEF GatewayInv, ClientsKnown
<1>2. GatewayTypes'
  BY <1>1, GatewayTypesByNext
<1>3. Stages' /\ ClientsKnown' /\ Counted'
  BY <1>1, <1>2, StagesByNext, KnownByNext, CountedByNext
<1>4. QED  BY <1>2, <1>3 DEF GatewayInv

(* The counter stays within the number of connections, although a client may *)
(* be unregistered before it was registered.                                 *)
LEMMA InvTypes == GatewayInv => GatewayTypeOK
<1> SUFFICES ASSUME GatewayInv  PROVE GatewayTypeOK
  OBVIOUS
<1>1. PlainTypes /\ LoopTypeOK /\ Counted
  BY DEF GatewayInv, GatewayTypes, OneInv
<1>2. /\ connNum \in Int /\ Cardinality(open) \in Nat /\ ClosingNum \in Nat
      /\ Len(registerChan) \in Nat /\ Len(unregisterChan) \in Nat /\ Len(holder) \in Nat
      /\ ComingNum \in Nat
  BY FiniteCounts DEF GatewayInv
<1>3. connNum \in -MaxConns .. MaxConns
  <2>1. /\ connNum + Len(registerChan) + ComingNum
             = Cardinality(open) + Len(unregisterChan) + ClosingNum
        /\ Len(registerChan) + ComingNum =< Len(holder)
        /\ Cardinality(open) + Len(unregisterChan) + ClosingNum =< Len(holder)
        /\ Len(holder) =< MaxConns /\ MaxConns \in Nat
    BY <1>1, GatewayAssumption DEF Counted, PlainTypes
  <2> HIDE DEF ComingNum, ClosingNum
  <2>2. connNum =< MaxConns /\ -MaxConns =< connNum
    BY <1>2, <2>1
  <2>3. QED  BY <1>2, <2>1, <2>2
<1>4. DOMAIN holder = 1 .. Len(holder)
  BY <1>1 DEF PlainTypes
<1>5. \A x \in {Loop, Rpc} : kicking[x].pc \in {"idle", "kick", "close"}
  BY <1>1 DEF LoopTypeOK, Kicking, Rest
<1>6. QED
  BY <1>1, <1>3, <1>4, <1>5 DEF GatewayTypeOK, PlainTypes, LoopTypeOK

(* When nothing is on its way the map holds the open connections. *)
LEMMA InvQuiet == GatewayInv => QuietIsRight
<1> SUFFICES ASSUME GatewayInv, Quiet, ~early
             PROVE  /\ users = {holder[c] : c \in open}
                    /\ connNum = Cardinality(open)
  BY DEF QuietIsRight
<1>1. /\ registerChan = <<>> /\ unregisterChan = <<>>
      /\ \A x \in {Loop, Rpc} : kicking[x] = Rest
      /\ \A x \in Closers : closing[x] = Nobody
  BY DEF Quiet
<1>2. In(registerChan) = {} /\ In(unregisterChan) = {}
  BY <1>1 DEF In
<1>3. /\ kicking[Loop].pc # "kick" /\ kicking[Rpc].pc # "close"
      /\ \A o \in Objects : ~Coming(o)
  BY <1>1 DEF Coming, Rest
<1>4. \A o \in Objects : ~Closing(o)
  BY <1>1, GatewayAssumption DEF Closing
<1>5. Addresses /\ OneStage /\ OnlyUsed /\ OpenIsKnown /\ KnownIsUsed
  BY DEF GatewayInv, Stages, ClientsKnown
<1>6. users \subseteq Objects /\ \A c \in DOMAIN holder : holder[c] \in Objects
  BY DEF GatewayInv, GatewayTypes, PlainTypes, OneInv, LoopTypeOK
<1>7. ASSUME NEW o \in users  PROVE o \in {holder[c] : c \in open}
  <2>1. o \in Objects /\ Used(o)
    BY <1>5, <1>6 DEF OnlyUsed
  <2>2. o \notin pool
    BY <1>5, <1>7 DEF KnownIsUsed
  <2>3. o \notin closed
    BY <1>2, <1>4, <1>5, <2>1, <2>2 DEF OneStage
  <2>4. conn[o] \in open /\ holder[conn[o]] = o
    BY <1>5, <2>1, <2>3 DEF Addresses
  <2>5. QED  BY <2>4
<1>8. ASSUME NEW c \in open  PROVE holder[c] \in users
  <2>1. c \in DOMAIN holder /\ conn[holder[c]] = c /\ holder[c] \notin closed
    BY <1>5 DEF Addresses
  <2>2. holder[c] \in Objects /\ Used(holder[c])
    <3>1. holder[c] \in In(holder)
      BY <2>1 DEF In
    <3>2. QED  BY <1>5, <1>6, <2>1, <3>1 DEF OnlyUsed
  <2>3. QED  BY <1>2, <1>3, <1>5, <2>1, <2>2 DEF OpenIsKnown
<1>9. users = {holder[c] : c \in open}
  BY <1>7, <1>8
<1>10. ComingNum = 0 /\ ClosingNum = 0
  <2>1. {x \in Closers : closing[x] # Nobody} = {}
    BY <1>1
  <2>2. QED  BY <1>3, <2>1, FS_EmptySet DEF ComingNum, ClosingNum
<1>11. connNum = Cardinality(open)
  <2>1. /\ connNum \in Int /\ Cardinality(open) \in Nat
        /\ Len(registerChan) = 0 /\ Len(unregisterChan) = 0
    BY <1>1, FiniteCounts DEF GatewayInv
  <2>2. connNum + Len(registerChan) + ComingNum
          = Cardinality(open) + Len(unregisterChan) + ClosingNum
    BY DEF GatewayInv, Counted
  <2>3. QED  BY <1>10, <2>1, <2>2
<1>12. QED  BY <1>9, <1>11

(* The types of everything the gateway keeps; onlineUserConnNum may be       *)
(* negative for a while, but never by more than there were connections.      *)
THEOREM GatewayTypeCorrect == GatewaySpec => []GatewayTypeOK
BY GatewayInvAtFirst, GatewayInvByNext, InvTypes, PTL DEF GatewaySpec

(* When nothing is on its way, the map of users holds the open connections   *)
(* and onlineUserConnNum counts them, whoever closed, was kicked or came     *)
(* back from the pool before; provided no client was unregistered before it  *)
(* was registered (registerChan and unregisterChan, ws_server.go).           *)
THEOREM QuietMapIsRight == GatewaySpec => []QuietIsRight
BY GatewayInvAtFirst, GatewayInvByNext, InvQuiet, PTL DEF GatewaySpec

-----------------------------------------------------------------------------
(* The read positions. *)

(* Types. *)

(* The parts of a sequence. *)
LEMMA Sequels ==
    ASSUME NEW S, NEW q \in Seq(S)
    PROVE  /\ q # <<>> => Head(q) \in S /\ Tail(q) \in Seq(S)
           /\ \A x \in S : Append(q, x) \in Seq(S)
           /\ \A i \in 1..Len(q) : q[i] \in S
  OBVIOUS

(* A goroutine that is not idle has a piece of work in hand. *)
LEMMA TaskAtWork ==
    ASSUME ReadPositionsTypeOK
    PROVE  /\ \A g \in Tasks : task[g].pc # "idle" => task[g] \in Piece
           /\ \A w \in Writers : writers[w].pc # "idle" => writers[w] \in Writing
  BY DEF ReadPositionsTypeOK, Idle

(* The parts of a piece of work, and what it may become. *)
LEMMA Pieces ==
    ASSUME NEW a \in Piece
    PROVE  /\ a.pc # "idle" /\ a.c \in Conversations /\ a.s \in Position
           /\ a.v \in Position /\ a.key \in Keys /\ a.stage \in {"look", "compare"}
           /\ [a EXCEPT !.pc = "done"] \in Piece
           /\ a.pc \in {"look", "compare"} => \A v \in Position :
                [a EXCEPT !.pc = "fill", !.stage = a.pc, !.v = v] \in Piece
  BY DEF Piece

(* The parts of what is to be written to MongoDB. *)
LEMMA Writings ==
    ASSUME NEW a \in Writing
    PROVE  /\ a.pc # "idle" /\ a.c \in Conversations /\ a.s \in Position
           /\ [a EXCEPT !.pc = "set"] \in Writing
  BY DEF Writing

(* What a goroutine begins with. *)
LEMMA NewPiece ==
    ASSUME NEW stage \in {"look", "compare"}, NEW c \in Conversations,
           NEW s \in Position, NEW keep \in BOOLEAN, NEW key \in Keys
    PROVE  NewTask(stage, c, s, keep, key) \in Piece
  BY ReadPositionsAssumption DEF NewTask, Piece, Position

(* What a goroutine is to do after an answer is a piece of work. *)
LEMMA AnsweredPiece ==
    ASSUME NEW a \in Piece, NEW stage \in {"look", "compare"},
           NEW v \in Position
    PROVE  /\ Answered(a, stage, v) \in Piece
           /\ Answered(a, stage, v).c = a.c /\ Answered(a, stage, v).v = a.v
           /\ Answered(a, stage, v).pc \in {"compare", "set", "done"}
           /\ Answered(a, stage, v).s \in {a.s, v}
  BY DEF Answered, Piece

(* The requests and the worker of msgtransfer. *)
LEMMA TypeOfTasks ==
    ASSUME ReadPositionsTypeOK,
           \/ \E r \in Requests, c \in Conversations, call \in Calls :
                Request(r, c, call)
           \/ \E c \in Conversations : Send(c) \/ Receive(c) \/ Expire(c)
           \/ \E g \in Tasks : \/ GetUserReadSeq(g) \/ Miss(g) \/ Fill(g)
                               \/ RawSet(g) \/ Pass(g) \/ Fail(g)
    PROVE  ReadPositionsTypeOK'
<1> USE ReadPositionsAssumption
    DEF ReadPositionsTypeOK, chats, caches, queues, counts, history, RacedIf
<1>1. ASSUME NEW r \in Requests, NEW c \in Conversations, NEW call \in Calls,
             Request(r, c, call)
      PROVE  ReadPositionsTypeOK'
  <2>1. PICK s \in Position \ {0} :
          /\ task' = [task EXCEPT ![r] = NewTask(Stage(call), c, s,
                        call = "MarkConversationAsRead",
                        IF c \in Private /\ Stage(call) = "look" THEN c ELSE Nil)]
          /\ Claims(c, s)
    BY <1>1 DEF Request
  <2>2. s \in Position
    BY DEF Position
  <2>3. task' \in [Tasks -> {Idle} \cup Piece]
    BY <2>1, <2>2, NewPiece DEF Stage, Keys, Tasks
  <2>4. claimed' \in [Conversations -> Position]
    BY <2>1, <2>2 DEF Claims
  <2>5. requests' \in 0..MaxRequests
    BY <1>1 DEF Request
  <2>6. QED  BY <1>1, <2>3, <2>4, <2>5 DEF Request
<1>2. ASSUME NEW c \in Conversations, Send(c)  PROVE ReadPositionsTypeOK'
  <2>1. top[c] + 1 \in Position /\ requests' \in 0..MaxRequests
    BY <1>2 DEF Send, Position
  <2>2. task' \in [Tasks -> {Idle} \cup Piece]
    BY <1>2, <2>1, NewPiece DEF Send, Keys, Tasks
  <2>3. claimed' \in [Conversations -> Position] /\ top' \in [Conversations -> Position]
    BY <1>2, <2>1 DEF Send, Claims
  <2>4. QED  BY <1>2, <2>1, <2>2, <2>3 DEF Send
<1>3. ASSUME NEW c \in Conversations, Receive(c)  PROVE ReadPositionsTypeOK'
  <2>1. top[c] + 1 \in Position
    BY <1>3 DEF Receive, Position
  <2>2. QED  BY <1>3, <2>1 DEF Receive
<1>4. ASSUME NEW c \in Conversations, Expire(c)  PROVE ReadPositionsTypeOK'
  BY <1>4 DEF Expire
<1>5. ASSUME NEW g \in Tasks, GetUserReadSeq(g)  PROVE ReadPositionsTypeOK'
  <2>1. task[g] \in Piece /\ redis[task[g].c] \in Position
    BY <1>5, TaskAtWork, Pieces DEF GetUserReadSeq
  <2>2. Answered(task[g], task[g].pc, redis[task[g].c]) \in Piece
    BY <1>5, <2>1, AnsweredPiece DEF GetUserReadSeq
  <2>3. QED  BY <1>5, <2>2 DEF GetUserReadSeq
<1>6. ASSUME NEW g \in Tasks, Miss(g)  PROVE ReadPositionsTypeOK'
  <2>1. task[g] \in Piece /\ mongo[task[g].c] \in Position
    BY <1>6, TaskAtWork, Pieces DEF Miss
  <2>2. task' \in [Tasks -> {Idle} \cup Piece]
    BY <1>6, <2>1, Pieces DEF Miss
  <2>3. task[g].c \in Conversations
    BY <2>1, Pieces
  <2>4. owner' \in [Conversations -> Tasks \cup {Nil}] /\ raced' \subseteq Conversations
    BY <1>6, <2>3 DEF Miss
  <2>5. UNCHANGED <<top, claimed, redis, mongo, receipts, sent, writers,
                    requests, losses, mixed, lost>>
    BY <1>6 DEF Miss
  <2>6. QED  BY <2>2, <2>4, <2>5
<1>7. ASSUME NEW g \in Tasks, Fill(g)  PROVE ReadPositionsTypeOK'
  <2>1. task[g] \in Piece
    BY <1>7, TaskAtWork DEF Fill
  <2>2. Answered(task[g], task[g].stage, task[g].v) \in Piece
    BY <2>1, AnsweredPiece, Pieces
  <2>3. QED  BY <1>7, <2>1, <2>2, Pieces DEF Fill
<1>8. ASSUME NEW g \in Tasks, RawSet(g)  PROVE ReadPositionsTypeOK'
  <2>1. task[g] \in Piece
    BY <1>8, TaskAtWork DEF RawSet
  <2>2. QED  BY <1>8, <2>1, Pieces DEF RawSet
<1>9. ASSUME NEW g \in Tasks, Pass(g)  PROVE ReadPositionsTypeOK'
  <2>1. task[g] \in Piece
    BY <1>9, TaskAtWork DEF Pass
  <2>2. [c |-> task[g].c, s |-> task[g].s, key |-> task[g].key] \in Receipt
    BY <2>1, Pieces DEF Receipt
  <2>3. [c |-> task[g].c, s |-> task[g].s] \in [c : Conversations, s : Position]
    BY <2>1, Pieces
  <2>4. task' \in [Tasks -> {Idle} \cup Piece]
    BY <1>9 DEF Pass
  <2>5. receipts' \subseteq Receipt /\ sent' \in Seq([c : Conversations, s : Position])
    <3>1. Append(sent, [c |-> task[g].c, s |-> task[g].s])
            \in Seq([c : Conversations, s : Position])
      BY <2>3, Sequels
    <3>2. QED  BY <1>9, <2>2, <3>1 DEF Pass
  <2>6. QED  BY <1>9, <2>4, <2>5 DEF Pass
<1>10. ASSUME NEW g \in Tasks, Fail(g)  PROVE ReadPositionsTypeOK'
  <2>1. task[g] \in Piece
    BY <1>10, TaskAtWork DEF Fail
  <2>2. task[g].c \in Conversations /\ [task[g] EXCEPT !.pc = "done"] \in Piece
    BY <2>1, Pieces
  <2>3. task' \in [Tasks -> {Idle} \cup Piece]
    <3>1. CASE g = Sender
      BY <1>10, <2>2, <3>1 DEF Fail
    <3>2. CASE g # Sender
      BY <1>10, <3>2 DEF Fail
    <3>3. QED  BY <3>1, <3>2
  <2>4. owner' \in [Conversations -> Tasks \cup {Nil}] /\ lost' \subseteq Conversations
    BY <1>10, <2>2 DEF Fail
  <2>5. losses' \in 0..MaxLosses
    BY <1>10 DEF Fail
  <2>6. QED  BY <1>10, <2>3, <2>4, <2>5 DEF Fail
<1>11. QED
  BY <1>1, <1>2, <1>3, <1>4, <1>5, <1>6, <1>7, <1>8, <1>9, <1>10

(* The goroutines that write to MongoDB. *)
LEMMA TypeOfWriters ==
    ASSUME ReadPositionsTypeOK,
           \/ \E x \in receipts : LoseReceipt(x)
           \/ HandleReceipts \/ HandleSent
           \/ \E w \in Writers :
                WriterGets(w) \/ WriterSets(w) \/ WriterFails(w)
    PROVE  ReadPositionsTypeOK'
<1> USE ReadPositionsAssumption
    DEF ReadPositionsTypeOK, chats, caches, queues, counts, history, RacedIf
<1>1. ASSUME NEW x \in receipts, LoseReceipt(x)  PROVE ReadPositionsTypeOK'
  <2>1. x.c \in Conversations /\ losses' \in 0..MaxLosses
    BY <1>1 DEF LoseReceipt, Loses, Receipt
  <2>2. QED  BY <1>1, <2>1 DEF LoseReceipt, Loses
<1>2. CASE HandleReceipts
  <2>1. PICK last \in receipts, batch \in SUBSET receipts :
          /\ receipts' = receipts \ batch
          /\ mixed' = IF \A x \in batch : x.c = last.c
                      THEN mixed ELSE mixed \cup {x.c : x \in batch}
          /\ \E x \in DoSetReadSeq(batch, last) : Writes("receipts", x)
    BY <1>2 DEF HandleReceipts
  <2>2. PICK x \in batch : Writes("receipts", [c |-> last.c, s |-> x.s])
    BY <2>1 DEF DoSetReadSeq, Highest
  <2>3. last.c \in Conversations /\ \A y \in batch : y.c \in Conversations /\ y.s \in Position
    BY DEF Receipt
  <2>4. writers' \in [Writers -> {Idle} \cup Writing] /\ raced' \subseteq Conversations
    BY <2>2, <2>3 DEF Writes, Writers, Writing
  <2>5. QED  BY <1>2, <2>1, <2>3, <2>4 DEF HandleReceipts
<1>3. CASE HandleSent
  <2>1. sent \in Seq([c : Conversations, s : Position]) /\ sent # <<>>
    BY <1>3 DEF HandleSent
  <2>2. /\ Head(sent) \in [c : Conversations, s : Position]
        /\ Tail(sent) \in Seq([c : Conversations, s : Position])
    BY <2>1, Sequels
  <2>3. writers' \in [Writers -> {Idle} \cup Writing] /\ raced' \subseteq Conversations
    BY <1>3, <2>2 DEF HandleSent, Writes, Writers, Writing
  <2>4. QED  BY <1>3, <2>2, <2>3 DEF HandleSent
<1>4. ASSUME NEW w \in Writers, WriterGets(w)  PROVE ReadPositionsTypeOK'
  <2>1. writers[w] \in Writing
    BY <1>4, TaskAtWork DEF WriterGets
  <2>2. QED  BY <1>4, <2>1, Writings DEF WriterGets
<1>5. ASSUME NEW w \in Writers, WriterSets(w)  PROVE ReadPositionsTypeOK'
  <2>1. writers[w] \in Writing
    BY <1>5, TaskAtWork DEF WriterSets
  <2>2. QED  BY <1>5, <2>1, Writings DEF WriterSets
<1>6. ASSUME NEW w \in Writers, WriterFails(w)  PROVE ReadPositionsTypeOK'
  <2>1. writers[w] \in Writing
    BY <1>6, TaskAtWork DEF WriterFails
  <2>2. losses' \in 0..MaxLosses
    BY <1>6 DEF WriterFails, Loses
  <2>3. writers[w].c \in Conversations
    BY <2>1, Writings
  <2>4. QED  BY <1>6, <2>2, <2>3 DEF WriterFails, Loses
<1>7. QED  BY <1>1, <1>2, <1>3, <1>4, <1>5, <1>6


(* Every variable of the read positions keeps its type: whatever goroutines  *)
(* compare, fill in and set, and whichever receipt msgtransfer takes, a      *)
(* position stays one that some request or message may have named.           *)
THEOREM PositionsTypeCorrect == ReadPositionsSpec => []ReadPositionsTypeOK
<1>1. ReadPositionsInit => ReadPositionsTypeOK
  BY ReadPositionsAssumption
     DEF ReadPositionsInit, ReadPositionsTypeOK, Position
<1>2. ReadPositionsTypeOK /\ [ReadPositionsNext]_ReadPositionsVars
        => ReadPositionsTypeOK'
  <2> SUFFICES ASSUME ReadPositionsTypeOK,
                      [ReadPositionsNext]_ReadPositionsVars
               PROVE  ReadPositionsTypeOK'
    OBVIOUS
  <2>1. CASE ReadPositionsNext
    BY <2>1, TypeOfTasks, TypeOfWriters DEF ReadPositionsNext
  <2>2. CASE UNCHANGED ReadPositionsVars
    BY <2>2, SMTT(30) DEF ReadPositionsVars, ReadPositionsTypeOK, chats, caches, queues,
                counts, history
  <2>3. QED  BY <2>1, <2>2
<1>3. QED  BY <1>1, <1>2, PTL DEF ReadPositionsSpec

-----------------------------------------------------------------------------
(* What is stored was read.  The positions on their way to a copy were read *)
(* as well: those in the hands of goroutines, receipts and the channel.     *)

Read(c, s) == c \in mixed \/ s =< claimed[c]

CopiesRead ==
  \A c \in Conversations :
    (redis[c] # Nil => Read(c, redis[c])) /\ Read(c, mongo[c])
TaskRead(g) ==
  task[g].pc # "idle" => Read(task[g].c, task[g].s) /\ Read(task[g].c, task[g].v)
WriterRead(w) == writers[w].pc # "idle" => Read(writers[w].c, writers[w].s)
ReceiptsRead == \A x \in receipts : Read(x.c, x.s)
SentRead == \A i \in 1..Len(sent) : Read(sent[i].c, sent[i].s)

WasRead ==
  /\ CopiesRead /\ ReceiptsRead /\ SentRead
  /\ \A g \in Tasks : TaskRead(g)
  /\ \A w \in Writers : WriterRead(w)

(* What was read remains so. *)
LEMMA ReadStays ==
    ASSUME ReadPositionsTypeOK, ReadPositionsNext,
           NEW c \in Conversations, NEW s \in Position, Read(c, s)
    PROVE  Read(c, s)'
<1> USE DEF ReadPositionsTypeOK, Read, chats, caches, queues, counts, history
<1>1. ASSUME NEW d \in Conversations, NEW t \in Nat, Claims(d, t),
             UNCHANGED mixed
      PROVE  Read(c, s)'
  BY <1>1 DEF Claims, Position
<1>2. ASSUME NEW r \in Requests, NEW d \in Conversations, NEW call \in Calls,
             Request(r, d, call)
      PROVE  Read(c, s)'
  <2>1. UNCHANGED mixed /\ \E t \in Position \ {0} : Claims(d, t)
    BY <1>2 DEF Request
  <2>2. QED  BY <1>1, <2>1, ReadPositionsAssumption DEF Position
<1>3. ASSUME NEW d \in Conversations, Send(d)  PROVE Read(c, s)'
  BY <1>1, <1>3 DEF Send, Position
<1>4. CASE HandleReceipts
  BY <1>4 DEF HandleReceipts
<1>5. CASE UNCHANGED <<claimed, mixed>>
  BY <1>5
<1>6. QED
  BY <1>2, <1>3, <1>4, <1>5
     DEF ReadPositionsNext, Receive, Expire, GetUserReadSeq, Miss, Fill, RawSet,
         Pass, Fail, LoseReceipt, HandleSent, WriterGets, WriterSets, WriterFails

(* Parts that a step leaves as they are remain read. *)
LEMMA PartsStay ==
    ASSUME ReadPositionsTypeOK, ReadPositionsNext, WasRead
    PROVE  /\ UNCHANGED <<redis, mongo>> => CopiesRead'
           /\ UNCHANGED receipts => ReceiptsRead'
           /\ UNCHANGED sent => SentRead'
           /\ \A g \in Tasks : task'[g] = task[g] => TaskRead(g)'
           /\ \A w \in Writers : writers'[w] = writers[w] => WriterRead(w)'
<1>1. \A c \in Conversations, s \in Position : Read(c, s) => Read(c, s)'
  BY ReadStays
<1>2. UNCHANGED <<redis, mongo>> => CopiesRead'
  BY <1>1 DEF WasRead, CopiesRead, ReadPositionsTypeOK, Read
<1>3. UNCHANGED receipts => ReceiptsRead'
  <2>1. \A x \in receipts : x.c \in Conversations /\ x.s \in Position
    BY DEF ReadPositionsTypeOK, Receipt
  <2>2. QED  BY <1>1, <2>1 DEF WasRead, ReceiptsRead, Read
<1>4. UNCHANGED sent => SentRead'
  <2>1. \A i \in 1..Len(sent) : sent[i] \in [c : Conversations, s : Position]
    BY Sequels DEF ReadPositionsTypeOK
  <2>2. QED  BY <1>1, <2>1 DEF WasRead, SentRead, Read
<1>5. ASSUME NEW g \in Tasks, task'[g] = task[g]  PROVE TaskRead(g)'
  <2>1. CASE task[g].pc = "idle"
    BY <1>5, <2>1 DEF TaskRead
  <2>2. CASE task[g].pc # "idle"
    <3>1. /\ task[g].c \in Conversations
          /\ task[g].s \in Position /\ task[g].v \in Position
      BY <2>2, TaskAtWork, Pieces
    <3>2. QED  BY <1>1, <1>5, <3>1 DEF WasRead, TaskRead, Read
  <2>3. QED  BY <2>1, <2>2
<1>6. ASSUME NEW w \in Writers, writers'[w] = writers[w]  PROVE WriterRead(w)'
  <2>1. CASE writers[w].pc = "idle"
    BY <1>6, <2>1 DEF WriterRead
  <2>2. CASE writers[w].pc # "idle"
    <3>1. writers[w].c \in Conversations /\ writers[w].s \in Position
      BY <2>2, TaskAtWork, Writings
    <3>2. QED  BY <1>1, <1>6, <3>1 DEF WasRead, WriterRead, Read
  <2>3. QED  BY <2>1, <2>2
<1>7. QED  BY <1>2, <1>3, <1>4, <1>5, <1>6

(* The steps of the requests and of the worker keep it. *)
LEMMA WasReadTasks ==
    ASSUME ReadPositionsTypeOK, ReadPositionsNext, WasRead,
           \/ \E r \in Requests, c \in Conversations, call \in Calls :
                Request(r, c, call)
           \/ \E c \in Conversations : Send(c) \/ Receive(c) \/ Expire(c)
           \/ \E g \in Tasks : \/ GetUserReadSeq(g) \/ Miss(g) \/ Fill(g)
                               \/ RawSet(g) \/ Pass(g) \/ Fail(g)
    PROVE  WasRead'
<1> USE DEF chats, caches, queues, counts, history
<1>0. \A c \in Conversations, s \in Position : Read(c, s) => Read(c, s)'
  BY ReadStays
<1>1. ASSUME NEW r \in Requests, NEW c \in Conversations, NEW call \in Calls,
             Request(r, c, call)
      PROVE  WasRead'
  <2>1. PICK s \in Position \ {0} :
          /\ task'[r] = NewTask(Stage(call), c, s,
                        call = "MarkConversationAsRead",
                        IF c \in Private /\ Stage(call) = "look" THEN c ELSE Nil)
          /\ \A g \in Tasks \ {r} : task'[g] = task[g]
          /\ Claims(c, s)
    BY <1>1 DEF Request, ReadPositionsTypeOK, Tasks
  <2>2. claimed'[c] >= s /\ s >= 0 /\ claimed'[c] >= 0
    BY <2>1 DEF Claims, ReadPositionsTypeOK, Position
  <2>3. TaskRead(r)'
    BY <2>1, <2>2 DEF TaskRead, Read, NewTask
  <2>4. \A g \in Tasks : TaskRead(g)'
    BY <2>1, <2>3, PartsStay
  <2>5. QED  BY <1>1, <2>4, PartsStay DEF WasRead, Request
<1>2. ASSUME NEW c \in Conversations, Send(c)  PROVE WasRead'
  <2>1. /\ task'[Sender] = NewTask("compare", c, top[c] + 1, FALSE, Nil)
        /\ \A g \in Tasks \ {Sender} : task'[g] = task[g]
        /\ Claims(c, top[c] + 1)
    BY <1>2 DEF Send, ReadPositionsTypeOK, Tasks
  <2>2. claimed'[c] >= top[c] + 1 /\ claimed'[c] >= 0
    BY <2>1 DEF Claims, ReadPositionsTypeOK, Position
  <2>3. TaskRead(Sender)'
    BY <2>1, <2>2 DEF TaskRead, Read, NewTask
  <2>4. \A g \in Tasks : TaskRead(g)'
    BY <2>1, <2>3, PartsStay
  <2>5. QED  BY <1>2, <2>4, PartsStay DEF WasRead, Send
<1>3. ASSUME NEW c \in Conversations, Receive(c)  PROVE WasRead'
  BY <1>3, PartsStay DEF WasRead, Receive
<1>4. ASSUME NEW c \in Conversations, Expire(c)  PROVE WasRead'
  <2>1. CopiesRead'
    BY <1>0, <1>4 DEF Expire, WasRead, CopiesRead, ReadPositionsTypeOK, Read
  <2>2. QED  BY <1>4, <2>1, PartsStay DEF WasRead, Expire
<1>5. ASSUME NEW g \in Tasks, GetUserReadSeq(g)  PROVE WasRead'
  <2>1. task[g] \in Piece /\ redis[task[g].c] \in Position
    BY <1>5, TaskAtWork, Pieces DEF GetUserReadSeq, ReadPositionsTypeOK
  <2>2. Read(task[g].c, redis[task[g].c])
    BY <1>5, <2>1, Pieces DEF GetUserReadSeq, WasRead, CopiesRead
  <2>3. Read(task[g].c, task[g].s) /\ Read(task[g].c, task[g].v)
    BY <2>1, Pieces DEF WasRead, TaskRead
  <2>4. /\ task'[g] = Answered(task[g], task[g].pc, redis[task[g].c])
        /\ \A h \in Tasks \ {g} : task'[h] = task[h]
        /\ UNCHANGED <<claimed, mixed>>
    BY <1>5 DEF GetUserReadSeq, ReadPositionsTypeOK
  <2>5. /\ task'[g].c = task[g].c /\ task'[g].v = task[g].v
        /\ task'[g].s \in {task[g].s, redis[task[g].c]}
    BY <1>5, <2>1, <2>4, AnsweredPiece DEF GetUserReadSeq
  <2>6. TaskRead(g)'
    BY <2>2, <2>3, <2>4, <2>5 DEF TaskRead, Read
  <2>7. \A h \in Tasks : TaskRead(h)'
    BY <2>4, <2>6, PartsStay
  <2>8. QED  BY <1>5, <2>7, PartsStay DEF WasRead, GetUserReadSeq
<1>6. ASSUME NEW g \in Tasks, Miss(g)  PROVE WasRead'
  <2>1. task[g] \in Piece
    BY <1>6, TaskAtWork DEF Miss
  <2>2. Read(task[g].c, task[g].s) /\ Read(task[g].c, mongo[task[g].c])
    BY <2>1, Pieces DEF WasRead, TaskRead, CopiesRead
  <2>3. /\ task'[g] = [task[g] EXCEPT !.pc = "fill", !.stage = task[g].pc,
                                      !.v = mongo[task[g].c]]
        /\ \A h \in Tasks \ {g} : task'[h] = task[h]
        /\ UNCHANGED <<claimed, mixed, redis, mongo, receipts, sent, writers>>
    BY <1>6 DEF Miss, ReadPositionsTypeOK
  <2>4. /\ task'[g].c = task[g].c /\ task'[g].s = task[g].s
        /\ task'[g].v = mongo[task[g].c]
    BY <2>1, <2>3 DEF Piece
  <2>5. TaskRead(g)'
    BY <2>2, <2>3, <2>4 DEF TaskRead, Read
  <2>6. \A h \in Tasks : TaskRead(h)'
    BY <2>3, <2>5, PartsStay
  <2>7. QED  BY <2>3, <2>6, PartsStay DEF WasRead
<1>7. ASSUME NEW g \in Tasks, Fill(g)  PROVE WasRead'
  <2>1. task[g] \in Piece
    BY <1>7, TaskAtWork DEF Fill
  <2>2. Read(task[g].c, task[g].s) /\ Read(task[g].c, task[g].v)
    BY <2>1, Pieces DEF WasRead, TaskRead
  <2>3. /\ task'[g] = Answered(task[g], task[g].stage, task[g].v)
        /\ redis' = [redis EXCEPT ![task[g].c] = task[g].v]
        /\ \A h \in Tasks \ {g} : task'[h] = task[h]
        /\ UNCHANGED <<claimed, mixed, mongo, receipts, sent, writers>>
    BY <1>7 DEF Fill, ReadPositionsTypeOK
  <2>4. /\ task'[g].c = task[g].c /\ task'[g].v = task[g].v
        /\ task'[g].s \in {task[g].s, task[g].v}
    <3>1. task[g].stage \in {"look", "compare"} /\ task[g].v \in Position
      BY <2>1, Pieces
    <3>2. QED  BY <2>1, <2>3, <3>1, AnsweredPiece
  <2>5. TaskRead(g)'
    BY <2>2, <2>3, <2>4 DEF TaskRead, Read
  <2>6. \A h \in Tasks : TaskRead(h)'
    BY <2>3, <2>5, PartsStay
  <2>7. CopiesRead'
    BY <2>2, <2>3 DEF CopiesRead, Read, WasRead, ReadPositionsTypeOK
  <2>8. QED  BY <2>3, <2>6, <2>7, PartsStay DEF WasRead
<1>8. ASSUME NEW g \in Tasks, RawSet(g)  PROVE WasRead'
  <2>1. task[g] \in Piece
    BY <1>8, TaskAtWork DEF RawSet
  <2>2. Read(task[g].c, task[g].s) /\ Read(task[g].c, task[g].v)
    BY <2>1, Pieces DEF WasRead, TaskRead
  <2>3. /\ task'[g] = [task[g] EXCEPT !.pc = "done"]
        /\ redis' = [redis EXCEPT ![task[g].c] = task[g].s]
        /\ \A h \in Tasks \ {g} : task'[h] = task[h]
        /\ UNCHANGED <<claimed, mixed, mongo, receipts, sent, writers>>
    BY <1>8 DEF RawSet, ReadPositionsTypeOK
  <2>4. /\ task'[g].c = task[g].c /\ task'[g].v = task[g].v
        /\ task'[g].s = task[g].s
    BY <2>1, <2>3 DEF Piece
  <2>5. TaskRead(g)'
    BY <2>2, <2>3, <2>4 DEF TaskRead, Read
  <2>6. \A h \in Tasks : TaskRead(h)'
    BY <2>3, <2>5, PartsStay
  <2>7. CopiesRead'
    BY <2>2, <2>3 DEF CopiesRead, Read, WasRead, ReadPositionsTypeOK
  <2>8. QED  BY <2>3, <2>6, <2>7, PartsStay DEF WasRead
<1>9. ASSUME NEW g \in Tasks, Pass(g)  PROVE WasRead'
  <2>1. task[g] \in Piece
    BY <1>9, TaskAtWork DEF Pass
  <2>2. Read(task[g].c, task[g].s)
    BY <2>1, Pieces DEF WasRead, TaskRead
  <2>3. /\ task'[g] = Idle
        /\ \A h \in Tasks \ {g} : task'[h] = task[h]
        /\ UNCHANGED <<claimed, mixed, redis, mongo, writers>>
    BY <1>9 DEF Pass, ReadPositionsTypeOK
  <2>4. \A h \in Tasks : TaskRead(h)'
    <3>1. TaskRead(g)'
      BY <2>3 DEF TaskRead, Idle
    <3>2. QED  BY <2>3, <3>1, PartsStay
  <2>5. SentRead'
    <3>1. CASE UNCHANGED sent
      BY <3>1, PartsStay
    <3>2. CASE sent' = Append(sent, [c |-> task[g].c, s |-> task[g].s])
      BY <2>2, <2>3, <3>2, SMTT(30) DEF SentRead, WasRead, Read, ReadPositionsTypeOK
    <3>3. QED  BY <1>9, <3>1, <3>2 DEF Pass
  <2>6. ReceiptsRead'
    <3>1. CASE UNCHANGED receipts
      BY <3>1, PartsStay
    <3>2. CASE receipts' = receipts \cup
                 {[c |-> task[g].c, s |-> task[g].s, key |-> task[g].key]}
      BY <2>2, <2>3, <3>2 DEF ReceiptsRead, WasRead, Read
    <3>3. QED  BY <1>9, <3>1, <3>2 DEF Pass
  <2>7. QED  BY <2>3, <2>4, <2>5, <2>6, PartsStay DEF WasRead
<1>10. ASSUME NEW g \in Tasks, Fail(g)  PROVE WasRead'
  <2>1. task[g] \in Piece
    BY <1>10, TaskAtWork DEF Fail
  <2>2. Read(task[g].c, task[g].s) /\ Read(task[g].c, task[g].v)
    BY <2>1, Pieces DEF WasRead, TaskRead
  <2>3. /\ task'[g] \in {Idle, [task[g] EXCEPT !.pc = "done"]}
        /\ \A h \in Tasks \ {g} : task'[h] = task[h]
        /\ UNCHANGED <<claimed, mixed, redis, mongo, receipts, sent, writers>>
    BY <1>10 DEF Fail, ReadPositionsTypeOK
  <2>4. \/ task'[g].pc = "idle"
        \/ /\ task'[g].c = task[g].c /\ task'[g].v = task[g].v
           /\ task'[g].s = task[g].s
    BY <2>1, <2>3 DEF Piece, Idle
  <2>5. TaskRead(g)'
    BY <2>2, <2>3, <2>4 DEF TaskRead, Read
  <2>6. \A h \in Tasks : TaskRead(h)'
    BY <2>3, <2>5, PartsStay
  <2>7. QED  BY <2>3, <2>6, PartsStay DEF WasRead
<1>11. QED
  BY <1>1, <1>2, <1>3, <1>4, <1>5, <1>6, <1>7, <1>8, <1>9, <1>10

(* So do the steps of the goroutines that write to MongoDB: doSetReadSeq     *)
(* writes what was read, unless it mixes receipts.                           *)
LEMMA WasReadWriters ==
    ASSUME ReadPositionsTypeOK, ReadPositionsNext, WasRead,
           \/ \E x \in receipts : LoseReceipt(x)
           \/ HandleReceipts \/ HandleSent
           \/ \E w \in Writers :
                WriterGets(w) \/ WriterSets(w) \/ WriterFails(w)
    PROVE  WasRead'
<1> USE DEF chats, caches, queues, counts, history
<1>1. ASSUME NEW x \in receipts, LoseReceipt(x)  PROVE WasRead'
  <2>1. ReceiptsRead'
    BY <1>1 DEF LoseReceipt, ReceiptsRead, WasRead, Read
  <2>2. QED  BY <1>1, <2>1, PartsStay DEF WasRead, LoseReceipt
<1>2. CASE HandleReceipts
  <2>1. PICK last \in receipts, batch \in SUBSET receipts :
          /\ receipts' = receipts \ batch
          /\ mixed' = IF \A x \in batch : x.c = last.c
                      THEN mixed ELSE mixed \cup {x.c : x \in batch}
          /\ last \in batch
          /\ \E x \in DoSetReadSeq(batch, last) : Writes("receipts", x)
    BY <1>2 DEF HandleReceipts
  <2>2. PICK x \in batch : Writes("receipts", [c |-> last.c, s |-> x.s])
    BY <2>1 DEF DoSetReadSeq, Highest
  <2>3. UNCHANGED <<claimed, redis, mongo, task, sent>>
    BY <1>2 DEF HandleReceipts
  <2>4. WriterRead("receipts")'
    <3>1. writers'["receipts"] = [pc |-> "get", c |-> last.c, s |-> x.s]
      BY <2>2 DEF Writes, ReadPositionsTypeOK, Writers
    <3>2. last.c \in mixed' \/ x.c = last.c
      BY <2>1
    <3>3. Read(x.c, x.s)
      BY DEF WasRead, ReceiptsRead
    <3>4. QED  BY <2>1, <2>3, <3>1, <3>2, <3>3 DEF WriterRead, Read
  <2>5. \A w \in Writers : WriterRead(w)'
    BY <2>2, <2>4, PartsStay DEF Writes, ReadPositionsTypeOK
  <2>6. ReceiptsRead'
    BY <2>1, <2>3 DEF WasRead, ReceiptsRead, Read
  <2>7. QED  BY <2>3, <2>5, <2>6, PartsStay DEF WasRead
<1>3. CASE HandleSent
  <2>1. sent \in Seq([c : Conversations, s : Position]) /\ sent # <<>>
    BY <1>3 DEF HandleSent, ReadPositionsTypeOK
  <2>2. /\ Head(sent) = sent[1] /\ 1 \in 1..Len(sent)
        /\ \A i \in 1..Len(Tail(sent)) :
             i + 1 \in 1..Len(sent) /\ Tail(sent)[i] = sent[i + 1]
    BY <2>1
  <2>3. /\ sent' = Tail(sent)
        /\ writers'["sent"] = [pc |-> "get", c |-> sent[1].c, s |-> sent[1].s]
        /\ \A w \in Writers \ {"sent"} : writers'[w] = writers[w]
        /\ UNCHANGED <<claimed, mixed, redis, mongo, task, receipts>>
    BY <1>3, <2>2 DEF HandleSent, Writes, ReadPositionsTypeOK, Writers
  <2>4. WriterRead("sent")'
    BY <2>2, <2>3 DEF WriterRead, WasRead, SentRead, Read
  <2>5. \A w \in Writers : WriterRead(w)'
    BY <2>3, <2>4, PartsStay
  <2>6. SentRead'
    BY <2>2, <2>3 DEF WasRead, SentRead, Read
  <2>7. QED  BY <2>3, <2>5, <2>6, PartsStay DEF WasRead
<1>4. ASSUME NEW w \in Writers, WriterGets(w)  PROVE WasRead'
  <2>1. writers[w] \in Writing
    BY <1>4, TaskAtWork DEF WriterGets
  <2>2. Read(writers[w].c, writers[w].s)
    BY <2>1, Writings DEF WasRead, WriterRead
  <2>3. /\ writers'[w] \in {Idle, [writers[w] EXCEPT !.pc = "set"]}
        /\ \A v \in Writers \ {w} : writers'[v] = writers[v]
        /\ UNCHANGED <<claimed, mixed, redis, mongo, task, receipts, sent>>
    BY <1>4 DEF WriterGets, ReadPositionsTypeOK
  <2>4. \/ writers'[w].pc = "idle"
        \/ writers'[w].c = writers[w].c /\ writers'[w].s = writers[w].s
    BY <2>1, <2>3 DEF Writing, Idle
  <2>5. WriterRead(w)'
    BY <2>2, <2>3, <2>4 DEF WriterRead, Read
  <2>6. \A v \in Writers : WriterRead(v)'
    BY <2>3, <2>5, PartsStay
  <2>7. QED  BY <2>3, <2>6, PartsStay DEF WasRead
<1>5. ASSUME NEW w \in Writers, WriterSets(w)  PROVE WasRead'
  <2>1. writers[w] \in Writing
    BY <1>5, TaskAtWork DEF WriterSets
  <2>2. Read(writers[w].c, writers[w].s)
    BY <2>1, Writings DEF WasRead, WriterRead
  <2>3. /\ writers'[w] = Idle
        /\ mongo' = [mongo EXCEPT ![writers[w].c] = writers[w].s]
        /\ \A v \in Writers \ {w} : writers'[v] = writers[v]
        /\ UNCHANGED <<claimed, mixed, redis, task, receipts, sent>>
    BY <1>5 DEF WriterSets, ReadPositionsTypeOK
  <2>4. WriterRead(w)'
    BY <2>3 DEF WriterRead, Idle
  <2>5. \A v \in Writers : WriterRead(v)'
    BY <2>3, <2>4, PartsStay
  <2>6. CopiesRead'
    BY <2>2, <2>3 DEF WasRead, CopiesRead, Read, ReadPositionsTypeOK
  <2>7. QED  BY <2>3, <2>5, <2>6, PartsStay DEF WasRead
<1>6. ASSUME NEW w \in Writers, WriterFails(w)  PROVE WasRead'
  <2>1. /\ writers'[w] = Idle
        /\ \A v \in Writers \ {w} : writers'[v] = writers[v]
        /\ UNCHANGED <<claimed, mixed, redis, mongo, task, receipts, sent>>
    BY <1>6 DEF WriterFails, ReadPositionsTypeOK
  <2>2. WriterRead(w)'
    BY <2>1 DEF WriterRead, Idle
  <2>3. \A v \in Writers : WriterRead(v)'
    BY <2>1, <2>2, PartsStay
  <2>4. QED  BY <2>1, <2>3, PartsStay DEF WasRead
<1>7. QED  BY <1>1, <1>2, <1>3, <1>4, <1>5, <1>6

(* No copy of a position names more than the user has read or sent, unless   *)
(* doSetReadSeq mixed receipts of that conversation with those of another:   *)
(* overlapping calls, failures and lost receipts never make it do so.        *)
THEOREM StoredWasRead == ReadPositionsSpec => []OnlyReadIsStored
<1>1. ReadPositionsInit => WasRead
  BY ReadPositionsAssumption
     DEF ReadPositionsInit, WasRead, CopiesRead, ReceiptsRead, SentRead,
         TaskRead, WriterRead, Read, Idle
<1>2. ReadPositionsTypeOK /\ WasRead /\ [ReadPositionsNext]_ReadPositionsVars
        => WasRead'
  <2> SUFFICES ASSUME ReadPositionsTypeOK, WasRead,
                      [ReadPositionsNext]_ReadPositionsVars
               PROVE  WasRead'
    OBVIOUS
  <2>1. CASE ReadPositionsNext
    BY <2>1, WasReadTasks, WasReadWriters DEF ReadPositionsNext
  <2>2. CASE UNCHANGED ReadPositionsVars
    BY <2>2 DEF ReadPositionsVars, chats, caches, queues, counts, history,
                WasRead, CopiesRead, ReceiptsRead, SentRead, TaskRead,
                WriterRead, Read
  <2>3. QED  BY <2>1, <2>2
<1>3. WasRead => OnlyReadIsStored
  <2>1. ASSUME WasRead, NEW c \in Conversations \ mixed
        PROVE  (redis[c] # Nil => redis[c] =< claimed[c]) /\ mongo[c] =< claimed[c]
    <3>1. (redis[c] # Nil => Read(c, redis[c])) /\ Read(c, mongo[c])
      BY <2>1, Zenon DEF WasRead, CopiesRead
    <3>2. QED  BY <2>1, <3>1, Zenon DEF Read
  <2>2. QED  BY <2>1 DEF OnlyReadIsStored
<1>4. QED
  BY <1>1, <1>2, <1>3, PositionsTypeCorrect, PTL DEF ReadPositionsSpec

-----------------------------------------------------------------------------
(* The answered position does not move back.  Of a conversation that nothing *)
(* has spoiled, one goroutine at a time works on the copy in Redis and one   *)
(* on that in MongoDB; each compares with what is still there when it        *)
(* writes; and the position in Redis is on its way to MongoDB if it is not   *)
(* there, so that nothing is lost when it expires.                           *)

Clean(c) == c \notin mixed \cup raced \cup lost

OneTask(c) ==
  \A g, h \in Tasks : Works(task[g], c) /\ Works(task[h], c) => g = h
OneWriter(c) ==
  \A v, w \in Writers : Works(writers[v], c) /\ Works(writers[w], c) => v = w
FillsCopy(c) ==
  \A g \in Tasks : task[g].pc = "fill" /\ task[g].c = c =>
    redis[c] = Nil /\ task[g].v = mongo[c] /\ ~Written(c)
SetsHigher(c) ==
  \A g \in Tasks : task[g].pc = "set" /\ task[g].c = c =>
    redis[c] # Nil /\ task[g].s > redis[c]
WritesHigher(c) ==
  \A w \in Writers : writers[w].pc = "set" /\ writers[w].c = c =>
    writers[w].s >= mongo[c]

(* A position of at least v is in MongoDB or on its way there. *)
Reaches(c, v) ==
  \/ mongo[c] >= v
  \/ \E g \in Tasks : task[g].pc = "done" /\ task[g].c = c /\ task[g].s >= v
  \/ \E x \in receipts : x.c = c /\ x.s >= v
  \/ \E i \in 1..Len(sent) : sent[i].c = c /\ sent[i].s >= v
  \/ \E w \in Writers : Works(writers[w], c) /\ writers[w].s >= v

InTurn(c) ==
  Clean(c) => /\ OneTask(c) /\ OneWriter(c)
              /\ FillsCopy(c) /\ SetsHigher(c) /\ WritesHigher(c)
              /\ redis[c] # Nil => Reaches(c, redis[c])

PositionKept(c) == InTurn(c)' /\ (Clean(c)' => Answer(c)' >= Answer(c))

(* A conversation that is clean was so before. *)
LEMMA CleanBefore ==
    ASSUME ReadPositionsNext, NEW c, Clean(c)'
    PROVE  Clean(c)
  BY DEF ReadPositionsNext, Clean, Request, Send, Receive, Expire,
         GetUserReadSeq, Miss, Fill, RawSet, Pass, Fail, LoseReceipt,
         HandleReceipts, HandleSent, WriterGets, WriterSets, WriterFails,
         Writes, RacedIf, Loses, history

(* A step about another conversation. *)
Elsewhere(c) ==
  /\ redis'[c] = redis[c] /\ mongo'[c] = mongo[c]
  /\ \A g \in Tasks :
       task'[g] = task[g] \/ ~(Works(task[g], c) \/ Works(task'[g], c))
  /\ \A w \in Writers :
       writers'[w] = writers[w]
         \/ ~(Works(writers[w], c) \/ Works(writers'[w], c))
  /\ \A x \in receipts : x.c = c => x \in receipts'
  /\ \A i \in 1..Len(sent) : sent[i].c = c =>
       \E j \in 1..Len(sent') : sent'[j] = sent[i]

(* It keeps what is said of this one. *)
LEMMA KeptElsewhere ==
    ASSUME ReadPositionsTypeOK, ReadPositionsNext, NEW c \in Conversations,
           InTurn(c), Elsewhere(c)
    PROVE  PositionKept(c)
<1>1. SUFFICES ASSUME Clean(c)'  PROVE InTurn(c)' /\ Answer(c)' >= Answer(c)
  BY DEF PositionKept, InTurn
<1>2. /\ OneTask(c) /\ OneWriter(c)
      /\ FillsCopy(c) /\ SetsHigher(c) /\ WritesHigher(c)
      /\ redis[c] # Nil => Reaches(c, redis[c])
  BY <1>1, CleanBefore DEF InTurn
<1>3. OneTask(c)' /\ OneWriter(c)'
  BY <1>2 DEF Elsewhere, OneTask, OneWriter, Works
<1>4. FillsCopy(c)'
  BY <1>2 DEF Elsewhere, FillsCopy, Written, Works
<1>5. SetsHigher(c)' /\ WritesHigher(c)'
  BY <1>2 DEF Elsewhere, SetsHigher, WritesHigher, Works
<1>6. (redis[c] # Nil => Reaches(c, redis[c]))'
  BY <1>2 DEF Elsewhere, Reaches, Works
<1>7. Answer(c)' >= Answer(c)
  BY ReadPositionsAssumption
     DEF Elsewhere, Answer, ReadPositionsTypeOK, Position
<1>8. QED  BY <1>3, <1>4, <1>5, <1>6, <1>7 DEF InTurn

(* What is said of a conversation that stays clean. *)
LEMMA InTurnBefore ==
    ASSUME ReadPositionsNext, NEW c, InTurn(c), Clean(c)'
    PROVE  /\ OneTask(c) /\ OneWriter(c)
           /\ FillsCopy(c) /\ SetsHigher(c) /\ WritesHigher(c)
           /\ redis[c] # Nil => Reaches(c, redis[c])
  BY CleanBefore DEF InTurn

(* A new request or message, when nothing else works on the conversation.    *)
LEMMA KeptBegin ==
    ASSUME ReadPositionsTypeOK, ReadPositionsNext, NEW c \in Conversations,
           InTurn(c), NEW d \in Conversations, NEW g \in Tasks,
           task[g].pc = "idle", task'[g] \in Piece,
           task'[g].pc \in {"look", "compare"}, task'[g].c = d,
           \A h \in Tasks \ {g} : task'[h] = task[h],
           RacedIf(d, Tasked(d)),
           UNCHANGED <<redis, mongo, receipts, sent, writers>>
    PROVE  PositionKept(c)
<1>1. CASE d # c
  <2>1. Elsewhere(c)
    BY <1>1 DEF Elsewhere, Works
  <2>2. QED  BY <2>1, KeptElsewhere
<1>2. CASE d = c
  <2>1. SUFFICES ASSUME Clean(c)'  PROVE InTurn(c)' /\ Answer(c)' >= Answer(c)
    BY DEF PositionKept, InTurn
  <2>2. ~Tasked(c)
    BY <1>2, <2>1 DEF RacedIf, Clean
  <2>3. OneTask(c)' /\ OneWriter(c)'
    BY <1>2, <2>1, <2>2, InTurnBefore DEF OneTask, OneWriter, Tasked, Works
  <2>4. FillsCopy(c)' /\ SetsHigher(c)'
    BY <1>2, <2>2 DEF FillsCopy, SetsHigher, Tasked, Works
  <2>5. WritesHigher(c)'
    BY <2>1, InTurnBefore DEF WritesHigher
  <2>6. (redis[c] # Nil => Reaches(c, redis[c]))'
    BY <2>1, <2>2, InTurnBefore DEF Reaches, Tasked, Works
  <2>7. Answer(c)' >= Answer(c)
    BY ReadPositionsAssumption DEF Answer, ReadPositionsTypeOK, Position
  <2>8. QED  BY <2>3, <2>4, <2>5, <2>6, <2>7 DEF InTurn
<1>3. QED  BY <1>1, <1>2

(* The answer to a goroutine: from Redis, or from MongoDB and then filled    *)
(* in.  It decides to set only what is higher.                               *)
LEMMA KeptAnswer ==
    ASSUME ReadPositionsTypeOK, ReadPositionsNext, NEW c \in Conversations,
           InTurn(c), NEW g \in Tasks, GetUserReadSeq(g) \/ Fill(g)
    PROVE  PositionKept(c)
<1> DEFINE d == task[g].c
           stage == IF task[g].pc = "fill" THEN task[g].stage ELSE task[g].pc
           v == IF task[g].pc = "fill" THEN task[g].v ELSE redis[d]
<1>1. task[g] \in Piece /\ task[g].pc # "idle"
  BY TaskAtWork DEF GetUserReadSeq, Fill
<1>2. d \in Conversations /\ stage \in {"look", "compare"} /\ v \in Position
  BY <1>1, Pieces DEF GetUserReadSeq, Fill, ReadPositionsTypeOK
<1>3. /\ task'[g] = Answered(task[g], stage, v)
      /\ \A h \in Tasks \ {g} : task'[h] = task[h]
      /\ redis' = [redis EXCEPT ![d] = v]
      /\ UNCHANGED <<mongo, receipts, sent, writers, mixed, raced, lost>>
  BY <1>1, <1>2 DEF GetUserReadSeq, Fill, ReadPositionsTypeOK, caches, chats, queues,
     history
<1>4. /\ task'[g].c = d /\ task'[g].pc \in {"compare", "set", "done"}
      /\ task'[g].pc = "set" => task'[g].s > v
  BY <1>1, <1>2, <1>3 DEF Answered, Piece, Position
<1>5. CASE d # c
  <2>1. redis'[c] = redis[c]
    BY <1>3, <1>5 DEF ReadPositionsTypeOK
  <2>2. Elsewhere(c)
    BY <1>3, <1>4, <1>5, <2>1 DEF Elsewhere, Works
  <2>3. QED  BY <2>2, KeptElsewhere
<1>6. CASE d = c
  <2>1. SUFFICES ASSUME Clean(c)'  PROVE InTurn(c)' /\ Answer(c)' >= Answer(c)
    BY DEF PositionKept, InTurn
  <2>2. \A h \in Tasks \ {g} : ~Works(task[h], c)
    BY <1>1, <1>6, <2>1, InTurnBefore DEF OneTask, Works
  <2>3. redis[c] = v \/ (redis[c] = Nil /\ v = mongo[c])
    <3>1. FillsCopy(c)
      BY <2>1, InTurnBefore
    <3>2. CASE task[g].pc = "fill"
      BY <1>6, <3>1, <3>2 DEF FillsCopy
    <3>3. CASE task[g].pc # "fill"
      BY <1>6, <3>3
    <3>4. QED  BY <3>2, <3>3
  <2>4. OneTask(c)' /\ OneWriter(c)'
    BY <1>3, <2>1, <2>2, InTurnBefore DEF OneTask, OneWriter, Works
  <2>5. FillsCopy(c)'
    BY <1>3, <1>4, <2>2 DEF FillsCopy, Works
  <2>6. redis'[c] = v /\ v # Nil
    BY <1>2, <1>3, <1>6, ReadPositionsAssumption DEF ReadPositionsTypeOK, Position
  <2>7. SetsHigher(c)'
    BY <1>3, <1>4, <2>2, <2>6 DEF SetsHigher, Works
  <2>8. WritesHigher(c)'
    BY <1>3, <2>1, InTurnBefore DEF WritesHigher
  <2>9. (redis[c] # Nil => Reaches(c, redis[c]))'
    <3>1. CASE v = mongo[c]
      BY <1>2, <1>3, <2>6, <3>1 DEF Reaches, Position
    <3>2. CASE redis[c] = v
      <4>1. Reaches(c, v)
        BY <2>1, <2>6, <3>2, InTurnBefore
      <4>2. task[g].pc # "done"
        BY DEF GetUserReadSeq, Fill
      <4>3. QED
        BY <1>3, <2>2, <2>6, <4>1, <4>2 DEF Reaches, Works
    <3>3. QED  BY <2>3, <3>1, <3>2
  <2>10. Answer(c)' >= Answer(c)
    BY <1>2, <1>3, <2>3, <2>6 DEF Answer, Position
  <2>11. QED  BY <2>4, <2>5, <2>7, <2>8, <2>9, <2>10 DEF InTurn
<1>7. QED  BY <1>5, <1>6

(* A value that is not in Redis is read from MongoDB, while nobody writes    *)
(* there.                                                                    *)
LEMMA KeptMiss ==
    ASSUME ReadPositionsTypeOK, ReadPositionsNext, NEW c \in Conversations,
           InTurn(c), NEW g \in Tasks, Miss(g)
    PROVE  PositionKept(c)
<1> DEFINE d == task[g].c
<1>1. task[g] \in Piece /\ task[g].pc # "idle" /\ d \in Conversations
  BY TaskAtWork, Pieces DEF Miss
<1>2. /\ task'[g] = [task[g] EXCEPT !.pc = "fill", !.stage = task[g].pc,
                                   !.v = mongo[d]]
      /\ \A h \in Tasks \ {g} : task'[h] = task[h]
      /\ redis[d] = Nil /\ RacedIf(d, Written(d))
      /\ UNCHANGED <<redis, mongo, receipts, sent, writers>>
  BY DEF Miss, ReadPositionsTypeOK, queues
<1>3. task'[g].pc = "fill" /\ task'[g].c = d /\ task'[g].v = mongo[d]
  BY <1>1, <1>2 DEF Piece
<1>4. CASE d # c
  <2>1. Elsewhere(c)
    BY <1>2, <1>3, <1>4 DEF Elsewhere, Works
  <2>2. QED  BY <2>1, KeptElsewhere
<1>5. CASE d = c
  <2>1. SUFFICES ASSUME Clean(c)'  PROVE InTurn(c)' /\ Answer(c)' >= Answer(c)
    BY DEF PositionKept, InTurn
  <2>2. \A h \in Tasks \ {g} : ~Works(task[h], c)
    BY <1>1, <1>5, <2>1, InTurnBefore DEF OneTask, Works
  <2>3. ~Written(c)
    BY <1>2, <1>5, <2>1 DEF RacedIf, Clean
  <2>4. OneTask(c)' /\ OneWriter(c)'
    BY <1>2, <2>1, <2>2, InTurnBefore DEF OneTask, OneWriter, Works
  <2>5. FillsCopy(c)' /\ SetsHigher(c)'
    BY <1>2, <1>3, <1>5, <2>2, <2>3 DEF FillsCopy, SetsHigher, Written, Works
  <2>6. WritesHigher(c)'
    BY <1>2, <2>1, InTurnBefore DEF WritesHigher
  <2>7. redis'[c] = Nil
    BY <1>2, <1>5
  <2>8. Answer(c)' >= Answer(c)
    BY <1>2, ReadPositionsAssumption DEF Answer, ReadPositionsTypeOK, Position
  <2>9. QED  BY <2>4, <2>5, <2>6, <2>7, <2>8 DEF InTurn
<1>6. QED  BY <1>4, <1>5

(* The position is set; it is higher than what was there, and will be passed *)
(* on.                                                                       *)
LEMMA KeptSet ==
    ASSUME ReadPositionsTypeOK, ReadPositionsNext, NEW c \in Conversations,
           InTurn(c), NEW g \in Tasks, RawSet(g)
    PROVE  PositionKept(c)
<1> DEFINE d == task[g].c
<1>1. /\ task[g] \in Piece /\ task[g].pc = "set" /\ d \in Conversations
      /\ task[g].s \in Position
  BY TaskAtWork, Pieces DEF RawSet
<1>2. /\ task'[g] = [task[g] EXCEPT !.pc = "done"]
      /\ \A h \in Tasks \ {g} : task'[h] = task[h]
      /\ redis' = [redis EXCEPT ![d] = task[g].s]
      /\ UNCHANGED <<mongo, receipts, sent, writers>>
  BY DEF RawSet, ReadPositionsTypeOK, queues
<1>3. task'[g].pc = "done" /\ task'[g].c = d /\ task'[g].s = task[g].s
  BY <1>1, <1>2 DEF Piece
<1>4. CASE d # c
  <2>1. redis'[c] = redis[c]
    BY <1>2, <1>4 DEF ReadPositionsTypeOK
  <2>2. Elsewhere(c)
    BY <1>2, <1>3, <1>4, <2>1 DEF Elsewhere, Works
  <2>3. QED  BY <2>2, KeptElsewhere
<1>5. CASE d = c
  <2>1. SUFFICES ASSUME Clean(c)'  PROVE InTurn(c)' /\ Answer(c)' >= Answer(c)
    BY DEF PositionKept, InTurn
  <2>2. \A h \in Tasks \ {g} : ~Works(task[h], c)
    BY <1>1, <1>5, <2>1, InTurnBefore DEF OneTask, Works
  <2>3. redis[c] # Nil /\ task[g].s > redis[c]
    BY <1>1, <1>5, <2>1, InTurnBefore DEF SetsHigher
  <2>4. redis'[c] = task[g].s /\ redis'[c] # Nil
    BY <1>1, <1>2, <1>5, ReadPositionsAssumption
       DEF ReadPositionsTypeOK, Position
  <2>5. OneTask(c)' /\ OneWriter(c)'
    BY <1>2, <2>1, <2>2, InTurnBefore DEF OneTask, OneWriter, Works
  <2>6. FillsCopy(c)' /\ SetsHigher(c)'
    BY <1>2, <1>3, <2>2 DEF FillsCopy, SetsHigher, Works
  <2>7. WritesHigher(c)'
    BY <1>2, <2>1, InTurnBefore DEF WritesHigher
  <2>8. (redis[c] # Nil => Reaches(c, redis[c]))'
    BY <1>1, <1>3, <1>5, <2>4 DEF Reaches, Position
  <2>9. Answer(c)' >= Answer(c)
    BY <1>1, <2>3, <2>4 DEF Answer, ReadPositionsTypeOK, Position
  <2>10. QED  BY <2>5, <2>6, <2>7, <2>8, <2>9 DEF InTurn
<1>6. QED  BY <1>4, <1>5

(* The receipt is sent, or the position goes into the channel.               *)
LEMMA KeptPass ==
    ASSUME ReadPositionsTypeOK, ReadPositionsNext, NEW c \in Conversations,
           InTurn(c), NEW g \in Tasks, Pass(g)
    PROVE  PositionKept(c)
<1> DEFINE d == task[g].c
<1>1. /\ task[g] \in Piece /\ task[g].pc = "done" /\ d \in Conversations
      /\ task[g].s \in Position
  BY TaskAtWork, Pieces DEF Pass
<1>2. /\ task'[g] = Idle
      /\ \A h \in Tasks \ {g} : task'[h] = task[h]
      /\ UNCHANGED <<redis, mongo, writers>>
  BY DEF Pass, ReadPositionsTypeOK, caches
<1>3. receipts \subseteq receipts'
  BY DEF Pass
<1>4. /\ Len(sent) =< Len(sent') /\ Len(sent) \in Nat
      /\ \A i \in 1..Len(sent) : i \in 1..Len(sent') /\ sent'[i] = sent[i]
  <2>1. CASE UNCHANGED sent
    BY <2>1 DEF ReadPositionsTypeOK
  <2>2. CASE sent' = Append(sent, [c |-> d, s |-> task[g].s])
    BY <2>2 DEF ReadPositionsTypeOK
  <2>3. QED  BY <2>1, <2>2 DEF Pass
<1>5. \/ \E x \in receipts' : x.c = d /\ x.s = task[g].s
      \/ \E i \in 1..Len(sent') : sent'[i].c = d /\ sent'[i].s = task[g].s
  <2>1. CASE g = Sender
    <3>1. sent' = Append(sent, [c |-> d, s |-> task[g].s])
      BY <2>1, SMTT(30) DEF Pass
    <3>2. /\ Len(sent') = Len(sent) + 1
          /\ sent'[Len(sent) + 1] = [c |-> d, s |-> task[g].s]
      BY <3>1 DEF ReadPositionsTypeOK
    <3>3. QED  BY <1>4, <3>2
  <2>2. CASE g # Sender
    <3>1. [c |-> d, s |-> task[g].s, key |-> task[g].key] \in receipts'
      BY <2>2 DEF Pass
    <3>2. QED  BY <3>1
  <2>3. QED  BY <2>1, <2>2
<1>6. CASE d # c
  <2>1. Elsewhere(c)
    BY <1>2, <1>3, <1>4, <1>6 DEF Elsewhere, Works, Idle
  <2>2. QED  BY <2>1, KeptElsewhere
<1>7. CASE d = c
  <2>1. SUFFICES ASSUME Clean(c)'  PROVE InTurn(c)' /\ Answer(c)' >= Answer(c)
    BY DEF PositionKept, InTurn
  <2>2. \A h \in Tasks : ~Works(task'[h], c)
    BY <1>1, <1>2, <1>7, <2>1, InTurnBefore DEF OneTask, Works, Idle
  <2>3. OneTask(c)' /\ OneWriter(c)'
    BY <1>2, <2>1, <2>2, InTurnBefore DEF OneTask, OneWriter
  <2>4. FillsCopy(c)' /\ SetsHigher(c)'
    BY <2>2 DEF FillsCopy, SetsHigher, Works
  <2>5. WritesHigher(c)'
    BY <1>2, <2>1, InTurnBefore DEF WritesHigher
  <2>6. ASSUME redis[c] # Nil  PROVE Reaches(c, redis[c])'
    <3>1. Reaches(c, redis[c])
      BY <2>1, <2>6, InTurnBefore
    <3>2. CASE \E h \in Tasks : task[h].pc = "done" /\ task[h].c = c
                               /\ task[h].s >= redis[c]
      <4>1. task[g].s >= redis[c]
        BY <1>1, <1>7, <2>1, <3>2, InTurnBefore DEF OneTask, Works
      <4>2. QED  BY <1>2, <1>5, <1>7, <4>1 DEF Reaches
    <3>3. CASE ~ \E h \in Tasks : task[h].pc = "done" /\ task[h].c = c
                                 /\ task[h].s >= redis[c]
      BY <1>2, <1>3, <1>4, <3>1, <3>3 DEF Reaches
    <3>4. QED  BY <3>2, <3>3
  <2>7. Answer(c)' >= Answer(c)
    BY <1>2, ReadPositionsAssumption DEF Answer, ReadPositionsTypeOK, Position
  <2>8. QED  BY <1>2, <2>3, <2>4, <2>5, <2>6, <2>7 DEF InTurn
<1>8. QED  BY <1>6, <1>7

(* The copy in Redis expires when nothing about the conversation is on its   *)
(* way any more: then MongoDB has its position, or a higher one.             *)
LEMMA KeptExpire ==
    ASSUME ReadPositionsTypeOK, ReadPositionsNext, NEW c \in Conversations,
           InTurn(c), NEW d \in Conversations, Expire(d)
    PROVE  PositionKept(c)
<1>1. /\ redis' = [redis EXCEPT ![d] = Nil] /\ redis[d] # Nil
      /\ UNCHANGED <<mongo, task, receipts, sent, writers>>
  BY DEF Expire, queues
<1>2. CASE d # c
  <2>1. redis'[c] = redis[c]
    BY <1>1, <1>2 DEF ReadPositionsTypeOK
  <2>2. Elsewhere(c)
    BY <1>1, <2>1 DEF Elsewhere
  <2>3. QED  BY <2>2, KeptElsewhere
<1>3. CASE d = c
  <2>1. SUFFICES ASSUME Clean(c)'  PROVE InTurn(c)' /\ Answer(c)' >= Answer(c)
    BY DEF PositionKept, InTurn
  <2>2. redis'[c] = Nil
    BY <1>1, <1>3 DEF ReadPositionsTypeOK
  <2>3. ~Tasked(c)
    BY <1>3 DEF Expire, Calm
  <2>4. OneTask(c)' /\ OneWriter(c)'
    BY <1>1, <2>1, InTurnBefore DEF OneTask, OneWriter
  <2>5. FillsCopy(c)' /\ SetsHigher(c)'
    BY <1>1, <2>3 DEF FillsCopy, SetsHigher, Tasked, Works
  <2>6. WritesHigher(c)'
    BY <1>1, <2>1, InTurnBefore DEF WritesHigher
  <2>7. mongo[c] >= redis[c]
    <3>1. Reaches(c, redis[c])
      BY <1>1, <1>3, <2>1, InTurnBefore
    <3>2. QED
      BY <1>3, <3>1 DEF Reaches, Expire, Calm, Tasked, Written, Works
  <2>8. Answer(c)' >= Answer(c)
    BY <1>1, <1>3, <2>2, <2>7 DEF Answer
  <2>9. QED  BY <2>2, <2>4, <2>5, <2>6, <2>8 DEF InTurn
<1>4. QED  BY <1>2, <1>3

(* A goroutine of msgtransfer takes up a position that was on its way.       *)
LEMMA KeptWrites ==
    ASSUME ReadPositionsTypeOK, ReadPositionsNext, NEW c \in Conversations,
           InTurn(c), NEW w \in Writers, NEW d \in Conversations,
           NEW s \in Position, Writes(w, [c |-> d, s |-> s]),
           UNCHANGED <<redis, mongo, task>>,
           d # c => /\ \A x \in receipts : x.c = c => x \in receipts'
                    /\ \A i \in 1..Len(sent) : sent[i].c = c =>
                         \E j \in 1..Len(sent') : sent'[j] = sent[i],
           Clean(c)' /\ d = c =>
             \A v \in Position :
               /\ (\E x \in receipts : x.c = c /\ x.s >= v) =>
                    s >= v \/ \E x \in receipts' : x.c = c /\ x.s >= v
               /\ (\E i \in 1..Len(sent) : sent[i].c = c /\ sent[i].s >= v) =>
                    s >= v \/ \E i \in 1..Len(sent') :
                                sent'[i].c = c /\ sent'[i].s >= v
    PROVE  PositionKept(c)
<1>1. /\ writers[w].pc = "idle"
      /\ writers'[w].pc = "get" /\ writers'[w].c = d /\ writers'[w].s = s
      /\ \A x \in Writers \ {w} : writers'[x] = writers[x]
      /\ RacedIf(d, Written(d) \/ Filling(d))
  BY DEF Writes, ReadPositionsTypeOK
<1>2. CASE d # c
  <2>1. Elsewhere(c)
    BY <1>1, <1>2 DEF Elsewhere, Works
  <2>2. QED  BY <2>1, KeptElsewhere
<1>3. CASE d = c
  <2>1. SUFFICES ASSUME Clean(c)'  PROVE InTurn(c)' /\ Answer(c)' >= Answer(c)
    BY DEF PositionKept, InTurn
  <2>2. ~Written(c) /\ ~Filling(c)
    BY <1>1, <1>3, <2>1 DEF RacedIf, Clean
  <2>3. OneTask(c)' /\ OneWriter(c)'
    BY <1>1, <2>1, <2>2, InTurnBefore DEF OneTask, OneWriter, Written, Works
  <2>4. FillsCopy(c)' /\ SetsHigher(c)'
    BY <2>1, <2>2, InTurnBefore DEF FillsCopy, SetsHigher, Filling
  <2>5. WritesHigher(c)'
    BY <1>1, <2>2 DEF WritesHigher, Written, Works
  <2>6. ASSUME redis[c] # Nil  PROVE Reaches(c, redis[c])'
    <3>1. Reaches(c, redis[c]) /\ redis[c] \in Position
      BY <2>1, <2>6, InTurnBefore DEF ReadPositionsTypeOK
    <3>2. CASE s >= redis[c]
      BY <1>1, <1>3, <3>2 DEF Reaches, Works
    <3>3. CASE ~(s >= redis[c])
      BY <1>1, <1>3, <2>1, <2>2, <3>1, <3>3 DEF Reaches, Written
    <3>4. QED  BY <3>2, <3>3
  <2>7. Answer(c)' >= Answer(c)
    BY ReadPositionsAssumption DEF Answer, ReadPositionsTypeOK, Position
  <2>8. QED  BY <2>3, <2>4, <2>5, <2>6, <2>7 DEF InTurn
<1>4. QED  BY <1>2, <1>3

(* It compares with MongoDB, and gives up what is lower.                     *)
LEMMA KeptCompare ==
    ASSUME ReadPositionsTypeOK, ReadPositionsNext, NEW c \in Conversations,
           InTurn(c), NEW w \in Writers, WriterGets(w)
    PROVE  PositionKept(c)
<1> DEFINE d == writers[w].c
<1>1. /\ writers[w] \in Writing /\ writers[w].pc = "get"
      /\ d \in Conversations /\ writers[w].s \in Position
  BY TaskAtWork, Writings DEF WriterGets
<1>2. /\ writers'[w] = IF mongo[d] > writers[w].s THEN Idle
                       ELSE [writers[w] EXCEPT !.pc = "set"]
      /\ \A x \in Writers \ {w} : writers'[x] = writers[x]
      /\ UNCHANGED <<redis, mongo, task, receipts, sent>>
  BY DEF WriterGets, ReadPositionsTypeOK, caches, queues
<1>3. \/ writers'[w].pc = "idle" /\ mongo[d] > writers[w].s
      \/ /\ writers'[w].pc = "set" /\ writers'[w].c = d
         /\ writers'[w].s = writers[w].s /\ ~(mongo[d] > writers[w].s)
  BY <1>1, <1>2 DEF Writing, Idle
<1>4. CASE d # c
  <2>1. Elsewhere(c)
    BY <1>2, <1>3, <1>4 DEF Elsewhere, Works
  <2>2. QED  BY <2>1, KeptElsewhere
<1>5. CASE d = c
  <2>1. SUFFICES ASSUME Clean(c)'  PROVE InTurn(c)' /\ Answer(c)' >= Answer(c)
    BY DEF PositionKept, InTurn
  <2>2. \A x \in Writers \ {w} : ~Works(writers[x], c)
    BY <1>1, <1>5, <2>1, InTurnBefore DEF OneWriter, Works
  <2>3. OneTask(c)' /\ OneWriter(c)'
    BY <1>2, <2>1, <2>2, InTurnBefore DEF OneTask, OneWriter, Works
  <2>4. FillsCopy(c)' /\ SetsHigher(c)'
    <3>1. Written(c)
      BY <1>1, <1>5 DEF Written, Works
    <3>2. QED  BY <1>2, <2>1, <3>1, InTurnBefore DEF FillsCopy, SetsHigher
  <2>5. WritesHigher(c)'
    <3>1. mongo[c] \in Nat /\ writers[w].s \in Nat
      BY <1>1 DEF ReadPositionsTypeOK, Position
    <3>2. ASSUME NEW x \in Writers, writers'[x].pc = "set", writers'[x].c = c
          PROVE  x = w
      BY <1>2, <2>2, <3>2 DEF Works
    <3>3. ASSUME writers'[w].pc = "set"  PROVE  writers'[w].s >= mongo'[c]
      <4>1. writers'[w].s = writers[w].s /\ ~(mongo[c] > writers[w].s)
        BY <1>3, <1>5, <3>3
      <4>2. mongo' = mongo
        BY <1>2
      <4>3. QED  BY <3>1, <4>1, <4>2
    <3>4. QED  BY <3>2, <3>3 DEF WritesHigher
  <2>6. ASSUME redis[c] # Nil  PROVE Reaches(c, redis[c])'
    <3>1. Reaches(c, redis[c]) /\ redis[c] \in Position /\ mongo[c] \in Position
      BY <2>1, <2>6, InTurnBefore DEF ReadPositionsTypeOK
    <3>2. CASE writers[w].s >= redis[c]
      <4>1. /\ mongo[c] \in Nat /\ writers[w].s \in Nat /\ redis[c] \in Nat
            /\ UNCHANGED <<redis, mongo>>
        BY <1>1, <1>2, <3>1 DEF Position
      <4>2. CASE writers'[w].pc = "idle" /\ mongo[d] > writers[w].s
        BY <1>5, <3>2, <4>1, <4>2 DEF Reaches
      <4>3. CASE /\ writers'[w].pc = "set" /\ writers'[w].c = d
                 /\ writers'[w].s = writers[w].s
        BY <1>5, <3>2, <4>1, <4>3 DEF Reaches, Works
      <4>4. QED  BY <1>3, <4>2, <4>3
    <3>3. CASE ~(writers[w].s >= redis[c])
      BY <1>2, <2>2, <3>1, <3>3 DEF Reaches
    <3>4. QED  BY <3>2, <3>3
  <2>7. Answer(c)' >= Answer(c)
    BY <1>2, ReadPositionsAssumption DEF Answer, ReadPositionsTypeOK, Position
  <2>8. QED  BY <1>2, <2>3, <2>4, <2>5, <2>6, <2>7 DEF InTurn
<1>6. QED  BY <1>4, <1>5

(* It writes: not less than what is there.                                   *)
LEMMA KeptWrite ==
    ASSUME ReadPositionsTypeOK, ReadPositionsNext, NEW c \in Conversations,
           InTurn(c), NEW w \in Writers, WriterSets(w)
    PROVE  PositionKept(c)
<1> DEFINE d == writers[w].c
<1>1. /\ writers[w] \in Writing /\ writers[w].pc = "set"
      /\ d \in Conversations /\ writers[w].s \in Position
  BY TaskAtWork, Writings DEF WriterSets
<1>2. /\ writers'[w] = Idle
      /\ mongo' = [mongo EXCEPT ![d] = writers[w].s]
      /\ \A x \in Writers \ {w} : writers'[x] = writers[x]
      /\ UNCHANGED <<redis, task, receipts, sent>>
  BY DEF WriterSets, ReadPositionsTypeOK, caches, queues
<1>3. CASE d # c
  <2>1. mongo'[c] = mongo[c]
    BY <1>2, <1>3 DEF ReadPositionsTypeOK
  <2>2. Elsewhere(c)
    BY <1>2, <1>3, <2>1 DEF Elsewhere, Works, Idle
  <2>3. QED  BY <2>2, KeptElsewhere
<1>4. CASE d = c
  <2>1. SUFFICES ASSUME Clean(c)'  PROVE InTurn(c)' /\ Answer(c)' >= Answer(c)
    BY DEF PositionKept, InTurn
  <2>2. \A x \in Writers \ {w} : ~Works(writers[x], c)
    BY <1>1, <1>4, <2>1, InTurnBefore DEF OneWriter, Works
  <2>3. mongo'[c] = writers[w].s /\ writers[w].s >= mongo[c]
    BY <1>1, <1>2, <1>4, <2>1, InTurnBefore DEF WritesHigher, ReadPositionsTypeOK
  <2>4. \A x \in Writers : ~Works(writers'[x], c)
    BY <1>2, <2>2 DEF Works, Idle
  <2>5. OneTask(c)' /\ OneWriter(c)' /\ WritesHigher(c)'
    BY <1>2, <2>1, <2>4, InTurnBefore DEF OneTask, OneWriter, WritesHigher, Works
  <2>6. FillsCopy(c)' /\ SetsHigher(c)'
    <3>1. Written(c)
      BY <1>1, <1>4 DEF Written, Works
    <3>2. QED  BY <1>2, <2>1, <3>1, InTurnBefore DEF FillsCopy, SetsHigher
  <2>7. ASSUME redis[c] # Nil  PROVE Reaches(c, redis[c])'
    <3>1. Reaches(c, redis[c]) /\ redis[c] \in Position /\ mongo[c] \in Position
      BY <2>1, <2>7, InTurnBefore DEF ReadPositionsTypeOK
    <3>2. CASE writers[w].s >= redis[c]
      BY <1>2, <2>3, <3>2 DEF Reaches
    <3>3. CASE ~(writers[w].s >= redis[c])
      BY <1>1, <1>2, <2>2, <2>3, <3>1, <3>3 DEF Reaches, Position
    <3>4. QED  BY <3>2, <3>3
  <2>8. Answer(c)' >= Answer(c)
    BY <1>1, <1>2, <2>3, ReadPositionsAssumption
       DEF Answer, ReadPositionsTypeOK, Position
  <2>9. QED  BY <1>2, <2>5, <2>6, <2>7, <2>8 DEF InTurn
<1>5. QED  BY <1>3, <1>4

(* The steps of msgtransfer that take receipts and positions.  A batch that   *)
(* holds receipts of two conversations makes them mixed.                     *)
LEMMA KeptReceipts ==
    ASSUME ReadPositionsTypeOK, ReadPositionsNext, NEW c \in Conversations,
           InTurn(c), HandleReceipts
    PROVE  PositionKept(c)
<1>1. PICK last \in receipts, batch \in SUBSET receipts :
        /\ receipts' = receipts \ batch
        /\ mixed' = IF \A x \in batch : x.c = last.c
                    THEN mixed ELSE mixed \cup {x.c : x \in batch}
        /\ last \in batch
        /\ \E x \in DoSetReadSeq(batch, last) : Writes("receipts", x)
  BY DEF HandleReceipts
<1>2. PICK y \in batch : /\ \A x \in batch : x.s =< y.s
                         /\ Writes("receipts", [c |-> last.c, s |-> y.s])
  BY <1>1 DEF DoSetReadSeq, Highest
<1>3. UNCHANGED <<redis, mongo, task, sent>>
  BY DEF HandleReceipts, caches
<1>4. /\ last.c \in Conversations /\ \A x \in batch : x.s \in Position
      /\ "receipts" \in Writers
  BY DEF ReadPositionsTypeOK, Receipt, Writers
<1>5. CASE \E x \in batch : x.c # last.c
  <2>1. \A x \in batch : x.c \in mixed'
    BY <1>1, <1>5
  <2>2. CASE \E x \in batch : x.c = c
    BY <2>1, <2>2 DEF PositionKept, InTurn, Clean
  <2>3. CASE ~ \E x \in batch : x.c = c
    <3>1. last.c # c /\ \A x \in receipts : x.c = c => x \in receipts'
      BY <1>1, <2>3
    <3>2. QED  BY <1>2, <1>3, <1>4, <3>1, KeptWrites
  <2>4. QED  BY <2>2, <2>3
<1>6. CASE \A x \in batch : x.c = last.c
  <2>1. last.c # c => \A x \in receipts : x.c = c => x \in receipts'
    BY <1>1, <1>6
  <2>2. ASSUME NEW v \in Position, NEW x \in receipts, x.c = c, x.s >= v
        PROVE  y.s >= v \/ \E z \in receipts' : z.c = c /\ z.s >= v
    <3>1. CASE x \in batch
      BY <1>2, <1>4, <2>2, <3>1 DEF Position
    <3>2. CASE x \notin batch
      BY <1>1, <2>2, <3>2
    <3>3. QED  BY <3>1, <3>2
  <2>3. y.s \in Position
    BY <1>4
  <2>4. QED  BY <1>2, <1>3, <1>4, <2>1, <2>2, <2>3, KeptWrites
<1>7. QED  BY <1>5, <1>6

(* A position of the user's own messages is taken up from the channel.       *)
LEMMA KeptSent ==
    ASSUME ReadPositionsTypeOK, ReadPositionsNext, NEW c \in Conversations,
           InTurn(c), HandleSent
    PROVE  PositionKept(c)
<1>1. sent \in Seq([c : Conversations, s : Position]) /\ sent # <<>>
  BY DEF HandleSent, ReadPositionsTypeOK
<1>2. /\ 1 \in 1..Len(sent) /\ Head(sent) = sent[1]
      /\ \A i \in 1..Len(sent) : i # 1 =>
           i - 1 \in 1..Len(Tail(sent)) /\ Tail(sent)[i - 1] = sent[i]
  BY <1>1
<1>3. sent[1].c \in Conversations /\ sent[1].s \in Position
  <2>1. sent[1] \in [c : Conversations, s : Position]
    BY <1>1, <1>2, Sequels
  <2>2. QED  BY <2>1
<1>4. /\ Writes("sent", [c |-> sent[1].c, s |-> sent[1].s])
      /\ sent' = Tail(sent) /\ "sent" \in Writers
      /\ UNCHANGED <<redis, mongo, task, receipts>>
  BY <1>2 DEF HandleSent, caches, Writers, Writes
<1>5. sent[1].c # c => \A i \in 1..Len(sent) : sent[i].c = c =>
        \E j \in 1..Len(sent') : sent'[j] = sent[i]
  BY <1>2, <1>4
<1>6. ASSUME NEW v \in Position, NEW i \in 1..Len(sent), sent[i].c = c,
             sent[i].s >= v
      PROVE  sent[1].s >= v \/ \E j \in 1..Len(sent') :
                                 sent'[j].c = c /\ sent'[j].s >= v
  BY <1>2, <1>4, <1>6
<1>7. QED  BY <1>3, <1>4, <1>5, <1>6, KeptWrites

(* What fails or is lost spoils its conversation, and no other.              *)
LEMMA KeptLosses ==
    ASSUME ReadPositionsTypeOK, ReadPositionsNext, NEW c \in Conversations,
           InTurn(c),
           \/ \E g \in Tasks : Fail(g)
           \/ \E x \in receipts : LoseReceipt(x)
           \/ \E w \in Writers : WriterFails(w)
    PROVE  PositionKept(c)
<1> USE DEF chats, caches, queues, counts, history
<1>1. CASE c \in lost'
  BY <1>1 DEF PositionKept, InTurn, Clean
<1>2. CASE c \notin lost'
  <2>1. ASSUME NEW g \in Tasks, Fail(g)  PROVE Elsewhere(c)
    <3>1. task[g] \in Piece /\ task[g].c # c
      BY <1>2, <2>1, TaskAtWork DEF Fail
    <3>2. /\ task'[g] \in {Idle, [task[g] EXCEPT !.pc = "done"]}
          /\ \A h \in Tasks \ {g} : task'[h] = task[h]
          /\ UNCHANGED <<redis, mongo, receipts, sent, writers>>
      BY <2>1 DEF Fail, ReadPositionsTypeOK
    <3>3. task'[g].pc = "idle" \/ task'[g].c = task[g].c
      BY <3>1, <3>2 DEF Piece, Idle
    <3>4. QED  BY <3>1, <3>2, <3>3 DEF Elsewhere, Works
  <2>2. ASSUME NEW x \in receipts, LoseReceipt(x)  PROVE Elsewhere(c)
    BY <1>2, <2>2 DEF LoseReceipt, Loses, Elsewhere
  <2>3. ASSUME NEW w \in Writers, WriterFails(w)  PROVE Elsewhere(c)
    BY <1>2, <2>3
       DEF WriterFails, Loses, Elsewhere, Works, Idle, ReadPositionsTypeOK
  <2>4. QED  BY <2>1, <2>2, <2>3, KeptElsewhere
<1>3. QED  BY <1>1, <1>2

(* Every step keeps what is said of a conversation, and its position.        *)
LEMMA KeptByNext ==
    ASSUME ReadPositionsTypeOK, ReadPositionsTypeOK', ReadPositionsNext,
           NEW c \in Conversations, InTurn(c)
    PROVE  PositionKept(c)
<1>1. ASSUME NEW r \in Requests, NEW d \in Conversations, NEW call \in Calls,
             Request(r, d, call)
      PROVE  PositionKept(c)
  <2>1. /\ r \in Tasks /\ task[r].pc = "idle" /\ RacedIf(d, Tasked(d))
        /\ \A h \in Tasks \ {r} : task'[h] = task[h]
        /\ UNCHANGED <<redis, mongo, receipts, sent, writers>>
    BY <1>1 DEF Request, ReadPositionsTypeOK, Tasks, caches, queues
  <2>2. task'[r].pc \in {"look", "compare"} /\ task'[r].c = d
    BY <1>1, <2>1 DEF Request, NewTask, Stage, ReadPositionsTypeOK
  <2>3. task'[r] \in Piece
    BY <2>1, <2>2 DEF ReadPositionsTypeOK, Idle
  <2>4. QED  BY <2>1, <2>2, <2>3, KeptBegin
<1>2. ASSUME NEW d \in Conversations, Send(d)  PROVE PositionKept(c)
  <2>1. /\ Sender \in Tasks /\ task[Sender].pc = "idle" /\ RacedIf(d, Tasked(d))
        /\ \A h \in Tasks \ {Sender} : task'[h] = task[h]
        /\ UNCHANGED <<redis, mongo, receipts, sent, writers>>
    BY <1>2 DEF Send, ReadPositionsTypeOK, Tasks, caches, queues
  <2>2. task'[Sender].pc \in {"look", "compare"} /\ task'[Sender].c = d
    BY <1>2, <2>1 DEF Send, NewTask, ReadPositionsTypeOK
  <2>3. task'[Sender] \in Piece
    BY <2>1, <2>2 DEF ReadPositionsTypeOK, Idle
  <2>4. QED  BY <2>1, <2>2, <2>3, KeptBegin
<1>3. ASSUME NEW d \in Conversations, Receive(d)  PROVE PositionKept(c)
  <2>1. Elsewhere(c)
    BY <1>3 DEF Receive, Elsewhere, caches, queues
  <2>2. QED  BY <2>1, KeptElsewhere
<1>4. QED
  BY <1>1, <1>2, <1>3, KeptAnswer, KeptMiss, KeptSet, KeptPass, KeptExpire,
     KeptCompare, KeptWrite, KeptReceipts, KeptSent, KeptLosses
     DEF ReadPositionsNext

(* The position the server answers does not move back, neither by a smaller  *)
(* request nor by a late receipt nor when the copy in Redis expires, unless  *)
(* two goroutines worked on the conversation at once, a position was lost or *)
(* receipts were mixed.                                                      *)
THEOREM PositionDoesNotMoveBack == ReadPositionsSpec => PositionStays
<1> DEFINE Inv == ReadPositionsTypeOK /\ \A c \in Conversations : InTurn(c)
<1>1. ReadPositionsInit => \A c \in Conversations : InTurn(c)
  BY DEF ReadPositionsInit, InTurn, OneTask, OneWriter, FillsCopy, SetsHigher,
         WritesHigher, Works, Idle
<1>2. /\ ReadPositionsTypeOK /\ ReadPositionsTypeOK'
      /\ \A c \in Conversations : InTurn(c)
      /\ [ReadPositionsNext]_ReadPositionsVars
      => (\A c \in Conversations : InTurn(c))'
  <2> SUFFICES ASSUME ReadPositionsTypeOK, ReadPositionsTypeOK',
                      \A c \in Conversations : InTurn(c),
                      [ReadPositionsNext]_ReadPositionsVars,
                      NEW c \in Conversations
               PROVE  InTurn(c)'
    OBVIOUS
  <2>1. CASE ReadPositionsNext
    BY <2>1, KeptByNext DEF PositionKept
  <2>2. CASE UNCHANGED ReadPositionsVars
    BY <2>2 DEF ReadPositionsVars, chats, caches, queues, counts, history,
                InTurn, Clean, OneTask, OneWriter, FillsCopy, SetsHigher,
                WritesHigher, Reaches, Works, Written
  <2>3. QED  BY <2>1, <2>2
<1>3. /\ ReadPositionsTypeOK /\ ReadPositionsTypeOK'
      /\ \A c \in Conversations : InTurn(c)
      /\ [ReadPositionsNext]_ReadPositionsVars
      => [\A c \in Conversations :
            c \notin (mixed \cup raced \cup lost)' => Answer(c)' >= Answer(c)
         ]_ReadPositionsVars
  BY KeptByNext DEF PositionKept, Clean
<1>4. QED
  BY <1>1, <1>2, <1>3, PositionsTypeCorrect, PTL
     DEF ReadPositionsSpec, PositionStays

-----------------------------------------------------------------------------
(* The stored messages. *)

(* Lists hold what was written to Redis. *)
Sent == \A i \in 1..Len(batches) :
          batches[i].first <= batches[i].last /\ batches[i].last <= copied

(* There are no messages, and no promises about them, before they are       *)
(* written to Redis; and none in MongoDB of those deleted for all.          *)
SlotsKnown ==
  \A s \in Numbers :
    /\ slots[s].msg \/ copies[s].kind = "msg" => s <= copied
    /\ marked[s] # {} \/ s \in gone => s <= copied
    /\ s \in gone => ~slots[s].msg

(* The consumer has put the part of its list it has passed into MongoDB. *)
Inserting ==
  LET c == doing[Consumer] IN
  /\ c.pc \in {"idle", "update", "create"}
  /\ c.pc # "idle" =>
       /\ c.key = "msg" /\ next > 1 /\ c.s <= c.last
       /\ c.last = batches[next - 1].last
       /\ \A t \in Numbers :
            batches[next - 1].first <= t /\ t < c.s => t \in erased \/ slots[t].msg

(* What is known of the number s as long as nobody else writes the copy. *)
Told(s, marks) == s \notin gone /\ (s \notin erased => marked[s] \subseteq marks)

(* A goroutine of the message service. *)
Serving(g) ==
  LET c == doing[g] IN
  /\ c.pc \in {"update", "create"} =>
       c.key = "revoke" /\ c.last = c.s /\ c.s <= copied
  /\ c.pc = "push" => c.key = "delete" /\ c.s <= copied
  /\ c.pc = "erase" => c.key = "erase" /\ c.s <= copied
  /\ c.pc = "tag" =>
       /\ c.key # "nothing" => c.s <= copied
       /\ c.key \in Marks => c.s \in erased \/ c.key \in slots[c.s].marks
  /\ c.pc = "set" /\ c.got.kind = "msg" =>
       /\ c.s <= copied
       /\ locks[c.s] = g => Told(c.s, c.got.marks)

StoreInv ==
  /\ MsgStoreTypeOK /\ Sent /\ SlotsKnown /\ Inserting
  /\ \A g \in Clients : Serving(g)
  /\ NothingStoredIsLost /\ CallsAreTold

-----------------------------------------------------------------------------
(* The first message behind a number begins the next document, so that the  *)
(* last number of a document is not below the others.                       *)
LEMMA EndOfDoc ==
    ASSUME NEW s \in Numbers
    PROVE  Doc(s) \in Nat /\ (Doc(s) + 1) * DocSize \in Nat
             /\ s <= (Doc(s) + 1) * DocSize
<1> DEFINE q == (s - 1) \div DocSize
<1> DEFINE r == (s - 1) % DocSize
<1>1. s \in Nat \ {0} /\ DocSize \in Nat \ {0}
  BY MsgStoreAssumption DEF Numbers
<1>2. s - 1 = q * DocSize + r /\ r \in 0..(DocSize - 1) /\ q \in Nat
  BY <1>1, SMTT(30)
<1>3. (q + 1) * DocSize = q * DocSize + DocSize /\ q * DocSize \in Nat
  BY <1>1, <1>2, SMTT(30)
<1>4. QED  BY <1>1, <1>2, <1>3 DEF Doc

(* The elements of a sequence. *)
LEMMA ElementOf ==
    ASSUME NEW S, NEW q \in Seq(S), NEW i \in 1..Len(q)
    PROVE  q[i] \in S
OBVIOUS

(* A goroutine that rests is one, and promises nothing. *)
LEMMA RestingTyped ==
    /\ Resting \in Doing /\ Resting.s \in Numbers /\ Resting.last \in Numbers
    /\ Resting.pc = "idle"
BY MsgStoreAssumption DEF Resting, Working, Doing, Numbers, Marks, NoCopy, Copy

(* One that begins has nothing in hand. *)
LEMMA CallAtWork ==
    ASSUME NEW pc \in {"find", "update", "push", "erase"},
           NEW s \in Numbers, NEW last \in Numbers,
           NEW key \in Marks \cup {"msg", "erase", "nothing"}
    PROVE  LET new == Working(pc, s, last, key) IN
           /\ new \in Doing /\ {new.s, new.last} \subseteq Numbers
           /\ new.pc = pc /\ new.s = s /\ new.last = last /\ new.key = key
BY DEF Working, Doing, Numbers, Marks, NoCopy, Copy

(* What a write of a part leaves: it takes nothing away, adds what it says, *)
(* and adds it where it says.                                               *)
LEMMA PartIsAdded ==
    ASSUME MsgStoreTypeOK, NEW w \in Workers, NEW W \in SUBSET Numbers,
           WritesPart(w, W), doing[w].key \in Marks \cup {"msg"}
    PROVE  /\ slots' \in [Numbers -> Slot]
           /\ \A s \in Numbers :
                /\ slots[s].marks \subseteq slots'[s].marks
                /\ slots[s].msg => slots'[s].msg
                /\ slots'[s].msg =>
                     slots[s].msg \/ (s \in W /\ doing[w].key = "msg")
                /\ s \in W /\ doing[w].key = "msg" => slots'[s].msg
                /\ s \in W /\ doing[w].key # "msg" =>
                     doing[w].key \in slots'[s].marks
           /\ gone' \subseteq gone
           /\ doing[w].key = "msg" => gone' = gone \ W
           /\ doing[w].key # "msg" => gone' = gone
<1>1. slots \in [Numbers -> Slot]
  BY DEF MsgStoreTypeOK
<1>2. \A s \in Numbers :
        LET new == WithPart(slots[s], doing[w].key) IN
        /\ new \in Slot /\ slots[s].marks \subseteq new.marks
        /\ slots[s].msg => new.msg
        /\ doing[w].key = "msg" => new.msg
        /\ doing[w].key # "msg" =>
             doing[w].key \in new.marks /\ (new.msg => slots[s].msg)
  <2>1. SUFFICES ASSUME NEW s \in Numbers, NEW slot \in Slot, slot = slots[s],
                        NEW key \in Marks \cup {"msg"}, key = doing[w].key
                 PROVE  LET new == WithPart(slot, key) IN
                        /\ new \in Slot /\ slot.marks \subseteq new.marks
                        /\ slot.msg => new.msg
                        /\ key = "msg" => new.msg
                        /\ key # "msg" =>
                             key \in new.marks /\ (new.msg => slot.msg)
    BY <1>1
  <2>2. CASE key = "msg"
    <3>1. WithPart(slot, key) = [slot EXCEPT !.msg = TRUE]
      BY <2>2 DEF WithPart
    <3>2. QED  BY <2>2, <3>1 DEF Slot
  <2>3. CASE key # "msg"
    <3>1. WithPart(slot, key) = [slot EXCEPT !.marks = @ \cup {key}]
      BY <2>3 DEF WithPart
    <3>2. key \in Marks
      BY <2>1, <2>3
    <3>3. QED  BY <2>3, <3>1, <3>2 DEF Slot
  <2>4. QED  BY <2>2, <2>3
<1>3. slots' = [s \in Numbers |-> IF s \in W
                THEN WithPart(slots[s], doing[w].key) ELSE slots[s]]
        /\ gone' = IF doing[w].key = "msg" THEN gone \ W ELSE gone
  BY DEF WritesPart
<1>4. slots' \in [Numbers -> Slot]
  BY <1>1, <1>2, <1>3
<1>5. QED  BY <1>1, <1>2, <1>3, <1>4

(* BatchInsertBlock has written a part of what it is to write. *)
LEMMA PartKeeps ==
    ASSUME StoreInv, NEW w \in Workers, doing[w].pc \in {"update", "create"},
           NEW e \in Numbers, doing[w].s <= e, e <= doing[w].last,
           NEW pc \in {"update", "create"},
           WritesPart(w, doing[w].s..e), GoesOn(w, e, pc),
           UNCHANGED <<copying, topic, bounds, marked, erased>>,
           docs' \subseteq {Doc(s) : s \in Numbers}
    PROVE  StoreInv'
<1> USE DEF copying, topic, bounds
<1> DEFINE W == doing[w].s..e
<1>1. MsgStoreTypeOK /\ Sent /\ SlotsKnown /\ Inserting /\ NothingStoredIsLost
        /\ CallsAreTold /\ \A g \in Clients : Serving(g)
  BY DEF StoreInv
<1>2. /\ doing \in [Workers -> Doing]
      /\ doing[w].s \in Numbers /\ doing[w].last \in Numbers
      /\ copied \in Nat /\ next \in Nat /\ W \in SUBSET Numbers
  BY <1>1, MsgStoreAssumption DEF MsgStoreTypeOK, Numbers
<1>3. doing[w].key \in Marks \cup {"msg"} /\ doing[w].last <= copied
  <2>1. CASE w = Consumer
    <3>1. next - 1 \in 1..Len(batches) /\ doing[w].key = "msg"
            /\ doing[w].last = batches[next - 1].last
      BY <1>1, <1>2, <2>1 DEF Inserting, MsgStoreTypeOK
    <3>2. QED  BY <1>1, <3>1 DEF Sent
  <2>2. CASE w \in Clients
    BY <1>1, <2>2 DEF Serving, Marks
  <2>3. QED  BY <2>1, <2>2 DEF Workers
<1>4. /\ slots' \in [Numbers -> Slot]
      /\ \A s \in Numbers :
           /\ slots[s].marks \subseteq slots'[s].marks
           /\ slots[s].msg => slots'[s].msg
           /\ slots'[s].msg =>
                slots[s].msg \/ (s \in W /\ doing[w].key = "msg")
           /\ s \in W /\ doing[w].key = "msg" => slots'[s].msg
           /\ s \in W /\ doing[w].key # "msg" =>
                doing[w].key \in slots'[s].marks
      /\ gone' \subseteq gone
      /\ doing[w].key = "msg" => gone' = gone \ W
      /\ doing[w].key # "msg" => gone' = gone
  BY <1>1, <1>2, <1>3, PartIsAdded
<1>5. SlotsKnown'
  BY <1>1, <1>2, <1>3, <1>4 DEF SlotsKnown, Numbers
<1>6. Sent' /\ CallsAreTold'
  BY <1>1, <1>4 DEF Sent, CallsAreTold
<1>7. \A g \in Clients : g # w => Serving(g)'
  <2>1. SUFFICES ASSUME NEW g \in Clients, g # w PROVE Serving(g)'
    OBVIOUS
  <2>2. doing'[g] = doing[g] /\ doing[g].s \in Numbers
    BY <1>1, <1>2, <2>1, RestingTyped
       DEF GoesOn, Ends, StepsTo, Workers, MsgStoreTypeOK
  <2>3. QED  BY <1>1, <1>4, <2>1, <2>2 DEF Serving, Told
<1>8. CASE w = Consumer
  <2>1. /\ doing[w].key = "msg" /\ next > 1 /\ next - 1 \in 1..Len(batches)
        /\ doing[w].last = batches[next - 1].last
        /\ batches[next - 1].first \in Numbers
    <3>1. batches \in Seq([first : Numbers, last : Numbers])
            /\ next \in 1..(Len(batches) + 1)
      BY <1>1 DEF MsgStoreTypeOK
    <3>2. doing[w].key = "msg" /\ next > 1 /\ doing[w].last = batches[next - 1].last
      BY <1>1, <1>8 DEF Inserting
    <3>3. next - 1 \in 1..Len(batches)
      BY <3>1, <3>2
    <3>4. batches[next - 1] \in [first : Numbers, last : Numbers]
      BY <3>1, <3>3, ElementOf
    <3>5. QED  BY <3>2, <3>3, <3>4
  <2>2. \A t \in Numbers : batches[next - 1].first <= t /\ t <= e =>
          t \in erased \/ slots'[t].msg
    BY <1>1, <1>2, <1>4, <1>8, <2>1 DEF Inserting, Numbers
  <2>3. CASE e < doing[w].last
    <3>1. /\ doing' = [doing EXCEPT ![w].pc = pc, ![w].s = e + 1]
          /\ inserted' = inserted /\ e + 1 \in Numbers
      BY <1>2, <2>3, MsgStoreAssumption DEF GoesOn, Numbers
    <3>2. /\ doing' \in [Workers -> Doing]
          /\ doing'[w].pc = pc /\ doing'[w].s = e + 1
          /\ doing'[w].last = doing[w].last /\ doing'[w].key = "msg"
          /\ \A v \in Workers \ {w} : doing'[v] = doing[v]
      BY <1>2, <2>1, <3>1, SMTT(30) DEF Doing, Numbers
    <3>3. Inserting'
      BY <1>2, <1>8, <2>1, <2>2, <2>3, <3>1, <3>2 DEF Inserting, Numbers
    <3>4. MsgStoreTypeOK'
      BY <1>1, <1>2, <1>4, <3>1, <3>2 DEF MsgStoreTypeOK
    <3>5. NothingStoredIsLost'
      BY <1>1, <1>4, <3>1 DEF NothingStoredIsLost
    <3>6. QED  BY <1>5, <1>6, <1>7, <1>8, <3>3, <3>4, <3>5, MsgStoreAssumption
               DEF StoreInv
  <2>4. CASE ~(e < doing[w].last)
    <3>1. /\ doing' = [doing EXCEPT ![w] = Resting]
          /\ inserted' = inserted \cup batches[next - 1].first..doing[w].last
          /\ e = doing[w].last
      BY <1>2, <1>8, <2>4 DEF GoesOn, Ends, Numbers
    <3>2. /\ doing' \in [Workers -> Doing] /\ doing'[w] = Resting
          /\ \A v \in Workers \ {w} : doing'[v] = doing[v]
      BY <1>2, <3>1, RestingTyped
    <3>3. Inserting'
      BY <1>8, <3>2, RestingTyped DEF Inserting
    <3>4. MsgStoreTypeOK'
      <4>1. batches[next - 1].first..doing[w].last \subseteq Numbers
        BY <1>2, <2>1, MsgStoreAssumption DEF Numbers
      <4>2. \A v \in Workers : {doing'[v].s, doing'[v].last} \subseteq Numbers
        BY <1>1, <3>2, RestingTyped DEF MsgStoreTypeOK
      <4>3. inserted' \subseteq Numbers /\ gone' \subseteq Numbers
        BY <1>1, <1>4, <3>1, <4>1 DEF MsgStoreTypeOK
      <4>4. QED  BY <1>1, <1>4, <3>2, <4>2, <4>3 DEF MsgStoreTypeOK
    <3>5. NothingStoredIsLost'
      BY <1>1, <1>2, <1>4, <2>1, <2>2, <3>1 DEF NothingStoredIsLost, Numbers
    <3>6. QED  BY <1>5, <1>6, <1>7, <1>8, <3>3, <3>4, <3>5, MsgStoreAssumption
               DEF StoreInv
  <2>5. QED  BY <2>3, <2>4
<1>9. CASE w \in Clients
  <2>1. /\ doing[w].key = "revoke" /\ doing[w].last = doing[w].s
        /\ doing[w].s <= copied /\ w # Consumer
    BY <1>1, <1>9, MsgStoreAssumption DEF Serving
  <2>2. /\ doing' = [doing EXCEPT ![w].pc = "tag"] /\ inserted' = inserted
        /\ doing[w].s \in W
    BY <1>2, <2>1 DEF GoesOn, StepsTo, Numbers
  <2>3. /\ doing' \in [Workers -> Doing]
        /\ doing'[w].pc = "tag" /\ doing'[w].s = doing[w].s
        /\ doing'[w].last = doing[w].last /\ doing'[w].key = "revoke"
        /\ \A v \in Workers \ {w} : doing'[v] = doing[v]
    BY <1>2, <2>1, <2>2 DEF Doing
  <2>4. Serving(w)'
    <3>1. "revoke" \in slots'[doing[w].s].marks
      BY <1>2, <1>4, <2>1, <2>2
    <3>2. QED  BY <2>1, <2>3, <3>1 DEF Serving
  <2>5. Inserting'
    BY <1>1, <1>4, <2>1, <2>3 DEF Inserting, Workers
  <2>6. MsgStoreTypeOK'
    BY <1>1, <1>2, <1>4, <2>2, <2>3 DEF MsgStoreTypeOK
  <2>7. NothingStoredIsLost'
    BY <1>1, <1>4, <2>2 DEF NothingStoredIsLost
  <2>8. QED  BY <1>5, <1>6, <1>7, <2>4, <2>5, <2>6, <2>7 DEF StoreInv
<1>10. QED  BY <1>8, <1>9 DEF Workers

(* The two steps that write a part, when they do. *)
LEMMA InsertKeeps ==
    ASSUME StoreInv, NEW w \in Workers, UpdateMsg(w) \/ CreateDoc(w)
    PROVE  StoreInv'
<1> USE DEF copying, topic, bounds, storage
<1> DEFINE s == doing[w].s
<1>1. /\ doing \in [Workers -> Doing] /\ s \in Numbers
      /\ doing[w].last \in Numbers /\ docs \subseteq {Doc(t) : t \in Numbers}
      /\ s <= doing[w].last
  <2>1. MsgStoreTypeOK /\ Inserting /\ (w \in Clients => Serving(w))
    BY DEF StoreInv
  <2>2. s <= doing[w].last
    <3>1. s \in Nat /\ doing[w].pc \in {"update", "create"}
      BY <2>1 DEF MsgStoreTypeOK, Doing, UpdateMsg, CreateDoc
    <3>2. CASE w = Consumer
      BY <2>1, <3>1, <3>2 DEF Inserting
    <3>3. CASE w \in Clients
      BY <2>1, <3>1, <3>3 DEF Serving
    <3>4. QED  BY <3>2, <3>3 DEF Workers
  <2>3. QED  BY <2>1, <2>2 DEF MsgStoreTypeOK
<1>2. CASE UpdateMsg(w) /\ Doc(s) \in docs
  <2>1. /\ doing[w].pc = "update" /\ WritesPart(w, {s}) /\ GoesOn(w, s, "update")
        /\ UNCHANGED <<docs, copying, topic, bounds, marked, erased>>
    BY <1>2 DEF UpdateMsg
  <2>2. {s} = s..s
    BY <1>1 DEF Numbers
  <2>3. s <= s /\ WritesPart(w, s..s) /\ docs' \subseteq {Doc(t) : t \in Numbers}
    BY <1>1, <2>1, <2>2 DEF Numbers
  <2>4. QED  BY <1>1, <2>1, <2>3, PartKeeps
<1>3. CASE CreateDoc(w) /\ Doc(s) \notin docs
  <2> DEFINE full == (Doc(s) + 1) * DocSize
  <2> DEFINE e == IF full < doing[w].last THEN full ELSE doing[w].last
  <2>1. /\ doing[w].pc = "create" /\ WritesPart(w, s..e) /\ GoesOn(w, e, "create")
        /\ docs' = docs \cup {Doc(s)}
        /\ UNCHANGED <<copying, topic, bounds, marked, erased>>
    BY <1>3 DEF CreateDoc
  <2>2. full \in Nat /\ s <= full
    BY <1>1, EndOfDoc
  <2>3. e \in Numbers /\ s <= e /\ e <= doing[w].last
    BY <1>1, <2>2, MsgStoreAssumption DEF Numbers
  <2>4. docs' \subseteq {Doc(t) : t \in Numbers}
    BY <1>1, <2>1
  <2> HIDE DEF e
  <2>5. QED  BY <2>1, <2>3, <2>4, PartKeeps
<1>4. CASE \/ UpdateMsg(w) /\ Doc(s) \notin docs
           \/ CreateDoc(w) /\ Doc(s) \in docs
  <2>1. PICK pc \in {"update", "create"} :
          /\ doing[w].pc \in {"update", "create"}
          /\ doing' = [doing EXCEPT ![w].pc = pc]
          /\ UNCHANGED <<docs, slots, copying, topic, bounds, records>>
    BY <1>4 DEF UpdateMsg, CreateDoc, StepsTo, records
  <2>2. /\ doing' \in [Workers -> Doing] /\ doing'[w].pc = pc
        /\ doing'[w].s = s /\ doing'[w].last = doing[w].last
        /\ doing'[w].key = doing[w].key /\ doing'[w].got = doing[w].got
        /\ \A v \in Workers \ {w} : doing'[v] = doing[v]
    BY <1>1, <2>1 DEF Doing
  <2>3. MsgStoreTypeOK' /\ Sent' /\ SlotsKnown' /\ NothingStoredIsLost' /\ CallsAreTold'
    BY <2>1, <2>2 DEF StoreInv, MsgStoreTypeOK, Sent, SlotsKnown,
                      NothingStoredIsLost, CallsAreTold, records
  <2>4. Inserting'
    BY <2>1, <2>2 DEF StoreInv, Inserting, Workers, records
  <2>5. ASSUME NEW g \in Clients PROVE Serving(g)'
    BY <2>1, <2>2 DEF StoreInv, Serving, Told, Workers, records
  <2>6. QED  BY <2>3, <2>4, <2>5 DEF StoreInv
<1>5. QED  BY <1>2, <1>3, <1>4

(* The steps of msgtransfer and of the consumer beside its inserts. *)
LEMMA ListsKeep ==
    ASSUME StoreInv,
           \/ TakeList \/ ConsumerRestarts \/ WorkFails(Consumer)
           \/ \E n \in 1..DocSize : SetMessageBySeqs(n)
    PROVE  StoreInv'
<1> USE DEF copying, topic, bounds, storage, records
<1>1. /\ MsgStoreTypeOK /\ Sent /\ SlotsKnown /\ Inserting /\ NothingStoredIsLost
      /\ CallsAreTold /\ \A g \in Clients : Serving(g)
      /\ Consumer \in Workers /\ Consumer \notin Clients
  BY MsgStoreAssumption DEF StoreInv, Workers
<1>2. /\ batches \in Seq([first : Numbers, last : Numbers])
      /\ next \in 1..(Len(batches) + 1) /\ Len(batches) \in Nat
      /\ doing \in [Workers -> Doing] /\ copied \in 0..LastMsg
  BY <1>1 DEF MsgStoreTypeOK
<1>3. CASE TakeList
  <2> DEFINE new == Working("update", batches[next].first,
                            batches[next].last, "msg")
  <2>1. /\ next <= Len(batches) /\ next' = next + 1
        /\ doing' = [doing EXCEPT ![Consumer] = new]
        /\ UNCHANGED <<storage, copying, copied, batches, bounds, records>>
    BY <1>3 DEF TakeList
  <2>2. batches[next] \in [first : Numbers, last : Numbers]
    <3>1. next \in 1..Len(batches)
      BY <1>2, <2>1
    <3>2. QED  BY <1>2, <3>1, ElementOf
  <2>3. /\ new \in Doing /\ new.pc = "update" /\ new.key = "msg"
        /\ new.s = batches[next].first /\ new.last = batches[next].last
        /\ {new.s, new.last} \subseteq Numbers
    <3>1. batches[next].first \in Numbers /\ batches[next].last \in Numbers
      BY <2>2
    <3>2. QED  BY <3>1, CallAtWork, MsgStoreAssumption
  <2> HIDE DEF new
  <2>4. MsgStoreTypeOK' /\ Sent' /\ SlotsKnown' /\ NothingStoredIsLost' /\ CallsAreTold'
    BY <1>1, <1>2, <2>1, <2>3 DEF MsgStoreTypeOK, Sent, SlotsKnown,
                                  NothingStoredIsLost, CallsAreTold
  <2>5. Inserting'
    <3>1. doing'[Consumer] = new /\ batches' = batches /\ next' - 1 = next
            /\ next' > 1
      BY <1>1, <1>2, <2>1
    <3>2. new.s <= new.last
      <4>1. batches[next].first <= batches[next].last
        BY <1>1, <1>2, <2>1 DEF Sent
      <4>2. QED  BY <2>3, <4>1
    <3>3. \A t \in Numbers : ~(batches[next].first <= t /\ t < new.s)
      BY <2>2, <2>3 DEF Numbers
    <3>4. QED  BY <2>3, <3>1, <3>2, <3>3 DEF Inserting
  <2>6. ASSUME NEW g \in Clients PROVE Serving(g)'
    BY <1>1, <1>2, <2>1 DEF Serving, Told
  <2>7. QED  BY <2>4, <2>5, <2>6 DEF StoreInv
<1>4. CASE ConsumerRestarts \/ WorkFails(Consumer)
  <2>1. /\ failures' = failures + 1 /\ failures < MaxFailures
        /\ next' \in 1..next /\ doing' = [doing EXCEPT ![Consumer] = Resting]
        /\ UNCHANGED <<storage, copying, copied, batches, usedCalls, records>>
    BY <1>2, <1>4 DEF ConsumerRestarts, WorkFails, Ends
  <2>2. failures' \in 0..MaxFailures
    BY <1>1, <2>1, MsgStoreAssumption DEF MsgStoreTypeOK
  <2>3. MsgStoreTypeOK' /\ Sent' /\ SlotsKnown' /\ NothingStoredIsLost' /\ CallsAreTold'
    BY <1>1, <1>2, <2>1, <2>2, RestingTyped
       DEF MsgStoreTypeOK, Sent, SlotsKnown, NothingStoredIsLost, CallsAreTold
  <2>4. Inserting'
    BY <1>1, <1>2, <2>1, RestingTyped DEF Inserting
  <2>5. ASSUME NEW g \in Clients PROVE Serving(g)'
    BY <1>1, <1>2, <2>1 DEF Serving, Told
  <2>6. QED  BY <2>3, <2>4, <2>5 DEF StoreInv
<1>5. CASE \E n \in 1..DocSize : SetMessageBySeqs(n)
  <2>1. PICK n \in 1..DocSize :
          /\ copied + n <= LastMsg /\ copied' = copied + n
          /\ copies' = [s \in Numbers |-> IF s \in (copied + 1)..(copied + n)
                          THEN [kind |-> "msg", marks |-> {}] ELSE copies[s]]
          /\ batches' = Append(batches,
                               [first |-> copied + 1, last |-> copied + n])
          /\ UNCHANGED <<storage, locks, next, doing, bounds, records>>
    BY <1>5 DEF SetMessageBySeqs
  <2> DEFINE new == [first |-> copied + 1, last |-> copied + n]
  <2>2. /\ copied + 1 \in Numbers /\ copied + n \in Numbers
        /\ copied' \in 0..LastMsg /\ copied <= copied'
    BY <1>2, <2>1, MsgStoreAssumption DEF Numbers
  <2>3. /\ batches' \in Seq([first : Numbers, last : Numbers])
        /\ Len(batches') = Len(batches) + 1
        /\ \A i \in 1..Len(batches) : batches'[i] = batches[i]
        /\ batches'[Len(batches) + 1] = new
    BY <1>2, <2>1, <2>2
  <2>4. copies' \in [Numbers -> Copy]
    BY <1>1, <2>1 DEF MsgStoreTypeOK, Copy
  <2>5. MsgStoreTypeOK'
    BY <1>1, <1>2, <2>1, <2>2, <2>3, <2>4 DEF MsgStoreTypeOK
  <2>6. Sent'
    <3>1. ASSUME NEW i \in 1..Len(batches')
          PROVE  /\ batches'[i].first <= batches'[i].last
                 /\ batches'[i].last <= copied'
      <4>1. CASE i \in 1..Len(batches)
        <5>1. batches[i] \in [first : Numbers, last : Numbers]
          BY <1>2, <4>1, ElementOf
        <5>2. batches[i].first <= batches[i].last /\ batches[i].last <= copied
          BY <1>1, <4>1 DEF Sent
        <5>3. batches[i].last \in Nat /\ copied \in Nat /\ copied' \in Nat
          BY <1>2, <2>2, <5>1 DEF Numbers
        <5>4. batches'[i] = batches[i]
          BY <2>3, <4>1
        <5>5. batches'[i].last <= copied'
          BY <2>2, <5>2, <5>3, <5>4
        <5>6. QED  BY <5>2, <5>4, <5>5
      <4>2. CASE i = Len(batches) + 1
        <5>1. batches'[i] = new /\ copied' = copied + n /\ n >= 1
          BY <2>1, <2>3, <4>2
        <5>2. QED  BY <1>2, <5>1
      <4>3. QED  BY <1>2, <2>3, <4>1, <4>2
    <3>2. QED  BY <3>1 DEF Sent
  <2>7. SlotsKnown'
    BY <1>1, <1>2, <2>1, <2>2, SMTT(30) DEF SlotsKnown, Numbers
  <2>8. NothingStoredIsLost'
    BY <1>1, <2>1 DEF NothingStoredIsLost
  <2>9. CallsAreTold'
    <3>1. SUFFICES ASSUME NEW s \in Numbers, locks'[s] = Free,
                          copies'[s].kind = "msg"
                   PROVE  s \notin gone' /\
                          (s \notin erased' => marked'[s] \subseteq copies'[s].marks)
      BY DEF CallsAreTold
    <3>2. CASE s \in (copied + 1)..(copied + n)
      BY <1>1, <1>2, <2>1, <3>1, <3>2 DEF SlotsKnown, Numbers
    <3>3. CASE s \notin (copied + 1)..(copied + n)
      BY <1>1, <2>1, <3>1, <3>3 DEF CallsAreTold
    <3>4. QED  BY <3>2, <3>3
  <2>10. Inserting'
    <3>1. doing'[Consumer] = doing[Consumer] /\ next' = next
      BY <2>1
    <3>2. doing[Consumer].pc # "idle" => batches'[next - 1] = batches[next - 1]
      BY <1>1, <1>2, <2>3 DEF Inserting
    <3>3. QED  BY <1>1, <2>1, <3>1, <3>2 DEF Inserting
  <2>11. ASSUME NEW g \in Clients PROVE Serving(g)'
    <3>1. doing[g].s \in Numbers
      BY <1>1 DEF MsgStoreTypeOK, Workers
    <3>2. QED  BY <1>1, <1>2, <2>1, <2>2, <3>1 DEF Serving, Told, Numbers
  <2>12. QED  BY <2>5, <2>6, <2>7, <2>8, <2>9, <2>10, <2>11 DEF StoreInv
<1>6. QED  BY <1>3, <1>4, <1>5

-----------------------------------------------------------------------------
(* A step of one client disturbs neither the lists nor the other clients,   *)
(* as long as it takes nothing out of MongoDB without emptying the place,   *)
(* and promises nothing of a number another client has locked.              *)
LEMMA OthersGoOn ==
    ASSUME StoreInv, NEW g \in Clients, UNCHANGED topic,
           \A w \in Workers \ {g} : doing'[w] = doing[w],
           erased \subseteq erased',
           \A s \in Numbers \ erased' :
             /\ slots[s].marks \subseteq slots'[s].marks
             /\ slots[s].msg => slots'[s].msg,
           \A s \in Numbers, h \in Clients \ {g} :
             locks'[s] = h =>
               /\ locks[s] = h /\ marked'[s] = marked[s]
               /\ s \in gone' => s \in gone
    PROVE  Sent' /\ Inserting' /\ \A h \in Clients \ {g} : Serving(h)'
<1> USE DEF topic
<1>1. Sent' /\ Consumer \in Workers \ {g}
  BY MsgStoreAssumption DEF StoreInv, Sent, Workers
<1>2. Inserting'
  <2>1. /\ doing'[Consumer] = doing[Consumer] /\ next' = next /\ batches' = batches
        /\ Inserting
    BY <1>1 DEF StoreInv
  <2>2. \A t \in Numbers : t \in erased \/ slots[t].msg
                           => t \in erased' \/ slots'[t].msg
    OBVIOUS
  <2>3. QED  BY <2>1, <2>2 DEF Inserting
<1>3. ASSUME NEW h \in Clients \ {g} PROVE Serving(h)'
  <2>1. doing'[h] = doing[h] /\ doing[h].s \in Numbers /\ Serving(h)
    BY <1>3 DEF StoreInv, MsgStoreTypeOK, Workers
  <2>2. \A key \in Marks : doing[h].s \in erased \/ key \in slots[doing[h].s].marks
           => doing[h].s \in erased' \/ key \in slots'[doing[h].s].marks
    BY <2>1
  <2>3. locks'[doing[h].s] = h =>
          /\ locks[doing[h].s] = h
          /\ marked'[doing[h].s] = marked[doing[h].s]
          /\ doing[h].s \in gone' => doing[h].s \in gone
          /\ doing[h].s \in erased => doing[h].s \in erased'
    BY <2>1, <1>3
  <2>4. QED  BY <2>1, <2>2, <2>3 DEF Serving, Told
<1>4. QED  BY <1>1, <1>2, <1>3

(* A step that changes only what its client does. *)
LEMMA MovesKeep ==
    ASSUME StoreInv, NEW g \in Clients, NEW new \in Doing,
           {new.s, new.last} \subseteq Numbers,
           doing' = [doing EXCEPT ![g] = new],
           UNCHANGED <<storage, copying, topic, records>>,
           usedCalls' \in 0..MaxCalls, failures' \in 0..MaxFailures, Serving(g)'
    PROVE  StoreInv'
<1> USE DEF storage, copying, topic, records
<1>1. /\ doing \in [Workers -> Doing] /\ g \in Workers
      /\ doing' \in [Workers -> Doing] /\ doing'[g] = new
      /\ \A w \in Workers \ {g} : doing'[w] = doing[w]
  BY DEF StoreInv, MsgStoreTypeOK, Workers
<1>2. MsgStoreTypeOK' /\ SlotsKnown' /\ NothingStoredIsLost' /\ CallsAreTold'
  BY <1>1 DEF StoreInv, MsgStoreTypeOK, SlotsKnown, NothingStoredIsLost, CallsAreTold
<1>3. Sent' /\ Inserting' /\ \A h \in Clients \ {g} : Serving(h)'
  BY <1>1, OthersGoOn
<1>4. QED  BY <1>2, <1>3 DEF StoreInv

(* What a client does after it has an answer: it rests, or revokes it. *)
LEMMA Revokes ==
    ASSUME NEW g \in Clients, NEW s \in Numbers, NEW copy \in Copy,
           doing \in [Workers -> Doing], MayRevoke(g, s, copy)
    PROVE  \E new \in Doing :
             /\ doing' = [doing EXCEPT ![g] = new]
             /\ {new.s, new.last} \subseteq Numbers
             /\ new.pc = "idle" \/ /\ new.pc = "update" /\ new.key = "revoke"
                                   /\ new.s = s /\ new.last = s
                                   /\ copy.kind = "msg"
<1>1. CASE Ends(g)
  BY <1>1, RestingTyped DEF Ends
<1>2. CASE copy.kind = "msg" /\ doing' = [doing EXCEPT ![g] = Revoking(s)]
  <2> DEFINE new == Revoking(s)
  <2>1. /\ new \in Doing /\ {new.s, new.last} \subseteq Numbers
        /\ new.pc = "update" /\ new.key = "revoke" /\ new.s = s /\ new.last = s
    BY CallAtWork DEF Revoking, Marks
  <2> HIDE DEF new
  <2>2. doing' = [doing EXCEPT ![g] = new]
    BY <1>2 DEF new
  <2>3. QED  BY <1>2, <2>1, <2>2
<1>3. QED  BY <1>1, <1>2 DEF MayRevoke

(* Asking for a message and beginning to delete one. *)
LEMMA BeginsKeep ==
    ASSUME StoreInv, NEW g \in Clients, NEW s \in Numbers,
           \/ ReadCopy(g, s) \/ DeleteUserMsgsBySeqs(g, s)
           \/ DeleteMsgsPhysicalBySeqs(g, s)
    PROVE  StoreInv'
<1>1. /\ doing \in [Workers -> Doing] /\ g \in Workers /\ copies \in [Numbers -> Copy]
      /\ failures \in 0..MaxFailures /\ usedCalls \in 0..MaxCalls /\ SlotsKnown
  BY DEF StoreInv, MsgStoreTypeOK, Workers
<1>2. /\ UNCHANGED <<storage, copying, topic, records>>
      /\ usedCalls' \in 0..MaxCalls /\ failures' \in 0..MaxFailures
  BY <1>1, MsgStoreAssumption
     DEF Begins, ReadCopy, DeleteUserMsgsBySeqs, DeleteMsgsPhysicalBySeqs, Deletes
<1>3. CASE ReadCopy(g, s)
  <2>1. PICK new \in Doing :
          /\ doing' = [doing EXCEPT ![g] = new]
          /\ {new.s, new.last} \subseteq Numbers
          /\ new.pc = "idle" \/ /\ new.pc = "update" /\ new.key = "revoke"
                                /\ new.s = s /\ new.last = s
                                /\ copies[s].kind = "msg"
    BY <1>1, <1>3, Revokes DEF ReadCopy
  <2>2. doing'[g] = new /\ copied' = copied
    BY <1>1, <1>2, <2>1 DEF topic
  <2>3. Serving(g)'
    BY <1>1, <2>1, <2>2 DEF Serving, SlotsKnown
  <2>4. QED  BY <1>2, <2>1, <2>3, MovesKeep
<1>4. CASE DeleteUserMsgsBySeqs(g, s) \/ DeleteMsgsPhysicalBySeqs(g, s)
  <2>1. PICK pc \in {"push", "erase"}, key \in {"delete", "erase"} :
          /\ doing' = [doing EXCEPT ![g] = Working(pc, s, s, key)]
          /\ s <= copied /\ (pc = "push" <=> key = "delete")
    BY <1>4 DEF DeleteUserMsgsBySeqs, DeleteMsgsPhysicalBySeqs, Deletes
  <2> DEFINE new == Working(pc, s, s, key)
  <2>2. /\ new \in Doing /\ {new.s, new.last} \subseteq Numbers
        /\ new.pc = pc /\ new.key = key /\ new.s = s
    BY CallAtWork DEF Marks
  <2> HIDE DEF new
  <2>3. doing' = [doing EXCEPT ![g] = new] /\ doing'[g] = new /\ copied' = copied
    BY <1>1, <1>2, <2>1 DEF new, topic
  <2>4. Serving(g)'
    BY <2>1, <2>2, <2>3 DEF Serving
  <2>5. QED  BY <1>2, <2>2, <2>3, <2>4, MovesKeep
<1>5. QED  BY <1>3, <1>4

(* The steps of a reader: it takes the lock, so that another who held it    *)
(* writes no copy, reads from MongoDB, where every call that has returned   *)
(* has left its mark, and writes the copy if the lock is still its own:     *)
(* every call that has returned since has taken it away.                    *)
LEMMA ReaderKeeps ==
    ASSUME StoreInv, NEW g \in Clients,
           FindSeqs(g) \/ SetCopy(g) \/ \E s \in Numbers : LockCopy(g, s)
    PROVE  StoreInv'
<1>1. /\ doing \in [Workers -> Doing] /\ g \in Workers /\ copies \in [Numbers -> Copy]
      /\ locks \in [Numbers -> Clients \cup {Free, Deleted}]
      /\ slots \in [Numbers -> Slot]
      /\ failures \in 0..MaxFailures /\ usedCalls \in 0..MaxCalls
      /\ doing[g].s \in Numbers /\ doing[g].last \in Numbers
      /\ SlotsKnown /\ NothingStoredIsLost /\ CallsAreTold /\ Serving(g)
      /\ g \notin {Free, Deleted}
  BY MsgStoreAssumption DEF StoreInv, MsgStoreTypeOK, Workers
<1>2. CASE FindSeqs(g)
  <2> DEFINE found == Found(doing[g].s)
  <2> DEFINE new == [doing[g] EXCEPT !.pc = "set", !.got = found]
  <2>1. /\ doing' = [doing EXCEPT ![g].pc = "set", ![g].got = found]
        /\ UNCHANGED <<storage, copying, topic, bounds, records>>
    BY <1>2 DEF FindSeqs
  <2>2. found \in Copy /\ (found.kind = "msg" =>
          slots[doing[g].s].msg /\ found.marks = slots[doing[g].s].marks)
    BY <1>1 DEF Found, Copy, Slot
  <2> HIDE DEF found
  <2>3. /\ new \in Doing /\ new.pc = "set" /\ new.s = doing[g].s
        /\ new.last = doing[g].last /\ new.got = found
    BY <1>1, <2>2, ZenonT(60) DEF Doing
  <2>4. doing' = [doing EXCEPT ![g] = new]
    BY <1>1, <2>1
  <2> HIDE DEF new
  <2>5. doing'[g] = new
    BY <1>1, <2>4
  <2>6. found.kind = "msg" =>
          doing[g].s <= copied /\ Told(doing[g].s, found.marks)
    BY <1>1, <2>2 DEF SlotsKnown, NothingStoredIsLost, Told
  <2>7. Serving(g)'
    <3>1. doing'[g].got = found /\ UNCHANGED <<marked, erased, gone>>
      BY <2>1, <2>3, <2>5 DEF records
    <3>2. /\ doing'[g].pc = "set" /\ doing'[g].s = doing[g].s
          /\ copied' = copied
      BY <2>1, <2>3, <2>5 DEF topic
    <3>3. QED  BY <2>6, <3>1, <3>2 DEF Serving, Told
  <2>8. {new.s, new.last} \subseteq Numbers
    BY <1>1, <2>3
  <2>9. usedCalls' \in 0..MaxCalls /\ failures' \in 0..MaxFailures
    BY <1>1, <2>1 DEF bounds
  <2>10. QED  BY <2>1, <2>3, <2>4, <2>7, <2>8, <2>9, MovesKeep
<1>3. CASE \E s \in Numbers : LockCopy(g, s)
  <2>1. PICK s \in Numbers :
          /\ usedCalls < MaxCalls /\ usedCalls' = usedCalls + 1
          /\ locks' = [locks EXCEPT ![s] = g]
          /\ doing' = [doing EXCEPT ![g] = Working("find", s, s, "nothing")]
          /\ UNCHANGED <<storage, copies, topic, failures, records>>
    BY <1>3 DEF LockCopy, Begins
  <2> DEFINE new == Working("find", s, s, "nothing")
  <2>2. /\ new \in Doing /\ {new.s, new.last} \subseteq Numbers
        /\ new.pc = "find" /\ new.key = "nothing"
    BY CallAtWork DEF Marks
  <2>3. doing' = [doing EXCEPT ![g] = new]
    BY <2>1
  <2> HIDE DEF new
  <2>4. doing' \in [Workers -> Doing] /\ doing'[g] = new
          /\ \A w \in Workers \ {g} : doing'[w] = doing[w]
    BY <1>1, <2>2, <2>3
  <2>5. Sent' /\ Inserting' /\ \A h \in Clients \ {g} : Serving(h)'
    BY <1>1, <2>1, <2>4, OthersGoOn DEF storage, records
  <2>6. MsgStoreTypeOK'
    BY <1>1, <2>1, <2>2, <2>4, MsgStoreAssumption
       DEF StoreInv, MsgStoreTypeOK, storage, topic, records
  <2>7. SlotsKnown' /\ NothingStoredIsLost'
    BY <1>1, <2>1 DEF SlotsKnown, NothingStoredIsLost, storage, topic, records
  <2>8. CallsAreTold' /\ Serving(g)'
    BY <1>1, <2>1, <2>2, <2>4 DEF CallsAreTold, Serving, records
  <2>9. QED  BY <2>5, <2>6, <2>7, <2>8 DEF StoreInv
<1>4. CASE SetCopy(g)
  <2> DEFINE s == doing[g].s
  <2> DEFINE got == doing[g].got
  <2>1. /\ doing[g].pc = "set" /\ got \in Copy
        /\ MayRevoke(g, s, got)
        /\ UNCHANGED <<storage, topic, bounds, records>>
    BY <1>1, <1>4 DEF SetCopy, Doing
  <2>2. PICK new \in Doing :
          /\ doing' = [doing EXCEPT ![g] = new]
          /\ {new.s, new.last} \subseteq Numbers
          /\ new.pc = "idle" \/ /\ new.pc = "update" /\ new.key = "revoke"
                                /\ new.s = s /\ new.last = s /\ got.kind = "msg"
    BY <1>1, <2>1, Revokes
  <2>3. /\ doing' \in [Workers -> Doing] /\ doing'[g] = new
        /\ \A w \in Workers \ {g} : doing'[w] = doing[w]
    BY <1>1, <2>2
  <2>4. Serving(g)'
    BY <1>1, <2>1, <2>2, <2>3 DEF Serving, topic
  <2>5. CASE locks[s] # g
    <3>1. UNCHANGED copying
      BY <1>4, <2>5 DEF SetCopy
    <3>2. QED  BY <1>1, <2>1, <2>2, <2>4, <3>1, MovesKeep DEF bounds
  <2>6. CASE locks[s] = g
    <3>1. /\ copies' = [copies EXCEPT ![s] = got]
          /\ locks' = [locks EXCEPT ![s] = Free]
      BY <1>4, <2>6 DEF SetCopy
    <3>2. copies' \in [Numbers -> Copy] /\ locks' \in [Numbers -> Clients \cup {Free, Deleted}]
      BY <1>1, <2>1, <3>1
    <3>3. got.kind = "msg" => s <= copied /\ Told(s, got.marks)
      BY <1>1, <2>1, <2>6 DEF Serving
    <3>4. Sent' /\ Inserting' /\ \A h \in Clients \ {g} : Serving(h)'
      BY <1>1, <2>1, <2>3, <3>1, MsgStoreAssumption, OthersGoOn
         DEF storage, records
    <3>5. MsgStoreTypeOK'
      BY <2>1, <2>2, <2>3, <3>2
         DEF StoreInv, MsgStoreTypeOK, storage, topic, bounds, records
    <3>6. SlotsKnown' /\ NothingStoredIsLost'
      BY <1>1, <2>1, <3>1, <3>3
         DEF SlotsKnown, NothingStoredIsLost, storage, topic, records
    <3>7. CallsAreTold'
      BY <1>1, <2>1, <3>1, <3>3 DEF CallsAreTold, Told, records
    <3>8. QED  BY <2>4, <3>4, <3>5, <3>6, <3>7 DEF StoreInv
  <2>7. QED  BY <2>5, <2>6
<1>5. QED  BY <1>2, <1>3, <1>4

(* The steps of a deletion in MongoDB: a place gets a mark, or is emptied,  *)
(* which excuses it.                                                        *)
LEMMA DeletesKeep ==
    ASSUME StoreInv, NEW g \in Clients, PushUnique(g) \/ EraseMsg(g)
    PROVE  StoreInv'
<1> DEFINE s == doing[g].s
<1>1. /\ doing \in [Workers -> Doing] /\ g \in Workers /\ slots \in [Numbers -> Slot]
      /\ s \in Numbers /\ doing[g].last \in Numbers
      /\ erased \subseteq Numbers
      /\ SlotsKnown /\ NothingStoredIsLost /\ CallsAreTold /\ Serving(g)
  BY DEF StoreInv, MsgStoreTypeOK, Workers
<1>2. CASE PushUnique(g) /\ Doc(s) \notin docs
  <2> DEFINE new == [doing[g] EXCEPT !.pc = "tag", !.key = "nothing"]
  <2>1. /\ doing' = [doing EXCEPT ![g].pc = "tag", ![g].key = "nothing"]
        /\ UNCHANGED <<docs, slots, copying, topic, bounds, records>>
    BY <1>2 DEF PushUnique
  <2>2. /\ new \in Doing /\ {new.s, new.last} \subseteq Numbers
        /\ new.pc = "tag" /\ new.key = "nothing"
    BY <1>1 DEF Doing
  <2>3. doing' = [doing EXCEPT ![g] = new]
    BY <1>1, <2>1
  <2> HIDE DEF new
  <2>4. doing'[g] = new
    BY <1>1, <2>3
  <2>5. Serving(g)'
    BY <2>2, <2>4 DEF Serving, Marks
  <2>6. usedCalls' \in 0..MaxCalls /\ failures' \in 0..MaxFailures
    BY <2>1 DEF StoreInv, MsgStoreTypeOK, bounds
  <2>7. UNCHANGED <<storage, copying, topic, records>>
    BY <2>1 DEF storage
  <2>8. QED  BY <2>2, <2>3, <2>5, <2>6, <2>7, MovesKeep
<1>3. CASE \/ EraseMsg(g)
           \/ PushUnique(g) /\ Doc(s) \in docs
  <2>1. /\ doing' = [doing EXCEPT ![g].pc = "tag"]
        /\ UNCHANGED <<docs, copying, topic, bounds, inserted, marked, gone>>
    BY <1>3 DEF EraseMsg, PushUnique, StepsTo, records
  <2>2. /\ doing' \in [Workers -> Doing]
        /\ doing'[g].pc = "tag" /\ doing'[g].s = s /\ doing'[g].key = doing[g].key
        /\ doing'[g].last = doing[g].last
        /\ \A w \in Workers \ {g} : doing'[w] = doing[w]
    BY <1>1, <2>1 DEF Doing
  <2>3. /\ slots' \in [Numbers -> Slot]
        /\ erased' \subseteq Numbers /\ erased \subseteq erased'
        /\ \A t \in Numbers : slots'[t].msg => slots[t].msg
        /\ \A t \in Numbers \ erased' :
             /\ slots[t].marks \subseteq slots'[t].marks
             /\ slots[t].msg => slots'[t].msg
        /\ doing[g].key \in Marks =>
             s \in erased' \/ doing[g].key \in slots'[s].marks
    <3>1. CASE PushUnique(g) /\ Doc(s) \in docs
      <4>1. /\ slots' = [slots EXCEPT ![s] = WithPart(@, "delete")]
            /\ erased' = erased /\ doing[g].key = "delete"
        BY <1>1, <3>1 DEF PushUnique, Serving, records
      <4>2. WithPart(slots[s], "delete")
              = [slots[s] EXCEPT !.marks = @ \cup {"delete"}]
        BY DEF WithPart
      <4>3. slots[s] \in Slot
        BY <1>1
      <4>4. /\ WithPart(slots[s], "delete") \in Slot
            /\ WithPart(slots[s], "delete").msg = slots[s].msg
            /\ WithPart(slots[s], "delete").marks = slots[s].marks \cup {"delete"}
        BY <4>2, <4>3 DEF Slot, Marks
      <4> HIDE DEF s
      <4>5. s \in Numbers /\ slots[s] \in Slot
        BY <1>1 DEF s
      <4>6. QED  BY <1>1, <4>1, <4>4, <4>5
    <3>2. CASE EraseMsg(g)
      <4>1. doing[g].key = "erase" /\ doing[g].key \notin Marks
        BY <1>1, <3>2 DEF EraseMsg, Serving, Marks
      <4>2. CASE Doc(s) \in docs
        <5>1. slots' = [slots EXCEPT ![s] = Empty] /\ erased' = erased \cup {s}
          BY <3>2, <4>2 DEF EraseMsg
        <5>2. Empty \in Slot /\ Empty.msg = FALSE
          BY DEF Empty, Slot
        <5>3. QED  BY <1>1, <4>1, <5>1, <5>2
      <4>3. CASE Doc(s) \notin docs
        <5>1. UNCHANGED <<slots, erased>>
          BY <3>2, <4>3 DEF EraseMsg
        <5>2. QED  BY <1>1, <4>1, <5>1
      <4>4. QED  BY <4>2, <4>3
    <3>3. QED  BY <1>3, <3>1, <3>2
  <2>4. Sent' /\ Inserting' /\ \A h \in Clients \ {g} : Serving(h)'
    BY <2>1, <2>2, <2>3, OthersGoOn DEF copying
  <2>5. MsgStoreTypeOK'
    BY <1>1, <2>1, <2>2, <2>3
       DEF StoreInv, MsgStoreTypeOK, copying, topic, bounds
  <2>6. SlotsKnown'
    BY <1>1, <2>1, <2>3 DEF SlotsKnown, copying, topic
  <2>7. NothingStoredIsLost'
    BY <1>1, <2>1, <2>3 DEF NothingStoredIsLost
  <2>8. CallsAreTold'
    BY <1>1, <2>1, <2>3 DEF CallsAreTold, copying
  <2>9. Serving(g)'
    <3>1. doing[g].key # "nothing" => s <= copied
      BY <1>1, <1>3 DEF Serving, EraseMsg, PushUnique
    <3>2. QED  BY <2>1, <2>2, <2>3, <3>1 DEF Serving, topic
  <2>10. QED  BY <2>4, <2>5, <2>6, <2>7, <2>8, <2>9 DEF StoreInv
<1>4. QED  BY <1>2, <1>3

(* A call returns: what it promises is in MongoDB, and the next reader asks *)
(* there.                                                                   *)
LEMMA ReturnKeeps ==
    ASSUME StoreInv, NEW g \in Clients, DelMessageBySeqs(g)
    PROVE  StoreInv'
<1> DEFINE s == doing[g].s
<1>1. /\ doing \in [Workers -> Doing] /\ g \in Workers /\ s \in Numbers
      /\ locks \in [Numbers -> Clients \cup {Free, Deleted}]
      /\ marked \in [Numbers -> SUBSET Marks] /\ gone \subseteq Numbers
      /\ SlotsKnown /\ NothingStoredIsLost /\ CallsAreTold /\ Serving(g)
      /\ Free # Deleted /\ Deleted \notin Clients
  BY MsgStoreAssumption DEF StoreInv, MsgStoreTypeOK, Workers
<1>2. /\ doing[g].pc = "tag" /\ doing' = [doing EXCEPT ![g] = Resting]
      /\ marked' = [marked EXCEPT ![s] = @ \cup ({doing[g].key} \cap Marks)]
      /\ gone' = IF doing[g].key = "erase" /\ ~slots[s].msg
                 THEN gone \cup {s} ELSE gone
      /\ locks' = [locks EXCEPT ![s] = Deleted]
      /\ UNCHANGED <<storage, copies, topic, bounds, inserted, erased>>
  BY DEF DelMessageBySeqs, Returns, Ends
<1>3. /\ doing' \in [Workers -> Doing] /\ doing'[g] = Resting
      /\ \A w \in Workers \ {g} : doing'[w] = doing[w]
  BY <1>1, <1>2, RestingTyped
<1>4. \A t \in Numbers \ {s} :
        marked'[t] = marked[t] /\ locks'[t] = locks[t] /\ (t \in gone' <=> t \in gone)
  BY <1>1, <1>2
<1>5. /\ locks'[s] = Deleted
      /\ marked'[s] = marked[s] \cup ({doing[g].key} \cap Marks)
      /\ s \in gone' => s \in gone \/ (doing[g].key = "erase" /\ ~slots[s].msg)
  BY <1>1, <1>2
<1>6. /\ doing[g].key # "nothing" => s <= copied
      /\ doing[g].key \in Marks => s \in erased \/ doing[g].key \in slots[s].marks
  BY <1>1, <1>2 DEF Serving
<1>7. Sent' /\ Inserting' /\ \A h \in Clients \ {g} : Serving(h)'
  <2>1. \A t \in Numbers, h \in Clients \ {g} :
          locks'[t] = h =>
            /\ locks[t] = h /\ marked'[t] = marked[t]
            /\ t \in gone' => t \in gone
    <3> HIDE DEF s
    <3>1. QED  BY <1>1, <1>4, <1>5
  <2>2. \A t \in Numbers \ erased' :
          /\ slots[t].marks \subseteq slots'[t].marks
          /\ slots[t].msg => slots'[t].msg
    BY <1>2 DEF storage
  <2>3. QED  BY <1>2, <1>3, <2>1, <2>2, OthersGoOn
<1>8. MsgStoreTypeOK'
  <2>1. /\ \A w \in Workers : {doing'[w].s, doing'[w].last} \subseteq Numbers
        /\ marked' \in [Numbers -> SUBSET Marks] /\ gone' \subseteq Numbers
        /\ locks' \in [Numbers -> Clients \cup {Free, Deleted}]
    BY <1>1, <1>2, <1>3, RestingTyped DEF StoreInv, MsgStoreTypeOK
  <2>2. QED  BY <1>2, <1>3, <2>1
             DEF StoreInv, MsgStoreTypeOK, storage, topic, bounds
<1>9. SlotsKnown'
  <2>1. SUFFICES ASSUME NEW t \in Numbers
                 PROVE  /\ slots[t].msg \/ copies[t].kind = "msg" => t <= copied
                        /\ marked'[t] # {} \/ t \in gone' => t <= copied
                        /\ t \in gone' => ~slots[t].msg
    BY <1>2 DEF SlotsKnown, storage, topic
  <2>2. CASE t = s
    <3>1. doing[g].key \in Marks \cup {"erase"} => t <= copied
      BY <1>6, <2>2 DEF Marks
    <3> HIDE DEF s
    <3>2. QED  BY <1>1, <1>5, <2>2, <3>1 DEF SlotsKnown
  <2>3. CASE t # s
    BY <1>1, <1>4, <2>3 DEF SlotsKnown
  <2>4. QED  BY <2>2, <2>3
<1>10. NothingStoredIsLost'
  <2>1. SUFFICES ASSUME NEW t \in Numbers \ erased
                 PROVE  /\ t \in inserted => slots[t].msg
                        /\ marked'[t] \subseteq slots[t].marks
    BY <1>2 DEF NothingStoredIsLost, storage
  <2>2. marked[t] \subseteq slots[t].marks /\ (t \in inserted => slots[t].msg)
    BY <1>1 DEF NothingStoredIsLost
  <2>3. CASE t = s
    <3> HIDE DEF s
    <3>1. QED  BY <1>5, <1>6, <2>2, <2>3
  <2>4. CASE t # s
    BY <1>4, <2>2, <2>4
  <2>5. QED  BY <2>3, <2>4
<1>11. CallsAreTold'
  <2>1. SUFFICES ASSUME NEW t \in Numbers, locks'[t] = Free, copies[t].kind = "msg"
                 PROVE  t \notin gone'
                          /\ (t \notin erased => marked'[t] \subseteq copies[t].marks)
    BY <1>2 DEF CallsAreTold
  <2>2. t # s
    BY <1>1, <1>5, <2>1
  <2>3. QED  BY <1>1, <1>4, <2>1, <2>2 DEF CallsAreTold
<1>12. Serving(g)'
  BY <1>3, RestingTyped DEF Serving
<1>13. QED  BY <1>7, <1>8, <1>9, <1>10, <1>11, <1>12 DEF StoreInv

(* A copy that is gone says nothing, and nobody holds its lock. *)
LEMMA ExpiryKeeps ==
    ASSUME StoreInv, NEW s \in Numbers, CopyExpires(s)
    PROVE  StoreInv'
<1>1. /\ copies' = [copies EXCEPT ![s] = NoCopy] /\ locks' = [locks EXCEPT ![s] = Free]
      /\ UNCHANGED <<storage, topic, doing, bounds, records>>
  BY DEF CopyExpires
<1>2. /\ NoCopy \in Copy /\ NoCopy.kind # "msg"
      /\ Free \notin Clients
  BY MsgStoreAssumption DEF NoCopy, Copy
<1>3. /\ copies \in [Numbers -> Copy]
      /\ locks \in [Numbers -> Clients \cup {Free, Deleted}]
  BY DEF StoreInv, MsgStoreTypeOK
<1>4. MsgStoreTypeOK' /\ Sent' /\ SlotsKnown' /\ Inserting' /\ NothingStoredIsLost'
  BY <1>1, <1>2, <1>3
     DEF StoreInv, MsgStoreTypeOK, Sent, SlotsKnown, Inserting, NothingStoredIsLost,
         storage, topic, bounds, records
<1>5. CallsAreTold'
  BY <1>1, <1>2, <1>3 DEF StoreInv, CallsAreTold, records
<1>6. ASSUME NEW g \in Clients PROVE Serving(g)'
  <2>1. doing'[g] = doing[g] /\ (locks'[doing[g].s] = g => locks[doing[g].s] = g)
          /\ Serving(g)
    BY <1>1, <1>2, <1>3 DEF StoreInv, MsgStoreTypeOK, Workers
  <2>2. QED  BY <1>1, <2>1 DEF Serving, Told, storage, topic, records
<1>7. QED  BY <1>4, <1>5, <1>6 DEF StoreInv

(* A client that fails rests. *)
LEMMA FailureKeeps ==
    ASSUME StoreInv, NEW g \in Clients, WorkFails(g)
    PROVE  StoreInv'
<1>1. /\ doing' = [doing EXCEPT ![g] = Resting] /\ doing \in [Workers -> Doing]
      /\ UNCHANGED <<storage, copying, topic, records>>
      /\ usedCalls' \in 0..MaxCalls /\ failures' \in 0..MaxFailures /\ g \in Workers
  BY MsgStoreAssumption DEF StoreInv, MsgStoreTypeOK, WorkFails, Ends, Workers
<1>2. doing'[g] = Resting /\ Serving(g)'
  BY <1>1, RestingTyped DEF Serving
<1>3. QED  BY <1>1, <1>2, RestingTyped, MovesKeep

-----------------------------------------------------------------------------
(* StoreInv holds in every state. *)
THEOREM StoreInvariant == MsgStoreSpec => []StoreInv
<1>1. MsgStoreInit => StoreInv
  <2> SUFFICES ASSUME MsgStoreInit PROVE StoreInv
    OBVIOUS
  <2>1. /\ docs = {} /\ slots = [s \in Numbers |-> Empty]
        /\ copies = [s \in Numbers |-> NoCopy] /\ locks = [s \in Numbers |-> Free]
        /\ copied = 0 /\ batches = <<>> /\ next = 1
        /\ doing = [w \in Workers |-> Resting]
        /\ usedCalls = 0 /\ failures = 0
        /\ inserted = {} /\ marked = [s \in Numbers |-> {}]
        /\ erased = {} /\ gone = {}
    BY DEF MsgStoreInit
  <2>2. /\ Empty \in Slot /\ Empty.msg = FALSE /\ NoCopy \in Copy
        /\ NoCopy.kind # "msg"
    BY DEF Empty, Slot, NoCopy, Copy
  <2>3. MsgStoreTypeOK
    BY <2>1, <2>2, RestingTyped, MsgStoreAssumption DEF MsgStoreTypeOK
  <2>4. Sent /\ SlotsKnown /\ Inserting
    BY <2>1, <2>2, RestingTyped DEF Sent, SlotsKnown, Inserting, Workers
  <2>5. NothingStoredIsLost /\ CallsAreTold
    BY <2>1, <2>2 DEF NothingStoredIsLost, CallsAreTold
  <2>6. ASSUME NEW g \in Clients PROVE Serving(g)
    BY <2>1, RestingTyped DEF Serving, Workers
  <2>7. QED  BY <2>3, <2>4, <2>5, <2>6 DEF StoreInv
<1>2. StoreInv /\ [MsgStoreNext]_MsgStoreVars => StoreInv'
  <2> SUFFICES ASSUME StoreInv, [MsgStoreNext]_MsgStoreVars PROVE StoreInv'
    OBVIOUS
  <2>1. CASE MsgStoreNext
    <3>1. CASE \/ TakeList \/ ConsumerRestarts \/ WorkFails(Consumer)
               \/ \E n \in 1..DocSize : SetMessageBySeqs(n)
      BY <3>1, ListsKeep
    <3>2. CASE \E w \in Workers : UpdateMsg(w) \/ CreateDoc(w)
      BY <3>2, InsertKeeps
    <3>3. CASE \E g \in Clients : FindSeqs(g) \/ SetCopy(g)
                                  \/ \E s \in Numbers : LockCopy(g, s)
      BY <3>3, ReaderKeeps
    <3>4. CASE \E g \in Clients : PushUnique(g) \/ EraseMsg(g)
      BY <3>4, DeletesKeep
    <3>5. CASE \E g \in Clients : DelMessageBySeqs(g)
      BY <3>5, ReturnKeeps
    <3>6. CASE \E g \in Clients, s \in Numbers :
                 \/ ReadCopy(g, s) \/ DeleteUserMsgsBySeqs(g, s)
                 \/ DeleteMsgsPhysicalBySeqs(g, s)
      BY <3>6, BeginsKeep
    <3>7. CASE \E s \in Numbers : CopyExpires(s)
      BY <3>7, ExpiryKeeps
    <3>8. CASE \E g \in Clients : WorkFails(g)
      BY <3>8, FailureKeeps
    <3>9. QED  BY <2>1, <3>1, <3>2, <3>3, <3>4, <3>5, <3>6, <3>7, <3>8
               DEF MsgStoreNext, Workers
  <2>2. CASE UNCHANGED MsgStoreVars
    BY <2>2 DEF StoreInv, MsgStoreTypeOK, Sent, SlotsKnown, Inserting, Serving, Told,
                NothingStoredIsLost, CallsAreTold, MsgStoreVars, storage, copying,
                topic, bounds, records
  <2>3. QED  BY <2>1, <2>2
<1>3. QED  BY <1>1, <1>2, PTL DEF MsgStoreSpec

(* What has been reported as stored is in MongoDB: every message of a list  *)
(* BatchInsertBlock has returned for, and every revocation and deletion of  *)
(* a call that has returned.                                                *)
THEOREM InsertedIsStored == MsgStoreSpec => []NothingStoredIsLost
<1>1. StoreInv => NothingStoredIsLost
  BY DEF StoreInv
<1>2. QED  BY <1>1, StoreInvariant, PTL

(* No answer from a copy leaves out a revocation or deletion whose call had *)
(* returned before.                                                         *)
THEOREM ReadersAreTold == MsgStoreSpec => []CallsAreTold
<1>1. StoreInv => CallsAreTold
  BY DEF StoreInv
<1>2. QED  BY <1>1, StoreInvariant, PTL

-----------------------------------------------------------------------------
(* The online status. *)

Reported == [on : SUBSET Terminals, off : SUBSET Terminals]

(* The types, with those of the channels as functions. *)
OnlineTypes ==
  /\ local \in [Gateways -> SUBSET Terminals]
  /\ reports \in [Gateways -> Seq(Reported)]
  /\ publish \in [Gateways -> {None} \cup SUBSET Terminals]
  /\ heard \in [Gateways -> Seq(SUBSET Terminals)]
  /\ online \in [Terminals -> {"off", "on", "ended"}]
  /\ push \subseteq Terminals
  /\ moves \in 0..MaxMoves /\ drops \in 0..MaxDrops
  /\ crashes \in 0..MaxCrashes /\ spoiled \in BOOLEAN

(* The bounds are numbers. *)
LEMMA OnlineBounds == MaxMoves \in Nat /\ MaxDrops \in Nat /\ MaxCrashes \in Nat
BY OnlineAssumption

(* A report is on its way or dropped. *)
LEMMA ReportTypes ==
    ASSUME OnlineTypes, NEW g \in Gateways, NEW on \in SUBSET Terminals,
           NEW off \in SUBSET Terminals, Report(g, on, off)
    PROVE  reports' \in [Gateways -> Seq(Reported)] /\ drops' \in 0..MaxDrops
<1>1. [on |-> on, off |-> off] \in Reported
  BY DEF Reported
<1>2. Append(reports[g], [on |-> on, off |-> off]) \in Seq(Reported)
  BY <1>1 DEF OnlineTypes
<1>3. CASE /\ reports' = [reports EXCEPT ![g] =
                             Append(reports[g], [on |-> on, off |-> off])]
           /\ drops' = drops
  BY <1>2, <1>3 DEF OnlineTypes
<1>4. CASE drops < MaxDrops /\ drops' = drops + 1 /\ reports' = reports
  BY <1>4, OnlineBounds DEF OnlineTypes
<1>5. QED  BY <1>3, <1>4 DEF Report

(* What the next report or publication holds. *)
LEMMA HeadTypes ==
    ASSUME NEW S, NEW q \in Seq(S), q # <<>>
    PROVE  Head(q) \in S /\ Tail(q) \in Seq(S)
OBVIOUS

(* Every step of the maps, of Redis and of the push service keeps the types. *)
LEMMA OnlineTypesKept ==
    ASSUME OnlineTypes, [OnlineNext]_OnlineVars
    PROVE  OnlineTypes'
<1> USE OnlineBounds
<1>1. ASSUME NEW g \in Gateways, NEW p \in Terminals, Connect(g, p)
      PROVE  OnlineTypes'
  <2>1. local[g] \cup {p} \in SUBSET Terminals /\ {} \in SUBSET Terminals
    BY DEF OnlineTypes
  <2>2. Report(g, local[g] \cup {p}, {})
    BY <1>1 DEF Connect
  <2>3. reports' \in [Gateways -> Seq(Reported)] /\ drops' \in 0..MaxDrops
    BY <2>1, <2>2, ReportTypes
  <2>4. local' \in [Gateways -> SUBSET Terminals] /\ moves' \in 0..MaxMoves
    BY <1>1, <2>1 DEF Connect, OnlineTypes
  <2>5. QED  BY <1>1, <2>3, <2>4 DEF Connect, OnlineTypes
<1>2. ASSUME NEW g \in Gateways, NEW p \in Terminals, Disconnect(g, p)
      PROVE  OnlineTypes'
  <2>1. local[g] \ {p} \in SUBSET Terminals /\ {p} \in SUBSET Terminals
    BY DEF OnlineTypes
  <2>2. Report(g, local[g] \ {p}, {p})
    BY <1>2 DEF Disconnect
  <2>3. reports' \in [Gateways -> Seq(Reported)] /\ drops' \in 0..MaxDrops
    BY <2>1, <2>2, ReportTypes
  <2>4. local' \in [Gateways -> SUBSET Terminals] /\ moves' \in 0..MaxMoves
    BY <1>2, <2>1 DEF Disconnect, OnlineTypes
  <2>5. QED  BY <1>2, <2>3, <2>4 DEF Disconnect, OnlineTypes
<1>3. ASSUME NEW g \in Gateways, Renew(g)  PROVE OnlineTypes'
  <2>1. <<[on |-> local[g], off |-> {}]>> \in Seq(Reported)
    BY DEF OnlineTypes, Reported
  <2>2. QED  BY <1>3, <2>1 DEF Renew, OnlineTypes
<1>4. ASSUME NEW g \in Gateways, RecvSubChange(g)  PROVE OnlineTypes'
  <2>1. heard' \in [Gateways -> Seq(SUBSET Terminals)]
    BY <1>4, HeadTypes DEF RecvSubChange, OnlineTypes
  <2>2. reports' \in [Gateways -> Seq(Reported)] /\ drops' \in 0..MaxDrops
    <3>1. local[g] \in SUBSET Terminals /\ {} \in SUBSET Terminals
      BY DEF OnlineTypes
    <3>2. CASE Report(g, local[g], {})
      BY <3>1, <3>2, ReportTypes
    <3>3. CASE UNCHANGED <<reports, drops>>
      BY <3>3 DEF OnlineTypes
    <3>4. QED  BY <1>4, <3>2, <3>3 DEF RecvSubChange
  <2>3. QED  BY <1>4, <2>1, <2>2 DEF RecvSubChange, OnlineTypes
<1>5. ASSUME NEW g \in Gateways, SetUserOnline(g)  PROVE OnlineTypes'
  <2> DEFINE r == Head(reports[g])
             now == Kept(r) \cup r.on
  <2>1. r \in Reported /\ Tail(reports[g]) \in Seq(Reported)
    BY <1>5, HeadTypes DEF SetUserOnline, OnlineTypes
  <2>2. now \in SUBSET Terminals
    BY <2>1 DEF Reported, Kept, GetOnline
  <2>3. /\ reports' = [reports EXCEPT ![g] = Tail(reports[g])]
        /\ online' = [p \in Terminals |-> IF p \in now THEN "on" ELSE "off"]
        /\ publish' \in {publish, [publish EXCEPT ![g] = now]}
        /\ spoiled' \in {spoiled, spoiled \/ \E h \in Gateways : publish[h] # None}
        /\ UNCHANGED <<local, heard, push, moves, drops, crashes>>
    BY <1>5 DEF SetUserOnline
  <2> HIDE DEF now
  <2>4. spoiled' \in BOOLEAN
    BY <2>3 DEF OnlineTypes
  <2>5. QED  BY <2>1, <2>2, <2>3, <2>4 DEF OnlineTypes
<1>6. ASSUME NEW g \in Gateways, SetUserOnlineFails(g)  PROVE OnlineTypes'
  <2>1. Tail(reports[g]) \in Seq(Reported)
    BY <1>6, HeadTypes DEF SetUserOnlineFails, OnlineTypes
  <2>2. QED  BY <1>6, <2>1 DEF SetUserOnlineFails, OnlineTypes
<1>7. ASSUME NEW g \in Gateways, Publish(g)  PROVE OnlineTypes'
  <2>1. publish[g] \in SUBSET Terminals
    BY <1>7 DEF Publish, OnlineTypes
  <2>2. \A h \in Gateways : Append(heard[h], publish[g]) \in Seq(SUBSET Terminals)
    BY <2>1 DEF OnlineTypes
  <2>3. QED  BY <1>7, <2>1, <2>2 DEF Publish, OnlineTypes
<1>8. ASSUME NEW g \in Gateways, PublishFails(g)  PROVE OnlineTypes'
  BY <1>8 DEF PublishFails, OnlineTypes
<1>9. ASSUME NEW g \in Gateways, Crash(g)  PROVE OnlineTypes'
  BY <1>9 DEF Crash, OnlineTypes
<1>10. ASSUME NEW p \in Terminals, LeaseEnds(p)  PROVE OnlineTypes'
  BY <1>10 DEF LeaseEnds, OnlineTypes
<1>11. CASE UNCHANGED OnlineVars
  BY <1>11 DEF OnlineVars, OnlineTypes
<1>12. QED
  BY <1>1, <1>2, <1>3, <1>4, <1>5, <1>6, <1>7, <1>8, <1>9, <1>10, <1>11 DEF OnlineNext

(* The first state has the types. *)
LEMMA OnlineStartsTyped == OnlineInit => OnlineTypes
<1>1. <<>> \in Seq(Reported) /\ <<>> \in Seq(SUBSET Terminals)
  OBVIOUS
<1>2. OnlineInit =>
        /\ reports \in [Gateways -> Seq(Reported)]
        /\ heard \in [Gateways -> Seq(SUBSET Terminals)]
        /\ local \in [Gateways -> SUBSET Terminals]
        /\ publish \in [Gateways -> {None} \cup SUBSET Terminals]
        /\ online \in [Terminals -> {"off", "on", "ended"}]
  BY <1>1 DEF OnlineInit
<1>3. OnlineInit => /\ moves \in 0..MaxMoves /\ drops \in 0..MaxDrops
                    /\ crashes \in 0..MaxCrashes
  BY OnlineBounds DEF OnlineInit
<1>4. OnlineInit => push \subseteq Terminals /\ spoiled \in BOOLEAN
  BY DEF OnlineInit
<1>5. QED  BY <1>2, <1>3, <1>4 DEF OnlineTypes

(* Every variable of the online status keeps its type: what is reported,    *)
(* published and heard are sets of platforms (online.go, user_map.go).      *)
THEOREM OnlineTypeCorrect == OnlineSpec => []OnlineTypeOK
<1>1. OnlineInit => OnlineTypes
  BY OnlineStartsTyped
<1>2. OnlineTypes => OnlineTypeOK
  BY DEF OnlineTypes, OnlineTypeOK, Reported
<1>3. OnlineTypes /\ [OnlineNext]_OnlineVars => OnlineTypes'
  BY OnlineTypesKept
<1>4. QED  BY <1>1, <1>2, <1>3, PTL DEF OnlineSpec

-----------------------------------------------------------------------------
(* The copy of the push service.  Unless a lease ended, a publication       *)
(* failed or two were under way at once, Redis holds no member whose score  *)
(* has passed, at most one publication is under way, and it says what Redis *)
(* says; when none is, the copy does.                                       *)

UnderWay(g) == publish[g] # None

NonePassed == \A p \in Terminals : online[p] # "ended"
AtMostOne == \A g, h \in Gateways : UnderWay(g) /\ UnderWay(h) => g = h
PublishesRedis == \A g \in Gateways : UnderWay(g) => publish[g] = GetOnline
CopyOfRedis == (\A g \in Gateways : ~UnderWay(g)) => push = GetOnline

CopyInv == OnlineTypes /\ (~spoiled => NonePassed /\ AtMostOne /\ PublishesRedis /\ CopyOfRedis)

(* When the script counts the same three times, the set is what it was: it  *)
(* counts before it removes what has passed or is reported off, after that, *)
(* and after it adds (SetUserOnline, redis/online.go).                      *)
LEMMA SameNumberSameSet ==
    ASSUME NEW r, r.on \subseteq Terminals, NonePassed, OnlineTypes, ~NumberChanged(r)
    PROVE  GetOnline = Kept(r) \cup r.on
<1>1. IsFiniteSet(Terminals)
  BY OnlineAssumption
<1>2. /\ Members = GetOnline /\ Kept(r) \subseteq GetOnline
      /\ GetOnline \subseteq Terminals
  BY DEF OnlineTypes, NonePassed, Members, GetOnline, Kept
<1>3. IsFiniteSet(GetOnline) /\ IsFiniteSet(Kept(r) \cup r.on)
  BY <1>1, <1>2, FS_Subset
<1>4. GetOnline = Kept(r)
  BY <1>2, <1>3, FS_Subset DEF NumberChanged
<1>5. Kept(r) = Kept(r) \cup r.on
  BY <1>3, FS_Subset DEF NumberChanged
<1>6. QED  BY <1>4, <1>5

(* The script changes the set and has it published, or neither.             *)
LEMMA ScriptKeepsCopy ==
    ASSUME CopyInv, NEW g \in Gateways, SetUserOnline(g), ~spoiled'
    PROVE  (NonePassed /\ AtMostOne /\ PublishesRedis /\ CopyOfRedis)'
<1> DEFINE r == Head(reports[g])
           now == Kept(r) \cup r.on
<1>1. OnlineTypes /\ r \in Reported
  BY HeadTypes DEF SetUserOnline, CopyInv, OnlineTypes
<1>2. now \subseteq Terminals /\ r.on \subseteq Terminals
  BY <1>1 DEF Reported, Kept, GetOnline
<1>3. /\ online' = [p \in Terminals |-> IF p \in now THEN "on" ELSE "off"]
      /\ push' = push /\ ~UnderWay(g)
  BY DEF SetUserOnline, UnderWay
<1>4. \/ /\ NumberChanged(r) /\ publish' = [publish EXCEPT ![g] = now]
         /\ spoiled' = (spoiled \/ \E h \in Gateways : publish[h] # None)
      \/ ~NumberChanged(r) /\ publish' = publish /\ spoiled' = spoiled
  BY DEF SetUserOnline
<1> HIDE DEF r
<1>5. NonePassed' /\ GetOnline' = now
  <2> HIDE DEF now
  <2>1. QED  BY <1>2, <1>3 DEF NonePassed, GetOnline
<1>6. ~spoiled
  BY <1>1, <1>4 DEF OnlineTypes
<1>7. NonePassed /\ AtMostOne /\ PublishesRedis /\ CopyOfRedis
  BY <1>6 DEF CopyInv
<1>8. CASE NumberChanged(r)
  <2>1. publish' = [publish EXCEPT ![g] = now] /\ \A h \in Gateways : ~UnderWay(h)
    BY <1>4, <1>8 DEF UnderWay
  <2>2. now # None
    BY <1>2, OnlineAssumption
  <2> HIDE DEF now
  <2>3. UnderWay(g)' /\ \A h \in Gateways : UnderWay(h)' => h = g
    BY <1>1, <2>1, <2>2 DEF OnlineTypes, UnderWay
  <2>4. publish'[g] = now
    BY <1>1, <2>1 DEF OnlineTypes
  <2>5. QED
    BY <1>5, <2>3, <2>4 DEF AtMostOne, PublishesRedis, CopyOfRedis
<1>9. CASE ~NumberChanged(r)
  <2>1. publish' = publish
    BY <1>4, <1>9
  <2>2. GetOnline' = GetOnline
    BY <1>1, <1>2, <1>5, <1>7, <1>9, SameNumberSameSet
  <2>3. QED
    BY <1>3, <1>5, <1>7, <2>1, <2>2
    DEF UnderWay, AtMostOne, PublishesRedis, CopyOfRedis
<1>10. QED  BY <1>8, <1>9

(* The only publication under way replaces the copy.                        *)
LEMMA PublishKeepsCopy ==
    ASSUME CopyInv, NEW g \in Gateways, Publish(g), ~spoiled'
    PROVE  (NonePassed /\ AtMostOne /\ PublishesRedis /\ CopyOfRedis)'
<1>1. /\ UnderWay(g) /\ publish' = [publish EXCEPT ![g] = None]
      /\ push' = publish[g] /\ online' = online /\ ~spoiled
  BY DEF Publish, UnderWay
<1>2. /\ NonePassed /\ AtMostOne /\ PublishesRedis
      /\ publish \in [Gateways -> {None} \cup SUBSET Terminals]
  BY <1>1 DEF CopyInv, OnlineTypes
<1>3. NonePassed' /\ GetOnline' = GetOnline
  BY <1>1, <1>2 DEF NonePassed, GetOnline
<1>4. \A h \in Gateways : ~UnderWay(h)'
  BY <1>1, <1>2 DEF AtMostOne, UnderWay
<1>5. push' = GetOnline'
  BY <1>1, <1>2, <1>3 DEF PublishesRedis
<1>6. QED  BY <1>3, <1>4, <1>5 DEF AtMostOne, PublishesRedis, CopyOfRedis

(* Every other step leaves Redis, the copy and the publications alone, or   *)
(* spoils them.                                                             *)
LEMMA CopyInvKept ==
    ASSUME CopyInv, [OnlineNext]_OnlineVars
    PROVE  CopyInv'
<1>1. OnlineTypes'
  BY OnlineTypesKept DEF CopyInv
<1>2. ASSUME UNCHANGED <<online, publish, push, spoiled>>, ~spoiled'
      PROVE  (NonePassed /\ AtMostOne /\ PublishesRedis /\ CopyOfRedis)'
  <2>1. NonePassed /\ AtMostOne /\ PublishesRedis /\ CopyOfRedis
    BY <1>2 DEF CopyInv
  <2>2. GetOnline' = GetOnline
    BY <1>2 DEF GetOnline
  <2>3. QED
    BY <1>2, <2>1, <2>2
    DEF NonePassed, UnderWay, AtMostOne, PublishesRedis, CopyOfRedis
<1>3. ASSUME OnlineNext
      PROVE  \/ UNCHANGED <<online, publish, push, spoiled>> \/ spoiled'
             \/ \E g \in Gateways : SetUserOnline(g) \/ Publish(g)
  BY <1>3 DEF OnlineNext, Connect, Disconnect, Renew, RecvSubChange,
     SetUserOnlineFails, PublishFails, LeaseEnds, Crash
<1>4. ASSUME ~spoiled'
      PROVE  (NonePassed /\ AtMostOne /\ PublishesRedis /\ CopyOfRedis)'
  <2>1. CASE OnlineNext
    BY <1>2, <1>3, <1>4, <2>1, ScriptKeepsCopy, PublishKeepsCopy
  <2>2. CASE UNCHANGED OnlineVars
    BY <1>2, <1>4, <2>2 DEF OnlineVars
  <2>3. QED  BY <2>1, <2>2
<1>5. QED  BY <1>1, <1>4 DEF CopyInv

(* What the push service believes of a user is what Redis says, or the one  *)
(* publication under way brings it, as long as no lease ended, no           *)
(* publication failed and no two were under way at once (rpccache/online.go,*)
(* and what the script of redis/online.go leaves out when the numbers are   *)
(* the same: it loses no change by that).                                   *)
PushIsCurrent ==
  spoiled \/ push = GetOnline \/ \E g \in Gateways : publish[g] = GetOnline

THEOREM PushLagsOnePublication == OnlineSpec => []PushIsCurrent
<1>1. OnlineInit => CopyInv
  <2>1. OnlineInit => OnlineTypes
    BY OnlineStartsTyped
  <2>2. OnlineInit => NonePassed /\ AtMostOne /\ PublishesRedis /\ CopyOfRedis
    BY DEF OnlineInit, NonePassed, UnderWay, AtMostOne, PublishesRedis, CopyOfRedis,
       GetOnline
  <2>3. QED  BY <2>1, <2>2 DEF CopyInv
<1>2. CopyInv => PushIsCurrent
  BY DEF CopyInv, PublishesRedis, CopyOfRedis, PushIsCurrent
<1>3. CopyInv /\ [OnlineNext]_OnlineVars => CopyInv'
  BY CopyInvKept
<1>4. QED  BY <1>1, <1>2, <1>3, PTL DEF OnlineSpec

-----------------------------------------------------------------------------
(* The instance of all five. *)

(* Each part makes the steps of its own specification. *)
LEMMA PartsFollow ==
    MCSpec => /\ TokensSpec /\ GatewaySpec /\ OnlineSpec
              /\ ReadPositionsSpec /\ MsgStoreSpec
<1>1. MCInit => /\ TokensInit /\ GatewayInit /\ OnlineInit
                /\ ReadPositionsInit /\ MsgStoreInit
  BY DEF MCInit
<1>2. [MCNext]_ServerVars =>
        /\ [TokensNext]_TokenVars /\ [GatewayNext]_GatewayVars
        /\ [OnlineNext]_OnlineVars /\ [ReadPositionsNext]_ReadPositionsVars
        /\ [MsgStoreNext]_MsgStoreVars
  BY DEF MCNext, ServerVars
<1>3. QED
  BY <1>1, <1>2, PTL DEF MCSpec, TokensSpec, GatewaySpec, OnlineSpec,
     ReadPositionsSpec, MsgStoreSpec

(* In the instance, too, everything has its type, whatever the capacities   *)
(* and bounds are: no channel of the gateway takes more than it holds, and  *)
(* a position stays one that a request or a message may name.               *)
THEOREM ServerTypeCorrect == MCSpec => []ServerTypeOK
<1>1. StoreInv => MsgStoreTypeOK
  BY DEF StoreInv
<1>2. TokensTypeOK /\ GatewayTypeOK /\ OnlineTypeOK /\ ReadPositionsTypeOK
        /\ MsgStoreTypeOK => ServerTypeOK
  BY DEF ServerTypeOK
<1>3. QED
  BY <1>1, <1>2, PartsFollow, TokensTypeCorrect, GatewayTypeCorrect,
     OnlineTypeCorrect, PositionsTypeCorrect, StoreInvariant, PTL
=============================================================================
