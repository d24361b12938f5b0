------------------------------- MODULE Tokens -------------------------------
(***************************************************************************)
(* The tokens of one user: login under the policies for several terminals  *)
(* (controller/auth.go), the hashes of a platform's tokens in Redis        *)
(* (token.go), the operations of the auth service (rpc/auth/auth.go), and  *)
(* what the event loop of a gateway does with tokens when a connection is  *)
(* registered (ws_server.go).                                              *)
(*                                                                         *)
(* Tokens are numbered in the order in which they are made.  Tokens do not *)
(* grow old: the expiry of a hash and of the signature is left out.        *)
(***************************************************************************)
EXTENDS Naturals, Sequences, FiniteSets

CONSTANTS Platforms,     \* where the user logs in
          Class,         \* the class of a platform (PlatformIDToClass)
          PC, Android,   \* the class PC, the platform Android
          Policies,      \* values of multiLogin.policy to look at
          MaxNumOneEnd,  \* multiLogin.maxNumOneEnd
          Callers,       \* goroutines of the auth service
          EventLoop,          \* the event loop of the gateway
          MaxLogins,     \* bounds: tokens that are made,
          MaxForced,     \* forced logouts,
          MaxWaiting     \* and connections that wait to be registered

ASSUME TokensAssumption ==
  /\ Class \in [Platforms -> {Class[p] : p \in Platforms}]
  /\ Policies \subseteq
       {"DefalutNotKick", "AllLoginButSameTermKick", "PCAndOther",
        "AllLoginButSameClassKick"}
  /\ MaxNumOneEnd \in Nat \ {0}
  /\ {MaxLogins, MaxForced, MaxWaiting} \subseteq Nat
  /\ EventLoop \notin Callers

VARIABLES policy,    \* multiLogin.policy
          home,      \* the platforms of the tokens made so far
          flags,     \* Redis: platform -> token -> flag
          work,      \* what the goroutines do
          accepted,  \* tokens of connections that are to be registered
          conns,     \* tokens of the connections in the gateway's userMap
          forced,    \* forced logouts so far
          overlapped,   \* history: two goroutines ran at the same time
          excused    \* history: a login failed after it had begun to kick, or a
                     \* connection was registered after a later login

TokenVars ==
  <<policy, home, flags, work, accepted, conns, forced, overlapped, excused>>

Token == 1..MaxLogins
Made == DOMAIN home
Flags == {"none", "normal", "kicked"}
Goroutines == Callers \cup {EventLoop}
NoWork == [pc |-> "idle"]

TokensInit ==
  /\ policy \in Policies
  /\ home = <<>> /\ flags = [p \in Platforms |-> [t \in Token |-> "none"]]
  /\ work = [g \in Goroutines |-> NoWork]
  /\ accepted = {} /\ conns = {} /\ forced = 0
  /\ overlapped = FALSE /\ excused = FALSE

TokensTypeOK ==
  /\ policy \in Policies
  /\ home \in Seq(Platforms) /\ Len(home) =< MaxLogins
  /\ flags \in [Platforms -> [Token -> Flags]]
  /\ \A g \in Goroutines :
       work[g].pc \in {"idle", "delete", "kick", "force", "kickTokens",
                      "invalidate", "write"}
  /\ accepted \subseteq Made /\ conns \subseteq Made
  /\ forced \in 0..MaxForced /\ {overlapped, excused} \subseteq BOOLEAN

(* ParseToken: a token is accepted by its flag under its own platform.     *)
Valid(t) == flags[home[t]][t] = "normal"
ValidAt(p) == {t \in Made : home[t] = p /\ Valid(t)}
AllValid == {t \in Made : Valid(t)}

(* A goroutine begins and reads.  (Bound: after two have overlapped, those   *)
(* that run come to their ends, and nothing else begins.)                    *)
Takes(g, next) ==
  /\ work[g].pc = "idle" /\ ~overlapped
  /\ work' = [work EXCEPT ![g] = next]
  /\ overlapped' = (overlapped \/ \E h \in Goroutines : work[h].pc # "idle")

Goes(g, next) == work' = [work EXCEPT ![g] = next] /\ UNCHANGED overlapped

-----------------------------------------------------------------------------
(* CreateToken.  What checkToken may choose to kick, platform after         *)
(* platform in the order of a map, and tokens in the order of another.      *)

(* At most one of a set of tokens is kept. *)
KeepsOne(V, K) == Cardinality(V \ K) = (IF V = {} THEN 0 ELSE 1)

(* Mutant: the new token is not counted. *)
ExcessMutant(p, login) ==
  LET n == Cardinality(ValidAt(p))
  IN IF n > MaxNumOneEnd THEN n - MaxNumOneEnd ELSE 0

Excess(p, login) ==
  LET n == Cardinality(ValidAt(p)) + (IF p = login THEN 1 ELSE 0)
  IN IF n > MaxNumOneEnd THEN n - MaxNumOneEnd ELSE 0

KicksByNumber(login, K) ==
  \A p \in Platforms : Cardinality(ValidAt(p) \cap K) = Excess(p, login)

KicksByTerminal(login, K) ==
  \A p \in Platforms :
    IF p = login THEN ValidAt(p) \subseteq K ELSE KeepsOne(ValidAt(p), K)

ValidIn(class) == {t \in AllValid : Class[home[t]] = class}

KicksByClass(login, K) ==
  \A class \in {Class[p] : p \in Platforms} :
    IF class = Class[login] THEN ValidIn(class) \subseteq K
                            ELSE KeepsOne(ValidIn(class), K)

(* A login on a PC keeps one other token, of Android if there is one.       *)
KicksOthers(login, K) ==
  LET others == {t \in AllValid : Class[home[t]] # PC}
      preferred == {t \in others : home[t] = Android}
  IN /\ K \subseteq others
     /\ IF Class[login] # PC THEN K = others ELSE KeepsOne(others, K)
     /\ Class[login] = PC /\ preferred # {} => others \ K \subseteq preferred

CheckToken(login, K) ==
  CASE policy = "DefalutNotKick"           -> KicksByNumber(login, K)
    [] policy = "AllLoginButSameTermKick"  -> KicksByTerminal(login, K)
    [] policy = "AllLoginButSameClassKick" -> KicksByClass(login, K)
    [] policy = "PCAndOther"               -> KicksOthers(login, K)

Login(g, p) ==
  /\ g \in Callers
  /\ \E K \in SUBSET AllValid :
       /\ CheckToken(p, K)
       /\ Takes(g, [pc |-> "delete", at |-> p, kick |-> K, old |->
                      {t \in Made : \E q \in Platforms :
                                      flags[q][t] = "kicked"}])
  /\ UNCHANGED <<policy, home, flags, accepted, conns, forced, excused>>

(* DeleteTokenByUidPid, with the platform of the login for all tokens. *)
DeleteOld(g) ==
  LET a == work[g] IN
  /\ a.pc = "delete"
  /\ flags' = [flags EXCEPT ![a.at] =
       [t \in Token |-> IF t \in a.old THEN "none" ELSE @[t]]]
  /\ Goes(g, [a EXCEPT !.pc = "kick"])
  /\ UNCHANGED <<policy, home, accepted, conns, forced, excused>>

(* SetTokenFlagEx for each kicked token, under the platform of the login as *)
(* well.                                                                    *)
KickOld(g) ==
  LET a == work[g] IN
  /\ a.pc = "kick"
  /\ \E t \in a.kick :
       /\ flags' = [flags EXCEPT ![a.at][t] = "kicked"]
       /\ Goes(g, [a EXCEPT !.kick = @ \ {t}])
  /\ UNCHANGED <<policy, home, accepted, conns, forced, excused>>

(* The new token is signed and set. *)
SetToken(g) ==
  LET a == work[g] IN
  /\ a.pc = "kick" /\ a.kick = {} /\ Len(home) < MaxLogins
  /\ home' = Append(home, a.at)
  /\ flags' = [flags EXCEPT ![a.at][Len(home) + 1] = "normal"]
  /\ Goes(g, NoWork)
  /\ UNCHANGED <<policy, accepted, conns, forced, excused>>

(* Any call of Redis may fail: the operation ends with an error. *)
OperationFails(g) ==
  /\ work[g].pc # "idle"
  /\ Goes(g, NoWork)
  /\ excused' = (excused \/ work[g].pc = "kick")
  /\ UNCHANGED <<policy, home, flags, accepted, conns, forced>>

-----------------------------------------------------------------------------
(* A hash is read whole and written whole (SetTokenMapByUidPid). *)

InHash(p) == {t \in Token : flags[p][t] # "none"}
Snapshot(p) == [t \in InHash(p) |-> flags[p][t]]

WriteMap(p, m) ==
  flags' = [flags EXCEPT ![p] =
              [t \in Token |-> IF t \in DOMAIN m THEN m[t] ELSE @[t]]]

(* forceKickOff: the connections of the platform are closed, then the map   *)
(* is read, and for each token of it marked and written.                    *)
ForceLogout(g, p) ==
  /\ g \in Callers /\ forced < MaxForced /\ forced' = forced + 1
  /\ conns' = {t \in conns : home[t] # p}
  /\ Takes(g, [pc |-> "force", at |-> p, map |-> Snapshot(p),
               kick |-> InHash(p)])
  /\ UNCHANGED <<policy, home, flags, accepted, excused>>

ForceWrite(g) ==
  LET a == work[g] IN
  /\ a.pc = "force"
  /\ IF a.kick = {} THEN Goes(g, NoWork) /\ UNCHANGED flags
     ELSE \E t \in a.kick :
            LET m == [a.map EXCEPT ![t] = "kicked"] IN
            /\ WriteMap(a.at, m)
            /\ Goes(g, [a EXCEPT !.map = m, !.kick = @ \ {t}])
  /\ UNCHANGED <<policy, home, accepted, conns, forced, excused>>

-----------------------------------------------------------------------------
(* Connections. *)

(* wsHandler: ParseToken, then the connection waits to be registered. *)
AcceptConn(t) ==
  /\ t \in Made /\ Valid(t) /\ t \notin accepted
  /\ Cardinality(accepted) < MaxWaiting /\ ~overlapped
  /\ accepted' = accepted \cup {t}
  /\ UNCHANGED <<policy, home, flags, work, conns, forced, overlapped, excused>>

CloseConn(t) ==
  /\ t \in conns /\ conns' = conns \ {t} /\ ~overlapped
  /\ UNCHANGED <<policy, home, flags, work, accepted, forced, overlapped,
                 excused>>

(* multiTerminalLoginChecker: which connections the new one displaces, and  *)
(* how their tokens are told to the auth service.                           *)
SameTerminal(t) == {c \in conns : home[c] = home[t]}
SameClass(t) == {c \in conns : Class[home[c]] = Class[home[t]]}

DisplacedTokens(t) ==
  CASE policy = "AllLoginButSameTermKick"  -> SameTerminal(t)
    [] policy = "AllLoginButSameClassKick" -> SameClass(t)
    [] policy = "PCAndOther" /\ Class[home[t]] # PC -> SameTerminal(t)
    [] OTHER -> {}

RegisterConn(t) ==
  /\ t \in accepted /\ accepted' = accepted \ {t}
  /\ conns' = (conns \ DisplacedTokens(t)) \cup {t}
  /\ excused' = (excused \/ \E u \in Made : u > t /\ home[u] = home[t])
  /\ IF DisplacedTokens(t) = {}
     THEN work[EventLoop].pc = "idle" /\ UNCHANGED <<work, overlapped>>
     ELSE Takes(EventLoop, IF policy = "AllLoginButSameClassKick"
                      THEN [pc |-> "kickTokens", kick |-> DisplacedTokens(t)]
                      ELSE [pc |-> "invalidate", at |-> home[t], keep |-> t])
  /\ UNCHANGED <<policy, home, flags, forced>>

(* KickTokens: each under its own platform. *)
KickTokens ==
  LET a == work[EventLoop] IN
  /\ a.pc = "kickTokens"
  /\ flags' = [p \in Platforms |-> [t \in Token |->
                 IF t \in a.kick /\ home[t] = p THEN "kicked" ELSE flags[p][t]]]
  /\ Goes(EventLoop, NoWork)
  /\ UNCHANGED <<policy, home, accepted, conns, forced, excused>>

(* Mutants: the preserved token is written as a normal one, or kicked too. *)
ReviveMutant ==
  LET a == work[EventLoop] IN
  /\ a.pc = "invalidate"
  /\ Goes(EventLoop, [pc |-> "write", at |-> a.at, map |->
       [t \in InHash(a.at) |-> IF t = a.keep THEN "normal" ELSE "kicked"]])
  /\ UNCHANGED <<policy, home, flags, accepted, conns, forced, excused>>

KickAllMutant ==
  LET a == work[EventLoop] IN
  /\ a.pc = "invalidate"
  /\ Goes(EventLoop, [pc |-> "write", at |-> a.at, map |->
       [t \in InHash(a.at) |-> "kicked"]])
  /\ UNCHANGED <<policy, home, flags, accepted, conns, forced, excused>>

(* InvalidateToken: reads the map of the platform, then writes it back with *)
(* all tokens kicked but the preserved one.                                 *)
Invalidate ==
  LET a == work[EventLoop] IN
  /\ a.pc = "invalidate"
  /\ Goes(EventLoop, [pc |-> "write", at |-> a.at, map |->
       [t \in InHash(a.at) |->
          IF t = a.keep THEN flags[a.at][t] ELSE "kicked"]])
  /\ UNCHANGED <<policy, home, flags, accepted, conns, forced, excused>>

InvalidateWrite ==
  LET a == work[EventLoop] IN
  /\ a.pc = "write"
  /\ WriteMap(a.at, a.map)
  /\ Goes(EventLoop, NoWork)
  /\ UNCHANGED <<policy, home, accepted, conns, forced, excused>>

TokensNext ==
  \/ \E g \in Callers, p \in Platforms : Login(g, p) \/ ForceLogout(g, p)
  \/ \E g \in Callers :
       DeleteOld(g) \/ KickOld(g) \/ SetToken(g) \/ ForceWrite(g)
  \/ \E g \in Goroutines : OperationFails(g)
  \/ \E t \in Token : AcceptConn(t) \/ CloseConn(t) \/ RegisterConn(t)
  \/ KickTokens \/ Invalidate \/ InvalidateWrite

TokensSpec == TokensInit /\ [][TokensNext]_TokenVars

-----------------------------------------------------------------------------
Settled == \A g \in Goroutines : work[g].pc = "idle"

(* How many tokens of a platform the policy leaves valid.  A login on a PC  *)
(* kicks no token of a PC under PCAndOther.                                 *)
Limit(p) ==
  CASE policy = "DefalutNotKick" -> MaxNumOneEnd
    [] policy = "PCAndOther" /\ Class[p] = PC -> MaxLogins
    [] OTHER -> 1

(* The policies limit the valid tokens of a platform, whatever calls failed, *)
(* as long as no two operations ran at the same time.                       *)
LimitKept ==
  Settled /\ ~overlapped =>
    \A p \in Platforms : Cardinality(ValidAt(p)) =< Limit(p)

(* A token that is no longer valid does not become valid again, as long as  *)
(* no two operations ran at the same time (a map that was read may bring    *)
(* back a flag that was changed since).                                     *)
KickedStaysKicked ==
  [][~overlapped' => \A t \in Made : Valid(t)' => Valid(t)]_TokenVars

NewestIsValid ==
  policy = "AllLoginButSameTermKick" /\ Settled /\ forced = 0 =>
    \A t \in Made : (\A u \in Made : home[u] = home[t] => u =< t) => Valid(t)

(* Where each login displaces those before it on the same platform, the     *)
(* newest token of a platform is valid, as long as logins do not overlap,   *)
(* none fails half way and no connection is registered after a later login. *)
NewestStaysValid == overlapped \/ excused \/ NewestIsValid

=============================================================================
