-------------------------- MODULE ReadCursorsProofs --------------------------
(***************************************************************************)
(* For any members, goroutines and events: nothing is shown as read by all *)
(* before the server says so, and goroutines in turn keep the read state   *)
(* exact.                                                                  *)
(*                                                                         *)
(* What a goroutine has in hand when others run counts as much as what is  *)
(* in the database.  Early says that no position anywhere is above what    *)
(* the server has named for the member, and that a position meant for all  *)
(* is above that of no member.  InTurn says of the one goroutine that runs *)
(* what it still has to do before the read state is the least cursor again. *)
(***************************************************************************)
EXTENDS ReadCursors, TLAPS, WellFoundedInduction

Steps == {"idle", "state", "cursor", "upsert", "least", "put", "tell",
          "callback", "fetch", "sync", "insert", "update", "recalc", "compare",
          "left", "ensure", "answer", "delete", "delstate", "unsubscribe"}

Routine == [pc : Steps, user : Member \cup {""}, seq : Rows, old : Rows,
            todo : SUBSET (Member \X Rows), changed : BOOLEAN,
            last : {"idle", "tell", "answer"}]

(* The steps at which seq is a position of the member user.  *)
OfMember == {"state", "cursor", "upsert", "insert", "update"}

(* A goroutine r has its type, and has nothing in hand that was not named.  *)
Honest(r) ==
  /\ r \in Routine /\ (r.pc \in OfMember \cup {"left"} => r.user \in Member)
  /\ r.pc \in OfMember => r.seq <= named[r.user]
  /\ \A c \in r.todo : c[2] <= named[c[1]]
  /\ complete =>
       /\ r.pc \in {"put", "compare", "callback"} =>
            \A m \in inGroup : r.seq <= named[m]
       /\ r.pc = "left" => r.user \notin inGroup
       /\ r.pc # "delete"

(* So it is with the tables and the application. *)
TablesHonest ==
  /\ \A m \in Member : cursor[m] # None => cursor[m] <= named[m]
  /\ complete => \A m \in inGroup : /\ cursor[m] # None
                                    /\ Value(allRead) <= named[m]
                                    /\ shown <= named[m]

(* The types, without those of the goroutines, which are routines. *)
TablesTyped ==
  /\ inGroup \subseteq Member
  /\ named \in [Member -> Rows]
  /\ online \in BOOLEAN /\ subscribed \in BOOLEAN
  /\ cursor \in [Member -> Rows \cup {None}]
  /\ allRead \in Rows \cup {None} /\ shown \in Rows
  /\ events \in 0 .. MaxEvents
  /\ overlapped \in BOOLEAN /\ complete \in BOOLEAN

Early ==
  /\ TablesTyped /\ TablesHonest
  /\ go \in [Goroutine -> Routine] /\ \A g \in Goroutine : Honest(go[g])

-----------------------------------------------------------------------------
(* The greater of two. *)
LEMMA MaxOfTwo ==
    \A a, b \in Nat : /\ Max({a, b}) \in {a, b}
                      /\ a <= Max({a, b}) /\ b <= Max({a, b})
<1> SUFFICES ASSUME NEW a \in Nat, NEW b \in Nat
             PROVE  /\ Max({a, b}) \in {a, b}
                    /\ a <= Max({a, b}) /\ b <= Max({a, b})
  OBVIOUS
<1>1. \E x \in {a, b} : \A y \in {a, b} : x >= y
  OBVIOUS
<1>2. Max({a, b}) \in {a, b} /\ \A y \in {a, b} : Max({a, b}) >= y
  BY <1>1 DEF Max
<1>3. QED  BY <1>2

(* A set of numbers has a least one. *)
LEMMA LeastOf ==
    ASSUME NEW S, S \subseteq Nat
    PROVE  /\ Least(S) \in Nat
           /\ S # {} => Least(S) \in S
           /\ \A n \in S : Least(S) <= n
<1>1. CASE S = {}
  BY <1>1 DEF Least
<1>2. CASE S # {}
  <2>1. PICK x \in S : \A y \in S : ~ (<<y, x>> \in OpToRel(<, Nat))
    BY <1>2, NatLessThanWellFounded, WFMin
  <2>2. ASSUME NEW y \in S
        PROVE  x =< y
    <3>1. x \in Nat /\ y \in Nat
      OBVIOUS
    <3>2. y < x => <<y, x>> \in OpToRel(<, Nat)
      BY <3>1 DEF OpToRel
    <3>3. ~ (y < x)
      BY <2>1, <3>2, Zenon
    <3>4. QED  BY <3>1, <3>3, SMT
  <2>3. Min(S) \in S /\ \A y \in S : Min(S) =< y
    BY <2>2 DEF Min
  <2>4. QED  BY <1>2, <2>3 DEF Least
<1>3. QED  BY <1>1, <1>2

(* The least cursor is a position, and none is below it.  It depends on the *)
(* cursors alone.                                                           *)
LEMMA LeastCursor ==
    ASSUME TablesTyped
    PROVE  /\ AllReadSeqFromCursors \in Rows
           /\ \A m \in Member : cursor[m] # None => AllReadSeqFromCursors <= cursor[m]
<1> DEFINE S == {cursor[m] : m \in {n \in Member : cursor[n] # None}}
<1>1. S \subseteq Rows /\ Rows \subseteq Nat /\ 0 \in Rows
  <2>1. \A m \in Member : cursor[m] # None => cursor[m] \in Rows
    BY DEF TablesTyped
  <2>2. Rows \subseteq Nat /\ 0 \in Rows
    BY CursorsAssumption DEF Rows
  <2>3. QED  BY <2>1, <2>2
<1>2. \A m \in Member : cursor[m] # None => cursor[m] \in S
  OBVIOUS
<1> HIDE DEF S
<1>3. Least(S) \in Rows
  BY <1>1, LeastOf DEF Least
<1>4. \A n \in S : Least(S) <= n
  BY <1>1, LeastOf
<1>5. AllReadSeqFromCursors = Least(S)
  BY DEF AllReadSeqFromCursors, S
<1>6. QED  BY <1>2, <1>3, <1>4, <1>5

(* A row is a number, and not none. *)
LEMMA RowValue ==
    /\ None \notin Rows /\ 0 \in Rows /\ Rows \subseteq Nat
    /\ \A row \in Rows : Value(row) = row
    /\ \A row \in Rows \cup {None} : Value(row) \in Rows
BY CursorsAssumption DEF None, Rows, Value

(* A goroutine that rests or begins. *)
LEMMA IdleTyped ==
    /\ Idle \in Routine /\ Idle.pc = "idle" /\ Idle.todo = {}
    /\ Idle.changed = FALSE /\ Idle.last = "idle"
BY RowValue DEF Idle, Routine, Steps

(* What follows a recalculation. *)
LEMMA ThenTyped ==
    ASSUME NEW g \in Goroutine, go \in [Goroutine -> Routine]
    PROVE  /\ Then(g) \in Routine /\ Then(g).pc = go[g].last
           /\ Then(g).pc \in {"idle", "tell", "answer"}
           /\ Then(g).todo = {} /\ Then(g).last = "idle" /\ Then(g).changed = FALSE
<1>1. go[g].last \in {"idle", "tell", "answer"}
  BY DEF Routine
<1>2. Idle \in Routine /\ Idle.todo = {} /\ Idle.last = "idle" /\ Idle.changed = FALSE
  BY IdleTyped
<1>3. QED  BY <1>1, <1>2 DEF Then, Routine, Steps

-----------------------------------------------------------------------------
(* Everything in its type is what the model calls so. *)
LEMMA EarlyTyped == Early => TypeOK
BY DEF Early, TablesTyped, TypeOK, Routine

(* A step of a goroutine g that leaves it with r: what it has in hand and   *)
(* what it has written must have been named by the server.                  *)
LEMMA Stepped ==
    ASSUME Early, NEW g \in Goroutine, NEW r, Honest(r),
           go' = [go EXCEPT ![g] = r], UNCHANGED <<serverVars, histVars>>,
           cursor' \in [Member -> Rows \cup {None}],
           allRead' \in Rows \cup {None}, shown' \in Rows, subscribed' \in BOOLEAN,
           \A m \in Member : cursor'[m] # None => cursor'[m] <= named[m],
           complete => \A m \in inGroup : /\ cursor'[m] # None
                                          /\ Value(allRead') <= named[m]
                                          /\ shown' <= named[m]
    PROVE  Early'
<1>1. TablesTyped'
  BY DEF Early, TablesTyped, serverVars, histVars
<1>2. TablesHonest'
  BY DEF Early, TablesHonest, serverVars, histVars, Value
<1>3. go' \in [Goroutine -> Routine]
  BY DEF Early, Honest
<1>4. ASSUME NEW h \in Goroutine
      PROVE  Honest(go[h])'
  <2>1. go'[h] = r \/ go'[h] = go[h]
    BY DEF Early
  <2>2. Honest(go'[h])
    BY <2>1 DEF Early
  <2>3. QED  BY <2>2 DEF Honest, serverVars, histVars
<1>5. QED  BY <1>1, <1>2, <1>3, <1>4 DEF Early

(* A step of the server or a call: nobody reads back, and while no cursor   *)
(* is missing nobody joins; at most one goroutine starts, with r.           *)
LEMMA Started ==
    ASSUME Early, UNCHANGED <<cursor, allRead, shown>>, TablesTyped',
           \A m \in Member : named[m] <= named'[m],
           complete' => complete /\ inGroup' \subseteq inGroup,
           \/ go' = go
           \/ \E g \in Goroutine, r \in Routine :
                  go' = [go EXCEPT ![g] = r] /\ Honest(r)'
    PROVE  Early'
<1>1. TablesHonest'
  <2>1. ASSUME NEW m \in Member, cursor[m] # None
        PROVE  cursor[m] <= named'[m]
    <3>1. cursor[m] <= named[m] /\ named[m] <= named'[m]
      BY <2>1 DEF Early, TablesHonest
    <3>2. cursor[m] \in Rows /\ named[m] \in Rows /\ named'[m] \in Rows
      BY <2>1 DEF Early, TablesTyped
    <3>3. cursor[m] \in Nat /\ named[m] \in Nat /\ named'[m] \in Nat
      BY <3>2, RowValue
    <3>4. QED  BY <3>1, <3>3
  <2>2. ASSUME complete', NEW m \in inGroup'
        PROVE  cursor'[m] # None /\ Value(allRead)' <= named'[m] /\ shown' <= named'[m]
    <3>1. m \in inGroup /\ m \in Member /\ complete
      BY <2>2 DEF Early, TablesTyped
    <3>2. cursor[m] # None /\ Value(allRead) <= named[m] /\ shown <= named[m]
      BY <3>1 DEF Early, TablesHonest
    <3>3. Value(allRead) \in Nat /\ shown \in Nat /\ named[m] \in Nat /\ named'[m] \in Nat
      BY <3>1, RowValue DEF Early, TablesTyped
    <3>4. QED  BY <3>1, <3>2, <3>3 DEF Value
  <2>3. QED  BY <2>1, <2>2 DEF TablesHonest
<1>2. ASSUME NEW r \in Routine, Honest(r)
      PROVE  Honest(r)'
  <2>0. ASSUME NEW m \in Member, NEW n \in Rows, n <= named[m]
        PROVE  n <= named'[m]
    <3>1. named[m] <= named'[m] /\ named[m] \in Rows /\ named'[m] \in Rows
      BY DEF Early, TablesTyped
    <3>2. named[m] \in Nat /\ named'[m] \in Nat /\ n \in Nat
      BY <3>1, RowValue
    <3>3. QED  BY <2>0, <3>1, <3>2
  <2>1. r.pc \in OfMember => r.seq <= named'[r.user]
    BY <1>2, <2>0 DEF Honest, Routine
  <2>2. ASSUME NEW c \in r.todo
        PROVE  c[2] <= named'[c[1]]
    <3>1. c[1] \in Member /\ c[2] \in Rows
      BY <2>2 DEF Routine
    <3>2. QED  BY <1>2, <2>0, <3>1 DEF Honest
  <2>3. ASSUME complete', r.pc \in {"put", "compare", "callback"}, NEW m \in inGroup'
        PROVE  r.seq <= named'[m]
    <3>1. m \in inGroup /\ m \in Member /\ r.seq <= named[m]
      BY <1>2, <2>3 DEF Honest, Early, TablesTyped
    <3>2. r.seq \in Nat /\ named[m] \in Nat /\ named'[m] \in Nat
      BY <3>1, RowValue DEF Early, TablesTyped, Routine
    <3>3. QED  BY <3>1, <3>2
  <2>4. complete' => (r.pc = "left" => r.user \notin inGroup') /\ r.pc # "delete"
    BY <1>2 DEF Honest
  <2>5. QED  BY <1>2, <2>1, <2>2, <2>3, <2>4 DEF Honest
<1>3. go' \in [Goroutine -> Routine] /\ \A g \in Goroutine : Honest(go[g])'
  <2>1. \A h \in Goroutine : Honest(go[h]) /\ go[h] \in Routine
    BY DEF Early
  <2>2. CASE go' = go
    <3>1. \A h \in Goroutine : Honest(go[h])'
      BY <2>1, <2>2, <1>2 DEF Honest
    <3>2. QED  BY <2>2, <3>1 DEF Early
  <2>3. CASE \E g \in Goroutine, r \in Routine : go' = [go EXCEPT ![g] = r] /\ Honest(r)'
    <3>1. PICK g \in Goroutine, r \in Routine : go' = [go EXCEPT ![g] = r] /\ Honest(r)'
      BY <2>3
    <3>2. go' \in [Goroutine -> Routine]
      BY <3>1 DEF Early
    <3>3. ASSUME NEW h \in Goroutine
          PROVE  Honest(go[h])'
      <4>1. go'[h] = r \/ go'[h] = go[h]
        BY <3>1 DEF Early
      <4>2. CASE go'[h] = r
        BY <3>1, <4>2 DEF Honest
      <4>3. CASE go'[h] = go[h]
        <5>1. Honest(go[h]) /\ go[h] \in Routine
          BY <2>1
        <5> DEFINE o == go[h]
        <5> HIDE DEF o
        <5>2. QED  BY <5>1, <4>3, <1>2 DEF Honest
      <4>4. QED  BY <4>1, <4>2, <4>3
    <3>4. QED  BY <3>2, <3>3
  <2>4. QED  BY <2>2, <2>3
<1>4. QED  BY <1>1, <1>3 DEF Early

(* A step that writes nothing. *)
LEMMA SteppedAside ==
    ASSUME Early, NEW g \in Goroutine, NEW r, Honest(r),
           go' = [go EXCEPT ![g] = r],
           UNCHANGED <<serverVars, cursor, allRead, appVars, histVars>>
    PROVE  Early'
<1>1. /\ cursor' \in [Member -> Rows \cup {None}]
      /\ allRead' \in Rows \cup {None} /\ shown' \in Rows /\ subscribed' \in BOOLEAN
  BY DEF Early, TablesTyped, appVars
<1>2. \A m \in Member : cursor'[m] # None => cursor'[m] <= named[m]
  BY DEF Early, TablesHonest
<1>3. complete => \A m \in inGroup : /\ cursor'[m] # None
                                     /\ Value(allRead') <= named[m]
                                     /\ shown' <= named[m]
  BY DEF Early, TablesHonest, appVars
<1>4. QED  BY <1>1, <1>2, <1>3, Stepped

(* While no cursor is missing, the least cursor was named for all. *)
LEMMA LeastWasNamed ==
    ASSUME Early
    PROVE  /\ AllReadSeqFromCursors \in Rows
           /\ complete => \A m \in inGroup : AllReadSeqFromCursors <= named[m]
<1>1. AllReadSeqFromCursors \in Rows
  BY LeastCursor DEF Early
<1>2. ASSUME complete, NEW m \in inGroup
      PROVE  AllReadSeqFromCursors <= named[m]
  <2>1. m \in Member /\ cursor[m] # None /\ cursor[m] <= named[m]
    BY <1>2 DEF Early, TablesTyped, TablesHonest
  <2>2. AllReadSeqFromCursors <= cursor[m]
    BY <2>1, LeastCursor DEF Early
  <2>3. cursor[m] \in Rows /\ named[m] \in Rows
    BY <2>1 DEF Early, TablesTyped
  <2>4. AllReadSeqFromCursors \in Nat /\ cursor[m] \in Nat /\ named[m] \in Nat
    BY <1>1, <2>3, RowValue
  <2>5. QED  BY <2>1, <2>2, <2>4
<1>3. QED  BY <1>1, <1>2

(* What follows a recalculation holds nothing that could be too early. *)
LEMMA ThenHonest ==
    ASSUME Early, NEW g \in Goroutine
    PROVE  Honest(Then(g))
BY ThenTyped DEF Early, Honest, OfMember

(* The steps of the goroutines that read. *)
LEMMA EarlyAside ==
    ASSUME Early, NEW g \in Goroutine,
           \/ GetReadState(g) \/ GetReadCursor(g) \/ GetAllReadSeq(g)
           \/ CheckAndNotify(g) \/ SyncCursor(g)
           \/ WriteNothing(g) \/ SyncEnds(g) \/ RecalcFromCursors(g)
           \/ CompareReadState(g) \/ EnsureReadCursors(g)
    PROVE  Early'
<1> DEFINE x == go[g]
<1>1. x \in Routine /\ Honest(x) /\ go \in [Goroutine -> Routine]
  BY DEF Early
<1>2. /\ Value(allRead) \in Rows
      /\ complete => \A m \in inGroup : Value(allRead) <= named[m]
  BY RowValue DEF Early, TablesTyped, TablesHonest
<1>3. Honest(Idle)
  BY IdleTyped DEF Honest, OfMember
<1>4. CASE GetReadState(g)
  <2> DEFINE r == [x EXCEPT !.pc = "cursor", !.old = Value(allRead)]
  <2>1. go' = [go EXCEPT ![g] = r]
    BY <1>4, <1>1 DEF GetReadState
  <2>2. Honest(r)
    BY <1>1, <1>2, <1>4 DEF GetReadState, At, Honest, Routine, Steps, OfMember
  <2>3. QED  BY <1>4, <2>1, <2>2, SteppedAside DEF GetReadState
<1>5. CASE GetReadCursor(g)
  <2> DEFINE r == [x EXCEPT !.pc = "upsert"]
  <2>1. go' = [go EXCEPT ![g] = r] \/ go' = [go EXCEPT ![g] = Idle]
    BY <1>5, <1>1 DEF GetReadCursor, Goto
  <2>2. Honest(r)
    BY <1>1, <1>5 DEF GetReadCursor, At, Honest, Routine, Steps, OfMember
  <2>3. QED  BY <1>5, <1>3, <2>1, <2>2, SteppedAside DEF GetReadCursor
<1>6. CASE GetAllReadSeq(g)
  <2> DEFINE new == AllReadSeqFromCursors
             r == [x EXCEPT !.pc = "put", !.seq = new]
  <2>1. go' = [go EXCEPT ![g] = r] \/ go' = [go EXCEPT ![g] = Idle]
    BY <1>6, <1>1 DEF GetAllReadSeq
  <2>2. new \in Rows /\ (complete => \A m \in inGroup : new <= named[m])
    BY LeastWasNamed
  <2> HIDE DEF new
  <2>3. Honest(r)
    BY <1>1, <1>6, <2>2 DEF GetAllReadSeq, At, Honest, Routine, Steps, OfMember
  <2>4. QED  BY <1>6, <1>3, <2>1, <2>3, SteppedAside DEF GetAllReadSeq
<1>7. CASE CheckAndNotify(g)
  <2> DEFINE r == [x EXCEPT !.pc = "callback", !.seq = Value(allRead)]
  <2>1. go' = [go EXCEPT ![g] = r] \/ go' = [go EXCEPT ![g] = Then(g)]
    BY <1>7, <1>1 DEF CheckAndNotify
  <2>2. Honest(r)
    BY <1>1, <1>2, <1>7 DEF CheckAndNotify, At, Honest, Routine, Steps, OfMember
  <2>3. QED  BY <1>7, <2>1, <2>2, ThenHonest, SteppedAside DEF CheckAndNotify
<1>9. CASE SyncCursor(g)
  <2>1. PICK c \in x.todo, next \in {"insert", "update", "sync"} :
          go' = [go EXCEPT ![g].pc = next, ![g].user = c[1], ![g].seq = c[2],
                           ![g].todo = @ \ {c}]
    BY <1>9 DEF SyncCursor
  <2> DEFINE r == [x EXCEPT !.pc = next, !.user = c[1], !.seq = c[2],
                            !.todo = @ \ {c}]
  <2>2. go' = [go EXCEPT ![g] = r]
    BY <1>1, <2>1
  <2>3. c[1] \in Member /\ c[2] \in Rows /\ c[2] <= named[c[1]]
    BY <1>1 DEF Honest, Routine
  <2>4. Honest(r)
    BY <1>1, <2>3 DEF Honest, Routine, Steps, OfMember
  <2>5. QED  BY <1>9, <2>2, <2>4, SteppedAside, ZenonT(60) DEF SyncCursor
<1>10. CASE WriteNothing(g)
  <2>1. PICK b \in BOOLEAN : go' = [go EXCEPT ![g] = [x EXCEPT !.pc = "sync", !.changed = b]]
    <3>1. x.changed \in BOOLEAN /\ [x EXCEPT !.pc = "sync"] = [x EXCEPT !.pc = "sync", !.changed = x.changed]
      BY <1>1 DEF Routine
    <3>2. QED  BY <1>10, <1>1, <3>1 DEF WriteNothing, Goto
  <2> DEFINE r == [x EXCEPT !.pc = "sync", !.changed = b]
  <2>2. Honest(r)
    BY <1>1, ZenonT(60) DEF Honest, Routine, Steps, OfMember
  <2>3. QED  BY <1>10, <2>1, <2>2, SteppedAside DEF WriteNothing
<1>11. CASE SyncEnds(g)
  <2> DEFINE r == [x EXCEPT !.pc = "recalc"]
  <2>1. go' = [go EXCEPT ![g] = r] \/ go' = [go EXCEPT ![g] = Then(g)]
    BY <1>11, <1>1 DEF SyncEnds
  <2>2. Honest(r)
    BY <1>1 DEF Honest, Routine, Steps, OfMember
  <2>3. QED  BY <1>11, <2>1, <2>2, ThenHonest, SteppedAside DEF SyncEnds
<1>12. CASE RecalcFromCursors(g)
  <2> DEFINE new == AllReadSeqFromCursors
             r == [x EXCEPT !.pc = "compare", !.seq = new]
  <2>1. go' = [go EXCEPT ![g] = r]
    BY <1>12, <1>1 DEF RecalcFromCursors
  <2>2. new \in Rows /\ (complete => \A m \in inGroup : new <= named[m])
    BY LeastWasNamed
  <2> HIDE DEF new
  <2>3. Honest(r)
    BY <1>1, <2>2 DEF Honest, Routine, Steps, OfMember
  <2>4. QED  BY <1>12, <2>1, <2>3, SteppedAside DEF RecalcFromCursors
<1>13. CASE CompareReadState(g)
  <2> DEFINE r == [x EXCEPT !.pc = "put"]
  <2>1. go' = [go EXCEPT ![g] = r] \/ go' = [go EXCEPT ![g] = Then(g)]
    BY <1>13, <1>1 DEF CompareReadState
  <2>2. Honest(r)
    BY <1>1, <1>13 DEF CompareReadState, At, Honest, Routine, Steps, OfMember
  <2>3. QED  BY <1>13, <2>1, <2>2, ThenHonest, SteppedAside DEF CompareReadState
<1>14. CASE EnsureReadCursors(g)
  <2>1. PICK next \in {"fetch", "answer"} : go' = [go EXCEPT ![g] = [x EXCEPT !.pc = next]]
    BY <1>14, <1>1 DEF EnsureReadCursors, Goto
  <2> DEFINE r == [x EXCEPT !.pc = next]
  <2>2. Honest(r)
    BY <1>1 DEF Honest, Routine, Steps, OfMember
  <2>3. QED  BY <1>14, <2>1, <2>2, SteppedAside DEF EnsureReadCursors
<1>15. QED
  BY <1>4, <1>5, <1>6, <1>7, <1>9, <1>10, <1>11, <1>12, <1>13, <1>14

(* The steps of the goroutines that write. *)
LEMMA EarlyWriting ==
    ASSUME Early, NEW g \in Goroutine,
           \/ UpsertReadCursor(g) \/ UpsertReadState(g)
           \/ OnConversationReadStateChanged(g) \/ WriteCursor(g)
           \/ DeleteReadCursor(g) \/ SubscribeReturns(g) \/ DeleteCursors(g)
           \/ DeleteReadState(g) \/ DeleteSubscription(g)
    PROVE  Early'
<1> DEFINE x == go[g]
<1>1. x \in Routine /\ Honest(x) /\ go \in [Goroutine -> Routine]
  BY DEF Early
<1>2. /\ Value(allRead) \in Rows
      /\ complete => \A m \in inGroup : Value(allRead) <= named[m]
  BY RowValue DEF Early, TablesTyped, TablesHonest
<1>3. Honest(Idle) /\ Honest(Then(g))
  BY IdleTyped, ThenHonest DEF Honest, OfMember
<1>4. TablesTyped /\ TablesHonest
  BY DEF Early
<1>5. ASSUME NEW pc \in Steps \ {"put", "compare", "callback", "left", "delete"},
             pc \notin OfMember
      PROVE  Honest([x EXCEPT !.pc = pc])
  BY <1>1, <1>5 DEF Honest, Routine, OfMember
<1>6. CASE UpsertReadCursor(g)
  <2>1. go' = [go EXCEPT ![g] = [x EXCEPT !.pc = "least"]]
    BY <1>6, <1>1 DEF UpsertReadCursor, Goto
  <2>2. x.user \in Member /\ x.seq \in Rows /\ x.seq <= named[x.user]
    BY <1>6, <1>1 DEF UpsertReadCursor, At, Honest, OfMember, Routine
  <2>3. \A m \in Member : cursor'[m] = IF m = x.user THEN x.seq ELSE cursor[m]
    BY <1>6, <1>4 DEF UpsertReadCursor, TablesTyped
  <2>4. Honest([x EXCEPT !.pc = "least"])
    BY <1>5 DEF Steps, OfMember
  <2>5. cursor' \in [Member -> Rows \cup {None}]
    BY <1>6, <2>2, <1>4 DEF UpsertReadCursor, TablesTyped
  <2>6. /\ \A m \in Member : cursor'[m] # None => cursor'[m] <= named[m]
        /\ complete => \A m \in inGroup : cursor'[m] # None
    BY <2>2, <2>3, <1>4, RowValue DEF TablesTyped, TablesHonest
  <2>7. UNCHANGED <<serverVars, allRead, shown, subscribed, histVars>>
    BY <1>6 DEF UpsertReadCursor, appVars
  <2>8. QED  BY <2>1, <2>4, <2>5, <2>6, <2>7, <1>4, Stepped DEF TablesTyped, TablesHonest
<1>7. CASE WriteCursor(g)
  <2> DEFINE r == [x EXCEPT !.pc = "sync", !.changed = TRUE]
  <2>1. go' = [go EXCEPT ![g] = r]
    BY <1>7, <1>1 DEF WriteCursor
  <2>2. x.user \in Member /\ x.seq \in Rows /\ x.seq <= named[x.user]
    BY <1>7, <1>1 DEF WriteCursor, At, Honest, OfMember, Routine
  <2>3. \A m \in Member : cursor'[m] = IF m = x.user THEN x.seq ELSE cursor[m]
    BY <1>7, <1>4 DEF WriteCursor, TablesTyped
  <2>4. Honest(r)
    BY <1>1 DEF Honest, Routine, Steps, OfMember
  <2>5. cursor' \in [Member -> Rows \cup {None}]
    BY <1>7, <2>2, <1>4 DEF WriteCursor, TablesTyped
  <2>6. /\ \A m \in Member : cursor'[m] # None => cursor'[m] <= named[m]
        /\ complete => \A m \in inGroup : cursor'[m] # None
    BY <2>2, <2>3, <1>4, RowValue DEF TablesTyped, TablesHonest
  <2>7. UNCHANGED <<serverVars, allRead, shown, subscribed, histVars>>
    BY <1>7 DEF WriteCursor, appVars
  <2>8. QED  BY <2>1, <2>4, <2>5, <2>6, <2>7, <1>4, Stepped DEF TablesTyped, TablesHonest
<1>8. CASE UpsertReadState(g)
  <2>1. go' = [go EXCEPT ![g] = [x EXCEPT !.pc = "tell"]]
    BY <1>8, <1>1 DEF UpsertReadState
  <2>2. Honest([x EXCEPT !.pc = "tell"])
    BY <1>5 DEF Steps, OfMember
  <2>3. /\ allRead' = x.seq /\ x.seq \in Rows
        /\ complete => \A m \in inGroup : x.seq <= named[m]
    BY <1>8, <1>1 DEF UpsertReadState, At, Honest, Routine
  <2>4. Value(allRead') = x.seq
    BY <2>3, RowValue
  <2>5. UNCHANGED <<serverVars, cursor, shown, subscribed, histVars>>
    BY <1>8 DEF UpsertReadState, appVars
  <2>6. QED  BY <2>1, <2>2, <2>3, <2>4, <2>5, <1>4, Stepped DEF TablesTyped, TablesHonest
<1>9. CASE OnConversationReadStateChanged(g)
  <2>1. go' = [go EXCEPT ![g] = Then(g)]
    BY <1>9 DEF OnConversationReadStateChanged
  <2>2. /\ shown' = x.seq /\ x.seq \in Rows
        /\ complete => \A m \in inGroup : x.seq <= named[m]
    BY <1>9, <1>1 DEF OnConversationReadStateChanged, At, Honest, Routine
  <2>3. UNCHANGED <<serverVars, cursor, allRead, subscribed, histVars>>
    BY <1>9 DEF OnConversationReadStateChanged
  <2>4. QED  BY <2>1, <2>2, <2>3, <1>3, <1>4, Stepped DEF TablesTyped, TablesHonest, Value
<1>10. CASE DeleteReadCursor(g)
  <2>1. go' = [go EXCEPT ![g] = [x EXCEPT !.pc = "recalc"]]
    BY <1>10, <1>1 DEF DeleteReadCursor, Goto
  <2>2. Honest([x EXCEPT !.pc = "recalc"])
    BY <1>5 DEF Steps, OfMember
  <2>3. x.user \in Member /\ (complete => x.user \notin inGroup)
    BY <1>10, <1>1 DEF DeleteReadCursor, At, Honest
  <2>4. \A m \in Member : cursor'[m] = IF m = x.user THEN None ELSE cursor[m]
    BY <1>10, <1>4 DEF DeleteReadCursor, TablesTyped
  <2>5. cursor' \in [Member -> Rows \cup {None}]
    BY <1>10, <2>3, <1>4 DEF DeleteReadCursor, TablesTyped
  <2>6. /\ \A m \in Member : cursor'[m] # None => cursor'[m] <= named[m]
        /\ complete => \A m \in inGroup : cursor'[m] # None
    BY <2>3, <2>4, <1>4 DEF TablesTyped, TablesHonest
  <2>7. UNCHANGED <<serverVars, allRead, shown, subscribed, histVars>>
    BY <1>10 DEF DeleteReadCursor, appVars
  <2>8. QED  BY <2>1, <2>2, <2>5, <2>6, <2>7, <1>4, Stepped DEF TablesTyped, TablesHonest
<1>11. CASE SubscribeReturns(g)
  <2>1. go' = [go EXCEPT ![g] = Idle] /\ shown' = Value(allRead)
    BY <1>11 DEF SubscribeReturns
  <2>2. UNCHANGED <<serverVars, cursor, allRead, subscribed, histVars>>
    BY <1>11 DEF SubscribeReturns
  <2>3. QED  BY <2>1, <2>2, <1>2, <1>3, <1>4, Stepped DEF TablesTyped, TablesHonest, Value
<1>12. CASE DeleteCursors(g)
  <2>1. go' = [go EXCEPT ![g] = [x EXCEPT !.pc = "delstate"]]
    BY <1>12, <1>1 DEF DeleteCursors, Goto
  <2>2. Honest([x EXCEPT !.pc = "delstate"])
    BY <1>5 DEF Steps, OfMember
  <2>3. ~complete
    BY <1>12, <1>1 DEF DeleteCursors, At, Honest
  <2>4. cursor' = [m \in Member |-> None]
    BY <1>12 DEF DeleteCursors
  <2>5. UNCHANGED <<serverVars, allRead, shown, subscribed, histVars>>
    BY <1>12 DEF DeleteCursors, appVars
  <2>6. QED  BY <2>1, <2>2, <2>3, <2>4, <2>5, <1>4, Stepped DEF TablesTyped
<1>13. CASE DeleteReadState(g)
  <2>1. go' = [go EXCEPT ![g] = [x EXCEPT !.pc = "unsubscribe"]]
    BY <1>13, <1>1 DEF DeleteReadState, Goto
  <2>2. Honest([x EXCEPT !.pc = "unsubscribe"])
    BY <1>5 DEF Steps, OfMember
  <2>3. allRead' = None /\ Value(allRead') = 0
    BY <1>13 DEF DeleteReadState, Value
  <2>4. \A m \in inGroup : 0 <= named[m]
    <3>1. \A m \in inGroup : named[m] \in Rows
      BY <1>4 DEF TablesTyped
    <3>2. \A n \in Rows : 0 <= n
      BY RowValue
    <3>3. QED  BY <3>1, <3>2
  <2>5. UNCHANGED <<serverVars, cursor, shown, subscribed, histVars>>
    BY <1>13 DEF DeleteReadState, appVars
  <2>6. QED  BY <2>1, <2>2, <2>3, <2>4, <2>5, <1>4, Stepped DEF TablesTyped, TablesHonest
<1>14. CASE DeleteSubscription(g)
  <2>1. go' = [go EXCEPT ![g] = Idle] /\ subscribed' = FALSE
    BY <1>14 DEF DeleteSubscription
  <2>2. UNCHANGED <<serverVars, cursor, allRead, shown, histVars>>
    BY <1>14 DEF DeleteSubscription
  <2>3. QED  BY <2>1, <2>2, <1>3, <1>4, Stepped DEF TablesTyped, TablesHonest, Value
<1>15. QED
  BY <1>6, <1>7, <1>8, <1>9, <1>10, <1>11, <1>12, <1>13, <1>14

(* The server, the connection and the calls of the application. *)
LEMMA EarlyOutside ==
    ASSUME Early,
           \/ \E m \in Member : \/ \E s \in 1 .. MaxSeq : Read(m, s)
                                \/ Join(m) \/ Leave(m)
           \/ \E g \in Goroutine : GetCursorsFromServer(g)
           \/ Disconnect \/ Reconnect \/ Subscribe \/ Unsubscribe
           \/ DeleteConversation
    PROVE  Early'
<1>1. TablesTyped /\ \A m \in Member : named[m] <= named[m]
  <2>1. TablesTyped
    BY DEF Early
  <2>2. \A m \in Member : named[m] \in Nat
    BY <2>1, RowValue DEF TablesTyped
  <2>3. QED  BY <2>1, <2>2
<1>2. /\ MaxEvents \in Nat /\ MaxSeq \in Nat /\ 1 .. MaxSeq \subseteq Rows
      /\ \A n \in Rows : n <= n
  BY CursorsAssumption DEF Rows
<1>3. ASSUME NEW g, NEW r, Run(g, r)
      PROVE  /\ events' \in 0 .. MaxEvents /\ overlapped' \in BOOLEAN
             /\ go' = [go EXCEPT ![g] = r]
  BY <1>1, <1>2, <1>3 DEF Run, TablesTyped, Quiet
<1>4. ASSUME NEW pc \in Steps \ {"put", "compare", "callback", "left", "delete"},
             pc \notin OfMember, NEW last \in {"idle", "tell", "answer"}
      PROVE  LET r == [Idle EXCEPT !.pc = pc, !.last = last]
             IN  r \in Routine /\ Honest(r)'
  <2> DEFINE r == [Idle EXCEPT !.pc = pc, !.last = last]
  <2>1. r \in Routine /\ r.pc = pc /\ r.todo = {}
    BY RowValue DEF Idle, Routine
  <2> HIDE DEF r
  <2>2. Honest(r)'
    BY <1>4, <2>1 DEF Honest
  <2>3. r \in Routine /\ Honest(r)'
    BY <2>1, <2>2
  <2> USE DEF r
  <2>4. QED  BY <2>3
<1>5. ASSUME NEW m \in Member, NEW s \in 1 .. MaxSeq, Read(m, s)
      PROVE  Early'
  <2>1. named[m] \in Nat /\ s \in Nat /\ s \in Rows
    BY <1>1, <1>2, RowValue DEF TablesTyped
  <2>2. /\ \A n \in Member : named'[n] = IF n = m THEN Max({named[m], s}) ELSE named[n]
        /\ named' \in [Member -> Rows]
    BY <1>5, <1>1, <2>1, MaxOfTwo DEF Read, TablesTyped
  <2>3. \A n \in Member : named[n] <= named'[n]
    BY <1>1, <2>1, <2>2, MaxOfTwo
  <2>4. UNCHANGED <<inGroup, online, cursor, allRead, shown, subscribed, complete>>
    BY <1>5 DEF Read, appVars
  <2> DEFINE r == [Idle EXCEPT !.pc = "state", !.user = m, !.seq = s]
  <2>5. r \in Routine /\ Honest(r)'
    <3>1. "state" \in Steps /\ m \in Member \cup {""} /\ s \in Rows
      BY <1>2 DEF Steps
    <3>2. /\ r \in Routine /\ r.pc = "state" /\ r.user = m /\ r.seq = s
          /\ r.todo = {}
      BY <3>1, RowValue DEF Idle, Routine
    <3>3. s <= named'[m]
      BY <2>1, <2>2, MaxOfTwo
    <3> HIDE DEF r
    <3>4. QED  BY <3>2, <3>3 DEF Honest, OfMember
  <2>6. \E g \in Goroutine : Run(g, r)
    BY <1>5 DEF Read
  <2> HIDE DEF r
  <2>7. /\ events' \in 0 .. MaxEvents /\ overlapped' \in BOOLEAN
        /\ \E g \in Goroutine : go' = [go EXCEPT ![g] = r]
    BY <2>6, <1>3
  <2>8. TablesTyped'
    BY <2>2, <2>4, <2>7, <1>1 DEF TablesTyped
  <2>9. QED  BY <2>3, <2>4, <2>5, <2>7, <2>8, Started
<1>6. ASSUME NEW g \in Goroutine, GetCursorsFromServer(g)
      PROVE  Early'
  <2>1. CASE ~online
    BY <1>6, <2>1, ThenHonest, SteppedAside DEF GetCursorsFromServer, serverVars
  <2>2. CASE online
    <3>1. PICK stored \in [inGroup -> Rows] :
            /\ named' = [m \in Member |-> IF m \in inGroup THEN Max({named[m], stored[m]})
                                          ELSE named[m]]
            /\ go' = [go EXCEPT ![g].pc = "sync",
                                ![g].todo = {<<m, stored[m]>> : m \in inGroup}]
      BY <1>6, <2>2 DEF GetCursorsFromServer
    <3>2. \A m \in inGroup : m \in Member /\ named[m] \in Nat /\ stored[m] \in Nat
      BY <1>1, RowValue DEF TablesTyped
    <3>3. named' \in [Member -> Rows]
      BY <1>1, <3>1, <3>2, MaxOfTwo DEF TablesTyped
    <3>4. /\ \A m \in Member : named[m] <= named'[m]
          /\ \A m \in inGroup : stored[m] <= named'[m]
      BY <1>1, <3>1, <3>2, MaxOfTwo
    <3>5. PICK answer : answer = {<<m, stored[m]>> : m \in inGroup}
      OBVIOUS
    <3>6. answer \subseteq Member \X Rows /\ \A c \in answer : c[2] <= named'[c[1]]
      BY <3>2, <3>4, <3>5
    <3>7. PICK r : r = [go[g] EXCEPT !.pc = "sync", !.todo = answer]
      OBVIOUS
    <3>8. r \in Routine /\ r.pc = "sync" /\ r.todo = answer /\ go' = [go EXCEPT ![g] = r]
      BY <3>1, <3>5, <3>6, <3>7 DEF Early, Routine, Steps
    <3>9. Honest(r)'
      BY <3>6, <3>8 DEF Honest, OfMember
    <3>10. UNCHANGED <<inGroup, online, cursor, allRead, shown, subscribed,
                       events, overlapped, complete>>
      BY <1>6 DEF GetCursorsFromServer, appVars, histVars
    <3>11. TablesTyped'
      BY <1>1, <3>3, <3>10 DEF TablesTyped
    <3>12. QED  BY <3>4, <3>8, <3>9, <3>10, <3>11, Started
  <2>3. QED  BY <2>1, <2>2
<1>7. ASSUME NEW m \in Member, Join(m)
      PROVE  Early'
  <2> DEFINE r == [Idle EXCEPT !.pc = "fetch"]
  <2>1. UNCHANGED <<named, online, cursor, allRead, shown, subscribed>>
    BY <1>7 DEF Join, appVars
  <2>2. complete' = FALSE /\ inGroup' \subseteq Member
    BY <1>7, <1>1 DEF Join, TablesTyped
  <2>3. r \in Routine /\ Honest(r)'
    <3>1. r \in Routine /\ r.pc = "fetch" /\ r.todo = {}
      BY RowValue DEF Idle, Routine, Steps
    <3> HIDE DEF r
    <3>2. QED  BY <3>1 DEF Honest, OfMember
  <2>4. PICK g \in Goroutine : Run(g, r)
    BY <1>7 DEF Join
  <2> HIDE DEF r
  <2>5. TablesTyped'
    BY <2>1, <2>2, <2>4, <1>3, <1>1 DEF TablesTyped
  <2>6. QED  BY <2>1, <2>2, <2>3, <2>4, <2>5, <1>1, <1>3, Started
<1>8. ASSUME NEW m \in Member, Leave(m)
      PROVE  Early'
  <2> DEFINE r == [Idle EXCEPT !.pc = "left", !.user = m]
  <2>1. UNCHANGED <<named, online, cursor, allRead, shown, subscribed, complete>>
    BY <1>8 DEF Leave, appVars
  <2>2. inGroup' = inGroup \ {m}
    BY <1>8 DEF Leave
  <2>3. r \in Routine /\ Honest(r)'
    <3>1. "left" \in Steps /\ m \in Member \cup {""}
      BY DEF Steps
    <3>2. /\ r \in Routine /\ r.pc = "left" /\ r.user = m /\ r.todo = {}
      BY <3>1, RowValue DEF Idle, Routine
    <3> HIDE DEF r
    <3>3. QED  BY <3>2, <2>2 DEF Honest, OfMember
  <2>4. PICK g \in Goroutine : Run(g, r)
    BY <1>8 DEF Leave
  <2> HIDE DEF r
  <2>5. TablesTyped'
    BY <2>1, <2>2, <2>4, <1>3, <1>1 DEF TablesTyped
  <2>6. QED  BY <2>1, <2>2, <2>3, <2>4, <2>5, <1>1, <1>3, Started
<1>9. CASE Disconnect
  <2>1. UNCHANGED <<inGroup, named, cursor, allRead, shown, subscribed, go,
                    events, overlapped, complete>>
    BY <1>9 DEF Disconnect, appVars, histVars
  <2>2. TablesTyped'
    BY <2>1, <1>1, <1>9 DEF TablesTyped, Disconnect
  <2>3. QED  BY <2>1, <2>2, <1>1, Started
<1>10. CASE Reconnect
  <2> DEFINE r == [Idle EXCEPT !.pc = "fetch", !.last = "tell"]
  <2>1. UNCHANGED <<inGroup, named, cursor, allRead, shown, subscribed, complete>>
    BY <1>10 DEF Reconnect, appVars
  <2>2. r \in Routine /\ Honest(r)'
    BY <1>4 DEF Steps, OfMember
  <2>3. PICK g \in Goroutine : Run(g, r)
    BY <1>10 DEF Reconnect
  <2> HIDE DEF r
  <2>4. TablesTyped'
    BY <2>1, <2>3, <1>3, <1>1, <1>10 DEF TablesTyped, Reconnect
  <2>5. QED  BY <2>1, <2>2, <2>3, <2>4, <1>1, <1>3, Started
<1>11. CASE Subscribe
  <2> DEFINE r == [Idle EXCEPT !.pc = "ensure", !.last = "answer"]
  <2>1. UNCHANGED <<inGroup, named, online, cursor, allRead, shown, complete>>
    BY <1>11, SMTT(30) DEF Subscribe, serverVars
  <2>2. r \in Routine /\ Honest(r)'
    BY <1>4 DEF Steps, OfMember
  <2>3. PICK g \in Goroutine : Run(g, r)
    BY <1>11 DEF Subscribe
  <2> HIDE DEF r
  <2>4. TablesTyped'
    BY <2>1, <2>3, <1>3, <1>1, <1>11 DEF TablesTyped, Subscribe
  <2>5. QED  BY <2>1, <2>2, <2>3, <2>4, <1>1, <1>3, Started
<1>12. CASE Unsubscribe
  <2>1. UNCHANGED <<inGroup, named, online, cursor, allRead, shown, go,
                    events, overlapped, complete>>
    BY <1>12 DEF Unsubscribe, serverVars, histVars
  <2>2. TablesTyped'
    BY <2>1, <1>1, <1>12 DEF TablesTyped, Unsubscribe
  <2>3. QED  BY <2>1, <2>2, <1>1, Started
<1>13. CASE DeleteConversation
  <2> DEFINE r == [Idle EXCEPT !.pc = "delete"]
  <2>1. UNCHANGED <<inGroup, named, online, cursor, allRead, shown, subscribed>>
    BY <1>13 DEF DeleteConversation, serverVars, appVars
  <2>2. complete' = FALSE
    BY <1>13 DEF DeleteConversation
  <2>3. r \in Routine /\ Honest(r)'
    <3>1. "delete" \in Steps
      BY DEF Steps
    <3>2. /\ r \in Routine /\ r.pc = "delete" /\ r.todo = {}
      BY <3>1, RowValue DEF Idle, Routine
    <3> HIDE DEF r
    <3>3. QED  BY <3>2, <2>2 DEF Honest, OfMember
  <2>4. PICK g \in Goroutine : Run(g, r)
    BY <1>13 DEF DeleteConversation
  <2> HIDE DEF r
  <2>5. TablesTyped'
    BY <2>1, <2>2, <2>4, <1>3, <1>1 DEF TablesTyped
  <2>6. QED  BY <2>1, <2>2, <2>3, <2>4, <2>5, <1>1, <1>3, Started
<1>14. QED
  BY <1>5, <1>6, <1>7, <1>8, <1>9, <1>10, <1>11, <1>12, <1>13

(* In the beginning nothing was named, and no cursor says otherwise. *)
LEMMA EarlyInit == Init => Early
<1> SUFFICES ASSUME Init PROVE Early
  OBVIOUS
<1>1. 0 \in Rows /\ None \notin Rows /\ Value(None) = 0 /\ 0 \in 0 .. MaxEvents
      /\ 0 <= 0
  BY RowValue, CursorsAssumption DEF Value
<1>2. TablesTyped
  BY <1>1 DEF Init, TablesTyped
<1>3. \A m \in Member : named[m] = 0
  BY DEF Init
<1>4. \A m \in Member : cursor[m] # None => cursor[m] = 0
  BY DEF Init
<1>5. complete => \A m \in inGroup : cursor[m] # None
  BY <1>1 DEF Init
<1>6. allRead = None /\ shown = 0
  BY DEF Init
<1>7. TablesHonest
  BY <1>1, <1>2, <1>3, <1>4, <1>5, <1>6 DEF TablesHonest, TablesTyped
<1>8. Honest(Idle)
  BY IdleTyped DEF Honest, OfMember
<1>9. go = [g \in Goroutine |-> Idle]
  BY DEF Init
<1>10. go \in [Goroutine -> Routine] /\ \A g \in Goroutine : Honest(go[g])
  BY <1>8, <1>9, IdleTyped
<1>11. QED  BY <1>2, <1>7, <1>10 DEF Early

(* No step of anybody brings a position forward. *)
LEMMA EarlyNext == Early /\ [Next]_vars => Early'
<1> SUFFICES ASSUME Early, [Next]_vars PROVE Early'
  OBVIOUS
<1>1. CASE Next
  <2>1. ASSUME NEW g \in Goroutine, Work(g)
        PROVE  Early'
    BY <2>1, EarlyAside, EarlyWriting, EarlyOutside DEF Work
  <2>2. QED  BY <1>1, <2>1, EarlyOutside DEF Next
<1>2. CASE UNCHANGED vars
  BY <1>2 DEF vars, serverVars, appVars, histVars, Early, TablesTyped, TablesHonest,
              Honest, Value
<1>3. QED  BY <1>1, <1>2

(* While no cursor is missing, what the database and the application show   *)
(* as read by all was named for the member of whom least was named.         *)
LEMMA EarlyShowsNothing == Early => NoEyeTooEarly
<1> SUFFICES ASSUME Early, complete, inGroup # {}
             PROVE  LET position == Least({named[m] : m \in inGroup})
                    IN  Value(allRead) <= position /\ shown <= position
  BY DEF NoEyeTooEarly
<1> DEFINE S == {named[m] : m \in inGroup}
<1>1. \A m \in inGroup : m \in Member /\ named[m] \in Nat
  BY RowValue DEF Early, TablesTyped
<1>2. S \subseteq Nat /\ S # {}
  BY <1>1
<1>3. PICK m \in inGroup : Least(S) = named[m]
  <2>1. Least(S) \in S
    BY <1>2, LeastOf
  <2>2. QED  BY <2>1
<1>4. Value(allRead) <= named[m] /\ shown <= named[m]
  BY DEF Early, TablesHonest
<1>5. QED  BY <1>3, <1>4

(* Rows are positions of the conversation, and every goroutine holds what   *)
(* its step needs.                                                          *)
THEOREM CursorsTypeCorrect == Spec => []TypeOK
<1>1. QED  BY EarlyInit, EarlyNext, EarlyTyped, PTL DEF Spec

(* The eye: however receipts, synchronisations, leaving members and calls   *)
(* interleave, neither the read state nor what the application was told is  *)
(* above what the server has named for any, while no cursor is missing      *)
(* (updateReadCursorAndReadState, SyncReadCursors, checkAndNotify).         *)
THEOREM NothingShownTooEarly == Spec => []NoEyeTooEarly
<1>1. QED  BY EarlyInit, EarlyNext, EarlyShowsNothing, PTL DEF Spec

-----------------------------------------------------------------------------
(* What the goroutine x still has to do, and what holds until it does it:   *)
(* whether the read state is the least cursor, whether the application was  *)
(* told it, and whose cursor is missing.                                    *)
Syncing == {"sync", "insert", "update"}
Owing == {"least", "put", "recalc", "compare", "delstate"}

Turn(x) ==
  /\ x.pc \notin Owing /\ (x.pc \in Syncing => ~x.changed) =>
       Value(allRead) = AllReadSeqFromCursors
  /\ x.pc \in {"cursor", "upsert", "least"} => x.old = Value(allRead)
  /\ x.pc \in {"put", "compare"} => x.seq = AllReadSeqFromCursors
  /\ x.pc = "callback" => x.seq = Value(allRead)
  /\ x.pc = "delstate" => \A m \in Member : cursor[m] = None
  /\ x.pc = "left" => x.user \notin inGroup
  /\ x.pc \in {"state", "cursor", "upsert", "least"} => x.last = "idle"
  /\ /\ subscribed /\ x.last # "answer"
     /\ x.pc \notin {"tell", "callback", "answer", "unsubscribe"}
     => shown = Value(allRead)
  /\ online /\ subscribed /\ x.pc \notin {"fetch", "ensure", "delstate", "unsubscribe"} =>
       \A m \in inGroup : \/ cursor[m] # None
                          \/ x.pc \in Syncing /\ \E c \in x.todo : c[1] = m
                          \/ x.pc = "insert" /\ x.user = m

(* One goroutine at a time, and each finds the work of the last one done. *)
InTurn ==
  ~overlapped =>
    /\ \A g, h \in Goroutine : ~At(g, "idle") /\ ~At(h, "idle") => g = h
    /\ \A g \in Goroutine : At(g, "idle") \/ Turn(go[g])
    /\ Quiet => Turn(Idle)

(* The least cursor is a matter of the cursors. *)
LEMMA SameLeast == cursor' = cursor => AllReadSeqFromCursors' = AllReadSeqFromCursors
BY DEF AllReadSeqFromCursors, Least

(* The goroutine that runs takes a step. *)
LEMMA TurnStepped ==
    ASSUME Early, InTurn, NEW g \in Goroutine, ~At(g, "idle"), NEW r,
           go' = [go EXCEPT ![g] = r], UNCHANGED histVars,
           ~overlapped => Turn(r)' /\ (r.pc = "idle" => r.last = "idle")
    PROVE  InTurn'
<1> SUFFICES ASSUME ~overlapped
             PROVE  /\ \A h, i \in Goroutine : ~At(h, "idle")' /\ ~At(i, "idle")' => h = i
                    /\ \A h \in Goroutine : At(h, "idle")' \/ Turn(go[h])'
                    /\ Quiet' => Turn(Idle)'
  BY DEF InTurn, histVars
<1>1. \A h \in Goroutine : h # g => At(h, "idle")
  BY DEF InTurn
<1>2. go'[g] = r /\ \A h \in Goroutine : h # g => go'[h] = go[h]
  BY DEF Early
<1>3. \A h \in Goroutine : h # g => At(h, "idle")'
  BY <1>1, <1>2 DEF At
<1>4. Turn(go[g])'
  BY <1>2 DEF Turn
<1>5. ASSUME Quiet'
      PROVE  Turn(Idle)'
  <2>1. r.pc = "idle" /\ r.last = "idle"
    BY <1>2, <1>5 DEF Quiet, At
  <2>2. Turn(r)'
    OBVIOUS
  <2>3. QED  BY <2>1, <2>2, IdleTyped DEF Turn, Owing, Syncing
<1>6. QED  BY <1>3, <1>4, <1>5

(* It takes a step and writes nothing, but what the server has named. *)
LEMMA TurnBeside ==
    ASSUME Early, InTurn, NEW g \in Goroutine, ~At(g, "idle"), NEW r,
           go' = [go EXCEPT ![g] = r],
           UNCHANGED <<inGroup, online, cursor, allRead, appVars, histVars>>,
           ~overlapped => Turn(r) /\ (r.pc = "idle" => r.last = "idle")
    PROVE  InTurn'
<1>1. ASSUME ~overlapped PROVE Turn(r)'
  <2>1. Turn(r)
    BY <1>1
  <2>2. AllReadSeqFromCursors' = AllReadSeqFromCursors
    BY SameLeast
  <2>3. QED  BY <2>1, <2>2 DEF Turn, Value, appVars
<1>2. QED  BY <1>1, TurnStepped

(* It takes a step and writes nothing. *)
LEMMA TurnAside ==
    ASSUME Early, InTurn, NEW g \in Goroutine, ~At(g, "idle"), NEW r,
           go' = [go EXCEPT ![g] = r],
           UNCHANGED <<serverVars, cursor, allRead, appVars, histVars>>,
           ~overlapped => Turn(r) /\ (r.pc = "idle" => r.last = "idle")
    PROVE  InTurn'
<1>1. UNCHANGED <<inGroup, online>>
  BY DEF serverVars
<1>2. QED  BY <1>1, TurnBeside

(* A goroutine starts: it is the only one, or they have overlapped. *)
LEMMA TurnStarts ==
    ASSUME Early, InTurn, NEW g \in Goroutine, NEW r, Run(g, r),
           ~overlapped' /\ Turn(Idle) => Turn(r)', r.pc # "idle"
    PROVE  InTurn'
<1> SUFFICES ASSUME ~overlapped'
             PROVE  /\ \A h, i \in Goroutine : ~At(h, "idle")' /\ ~At(i, "idle")' => h = i
                    /\ \A h \in Goroutine : At(h, "idle")' \/ Turn(go[h])'
                    /\ Quiet' => Turn(Idle)'
  BY DEF InTurn
<1>1. ~overlapped /\ Quiet
  BY DEF Run
<1>2. Turn(r)'
  BY <1>1 DEF InTurn
<1>3. go'[g] = r /\ \A h \in Goroutine : h # g => go'[h] = go[h]
  BY DEF Early, Run
<1>4. \A h \in Goroutine : h # g => At(h, "idle")'
  BY <1>1, <1>3 DEF At, Quiet
<1>5. Turn(go[g])' /\ ~At(g, "idle")'
  BY <1>2, <1>3 DEF Turn, At
<1>6. QED  BY <1>4, <1>5 DEF Quiet

(* Nothing starts, and no connection or subscription begins. *)
LEMMA TurnKept ==
    ASSUME InTurn, UNCHANGED <<inGroup, cursor, allRead, shown, go, overlapped>>,
           online' => online, subscribed' => subscribed
    PROVE  InTurn'
<1>1. ASSUME NEW x, Turn(x)
      PROVE  Turn(x)'
  BY <1>1, SameLeast DEF Turn, Value
<1>2. \A x : Turn(x) => Turn(x)'
  BY <1>1
<1> SUFFICES ASSUME ~overlapped
             PROVE  /\ \A h, i \in Goroutine : ~At(h, "idle")' /\ ~At(i, "idle")' => h = i
                    /\ \A h \in Goroutine : At(h, "idle")' \/ Turn(go[h])'
                    /\ Quiet' => Turn(Idle)'
  BY DEF InTurn
<1>3. /\ \A h, i \in Goroutine : ~At(h, "idle") /\ ~At(i, "idle") => h = i
      /\ \A h \in Goroutine : At(h, "idle") \/ Turn(go[h])
      /\ Quiet => Turn(Idle)
  BY DEF InTurn
<1>4. \A h \in Goroutine : At(h, "idle")' <=> At(h, "idle")
  BY DEF At
<1>5. \A h \in Goroutine : Turn(go[h]) => Turn(go[h])'
  BY <1>2 DEF Turn
<1>6. Turn(Idle) => Turn(Idle)'
  BY <1>2
<1>7. QED  BY <1>3, <1>4, <1>5, <1>6 DEF Quiet

(* What follows a recalculation, when the read state is exact and the       *)
(* application knows it, or is told next.                                   *)
LEMMA ThenTurn ==
    ASSUME Early, NEW g \in Goroutine,
           Value(allRead) = AllReadSeqFromCursors,
           subscribed /\ go[g].last = "idle" => shown = Value(allRead),
           online /\ subscribed => \A m \in inGroup : cursor[m] # None
    PROVE  Turn(Then(g)) /\ (Then(g).pc = "idle" => Then(g).last = "idle")
BY ThenTyped DEF Early, Turn, Owing, Syncing

(* In turn, the steps of the goroutines that read. *)
LEMMA TurnReading ==
    ASSUME Early, InTurn, NEW g \in Goroutine,
           \/ GetReadState(g) \/ GetReadCursor(g) \/ GetAllReadSeq(g)
           \/ CheckAndNotify(g) \/ GetCursorsFromServer(g) \/ SyncCursor(g)
           \/ WriteNothing(g) \/ SyncEnds(g) \/ RecalcFromCursors(g)
           \/ CompareReadState(g) \/ EnsureReadCursors(g)
    PROVE  InTurn'
<1> DEFINE x == go[g]
<1>1. x \in Routine /\ go \in [Goroutine -> Routine]
  BY DEF Early
<1>2. ~At(g, "idle") => (~overlapped => Turn(x))
  BY DEF InTurn
<1>3. Turn(Idle) <=> /\ Value(allRead) = AllReadSeqFromCursors
                     /\ subscribed => shown = Value(allRead)
                     /\ online /\ subscribed => \A m \in inGroup : cursor[m] # None
  BY IdleTyped DEF Turn, Owing, Syncing
<1>4. Idle.pc = "idle" => Idle.last = "idle"
  BY IdleTyped
<1>5. CASE GetReadState(g)
  <2> DEFINE r == [x EXCEPT !.pc = "cursor", !.old = Value(allRead)]
  <2>1. go' = [go EXCEPT ![g] = r]
    BY <1>5, <1>1 DEF GetReadState
  <2>2. x.pc = "state" /\ ~At(g, "idle")
    BY <1>5 DEF GetReadState, At
  <2>3. ~overlapped => Turn(r) /\ r.pc # "idle"
    BY <1>1, <1>2, <2>2 DEF Turn, Owing, Syncing, Routine
  <2>4. QED  BY <1>5, <2>1, <2>2, <2>3, TurnAside DEF GetReadState
<1>6. CASE GetReadCursor(g)
  <2> DEFINE r == [x EXCEPT !.pc = "upsert"]
  <2>1. go' = [go EXCEPT ![g] = r] \/ go' = [go EXCEPT ![g] = Idle]
    BY <1>6, <1>1 DEF GetReadCursor, Goto
  <2>2. x.pc = "cursor" /\ ~At(g, "idle")
    BY <1>6 DEF GetReadCursor, At
  <2>3. ~overlapped => Turn(r) /\ r.pc # "idle" /\ Turn(Idle)
    BY <1>1, <1>2, <1>3, <2>2 DEF Turn, Owing, Syncing, Routine
  <2>4. QED  BY <1>6, <1>4, <2>1, <2>2, <2>3, TurnAside DEF GetReadCursor
<1>7. CASE GetAllReadSeq(g)
  <2> DEFINE new == AllReadSeqFromCursors
             r == [x EXCEPT !.pc = "put", !.seq = new]
  <2>1. \/ new # x.old /\ go' = [go EXCEPT ![g] = r]
        \/ new = x.old /\ go' = [go EXCEPT ![g] = Idle]
    BY <1>7, <1>1 DEF GetAllReadSeq
  <2>2. x.pc = "least" /\ ~At(g, "idle")
    BY <1>7 DEF GetAllReadSeq, At
  <2>3. ~overlapped => Turn(r) /\ r.pc # "idle"
    BY <1>1, <1>2, <2>2 DEF Turn, Owing, Syncing, Routine
  <2>4. ~overlapped /\ new = x.old => Turn(Idle)
    BY <1>2, <1>3, <2>2 DEF Turn, Owing, Syncing
  <2>5. QED  BY <1>7, <1>4, <2>1, <2>2, <2>3, <2>4, TurnAside DEF GetAllReadSeq
<1>8. CASE CheckAndNotify(g)
  <2> DEFINE r == [x EXCEPT !.pc = "callback", !.seq = Value(allRead)]
  <2>1. \/ subscribed /\ go' = [go EXCEPT ![g] = r]
        \/ ~subscribed /\ go' = [go EXCEPT ![g] = Then(g)]
    BY <1>8, <1>1 DEF CheckAndNotify
  <2>2. x.pc = "tell" /\ ~At(g, "idle")
    BY <1>8 DEF CheckAndNotify, At
  <2>3. ~overlapped => Turn(r) /\ r.pc # "idle"
    BY <1>1, <1>2, <2>2 DEF Turn, Owing, Syncing, Routine
  <2>4. ~overlapped /\ ~subscribed => Turn(Then(g)) /\ (Then(g).pc = "idle" => Then(g).last = "idle")
    <3>1. ~overlapped => Value(allRead) = AllReadSeqFromCursors
      BY <1>2, <2>2 DEF Turn, Owing, Syncing
    <3>2. QED  BY <3>1, ThenTurn
  <2>5. QED  BY <1>8, <2>1, <2>2, <2>3, <2>4, TurnAside DEF CheckAndNotify
<1>9. CASE GetCursorsFromServer(g)
  <2>1. PICK stored :
          \/ online /\ go' = [go EXCEPT ![g].pc = "sync",
                                        ![g].todo = {<<m, stored[m]>> : m \in inGroup}]
          \/ ~online /\ go' = [go EXCEPT ![g] = Then(g)]
    BY <1>9 DEF GetCursorsFromServer
  <2> DEFINE answer == {<<m, stored[m]>> : m \in inGroup}
             r == [x EXCEPT !.pc = "sync", !.todo = answer]
  <2>8. \/ online /\ go' = [go EXCEPT ![g] = r]
        \/ ~online /\ go' = [go EXCEPT ![g] = Then(g)]
    BY <1>1, <2>1
  <2>2. x.pc = "fetch" /\ ~At(g, "idle")
    BY <1>9 DEF GetCursorsFromServer, At
  <2>3. ASSUME NEW m \in inGroup
        PROVE  \E c \in answer : c[1] = m
    <3>1. <<m, stored[m]>> \in answer /\ <<m, stored[m]>>[1] = m
      OBVIOUS
    <3>2. QED  BY <3>1
  <2>4. ~overlapped => /\ Value(allRead) = AllReadSeqFromCursors
                       /\ subscribed /\ x.last # "answer" => shown = Value(allRead)
    BY <1>2, <2>2 DEF Turn, Owing, Syncing
  <2> HIDE DEF answer
  <2>5. ~overlapped => Turn(r) /\ r.pc # "idle"
    BY <1>1, <2>3, <2>4, ZenonT(60) DEF Turn, Owing, Syncing, Routine
  <2>6. ~overlapped /\ ~online => Turn(Then(g)) /\ (Then(g).pc = "idle" => Then(g).last = "idle")
    BY <2>4, ThenTurn
  <2>7. QED  BY <1>9, <2>8, <2>2, <2>5, <2>6, TurnBeside DEF GetCursorsFromServer
<1>10. CASE SyncCursor(g)
  <2>1. PICK c \in x.todo :
          LET row == cursor[c[1]]
              next == IF row = None THEN "insert"
                      ELSE IF c[2] > row THEN "update" ELSE "sync"
          IN go' = [go EXCEPT ![g].pc = next, ![g].user = c[1], ![g].seq = c[2],
                              ![g].todo = @ \ {c}]
    BY <1>10 DEF SyncCursor
  <2>2. PICK next \in {"insert", "update", "sync"} :
          /\ go' = [go EXCEPT ![g].pc = next, ![g].user = c[1], ![g].seq = c[2],
                              ![g].todo = @ \ {c}]
          /\ next = "insert" <=> cursor[c[1]] = None
    BY <2>1
  <2> DEFINE r == [x EXCEPT !.pc = next, !.user = c[1], !.seq = c[2],
                            !.todo = @ \ {c}]
  <2>3. go' = [go EXCEPT ![g] = r]
    BY <1>1, <2>2
  <2>4. x.pc = "sync" /\ ~At(g, "idle")
    BY <1>10 DEF SyncCursor, At
  <2>5. /\ r.pc = next /\ r.user = c[1] /\ r.todo = x.todo \ {c}
        /\ r.changed = x.changed /\ r.last = x.last
    BY <1>1 DEF Routine
  <2> HIDE DEF r
  <2>6. ASSUME ~overlapped, online, subscribed, NEW m \in inGroup, cursor[m] = None
        PROVE  (\E d \in r.todo : d[1] = m) \/ (r.pc = "insert" /\ r.user = m)
    <3>1. PICK d \in x.todo : d[1] = m
      BY <1>2, <2>4, <2>6 DEF Turn
    <3>2. CASE d = c
      BY <2>2, <2>5, <2>6, <3>1, <3>2
    <3>3. CASE d # c
      BY <2>5, <3>1, <3>3
    <3>4. QED  BY <3>2, <3>3
  <2>7. ~overlapped => Turn(r) /\ r.pc # "idle"
    BY <1>2, <2>4, <2>5, <2>6 DEF Turn, Owing, Syncing
  <2>8. QED  BY <1>10, <2>3, <2>4, <2>7, TurnAside, ZenonT(60) DEF SyncCursor
<1>11. CASE WriteNothing(g)
  <2>1. PICK b \in BOOLEAN :
          /\ go' = [go EXCEPT ![g] = [x EXCEPT !.pc = "sync", !.changed = b]]
          /\ b \/ b = x.changed
          /\ x.pc = "insert" => cursor[x.user] # None
    <3>1. x.changed \in BOOLEAN /\ [x EXCEPT !.pc = "sync"] = [x EXCEPT !.pc = "sync", !.changed = x.changed]
      BY <1>1 DEF Routine
    <3>2. CASE At(g, "insert") /\ cursor[x.user] # None /\ Goto(g, "sync")
      BY <3>1, <3>2, <1>1 DEF Goto, At
    <3>3. CASE At(g, "update") /\ go' = [go EXCEPT ![g].pc = "sync", ![g].changed = TRUE]
      BY <3>3, <1>1 DEF At
    <3>4. QED  BY <1>11, <3>2, <3>3 DEF WriteNothing
  <2> DEFINE r == [x EXCEPT !.pc = "sync", !.changed = b]
  <2>2. x.pc \in {"insert", "update"} /\ ~At(g, "idle")
    BY <1>11 DEF WriteNothing, At
  <2>3. ~overlapped => Turn(r) /\ r.pc # "idle"
    BY <1>1, <1>2, <2>1, <2>2 DEF Turn, Owing, Syncing, Routine
  <2>4. QED  BY <1>11, <2>1, <2>2, <2>3, TurnAside DEF WriteNothing
<1>12. CASE SyncEnds(g)
  <2> DEFINE r == [x EXCEPT !.pc = "recalc"]
  <2>1. \/ go' = [go EXCEPT ![g] = r]
        \/ ~x.changed /\ go' = [go EXCEPT ![g] = Then(g)]
    BY <1>12, <1>1 DEF SyncEnds
  <2>2. x.pc = "sync" /\ x.todo = {} /\ ~At(g, "idle")
    BY <1>12 DEF SyncEnds, At
  <2>3. ~overlapped => Turn(r) /\ r.pc # "idle"
    BY <1>1, <1>2, <2>2 DEF Turn, Owing, Syncing, Routine
  <2>4. ~overlapped /\ ~x.changed =>
          /\ Value(allRead) = AllReadSeqFromCursors
          /\ subscribed /\ x.last # "answer" => shown = Value(allRead)
          /\ online /\ subscribed => \A m \in inGroup : cursor[m] # None
    BY <1>2, <2>2 DEF Turn, Owing, Syncing
  <2>5. ~overlapped /\ ~x.changed => Turn(Then(g)) /\ (Then(g).pc = "idle" => Then(g).last = "idle")
    BY <2>4, ThenTurn
  <2>6. QED  BY <1>12, <2>1, <2>2, <2>3, <2>5, TurnAside DEF SyncEnds
<1>13. CASE RecalcFromCursors(g)
  <2> DEFINE new == AllReadSeqFromCursors
             r == [x EXCEPT !.pc = "compare", !.seq = new]
  <2>1. go' = [go EXCEPT ![g] = r]
    BY <1>13, <1>1 DEF RecalcFromCursors
  <2>2. x.pc = "recalc" /\ ~At(g, "idle")
    BY <1>13 DEF RecalcFromCursors, At
  <2>3. ~overlapped => Turn(r) /\ r.pc # "idle"
    BY <1>1, <1>2, <2>2 DEF Turn, Owing, Syncing, Routine
  <2>4. QED  BY <1>13, <2>1, <2>2, <2>3, TurnAside DEF RecalcFromCursors
<1>14. CASE CompareReadState(g)
  <2> DEFINE r == [x EXCEPT !.pc = "put"]
  <2>1. \/ go' = [go EXCEPT ![g] = r]
        \/ x.seq = Value(allRead) /\ go' = [go EXCEPT ![g] = Then(g)]
    BY <1>14, <1>1 DEF CompareReadState
  <2>2. x.pc = "compare" /\ ~At(g, "idle")
    BY <1>14 DEF CompareReadState, At
  <2>3. ~overlapped => Turn(r) /\ r.pc # "idle"
    BY <1>1, <1>2, <2>2 DEF Turn, Owing, Syncing, Routine
  <2>4. ~overlapped /\ x.seq = Value(allRead) =>
          /\ Value(allRead) = AllReadSeqFromCursors
          /\ subscribed /\ x.last # "answer" => shown = Value(allRead)
          /\ online /\ subscribed => \A m \in inGroup : cursor[m] # None
    BY <1>2, <2>2 DEF Turn, Owing, Syncing
  <2>5. ~overlapped /\ x.seq = Value(allRead) => Turn(Then(g)) /\ (Then(g).pc = "idle" => Then(g).last = "idle")
    BY <2>4, ThenTurn
  <2>6. QED  BY <1>14, <2>1, <2>2, <2>3, <2>5, TurnAside DEF CompareReadState
<1>15. CASE EnsureReadCursors(g)
  <2>1. PICK next \in {"fetch", "answer"} :
          /\ go' = [go EXCEPT ![g] = [x EXCEPT !.pc = next]]
          /\ next = "answer" => \A m \in inGroup : cursor[m] # None
    BY <1>15, <1>1 DEF EnsureReadCursors, Goto
  <2> DEFINE r == [x EXCEPT !.pc = next]
  <2>2. x.pc = "ensure" /\ ~At(g, "idle")
    BY <1>15 DEF EnsureReadCursors, At
  <2>3. ~overlapped => Turn(r) /\ r.pc # "idle"
    BY <1>1, <1>2, <2>1, <2>2 DEF Turn, Owing, Syncing, Routine
  <2>4. QED  BY <1>15, <2>1, <2>2, <2>3, TurnAside DEF EnsureReadCursors
<1>16. QED
  BY <1>5, <1>6, <1>7, <1>8, <1>9, <1>10, <1>11, <1>12, <1>13, <1>14, <1>15

(* In turn, the steps of the goroutines that write. *)
LEMMA TurnWriting ==
    ASSUME Early, InTurn, NEW g \in Goroutine,
           \/ UpsertReadCursor(g) \/ UpsertReadState(g)
           \/ OnConversationReadStateChanged(g) \/ WriteCursor(g)
           \/ DeleteReadCursor(g) \/ SubscribeReturns(g) \/ DeleteCursors(g)
           \/ DeleteReadState(g) \/ DeleteSubscription(g)
    PROVE  InTurn'
<1> DEFINE x == go[g]
<1>1. /\ x \in Routine /\ go \in [Goroutine -> Routine]
      /\ cursor \in [Member -> Rows \cup {None}] /\ inGroup \subseteq Member
  BY DEF Early, TablesTyped
<1>2. ~At(g, "idle") => (~overlapped => Turn(x))
  BY DEF InTurn
<1>3. /\ Idle.pc = "idle" /\ Idle.last = "idle"
  BY IdleTyped
<1>4. ASSUME /\ Value(allRead)' = AllReadSeqFromCursors'
             /\ subscribed' => shown' = Value(allRead)'
             /\ (online /\ subscribed)' => \A m \in inGroup' : cursor'[m] # None
      PROVE  Turn(Idle)'
  BY <1>4, IdleTyped DEF Turn, Owing, Syncing
<1>5. CASE UpsertReadCursor(g)
  <2>0. PICK r : r = [x EXCEPT !.pc = "least"]
    OBVIOUS
  <2>1. go' = [go EXCEPT ![g] = r]
    BY <2>0, <1>5, <1>1 DEF UpsertReadCursor, Goto
  <2>2. x.pc = "upsert" /\ ~At(g, "idle")
    BY <1>5 DEF UpsertReadCursor, At
  <2>3. UNCHANGED <<inGroup, online, allRead, subscribed, shown, histVars>>
    BY <1>5 DEF UpsertReadCursor, serverVars, appVars
  <2>4. \A m \in inGroup : cursor[m] # None => cursor'[m] # None
    <3>1. x.seq # None
      BY <1>1, RowValue DEF Routine
    <3>2. QED  BY <1>5, <1>1, <3>1 DEF UpsertReadCursor
  <2>5. ~overlapped => Turn(r)' /\ r.pc # "idle"
    BY <2>0, <1>1, <1>2, <2>2, <2>3, <2>4 DEF Turn, Owing, Syncing, Routine, Value
  <2>6. QED  BY <2>1, <2>2, <2>3, <2>5, TurnStepped
<1>6. CASE WriteCursor(g)
  <2>0. PICK r : r = [x EXCEPT !.pc = "sync", !.changed = TRUE]
    OBVIOUS
  <2>1. go' = [go EXCEPT ![g] = r]
    BY <2>0, <1>6, <1>1 DEF WriteCursor
  <2>2. x.pc \in {"insert", "update"} /\ ~At(g, "idle")
    BY <1>6 DEF WriteCursor, At
  <2>3. UNCHANGED <<inGroup, online, allRead, subscribed, shown, histVars>>
    BY <1>6 DEF WriteCursor, serverVars, appVars
  <2>4. /\ \A m \in inGroup : cursor[m] # None => cursor'[m] # None
        /\ \A m \in inGroup : m = x.user => cursor'[m] # None
    <3>1. x.seq # None
      BY <1>1, RowValue DEF Routine
    <3>2. QED  BY <1>6, <1>1, <3>1 DEF WriteCursor
  <2>5. ~overlapped => Turn(r)' /\ r.pc # "idle"
    BY <2>0, <1>1, <1>2, <2>2, <2>3, <2>4 DEF Turn, Owing, Syncing, Routine, Value
  <2>6. QED  BY <2>1, <2>2, <2>3, <2>5, TurnStepped
<1>7. CASE UpsertReadState(g)
  <2>0. PICK r : r = [x EXCEPT !.pc = "tell"]
    OBVIOUS
  <2>1. go' = [go EXCEPT ![g] = r]
    BY <2>0, <1>7, <1>1 DEF UpsertReadState
  <2>2. x.pc = "put" /\ ~At(g, "idle")
    BY <1>7 DEF UpsertReadState, At
  <2>3. UNCHANGED <<inGroup, online, cursor, subscribed, shown, histVars>>
    BY <1>7 DEF UpsertReadState, serverVars, appVars
  <2>4. Value(allRead)' = x.seq /\ AllReadSeqFromCursors' = AllReadSeqFromCursors
    <3>1. allRead' = x.seq /\ x.seq \in Rows
      BY <1>7, <1>1 DEF UpsertReadState, Routine
    <3>2. Value(allRead)' = Value(allRead')
      BY DEF Value
    <3>3. QED  BY <3>1, <3>2, <2>3, RowValue, SameLeast
  <2>5. ~overlapped => Turn(r)' /\ r.pc # "idle"
    BY <2>0, <1>1, <1>2, <2>2, <2>3, <2>4 DEF Turn, Owing, Syncing, Routine
  <2>6. QED  BY <2>1, <2>2, <2>3, <2>5, TurnStepped
<1>8. CASE OnConversationReadStateChanged(g)
  <2>0. PICK r : r = Then(g)
    OBVIOUS
  <2>1. go' = [go EXCEPT ![g] = r]
    BY <2>0, <1>8 DEF OnConversationReadStateChanged
  <2>2. x.pc = "callback" /\ ~At(g, "idle")
    BY <1>8 DEF OnConversationReadStateChanged, At
  <2>3. UNCHANGED <<inGroup, online, cursor, allRead, subscribed, histVars>> /\ shown' = x.seq
    BY <1>8 DEF OnConversationReadStateChanged, serverVars
  <2>4. Value(allRead)' = Value(allRead) /\ AllReadSeqFromCursors' = AllReadSeqFromCursors
    BY <2>3, SameLeast DEF Value
  <2>5. r.pc \in {"idle", "tell", "answer"} /\ r.last = "idle"
    BY <2>0, <1>1, ThenTyped
  <2>6. ~overlapped => Turn(r)'
    BY <1>2, <2>2, <2>3, <2>4, <2>5 DEF Turn, Owing, Syncing
  <2>7. QED  BY <2>1, <2>2, <2>3, <2>5, <2>6, TurnStepped
<1>9. CASE DeleteReadCursor(g)
  <2>0. PICK r : r = [x EXCEPT !.pc = "recalc"]
    OBVIOUS
  <2>1. go' = [go EXCEPT ![g] = r]
    BY <2>0, <1>9, <1>1 DEF DeleteReadCursor, Goto
  <2>2. x.pc = "left" /\ ~At(g, "idle")
    BY <1>9 DEF DeleteReadCursor, At
  <2>3. UNCHANGED <<inGroup, online, allRead, subscribed, shown, histVars>>
    BY <1>9 DEF DeleteReadCursor, serverVars, appVars
  <2>4. \A m \in inGroup : m # x.user => cursor'[m] = cursor[m]
    BY <1>9, <1>1 DEF DeleteReadCursor
  <2>5. ~overlapped => Turn(r)' /\ r.pc # "idle"
    BY <2>0, <1>1, <1>2, <2>2, <2>3, <2>4 DEF Turn, Owing, Syncing, Routine, Value
  <2>6. QED  BY <2>1, <2>2, <2>3, <2>5, TurnStepped
<1>10. CASE SubscribeReturns(g)
  <2>1. go' = [go EXCEPT ![g] = Idle] /\ shown' = Value(allRead)
    BY <1>10 DEF SubscribeReturns
  <2>2. x.pc = "answer" /\ ~At(g, "idle")
    BY <1>10 DEF SubscribeReturns, At
  <2>3. UNCHANGED <<inGroup, online, cursor, allRead, subscribed, histVars>>
    BY <1>10 DEF SubscribeReturns, serverVars
  <2>4. Value(allRead)' = Value(allRead) /\ AllReadSeqFromCursors' = AllReadSeqFromCursors
    BY <2>3, SameLeast DEF Value
  <2>5. ~overlapped => Turn(Idle)'
    BY <1>2, <1>4, <2>1, <2>2, <2>3, <2>4 DEF Turn, Owing, Syncing
  <2>6. QED  BY <2>1, <2>2, <2>3, <2>5, <1>3, TurnStepped
<1>11. CASE DeleteCursors(g)
  <2>0. PICK r : r = [x EXCEPT !.pc = "delstate"]
    OBVIOUS
  <2>1. go' = [go EXCEPT ![g] = r]
    BY <2>0, <1>11, <1>1 DEF DeleteCursors, Goto
  <2>2. x.pc = "delete" /\ ~At(g, "idle")
    BY <1>11 DEF DeleteCursors, At
  <2>3. UNCHANGED <<inGroup, online, allRead, subscribed, shown, histVars>>
    BY <1>11 DEF DeleteCursors, serverVars, appVars
  <2>4. \A m \in Member : cursor'[m] = None
    BY <1>11 DEF DeleteCursors
  <2>5. ~overlapped => Turn(r)' /\ r.pc # "idle"
    BY <2>0, <1>1, <1>2, <2>2, <2>3, <2>4 DEF Turn, Owing, Syncing, Routine, Value
  <2>6. QED  BY <2>1, <2>2, <2>3, <2>5, TurnStepped
<1>12. CASE DeleteReadState(g)
  <2>0. PICK r : r = [x EXCEPT !.pc = "unsubscribe"]
    OBVIOUS
  <2>1. go' = [go EXCEPT ![g] = r]
    BY <2>0, <1>12, <1>1 DEF DeleteReadState, Goto
  <2>2. x.pc = "delstate" /\ ~At(g, "idle")
    BY <1>12 DEF DeleteReadState, At
  <2>3. UNCHANGED <<inGroup, online, cursor, subscribed, shown, histVars>>
    BY <1>12 DEF DeleteReadState, serverVars, appVars
  <2>4. Value(allRead)' = 0
    BY <1>12 DEF DeleteReadState, Value
  <2>5. ~overlapped => AllReadSeqFromCursors' = 0
    <3>1. ~overlapped => \A m \in Member : cursor[m] = None
      BY <1>2, <2>2 DEF Turn
    <3>2. ~overlapped => {cursor[m] : m \in {n \in Member : cursor[n] # None}} = {}
      BY <3>1
    <3>3. ~overlapped => AllReadSeqFromCursors = 0
      BY <3>2 DEF AllReadSeqFromCursors, Least
    <3>4. QED  BY <3>3, <2>3, SameLeast
  <2>6. ~overlapped => Turn(r)' /\ r.pc # "idle"
    BY <2>0, <1>1, <1>2, <2>2, <2>3, <2>4, <2>5 DEF Turn, Owing, Syncing, Routine
  <2>7. QED  BY <2>1, <2>2, <2>3, <2>6, TurnStepped
<1>13. CASE DeleteSubscription(g)
  <2>1. go' = [go EXCEPT ![g] = Idle] /\ ~subscribed'
    BY <1>13 DEF DeleteSubscription
  <2>2. x.pc = "unsubscribe" /\ ~At(g, "idle")
    BY <1>13 DEF DeleteSubscription, At
  <2>3. UNCHANGED <<inGroup, online, cursor, allRead, shown, histVars>>
    BY <1>13 DEF DeleteSubscription, serverVars
  <2>4. Value(allRead)' = Value(allRead) /\ AllReadSeqFromCursors' = AllReadSeqFromCursors
    BY <2>3, SameLeast DEF Value
  <2>5. ~overlapped => Turn(Idle)'
    BY <1>2, <1>4, <2>1, <2>2, <2>4 DEF Turn, Owing, Syncing
  <2>6. QED  BY <2>1, <2>2, <2>3, <2>5, <1>3, TurnStepped
<1>14. QED
  BY <1>5, <1>6, <1>7, <1>8, <1>9, <1>10, <1>11, <1>12, <1>13

(* In turn, the server, the connection and the calls of the application. *)
LEMMA TurnOutside ==
    ASSUME Early, InTurn,
           \/ \E m \in Member : \/ \E s \in 1 .. MaxSeq : Read(m, s)
                                \/ Join(m) \/ Leave(m)
           \/ Disconnect \/ Reconnect \/ Subscribe \/ Unsubscribe
           \/ DeleteConversation
    PROVE  InTurn'
<1>1. Turn(Idle) => /\ Value(allRead) = AllReadSeqFromCursors
                    /\ subscribed => shown = Value(allRead)
                    /\ online /\ subscribed => \A m \in inGroup : cursor[m] # None
  BY IdleTyped DEF Turn, Owing, Syncing
<1>2. UNCHANGED <<cursor, allRead>> =>
        /\ Value(allRead)' = Value(allRead)
        /\ AllReadSeqFromCursors' = AllReadSeqFromCursors
  BY SameLeast DEF Value
<1>3. ASSUME NEW m \in Member, NEW s \in 1 .. MaxSeq, Read(m, s)
      PROVE  InTurn'
  <2>1. UNCHANGED <<inGroup, online, cursor, allRead, shown, subscribed>>
    BY <1>3 DEF Read, appVars
  <2>2. PICK g \in Goroutine : Run(g, [Idle EXCEPT !.pc = "state", !.user = m, !.seq = s])
    BY <1>3 DEF Read
  <2> DEFINE r == [Idle EXCEPT !.pc = "state", !.user = m, !.seq = s]
  <2>3. r.pc = "state" /\ r.last = "idle"
    BY DEF Idle
  <2> HIDE DEF r
  <2>4. Turn(Idle) => Turn(r)'
    BY <1>1, <1>2, <2>1, <2>3 DEF Turn, Owing, Syncing
  <2>5. QED  BY <2>2, <2>3, <2>4, TurnStarts DEF r
<1>5. ASSUME NEW m \in Member, Join(m)
      PROVE  InTurn'
  <2>1. UNCHANGED <<online, cursor, allRead, shown, subscribed>>
    BY <1>5 DEF Join, appVars
  <2> DEFINE r == [Idle EXCEPT !.pc = "fetch"]
  <2>2. r.pc = "fetch" /\ r.last = "idle"
    BY DEF Idle
  <2>3. PICK g \in Goroutine : Run(g, r)
    BY <1>5 DEF Join
  <2> HIDE DEF r
  <2>4. Turn(Idle) => Turn(r)'
    BY <1>1, <1>2, <2>1, <2>2 DEF Turn, Owing, Syncing
  <2>5. QED  BY <2>2, <2>3, <2>4, TurnStarts
<1>6. ASSUME NEW m \in Member, Leave(m)
      PROVE  InTurn'
  <2>1. UNCHANGED <<online, cursor, allRead, shown, subscribed>> /\ inGroup' = inGroup \ {m}
    BY <1>6 DEF Leave, appVars
  <2> DEFINE r == [Idle EXCEPT !.pc = "left", !.user = m]
  <2>2. r.pc = "left" /\ r.last = "idle" /\ r.user = m
    BY DEF Idle
  <2>3. PICK g \in Goroutine : Run(g, r)
    BY <1>6 DEF Leave
  <2> HIDE DEF r
  <2>4. Turn(Idle) => Turn(r)'
    BY <1>1, <1>2, <2>1, <2>2 DEF Turn, Owing, Syncing
  <2>5. QED  BY <2>2, <2>3, <2>4, TurnStarts
<1>7. CASE Disconnect
  BY <1>7, TurnKept DEF Disconnect, appVars, histVars
<1>8. CASE Reconnect
  <2>1. UNCHANGED <<inGroup, cursor, allRead, shown, subscribed>>
    BY <1>8 DEF Reconnect, appVars
  <2> DEFINE r == [Idle EXCEPT !.pc = "fetch", !.last = "tell"]
  <2>2. r.pc = "fetch" /\ r.last = "tell"
    BY DEF Idle
  <2>3. PICK g \in Goroutine : Run(g, r)
    BY <1>8 DEF Reconnect
  <2> HIDE DEF r
  <2>4. Turn(Idle) => Turn(r)'
    BY <1>1, <1>2, <2>1, <2>2 DEF Turn, Owing, Syncing
  <2>5. QED  BY <2>2, <2>3, <2>4, TurnStarts
<1>9. CASE Subscribe
  <2>1. UNCHANGED <<inGroup, online, cursor, allRead, shown>>
    BY <1>9 DEF Subscribe, serverVars
  <2> DEFINE r == [Idle EXCEPT !.pc = "ensure", !.last = "answer"]
  <2>2. r.pc = "ensure" /\ r.last = "answer"
    BY DEF Idle
  <2>3. PICK g \in Goroutine : Run(g, r)
    BY <1>9 DEF Subscribe
  <2> HIDE DEF r
  <2>4. Turn(Idle) => Turn(r)'
    BY <1>1, <1>2, <2>1, <2>2 DEF Turn, Owing, Syncing
  <2>5. QED  BY <2>2, <2>3, <2>4, TurnStarts
<1>10. CASE Unsubscribe
  BY <1>10, TurnKept DEF Unsubscribe, serverVars, histVars
<1>11. CASE DeleteConversation
  <2>1. UNCHANGED <<inGroup, online, cursor, allRead, shown, subscribed>>
    BY <1>11 DEF DeleteConversation, serverVars, appVars
  <2> DEFINE r == [Idle EXCEPT !.pc = "delete"]
  <2>2. r.pc = "delete" /\ r.last = "idle"
    BY DEF Idle
  <2>3. PICK g \in Goroutine : Run(g, r)
    BY <1>11 DEF DeleteConversation
  <2> HIDE DEF r
  <2>4. Turn(Idle) => Turn(r)'
    BY <1>1, <1>2, <2>1, <2>2 DEF Turn, Owing, Syncing
  <2>5. QED  BY <2>2, <2>3, <2>4, TurnStarts
<1>12. QED
  BY <1>3, <1>5, <1>6, <1>7, <1>8, <1>9, <1>10, <1>11

(* In the beginning no row of the read state, and cursors at 0 or none. *)
LEMMA TurnInit == Init => InTurn
<1> SUFFICES ASSUME Init PROVE InTurn
  OBVIOUS
<1>1. \A g \in Goroutine : At(g, "idle")
  BY IdleTyped DEF Init, At
<1>2. Value(allRead) = 0
  BY DEF Init, Value
<1>3. AllReadSeqFromCursors = 0
  <2> DEFINE S == {cursor[m] : m \in {n \in Member : cursor[n] # None}}
  <2>1. S \subseteq {0}
    BY DEF Init
  <2>2. AllReadSeqFromCursors = Least(S)
    BY DEF AllReadSeqFromCursors
  <2> HIDE DEF S
  <2>3. S \subseteq Nat
    BY <2>1
  <2>4. S # {} => Least(S) \in S
    BY <2>3, LeastOf
  <2>5. S = {} => Least(S) = 0
    BY DEF Least
  <2>6. QED  BY <2>1, <2>2, <2>4, <2>5
<1>4. Turn(Idle)
  BY <1>2, <1>3, IdleTyped DEF Turn, Owing, Syncing, Init
<1>5. QED  BY <1>1, <1>4 DEF InTurn

(* Every step of one goroutine leaves to it what is still to be done. *)
LEMMA TurnNext == Early /\ InTurn /\ [Next]_vars => InTurn'
<1> SUFFICES ASSUME Early, InTurn, [Next]_vars PROVE InTurn'
  OBVIOUS
<1>1. CASE Next
  <2>1. ASSUME NEW g \in Goroutine, Work(g)
        PROVE  InTurn'
    BY <2>1, TurnReading, TurnWriting DEF Work
  <2>2. QED  BY <1>1, <2>1, TurnOutside DEF Next
<1>2. CASE UNCHANGED vars
  BY <1>2, TurnKept DEF vars, serverVars, appVars, histVars
<1>3. QED  BY <1>1, <1>2

(* When nothing runs there is nothing left to be done. *)
LEMMA TurnSettles == InTurn => StateIsLeastCursorInTurn /\ SubscriberIsUpToDate
BY IdleTyped DEF InTurn, Turn, Owing, Syncing, StateIsLeastCursorInTurn,
                 StateIsLeastCursor, SubscriberIsUpToDate

(* As long as no two goroutines have run at the same time, the read state   *)
(* is the least of the cursors whenever nothing runs: the recalculations of *)
(* updateReadCursorAndReadState, SyncReadCursors, the leaving of a member   *)
(* and the deletion of the conversation agree.                              *)
THEOREM StateFollowsCursors == Spec => []StateIsLeastCursorInTurn
<1>1. QED
  BY EarlyInit, EarlyNext, TurnInit, TurnNext, TurnSettles, PTL DEF Spec

(* So long, a subscribed application knows the read state, and every member *)
(* of the group has a cursor when the client is connected                   *)
(* (SubscribeConversationReadState, ensureReadCursors, checkAndNotify).     *)
THEOREM SubscriberFollowsState == Spec => []SubscriberIsUpToDate
<1>1. QED
  BY EarlyInit, EarlyNext, TurnInit, TurnNext, TurnSettles, PTL DEF Spec
=============================================================================
